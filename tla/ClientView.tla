---------------------------- MODULE ClientView ----------------------------
(***************************************************************************)
(* The client's view of the chain (source/client_hashtable.c): the main    *)
(* thread sends commands through the rtables head and tail, while the      *)
(* watcher thread of the ZooKeeper library closes and makes those rtables  *)
(* when the children of /chain change.                                     *)
(*                                                                         *)
(* Servers are numbered in the order of their znodes.  An rtable is an     *)
(* address in memory with a descriptor; the kernel gives the smallest free *)
(* descriptor, and a call on a number concerns whatever connection it      *)
(* names then.  Definitions named Slip... are mistakes the properties must *)
(* notice.                                                                 *)
(***************************************************************************)
EXTENDS Integers, FiniteSets, FiniteSetsExt

CONSTANTS
    NumServers,  \* servers that ever exist
    NumFounders, \* servers of the chain when the client starts
    MaxCrashes,  \* bound: servers that crash
    QuietStart   \* whether /chain is at rest until the client has read it

Servers == 1 .. NumServers
Ends == {"head", "tail"}
Threads == {"main", "watcher"}

\* One call of set_head_tail for the start and one for each change.
Rtables == 1 .. 2 * (1 + NumServers - NumFounders + MaxCrashes)
NULL == 0
Fds == Rtables  \* as many as rtables: one is free whenever one is needed

ASSUME ViewAssumption == /\ NumServers \in Nat /\ NumFounders \in 1 .. NumServers
                         /\ MaxCrashes \in Nat /\ QuietStart \in BOOLEAN

VARIABLES
    zk,       \* the children of /chain
    joined,   \* servers that have joined so far
    alive,    \* servers whose process runs
    armed,    \* whether the watch is set
    event,    \* whether a child event is not yet handled
    running,  \* whether the client process runs
    pc,       \* pc[t]: where thread t is
    snap,     \* snap[t]: the children_list of thread t
    rtable,   \* rtable[e]: the pointers head and tail
    made,     \* rtables made so far
    sockfd,   \* sockfd[r]: the descriptor in rtable r
    freed,    \* rtables that have been freed
    file,     \* file[fd]: the rtable whose connection descriptor fd names, or 0
    used,     \* the rtable that the command of the main thread is using
    peer,     \* history: peer[r], the server that rtable r was connected to
    cut,      \* history: the connections that failed commands have closed
    missed,   \* history: the ends whose running server was not reached at the last attempt
    blind     \* history: whether /chain could not be read, or the session has ended

chainVars == <<zk, joined, alive>>
watchVars == <<armed, event>>
viewVars == <<rtable, made, sockfd, freed, file, peer>>
histVars == <<cut, missed, blind>>
vars == <<chainVars, watchVars, running, pc, snap, viewVars, used, histVars>>

Init == /\ zk = 1 .. NumFounders /\ joined = NumFounders /\ alive = zk
        /\ armed = FALSE /\ event = FALSE
        /\ running = TRUE
        /\ pc = [t \in Threads |-> IF t = "main" THEN "starting" ELSE "idle"]
        /\ snap = [t \in Threads |-> {}]
        /\ rtable = [e \in Ends |-> NULL]
        /\ made = 0
        /\ sockfd = [r \in Rtables |-> 0]
        /\ freed = {}
        /\ file = [fd \in Fds |-> 0]
        /\ used = NULL
        /\ peer = [r \in Rtables |-> 0]
        /\ cut = {} /\ missed = {} /\ blind = FALSE

(* The server at one end of the chain. *)
At(e, children) == IF e = "head" THEN Min(children) ELSE Max(children)
Other(e) == IF e = "head" THEN "tail" ELSE "head"
---------------------------------------------------------------------------
(* The servers and ZooKeeper (external).  What becomes of the chain is of no *)
(* concern once the client has ended.                                       *)
Started == running /\ (QuietStart => pc["main"] \in {"ready", "calling", "failing"})

ChildrenBecome(z) == /\ Started
                     /\ zk' = z
                     /\ event' = (event \/ armed)
                     /\ armed' = FALSE

Join == /\ joined < NumServers
        /\ joined' = joined + 1
        /\ ChildrenBecome(zk \cup {joined'})
        /\ alive' = alive \cup {joined'}
        /\ UNCHANGED <<running, pc, snap, viewVars, used, histVars>>

Crash(s) == /\ Started
            /\ s \in alive
            /\ joined - Cardinality(alive) < MaxCrashes
            /\ alive' = alive \ {s}
            /\ UNCHANGED <<zk, joined, watchVars, running, pc, snap, viewVars, used, histVars>>

Expire(s) == /\ s \in zk \ alive
             /\ ChildrenBecome(zk \ {s})
             /\ UNCHANGED <<joined, alive, running, pc, snap, viewVars, used, histVars>>

(* The session of the client ends: no watch will call its watcher again.  An *)
(* event of /chain that is on its way still comes, or is taken for one of    *)
(* the session and dropped.                                                  *)
SessionEnds == /\ running /\ ~ blind
               /\ blind' = TRUE
               /\ armed' = FALSE /\ event' \in {FALSE, event}
               /\ UNCHANGED <<chainVars, running, pc, snap, viewVars, used, cut, missed>>
---------------------------------------------------------------------------
(* Thread t reads the children and sets the watch.  set_head_tail reads     *)
(* data[0] of the list: the process ends if /chain is empty.                *)
ReadChildren(t) == /\ ~ blind
                   /\ snap' = [snap EXCEPT ![t] = zk]
                   /\ armed' = TRUE
                   /\ running' = (zk # {})
                   /\ pc' = [pc EXCEPT ![t] = "check head"]
                   /\ UNCHANGED <<chainVars, viewVars, used, histVars>>

Start == /\ running
         /\ pc["main"] = "starting"
         /\ ReadChildren("main")
         /\ UNCHANGED event

(* main ends if it cannot read the children. *)
StartFails == /\ running
              /\ pc["main"] = "starting"
              /\ running' = FALSE
              /\ UNCHANGED <<chainVars, watchVars, pc, snap, viewVars, used, histVars>>

(* A watcher that does not take note of the event it handles. *)
SlipWatcherRepeats == /\ running /\ event
                      /\ pc["watcher"] = "idle"
                      /\ ReadChildren("watcher")
                      /\ UNCHANGED event

WatcherReads == /\ running /\ event
                /\ pc["watcher"] = "idle"
                /\ event' = FALSE
                /\ ReadChildren("watcher")

(* zoo_wget_children fails in the watcher: no watch is set, and              *)
(* set_head_tail takes its list from memory that nobody has filled, which    *)
(* ends the process or is the list of an earlier call.                       *)
WatcherReadsNothing == /\ running /\ event
                       /\ pc["watcher"] = "idle"
                       /\ event' = FALSE /\ armed' = FALSE
                       /\ blind' = TRUE
                       /\ \/ running' = FALSE
                          \/ snap["watcher"] # {} /\ UNCHANGED running
                       /\ pc' = [pc EXCEPT !["watcher"] = "check head"]
                       /\ UNCHANGED <<chainVars, snap, viewVars, used, cut, missed>>

Check(e) == IF e = "head" THEN "check head" ELSE "check tail"
Connect(e) == IF e = "head" THEN "connect head" ELSE "connect tail"

AfterConnect(t, e) == IF e = "head" THEN "check tail"
                      ELSE IF t = "main" THEN "ready" ELSE "idle"

(* rtable_disconnect: frees the rtable unless close fails. *)
Disconnect(r) == IF file[sockfd[r]] = 0 THEN UNCHANGED <<file, freed>>
                 ELSE /\ file' = [file EXCEPT ![sockfd[r]] = 0]
                      /\ freed' = freed \cup {r}

(* An alt_check whose comparison is right, with its node as it is. *)
SlipAltCheck(t, e) ==
    LET node == At(Other(e), snap[t]) IN
    /\ running
    /\ pc[t] = Check(e)
    /\ IF rtable[e] # NULL /\ peer[rtable[e]] = node
       THEN pc' = [pc EXCEPT ![t] = AfterConnect(t, e)] /\ UNCHANGED <<file, freed>>
       ELSE /\ pc' = [pc EXCEPT ![t] = Connect(e)]
            /\ IF rtable[e] = NULL THEN UNCHANGED <<file, freed>> ELSE Disconnect(rtable[e])
    /\ UNCHANGED <<chainVars, watchVars, running, snap, rtable, made, sockfd, peer, used, histVars>>

(* An alt_check that keeps any rtable there is. *)
SlipKeepsRtable(t, e) ==
    /\ running
    /\ pc[t] = Check(e)
    /\ pc' = [pc EXCEPT ![t] = IF rtable[e] # NULL THEN AfterConnect(t, e) ELSE Connect(e)]
    /\ UNCHANGED <<chainVars, watchVars, running, snap, viewVars, used, histVars>>

(***************************************************************************)
(* alt_check(head, max) or alt_check(tail, min): the node it asks ZooKeeper *)
(* for is the one at the other end.  Its address is compared with one      *)
(* without ':' and never equal, so the rtable is always disconnected; if   *)
(* get_node_data returns NULL, as it does when the node is gone and may    *)
(* whenever ZooKeeper does not answer, the comparison ends the process, as *)
(* freeing an rtable twice may.                                            *)
(***************************************************************************)
AltCheck(t, e) ==
    LET r == rtable[e]
        node == At(Other(e), snap[t])
    IN  /\ running
        /\ pc[t] = Check(e)
        /\ \/ /\ r = NULL
              /\ UNCHANGED <<running, file, freed>>
           \/ /\ r # NULL /\ node \in zk
              /\ Disconnect(r)
              /\ UNCHANGED running
           \/ /\ r # NULL
              /\ running' = FALSE
              /\ UNCHANGED <<file, freed>>
        /\ pc' = [pc EXCEPT ![t] = Connect(e)]
        /\ UNCHANGED <<chainVars, watchVars, snap, rtable, made, sockfd, peer, used, histVars>>

(* connect_node, and the assignment to head or tail: NULL if the node or its *)
(* data cannot be read or its server cannot be reached, which is not tried   *)
(* again before the next change of /chain.                                  *)
ConnectNode(t, e) ==
    LET node == At(e, snap[t])
        fd == Min({f \in Fds : file[f] = 0})
    IN  /\ running
        /\ pc[t] = Connect(e)
        /\ pc' = [pc EXCEPT ![t] = AfterConnect(t, e)]
        /\ \/ /\ node \in zk \cap alive
              /\ made' = made + 1
              /\ sockfd' = [sockfd EXCEPT ![made'] = fd]
              /\ file' = [file EXCEPT ![fd] = made']
              /\ peer' = [peer EXCEPT ![made'] = node]
              /\ rtable' = [rtable EXCEPT ![e] = made']
              /\ missed' = missed \ {e}
           \/ /\ rtable' = [rtable EXCEPT ![e] = NULL]
              /\ missed' = IF node \in zk \cap alive THEN missed \cup {e} ELSE missed \ {e}
              /\ UNCHANGED <<made, sockfd, file, peer>>
        /\ UNCHANGED <<chainVars, watchVars, running, snap, freed, used, cut, blind>>
---------------------------------------------------------------------------
(* A command: put and del take head, the others tail.  The pointer is read  *)
(* here, and what it points to when its descriptor is used.                  *)
Call(e) == /\ running
           /\ pc["main"] = "ready"
           /\ rtable[e] # NULL
           /\ used' = rtable[e]
           /\ pc' = [pc EXCEPT !["main"] = "calling"]
           /\ UNCHANGED <<chainVars, watchVars, running, snap, viewVars, histVars>>

(* network_send_receive has an answer, or no memory for the request or the   *)
(* answer: the descriptor stays.                                            *)
Return == /\ running
          /\ pc["main"] = "calling"
          /\ pc' = [pc EXCEPT !["main"] = "ready"]
          /\ used' = NULL
          /\ UNCHANGED <<chainVars, watchVars, running, snap, viewVars, histVars>>

(* A write or a read of network_send_receive fails: the descriptor is closed, *)
(* the server is dead, or it has ended the connection, as a live server does  *)
(* when it cannot execute a request.                                         *)
CallFails == /\ running
             /\ pc["main"] = "calling"
             /\ pc' = [pc EXCEPT !["main"] = "failing"]
             /\ UNCHANGED <<chainVars, watchVars, running, snap, viewVars, used, histVars>>

(* The rtable that is found where the command took its own: a freed one may   *)
(* hold anything (NULL: no descriptor in use) or any rtable made since.       *)
Found == {used} \cup (IF used \in freed THEN {NULL} \cup (used + 1) .. made ELSE {})

(* After the failure the descriptor is closed: whatever connection the number *)
(* names now, for the watcher may have closed it and connected again.        *)
CloseFailed == /\ running
               /\ pc["main"] = "failing"
               /\ \E r \in Found :
                     IF r # NULL /\ file[sockfd[r]] # 0
                     THEN /\ cut' = cut \cup {file[sockfd[r]]}
                          /\ file' = [file EXCEPT ![sockfd[r]] = 0]
                     ELSE UNCHANGED <<cut, file>>
               /\ pc' = [pc EXCEPT !["main"] = "ready"]
               /\ used' = NULL
               /\ UNCHANGED <<chainVars, watchVars, running, snap, rtable, made, sockfd, freed, peer,
                              missed, blind>>
---------------------------------------------------------------------------
SetHeadTail(t) == \E e \in Ends : AltCheck(t, e) \/ ConnectNode(t, e)

Next == \/ Join
        \/ \E s \in Servers : Crash(s) \/ Expire(s)
        \/ SessionEnds
        \/ Start
        \/ StartFails
        \/ WatcherReads
        \/ WatcherReadsNothing
        \/ \E t \in Threads : SetHeadTail(t)
        \/ \E e \in Ends : Call(e)
        \/ Return
        \/ CallFails
        \/ CloseFailed

Spec == Init /\ [][Next]_vars
---------------------------------------------------------------------------
TypeOK == /\ zk \subseteq Servers /\ alive \subseteq Servers /\ joined \in 0 .. NumServers
          /\ armed \in BOOLEAN /\ event \in BOOLEAN /\ running \in BOOLEAN
          /\ snap \in [Threads -> SUBSET Servers]
          /\ rtable \in [Ends -> Rtables \cup {NULL}] /\ made \in Rtables \cup {0}
          /\ sockfd \in [Rtables -> Fds \cup {0}] /\ freed \subseteq Rtables
          /\ file \in [Fds -> Rtables \cup {0}] /\ used \in Rtables \cup {NULL}
          /\ peer \in [Rtables -> Servers \cup {0}] /\ cut \subseteq Rtables
          /\ missed \subseteq Ends /\ blind \in BOOLEAN

(* Nothing is left for the client to learn or to do. *)
Settled == /\ running /\ ~ event /\ ~ blind
           /\ pc["watcher"] = "idle" /\ pc["main"] \in {"ready", "calling", "failing"}
           /\ zk # {} /\ zk \subseteq alive

(* The server that a command through end e reaches; 0 if there is none. *)
Reached(e) == IF rtable[e] = NULL \/ file[sockfd[rtable[e]]] = 0 THEN 0
              ELSE peer[file[sockfd[rtable[e]]]]

(* When the client has dealt with every change of the chain, commands sent  *)
(* through head reach the first server and those through tail the last, if   *)
(* they reach any.                                                          *)
HeadTailCurrent == Settled /\ missed = {} => \A e \in Ends : Reached(e) \in {0, At(e, zk)}

(* The part of it that is about reads: whatever the faults, and whatever the *)
(* descriptors that failed commands have closed and others got, once the     *)
(* client has dealt with every change of the chain tail is the connection    *)
(* that was made to its last server.  Two things may undo it: the last        *)
(* attempt to connect failed, or a failed command has closed it.             *)
TailCurrent == Settled /\ "tail" \notin missed =>
    LET r == rtable["tail"] IN
    /\ r # NULL /\ peer[r] = At("tail", zk)
    /\ file[sockfd[r]] = r \/ r \in cut

(* The part of it that is about writes: whatever the faults, head was made to *)
(* the first server of the chain once the client has dealt with every change, *)
(* and as long as no command has failed its descriptor names that connection. *)
(* A failed command may close a descriptor that another rtable has got.       *)
HeadCurrent == Settled /\ "head" \notin missed =>
    LET r == rtable["head"] IN
    /\ r # NULL /\ peer[r] = At("head", zk)
    /\ cut = {} => file[sockfd[r]] = r

(* A command does not go on with an rtable that the watcher has freed. *)
NoUseAfterFree == running /\ pc["main"] \in {"calling", "failing"} => used \notin freed
===========================================================================

--------------------------- MODULE ChainReconfig ---------------------------
(***************************************************************************)
(* The chain while servers join and fail (source/server_hashtable.c,       *)
(* invoke of source/server_skeleton.c).  A server registers an ephemeral   *)
(* sequential znode under /chain; a one-shot ZooKeeper watch tells every   *)
(* server that the children changed, and the watcher thread then connects  *)
(* to the new successor, while worker threads go on serving puts through   *)
(* whatever value of next_server they read.                                *)
(*                                                                         *)
(* Servers are numbered in the order of their znodes.  Server s makes its  *)
(* connections to successors one after the other: <<s, e>> is the e-th of  *)
(* them, <<s, 0>> the one it makes to its predecessor to fetch the table.  *)
(* The writes are puts of different values, named by Puts; the table of a  *)
(* server is the order in which it applied them.  Definitions named        *)
(* Slip... are mistakes the properties must notice.                        *)
(***************************************************************************)
EXTENDS Integers, Sequences, FiniteSets, SequencesExt, FiniteSetsExt

CONSTANTS
    NumServers,    \* servers that ever exist
    NumFounders,   \* servers of the chain at the start; the others join
    Puts,          \* the puts that clients send, each through its own connection
    MayCrash,      \* the servers that may crash
    MayExpire,     \* the servers whose session may end while they run
    MayLackMemory, \* the servers on which a put may find no memory
    MayMiss,       \* the servers whose calls to ZooKeeper and to connect may fail with
                   \* nothing wrong at the other end
    MaxFaults,     \* bound: crashes from outside, ended sessions and failed calls
    MaxEpoch       \* bound: connections one server makes to successors

Servers == 1 .. NumServers
Founders == 1 .. NumFounders
Conns == Servers \X (0 .. MaxEpoch)
Threads == Puts \cup Conns   \* a server thread for each connection that clients and servers open
None == <<0, 0>>             \* no connection: next_server == NULL

ASSUME ReconfigAssumption ==
    /\ NumServers \in Nat /\ NumFounders \in 1 .. NumServers
    /\ MaxFaults \in Nat /\ MaxEpoch \in Nat \ {0}
    /\ MayCrash \subseteq Servers /\ MayExpire \subseteq Servers
    /\ MayLackMemory \subseteq Servers /\ MayMiss \subseteq Servers
    /\ Puts \cap Conns = {}

VARIABLES
    zk,       \* the children of /chain
    heads,    \* the servers that are or were the first child
    armed,    \* servers whose watch on /chain is set
    event,    \* servers with a child event not yet handled
    wsnap,    \* wsnap[s]: the children the watcher thread of s has read, or {}
    blind,    \* history: servers that a failed call has kept from knowing their successor
    main,     \* main[s]: where the main thread of s is
    msnap,    \* msnap[s]: the children the main thread of s read at its start
    alive,    \* servers whose process runs
    faults,   \* faults so far
    log,      \* log[s]: the puts in the table of s, in the order of their application
    missed,   \* history: <<s, p, r>> when table_put of p found no memory at s and returned r
    next,     \* next[s]: the connection next_server points to, or None
    epoch,    \* epoch[s]: connections s has made to successors
    peer,     \* peer[c]: the server at the other end of connection c, 0 before it exists
    closed,   \* connections whose client end has been closed by its owner
    dropped,  \* those it has closed after an error, while next_server keeps their number
    pc,       \* pc[t]: where server thread t is
    op,       \* op[c]: the put that the thread of connection c is serving
    at,       \* at[p]: the server put p was sent to, 0 before that
    fwd,      \* fwd[t]: the value of next_server that thread t read
    res,      \* res[t]: what table_put returned to thread t
    acked     \* the puts whose clients were told they are done

zkVars == <<zk, heads, armed, event, wsnap, blind>>
linkVars == <<next, epoch, peer, closed, dropped>>
threadVars == <<pc, op, at, fwd, res, acked>>
vars == <<zkVars, main, msnap, alive, faults, log, missed, linkVars, threadVars>>

MainPCs == { "off",        \* not started
             "listening",  \* server_network_init done: connections queue in the backlog
             "created",    \* znode created
             "watching",   \* children read and watch set, about to call set_next_server
             "joining",    \* about to call set_antecessor
             "loading",    \* waits for the predecessor's table
             "serving" }   \* in network_main_loop

PCs == { "idle",     \* no request
         "sent",     \* the request is on its way or in the backlog
         "invoked",  \* invoke has read next_server, waits for the write lock
         "waiting",  \* holds the write lock, waits for the successor's reply
         "stuck",    \* holds the write lock, reads from a connection with no reply to come
         "written",  \* holds the write lock, about to release it and reply
         "lost" }    \* never answered: its server crashed, closed the connection
                     \* without a reply, or took the request for something else

Init ==
    /\ zk = Founders
    /\ heads = {1}
    /\ armed = Founders
    /\ event = {}
    /\ wsnap = [s \in Servers |-> {}]
    /\ blind = {}
    /\ main = [s \in Servers |-> IF s \in Founders THEN "serving" ELSE "off"]
    /\ msnap = [s \in Servers |-> {}]
    /\ alive = Founders
    /\ faults = 0
    /\ log = [s \in Servers |-> <<>>]
    /\ missed = {}
    /\ next = [s \in Servers |-> IF s < NumFounders THEN <<s, 1>> ELSE None]
    /\ epoch = [s \in Servers |-> IF s < NumFounders THEN 1 ELSE 0]
    /\ peer = [c \in Conns |-> IF c[2] = 1 /\ c[1] < NumFounders THEN c[1] + 1 ELSE 0]
    /\ closed = {}
    /\ dropped = {}
    /\ pc = [t \in Threads |-> "idle"]
    /\ op = [c \in Conns |-> 0]
    /\ at = [p \in Puts |-> 0]
    /\ fwd = [t \in Threads |-> None]
    /\ res = [t \in Threads |-> 0]
    /\ acked = {}
---------------------------------------------------------------------------
(* ZooKeeper (external): a change of the children fires the watch of every  *)
(* session once.                                                            *)
ChildrenBecome(z) == /\ zk' = z
                     /\ heads' = heads \cup {r \in z : \A q \in z : r <= q}
                     /\ event' = event \cup (armed \cap z)
                     /\ armed' = {}

(* A server can read the data of a child while both have their session. *)
CanRead(s, r) == {s, r} \subseteq zk

Fault == faults < MaxFaults /\ faults' = faults + 1

(* A call of s fails though its session and the other end are well: the     *)
(* connection to ZooKeeper is lost for a moment, or an answer is late.      *)
Misses(s) == s \in MayMiss /\ Fault

(* The last child instead of the next one, the first instead of the previous. *)
SlipSuccessor(s, snap) == LET after == {x \in snap : x > s}
                          IN  IF after = {} THEN 0 ELSE Max(after)
SlipPredecessor(s, snap) == LET before == {x \in snap : x < s}
                            IN  IF before = {} THEN 0 ELSE Min(before)

(* The smallest child after s, the largest before s. *)
Successor(s, snap) == LET after == {x \in snap : x > s}
                      IN  IF after = {} THEN 0 ELSE Min(after)
Predecessor(s, snap) == LET before == {x \in snap : x < s}
                        IN  IF before = {} THEN 0 ELSE Max(before)

(***************************************************************************)
(* Process s ends: the kernel closes its sockets.  The requests it has     *)
(* sent stay where they are; its threads are gone.                         *)
(***************************************************************************)
ServedAt(t) == IF t \in Puts THEN at[t] ELSE peer[t]

Die(s) == /\ alive' = alive \ {s}
          /\ pc' = [t \in Threads |-> IF ServedAt(t) = s /\ pc[t] # "idle" THEN "lost" ELSE pc[t]]

Crash(s) == /\ s \in alive \cap MayCrash
            /\ Fault
            /\ Die(s)
            /\ UNCHANGED <<zkVars, main, msnap, log, missed, linkVars, op, at, fwd, res, acked>>

(* The session of a dead server ends and its ephemeral znode goes. *)
Expire(s) == /\ s \in zk \ alive
             /\ ChildrenBecome(zk \ {s})
             /\ UNCHANGED <<wsnap, blind, main, msnap, alive, faults, log, missed, linkVars, threadVars>>

(* So does that of a running one, which the others have not heard for the   *)
(* two seconds it asked for in zookeeper_init: it serves on without a znode.*)
ExpireRunning(s) ==
    /\ s \in zk \cap alive \cap MayExpire
    /\ Fault
    /\ ChildrenBecome(zk \ {s})
    /\ UNCHANGED <<wsnap, blind, main, msnap, alive, log, missed, linkVars, threadVars>>
---------------------------------------------------------------------------
(***************************************************************************)
(* set_next_server(children_list).  The address it has is compared without *)
(* its ':' and so never equal to the one it reads: an existing connection  *)
(* is always closed, and a new one made if the successor's process runs.   *)
(* When get_node_data fails, because the successor's znode is gone or the  *)
(* call did not get through, it returns NULL: the comparison, made only if *)
(* there is a connection, ends the process, and rtable_connect makes none. *)
(***************************************************************************)
SetNextServer(s, snap) ==
    LET succ == Successor(s, snap) IN
    \/ /\ succ = 0
       /\ next' = [next EXCEPT ![s] = None]
       /\ closed' = closed \cup ({next[s]} \ {None})
       /\ dropped' = dropped \ {next[s]}
       /\ UNCHANGED <<alive, pc, peer, epoch, blind, faults>>
    \/ /\ succ # 0
       /\ \/ ~ CanRead(s, succ) /\ UNCHANGED <<blind, faults>>
          \/ Misses(s) /\ blind' = blind \cup {s}
       /\ IF next[s] = None THEN UNCHANGED <<alive, pc>> ELSE Die(s)
       /\ UNCHANGED <<next, closed, dropped, peer, epoch>>
    \/ /\ CanRead(s, succ)
       /\ closed' = closed \cup ({next[s]} \ {None})
       /\ dropped' = dropped \ {next[s]}
       /\ \/ LET c == <<s, epoch[s] + 1>>
             IN  /\ succ \in alive
                 /\ epoch[s] < MaxEpoch
                 /\ next' = [next EXCEPT ![s] = c]
                 /\ peer' = [peer EXCEPT ![c] = succ]
                 /\ epoch' = [epoch EXCEPT ![s] = epoch[s] + 1]
                 /\ UNCHANGED <<blind, faults>>
          \/ /\ \/ succ \notin alive /\ UNCHANGED <<blind, faults>>
                \/ Misses(s) /\ blind' = blind \cup {s}
             /\ next' = [next EXCEPT ![s] = None]
             /\ UNCHANGED <<peer, epoch>>
       /\ UNCHANGED <<alive, pc>>

(* A watcher that does not set the watch again. *)
SlipWatcherReads(s) ==
    /\ s \in event \cap alive \cap zk
    /\ wsnap[s] = {}
    /\ event' = event \ {s}
    /\ wsnap' = [wsnap EXCEPT ![s] = zk]
    /\ UNCHANGED <<zk, heads, armed, blind, main, msnap, alive, faults, log, missed, linkVars, threadVars>>

(* child_watcher: reads the children again and re-arms the watch, ... *)
WatcherReads(s) ==
    /\ s \in event \cap alive \cap zk
    /\ wsnap[s] = {}
    /\ event' = event \ {s}
    /\ armed' = armed \cup {s}
    /\ wsnap' = [wsnap EXCEPT ![s] = zk]
    /\ UNCHANGED <<zk, heads, blind, main, msnap, alive, faults, log, missed, linkVars, threadVars>>

(* ... which fails without a session, or when the call does not get through: *)
(* no watch is set, the list is what malloc has given it, and                *)
(* set_next_server ends the process or finds no successor in it, ...         *)
WatcherReadsNothing(s) ==
    /\ s \in event \cap alive
    /\ wsnap[s] = {}
    /\ \/ s \notin zk /\ UNCHANGED <<blind, faults>>
       \/ Misses(s) /\ blind' = blind \cup {s}
    /\ event' = event \ {s}
    /\ \/ Die(s) /\ UNCHANGED wsnap
       \/ wsnap' = [wsnap EXCEPT ![s] = {s}] /\ UNCHANGED <<alive, pc>>
    /\ UNCHANGED <<zk, heads, armed, main, msnap, log, missed, linkVars, op, at, fwd, res, acked>>

(* ... then calls set_next_server with what it read. *)
WatcherSetsNext(s) ==
    /\ s \in alive
    /\ wsnap[s] # {}
    /\ SetNextServer(s, wsnap[s])
    /\ wsnap' = [wsnap EXCEPT ![s] = {}]
    /\ UNCHANGED <<zk, heads, armed, event, main, msnap, log, missed, op, at, fwd, res, acked>>
---------------------------------------------------------------------------
(* main: one action per line that others can see. *)
GotoMain(s, from, to) == /\ s \in alive
                         /\ main[s] = from
                         /\ main' = [main EXCEPT ![s] = to]

(* server_network_init: from here on the server can be connected to. *)
Start(s) == /\ main[s] = "off"
            /\ main' = [main EXCEPT ![s] = "listening"]
            /\ alive' = alive \cup {s}
            /\ UNCHANGED <<zkVars, msnap, faults, log, missed, linkVars, threadVars>>

(* zoo_create: znodes are numbered in the order of creation. *)
CreateNode(s) ==
    /\ \A r \in Servers : r < s => main[r] \notin {"off", "listening"}
    /\ GotoMain(s, "listening", "created")
    /\ ChildrenBecome(zk \cup {s})
    /\ UNCHANGED <<wsnap, blind, msnap, alive, faults, log, missed, linkVars, threadVars>>

(* zoo_wget_children *)
SetWatch(s) ==
    /\ s \in zk
    /\ GotoMain(s, "created", "watching")
    /\ msnap' = [msnap EXCEPT ![s] = zk]
    /\ armed' = armed \cup {s}
    /\ UNCHANGED <<zk, heads, event, wsnap, blind, alive, faults, log, missed, linkVars, threadVars>>

(* It fails without a session, or does not get through, and main exits. *)
SetWatchFails(s) ==
    /\ s \in alive
    /\ \/ s \notin zk /\ UNCHANGED faults
       \/ Misses(s)
    /\ main[s] = "created"
    /\ Die(s)
    /\ UNCHANGED <<zkVars, main, msnap, log, missed, linkVars, op, at, fwd, res, acked>>

MainSetsNext(s) ==
    /\ GotoMain(s, "watching", "joining")
    /\ SetNextServer(s, msnap[s])
    /\ UNCHANGED <<zk, heads, armed, event, wsnap, msnap, log, missed, op, at, fwd, res, acked>>

(* set_antecessor: asks the predecessor for its table.  Without a          *)
(* predecessor, or if it cannot be reached, the server goes on as it is.   *)
AskPredecessor(s) ==
    LET pred == Predecessor(s, msnap[s]) IN
    /\ \/ /\ CanRead(s, pred) /\ pred \in alive
          /\ GotoMain(s, "joining", "loading")
          /\ peer' = [peer EXCEPT ![<<s, 0>>] = pred]
          /\ pc' = [pc EXCEPT ![<<s, 0>>] = "sent"]
          /\ UNCHANGED faults
       \/ /\ \/ ~ (CanRead(s, pred) /\ pred \in alive) /\ UNCHANGED faults
             \/ Misses(s)
          /\ GotoMain(s, "joining", "serving")
          /\ UNCHANGED <<peer, pc>>
    /\ UNCHANGED <<zkVars, msnap, alive, log, missed, next, epoch, closed, dropped,
                   op, at, fwd, res, acked>>

(* The threads of server r that hold its write lock. *)
WritersAt(r) == {t \in Threads : ServedAt(t) = r /\ pc[t] \in {"waiting", "stuck", "written"}}

(* The predecessor serves GETTABLE under its read lock and the reply is    *)
(* loaded into a table nobody else uses yet.                               *)
Load(s) == LET pred == peer[<<s, 0>>] IN
           /\ GotoMain(s, "loading", "serving")
           /\ pc[<<s, 0>>] = "sent"
           /\ main[pred] = "serving"
           /\ WritersAt(pred) = {}
           /\ log' = [log EXCEPT ![s] = log[pred]]
           /\ missed' = missed \cup {<<s, m[2], m[3]>> : m \in {n \in missed : n[1] = pred}}
           /\ pc' = [pc EXCEPT ![<<s, 0>>] = "idle"]
           /\ UNCHANGED <<zkVars, msnap, alive, faults, linkVars, op, at, fwd, res, acked>>

(* The predecessor crashed: rtable_get_table returns NULL, main goes on. *)
LoadFails(s) == /\ GotoMain(s, "loading", "serving")
                /\ pc[<<s, 0>>] = "lost"
                /\ UNCHANGED <<zkVars, msnap, alive, faults, log, missed, linkVars, threadVars>>
---------------------------------------------------------------------------
(* A client sends put p to the head it knows, the first child or a former   *)
(* one that still runs.                                                     *)
SendPut(p) ==
    /\ at[p] = 0
    /\ \E head \in heads \cap alive : at' = [at EXCEPT ![p] = head]
    /\ pc' = [pc EXCEPT ![p] = "sent"]
    /\ UNCHANGED <<zkVars, main, msnap, alive, faults, log, missed, linkVars, op, fwd, res, acked>>

PutOf(t) == IF t \in Puts THEN t ELSE op[t]

(* Every thread serves puts but those of the connections <<s, 0>>. *)
PutThreads == Threads \ (Servers \X {0})

(* invoke reads next_server before it takes any lock. *)
Invoke(t) == /\ pc[t] = "sent"
             /\ main[ServedAt(t)] = "serving"
             /\ pc' = [pc EXCEPT ![t] = "invoked"]
             /\ fwd' = [fwd EXCEPT ![t] = next[ServedAt(t)]]
             /\ UNCHANGED <<zkVars, main, msnap, alive, faults, log, missed, linkVars,
                            op, at, res, acked>>

(* A connection over which a put can be sent and answered. *)
Usable(c) == c # None /\ c \notin closed \cup dropped /\ peer[c] \in alive /\ pc[c] # "lost"

(* table_put stores the put, ... *)
Stores(t) == /\ log' = [log EXCEPT ![ServedAt(t)] = Append(@, PutOf(t))]
             /\ res' = [res EXCEPT ![t] = 0]
             /\ UNCHANGED missed

(* ... or finds no memory, does not store it and returns r. *)
Refuses(t, r) == /\ missed' = missed \cup {<<ServedAt(t), PutOf(t), r>>}
                 /\ res' = [res EXCEPT ![t] = r]
                 /\ UNCHANGED log

LacksMemory(t) == ServedAt(t) \in MayLackMemory /\ Fault

(* It returns -1 if it was the key or the value that found no memory, 0 if *)
(* it was a list.                                                          *)
TablePut(t) == \/ Stores(t) /\ UNCHANGED faults
               \/ LacksMemory(t) /\ \E r \in {0, -1} : Refuses(t, r)

(***************************************************************************)
(* rtable_put through the pointer read by Invoke.  If that rtable has been *)
(* freed the outcome is not defined: the call goes to the number that is   *)
(* left in the memory, or it uses the memory as the watcher has refilled   *)
(* it, which is the connection that next_server now points to.             *)
(***************************************************************************)
ForwardOutcomes(t) ==
    {fwd[t]} \cup (IF fwd[t] \in closed THEN {next[ServedAt(t)]} \ {None} ELSE {})

(* network_send_receive closes the descriptor of c after an error. *)
Drop(c) == dropped' = dropped \cup ({c} \ ({None} \cup closed))

(* A forward whose entry is left empty. *)
SlipForward(t) == /\ \E c \in ForwardOutcomes(t) :
                        pc' = IF Usable(c) THEN [pc EXCEPT ![t] = "waiting", ![c] = "sent"]
                                           ELSE [pc EXCEPT ![t] = "written"]
                  /\ UNCHANGED <<op, fwd, dropped>>

(* The put is sent; or the call fails; or, once the descriptor was closed,  *)
(* the put is written to the client whose connection has got its number,    *)
(* and the thread waits for that client to answer.                          *)
Forward(t) == \E c \in ForwardOutcomes(t) :
    \/ /\ Usable(c)
       /\ pc' = [pc EXCEPT ![t] = "waiting", ![c] = "sent"]
       /\ op' = [op EXCEPT ![c] = PutOf(t)]
       /\ fwd' = [fwd EXCEPT ![t] = c]
       /\ UNCHANGED dropped
    \/ /\ ~ Usable(c)
       /\ pc' = [pc EXCEPT ![t] = "written"]
       /\ Drop(c)
       /\ UNCHANGED <<op, fwd>>
    \/ /\ c \in closed \cup dropped
       /\ pc' = [pc EXCEPT ![t] = "stuck"]
       /\ UNCHANGED <<op, fwd, dropped>>

(* block_create or entry_create finds no memory: there is no value to store *)
(* or no entry to forward, and rtable_put returns at once.                  *)
Unsent(t) == /\ LacksMemory(t)
             /\ Refuses(t, -1) \/ (Stores(t) /\ fwd[t] # None)
             /\ pc' = [pc EXCEPT ![t] = "written"]
             /\ UNCHANGED <<op, fwd, dropped>>

(* start_write, table_put and, whatever it returned, the forward. *)
Write(t) == /\ pc[t] = "invoked"
            /\ WritersAt(ServedAt(t)) = {}
            /\ (TablePut(t) /\ Forward(t)) \/ Unsent(t)
            /\ UNCHANGED <<zkVars, main, msnap, alive, next, epoch, peer, closed, at, acked>>

(* A handler that serves the put again when the forward failed. *)
SlipForwardFails(t) ==
    /\ pc[t] = "waiting"
    /\ ~ Usable(fwd[t])
    /\ pc' = [pc EXCEPT ![t] = "sent"]
    /\ UNCHANGED <<zkVars, main, msnap, alive, faults, log, missed, linkVars, op, at, fwd, res, acked>>

(* A read that is tried again at the end of the stream. *)
SlipUnnoticedFailure(t) ==
    /\ pc[t] = "waiting"
    /\ ~ Usable(fwd[t])
    /\ pc' = [pc EXCEPT ![t] = "waiting"]
    /\ UNCHANGED <<zkVars, main, msnap, alive, faults, log, missed, linkVars, op, at, fwd, res, acked>>

(* rtable_put returns -1, and invoke ignores it: the successor is dead, or *)
(* the watcher has closed the socket and freed the rtable under the        *)
(* thread, which may then also read from a socket with no reply to come.   *)
ForwardFails(t) ==
    /\ pc[t] = "waiting"
    /\ ~ Usable(fwd[t])
    /\ \/ /\ pc' = [pc EXCEPT ![t] = "written"]
          /\ \E c \in ForwardOutcomes(t) : Drop(c)
       \/ /\ fwd[t] \in closed
          /\ pc' = [pc EXCEPT ![t] = "stuck"]
          /\ UNCHANGED dropped
    /\ UNCHANGED <<zkVars, main, msnap, alive, faults, log, missed, next, epoch, peer, closed,
                   op, at, fwd, res, acked>>

(* The socket a stuck thread reads from ends, or a client sends a request   *)
(* on it, which the thread takes for the reply.                             *)
Unstick(t) ==
    /\ pc[t] = "stuck"
    /\ \/ /\ pc' = [pc EXCEPT ![t] = "written"]
          /\ \E c \in ForwardOutcomes(t) : Drop(c)
       \/ /\ \E p \in Puts : /\ at[p] = ServedAt(t) /\ pc[p] = "sent"
                             /\ pc' = [pc EXCEPT ![t] = "written", ![p] = "lost"]
          /\ UNCHANGED dropped
    /\ UNCHANGED <<zkVars, main, msnap, alive, faults, log, missed, next, epoch, peer, closed,
                   op, at, fwd, res, acked>>

(* The thread that waits for the reply on connection c. *)
WaitersOn(c) == {u \in Threads : pc[u] = "waiting" /\ fwd[u] = c}

(* An invoke whose caller does not look at what it returned. *)
SlipEnds(t) == FALSE

(* invoke returns -1: thread_client closes the connection without a reply. *)
Ends(t) == res[t] = -1

(***************************************************************************)
(* end_write, and the reply: to the client, or to the thread of the        *)
(* previous server that waits for it, and that ignores it too when there   *)
(* is none.  If the watcher has closed that socket meanwhile, the waiting  *)
(* thread reads the length from it and then the rest from whatever socket  *)
(* the freed rtable now names: it may wait for bytes that nobody sends.    *)
(***************************************************************************)
Finish(t) ==
    /\ pc[t] = "written"
    /\ \E after \in IF t \in closed THEN {"written", "stuck"} ELSE {"written"} :
          pc' = [u \in Threads |-> IF u = t THEN (IF Ends(t) THEN "lost" ELSE "idle")
                                   ELSE IF u \in WaitersOn(t) THEN after
                                   ELSE pc[u]]
    /\ acked' = IF Ends(t) THEN acked ELSE acked \cup ({t} \cap Puts)
    /\ UNCHANGED <<zkVars, main, msnap, alive, faults, log, missed, linkVars, op, at, fwd, res>>
---------------------------------------------------------------------------
MainStep(s) == \/ Start(s) \/ CreateNode(s) \/ SetWatch(s) \/ SetWatchFails(s)
               \/ MainSetsNext(s) \/ AskPredecessor(s) \/ Load(s) \/ LoadFails(s)

WatcherStep(s) == WatcherReads(s) \/ WatcherReadsNothing(s) \/ WatcherSetsNext(s)

RunningStep(t) == Invoke(t) \/ Write(t) \/ ForwardFails(t) \/ Finish(t)

(* Whether a stuck thread ever goes on is up to others. *)
WorkerStep(t) == RunningStep(t) \/ Unstick(t)

Next == \/ \E s \in Servers : MainStep(s) \/ WatcherStep(s)
                              \/ Crash(s) \/ Expire(s) \/ ExpireRunning(s)
        \/ \E p \in Puts : SendPut(p)
        \/ \E t \in PutThreads : WorkerStep(t)

Spec == Init /\ [][Next]_vars

(* Every thread that can run runs, ZooKeeper ends the sessions of dead      *)
(* servers, and a put that was sent is not bypassed for ever at a lock.     *)
Fairness == /\ \A s \in Servers : /\ WF_vars(MainStep(s))
                                  /\ WF_vars(WatcherStep(s))
                                  /\ WF_vars(Expire(s))
            /\ \A t \in PutThreads : WF_vars(RunningStep(t))

FairSpec == Spec /\ Fairness
---------------------------------------------------------------------------
TypeOK ==
    /\ zk \subseteq Servers /\ heads \subseteq Servers /\ armed \subseteq Servers /\ event \subseteq Servers
    /\ alive \subseteq Servers /\ faults \in 0 .. MaxFaults
    /\ wsnap \in [Servers -> SUBSET Servers] /\ msnap \in [Servers -> SUBSET Servers]
    /\ main \in [Servers -> MainPCs]
    /\ log \in [Servers -> Seq(Puts)] /\ missed \subseteq Servers \X Puts \X {0, -1}
    /\ next \in [Servers -> Conns \cup {None}] /\ epoch \in [Servers -> 0 .. MaxEpoch]
    /\ peer \in [Conns -> Servers \cup {0}]
    /\ closed \subseteq Conns /\ dropped \subseteq Conns /\ blind \subseteq Servers
    /\ pc \in [Threads -> PCs] /\ op \in [Conns -> Puts \cup {0}]
    /\ at \in [Puts -> Servers \cup {0}] /\ fwd \in [Threads -> Conns \cup {None}]
    /\ res \in [Threads -> {0, -1}] /\ acked \subseteq Puts

Applied(s) == ToSet(log[s])

(* The running servers that are in the chain and answer requests. *)
Serving == {s \in alive \cap zk : main[s] = "serving"}

(* The puts that have been in table_put at s, stored or not. *)
Handled(s) == Applied(s) \cup {m[2] : m \in {n \in missed : n[1] = s}}

(* The update propagation invariant of chain replication: whatever joins,   *)
(* crashes, ends of sessions and reconnections happen, a server has only    *)
(* puts that went through every server of the chain before it, so that a    *)
(* new head lacks what others serve only where table_put found no memory.   *)
UpdatePropagation == \A r \in alive \cap zk, s \in alive : r < s => Applied(s) \subseteq Handled(r)

(* An answered put is in the table of the server that is now the head: it   *)
(* survives there when the old head crashes or loses its session, whatever  *)
(* forwards failed.  That is so up to the first fault of a chain that nobody *)
(* joins.  A put that found no memory is answered by an error but for the    *)
(* lists that table_put does not check.                                      *)
AckedAtHead == Serving # {} =>
    LET head == Min(Serving)
    IN  \A p \in acked : p \in Applied(head) \/ <<head, p, 0>> \in missed

(* No put is applied twice by a server of the first chain: a forward is      *)
(* never repeated, whatever joins and fails behind or before it.  (A server  *)
(* that joins may load a put and then get it over a connection that its      *)
(* predecessor has closed meanwhile.)                                        *)
AppliedOnce == \A s \in alive \cap Founders : Cardinality(Applied(s)) = Len(log[s])

(* A server with no notification left to deal with. *)
Settled(s) == s \in Serving /\ s \notin event /\ wsnap[s] = {}

ForwardsToSuccessor(s) ==
    LET after == {x \in zk : x > s}
    IN  IF after = {} THEN next[s] = None
        ELSE \A x \in after \cap alive :
                (\A y \in after : x <= y) => next[s] # None /\ peer[next[s]] = x

AllForwardToSuccessor == \A s \in Servers : Settled(s) => ForwardsToSuccessor(s)

(* A server that has dealt with every notification forwards to the server   *)
(* that follows it in /chain: no change of the chain falls between the      *)
(* firing of the one-shot watch and its being set again.  It holds of a     *)
(* server none of whose calls to ZooKeeper or to its successor has failed   *)
(* with nothing wrong at the other end: such a call is not tried again, and *)
(* what it should have told is missed.  And it holds of the servers of the  *)
(* first chain, and of those that join as long as the list that main has    *)
(* read is right about the successor: main may use it after the watcher has *)
(* used a newer one.                                                        *)
NextIsSuccessor == \A s \in Servers \ blind :
    Settled(s) /\ (s \in Founders \/ Successor(s, msnap[s]) = Successor(s, zk))
        => ForwardsToSuccessor(s)

(* Once the chain has dealt with every join and crash, an answered put is in *)
(* the table of each of its servers.                                         *)
AckedEverywhere ==
    zk \subseteq alive /\ (\A s \in zk : Settled(s)) =>
        \A s \in zk : acked \subseteq Applied(s)

(* Any two servers apply the puts they share in the same order: of two puts *)
(* of one key the same one is left in both tables.                          *)
Before(p, q, l) == \E i, j \in DOMAIN l : i < j /\ l[i] = p /\ l[j] = q

SameOrder == \A r, s \in alive : \A p, q \in Puts :
    p # q /\ Before(p, q, log[r]) => ~ Before(q, p, log[s])

(* set_next_server keeps the connection to a successor that has not changed. *)
KeepsUnchangedSuccessor ==
    [][\A s \in Servers :
          next[s] # None /\ next'[s] # None /\ peer[next[s]] = peer'[next'[s]]
              => next'[s] = next[s]]_vars

(* Only the servers that crash are lost: no other process ends. *)
OthersSurvive == \A s \in Servers : main[s] # "off" /\ s \notin MayCrash => s \in alive

(* No server stores a put that another one has refused. *)
RefusedIsNowhere ==
    \A m \in missed : m[3] = -1 => \A s \in alive : m[2] \notin Applied(s)

(* A server that has dealt with every notification has a connection over    *)
(* which it can forward, if it has a running successor.                     *)
SettledCanForward ==
    \A s \in Servers : Settled(s) /\ next[s] # None /\ peer[next[s]] \in alive => Usable(next[s])

(* A put that is sent is answered or its connection ends, and every writer  *)
(* on its way gets in, unless a thread reads, under the write lock, from a  *)
(* socket with no reply to come: one that the watcher has closed under it,  *)
(* or that of a client which has got the number of a connection closed      *)
(* after an earlier forward failed.  The failure of a forward by itself     *)
(* holds nobody up.                                                         *)
PutsReturnUnlessCut ==
    \A p \in Puts : pc[p] = "sent" ~> \/ p \in acked \/ pc[p] = "lost"
                                     \/ \E t \in Threads : pc[t] = "stuck"

(* Every put that reaches the chain is answered, unless its server crashes. *)
EveryPutReturns == \A p \in Puts : pc[p] = "sent" ~> p \in acked \/ pc[p] = "lost"
===========================================================================

--------------------------- MODULE ReconfigProofs ---------------------------
(***************************************************************************)
(* The safety of the chain under reconfiguration, for every number of      *)
(* servers, puts, faults and reconnections.  The invariant is built in      *)
(* layers, each proved with the help of those before it: types (TypeInv),  *)
(* which servers a connection can join (OrderInv), what a thread knows of   *)
(* its server (ThreadInv), and then where a put has been (PutsInv, for      *)
(* UpdatePropagation), what a watcher knows of the chain (WatchInv, for     *)
(* NextIsSuccessor), how often a put is served (OnceInv, for AppliedOnce),  *)
(* and what survives the first fault (HeadInv, for AckedAtHead).            *)
(***************************************************************************)
EXTENDS ChainReconfig, Least, FiniteSetTheorems

LEMMA ServersAreNumbers ==
  NumServers \in Nat /\ \A s \in Servers : s \in Nat /\ s \in 0 .. NumServers /\ s # 0
  BY ReconfigAssumption DEF Servers

(* The successor and the predecessor that a server finds in a list. *)
LEMMA SuccessorIsNext ==
  ASSUME NEW s \in Servers, NEW snap \in SUBSET Servers
  PROVE  \/ Successor(s, snap) = 0
         \/ /\ Successor(s, snap) \in snap
            /\ s < Successor(s, snap)
            /\ \A x \in snap : s < x => Successor(s, snap) <= x
<1> DEFINE after == {x \in snap : x > s}
<1>1. CASE after = {}
  BY <1>1 DEF Successor
<1>2. CASE after # {}
  <2>1. after \subseteq Nat
    BY ServersAreNumbers
  <2>2. Min(after) \in after /\ \A y \in after : Min(after) <= y
    <3> HIDE DEF after
    <3> QED BY <2>1, <1>2, MinIsLeast
  <2>3. Successor(s, snap) = Min(after)
    BY <1>2 DEF Successor
  <2>4. QED
    BY <2>2, <2>3
<1>3. QED
  BY <1>1, <1>2

LEMMA PredecessorIsLast ==
  ASSUME NEW s \in Servers, NEW snap \in SUBSET Servers
  PROVE  \/ Predecessor(s, snap) = 0
         \/ /\ Predecessor(s, snap) \in snap
            /\ Predecessor(s, snap) < s
            /\ \A x \in snap : x < s => x <= Predecessor(s, snap)
<1> DEFINE before == {x \in snap : x < s}
<1>1. CASE before = {}
  BY <1>1 DEF Predecessor
<1>2. CASE before # {}
  <2>1. before \subseteq 0 .. NumServers
    BY ServersAreNumbers
  <2>2. Max(before) \in before /\ \A y \in before : y <= Max(before)
    <3> HIDE DEF before
    <3> QED BY <2>1, <1>2, ServersAreNumbers, MaxIsGreatest
  <2>3. Predecessor(s, snap) = Max(before)
    BY <1>2 DEF Predecessor
  <2>4. QED
    BY <2>2, <2>3
<1>3. QED
  BY <1>1, <1>2
---------------------------------------------------------------------------
(* Whether server s has, or had, a znode. *)
Registered(s) == main[s] \notin {"off", "listening"}

(* Znodes are made in the order of the servers, and only registered servers *)
(* have been children, in a list of children or told of a change.           *)
InOrder ==
    /\ \A s \in zk \cup heads \cup event : Registered(s)
    /\ \A s \in Servers : \A x \in wsnap[s] \cup msnap[s] : Registered(x)
    /\ \A r, s \in Servers : r < s /\ Registered(s) => Registered(r)

(* Nobody in the chain comes before a server that is or was its head. *)
HeadsFirst == \A h \in heads, r \in zk : h <= r

(* A list of children may be old, but of the children there are it lacks    *)
(* none between its server and a later one that it has, nor, when main uses *)
(* it, any before its server.                                               *)
ListsCurrent ==
    /\ \A s \in Servers, r \in zk : s < r =>
          /\ (\E x \in wsnap[s] : r < x) => r \in wsnap[s]
          /\ (\E x \in msnap[s] : r < x) => r \in msnap[s]
    /\ \A s \in Servers, r \in zk :
          main[s] \in {"watching", "joining"} /\ r < s => r \in msnap[s]

(* A connection leads to a later server, or to fetch the table to an        *)
(* earlier one, with nobody of the chain between its two ends.              *)
Adjacent(s, e, x) ==
    /\ Registered(x)
    /\ IF e = 0 THEN Registered(s) /\ x < s /\ \A r \in zk : r < s => r <= x
                ELSE s < x /\ \A r \in zk : r < x => r <= s

LinksAdjacent == \A s \in Servers, e \in 0 .. MaxEpoch :
    peer[<<s, e>>] # 0 => Adjacent(s, e, peer[<<s, e>>])

(* A thread that is busy belongs to a server and, unless it serves GETTABLE, *)
(* has a put.                                                               *)
BusyOK == \A t \in Threads : pc[t] # "idle" =>
    ServedAt(t) # 0 /\ (t \in Conns /\ t[2] # 0 => op[t] \in Puts)

TypeInv == TypeOK /\ BusyOK

OrderInv == InOrder /\ HeadsFirst /\ ListsCurrent /\ LinksAdjacent

(* next_server is a connection that its server made to a successor. *)
NextIsOwn == \A s \in Servers : next[s] # None => next[s][1] = s /\ next[s][2] # 0

(* Connections that are still to be made have no other end; a put that was  *)
(* sent was sent to a head.                                                 *)
Fresh == /\ \A s \in Servers, e \in 0 .. MaxEpoch : e > epoch[s] => peer[<<s, e>>] = 0
         /\ \A p \in Puts : at[p] # 0 => at[p] \in heads

(* A thread that waits for the lock belongs to a server that serves, and    *)
(* has read that server's next_server.                                      *)
InvokedOK == \A t \in PutThreads : pc[t] = "invoked" =>
    /\ main[ServedAt(t)] = "serving"
    /\ fwd[t] # None => fwd[t][1] = ServedAt(t) /\ fwd[t][2] # 0

(* The server that is asked for its table runs. *)
AskedRuns == \A s \in Servers : pc[<<s, 0>>] = "sent" => peer[<<s, 0>>] \in alive

ThreadInv == NextIsOwn /\ Fresh /\ InvokedOK /\ AskedRuns

(* A server that does not serve yet has seen no put. *)
EmptyUntilServing == \A s \in Servers : main[s] # "serving" => Handled(s) = {}

(* A put on its way has been through the servers before the one it goes to. *)
InFlightHandled ==
    \A t \in PutThreads, r \in alive \cap zk :
        pc[t] \in {"sent", "invoked"} /\ r < ServedAt(t) => PutOf(t) \in Handled(r)

(* A put that has been at a server has been at those before it. *)
HandledInOrder == \A r \in alive \cap zk, s \in alive : r < s => Handled(s) \subseteq Handled(r)

PutsInv == EmptyUntilServing /\ InFlightHandled /\ HandledInOrder
---------------------------------------------------------------------------
(* Connections and threads, and the server that a thread works for. *)
LEMMA ConnsAndThreads ==
  /\ \A s \in Servers, e \in 0 .. MaxEpoch : <<s, e>> \in Conns
  /\ \A c \in Conns : c \in Threads /\ c[1] \in Servers /\ c[2] \in 0 .. MaxEpoch
                      /\ c = <<c[1], c[2]>> /\ c # None
  /\ \A p \in Puts : p \in Threads /\ p \notin Conns
  /\ 0 \in 0 .. MaxEpoch
<1>1. MaxEpoch \in Nat /\ 0 \notin Servers
  BY ReconfigAssumption, ServersAreNumbers
<1>2. QED
  BY <1>1, ReconfigAssumption DEF Conns, Threads, None

(* Types of what the operators give, one lemma for each. *)
LEMMA ServedAtType ==
  ASSUME TypeOK, NEW t \in Threads
  PROVE  ServedAt(t) \in Servers \cup {0}
  BY DEF TypeOK, ServedAt, Threads

LEMMA BusyTypes ==
  ASSUME TypeInv, NEW t \in PutThreads, pc[t] # "idle"
  PROVE  t \in Threads /\ ServedAt(t) \in Servers /\ PutOf(t) \in Puts
<1>1. t \in Threads /\ (t \in Conns => t[2] # 0)
  BY ConnsAndThreads DEF PutThreads
<1>2. QED
  BY <1>1, ServedAtType DEF TypeInv, BusyOK, PutOf, Threads

LEMMA DieType ==
  ASSUME TypeOK, NEW s \in Servers, Die(s)
  PROVE  alive' \subseteq Servers /\ pc' \in [Threads -> PCs]
  BY DEF TypeOK, Die, PCs

LEMMA ChildrenType ==
  ASSUME TypeOK, NEW z \in SUBSET Servers, ChildrenBecome(z)
  PROVE  zk' \subseteq Servers /\ heads' \subseteq Servers /\ armed' \subseteq Servers
         /\ event' \subseteq Servers
  BY DEF TypeOK, ChildrenBecome

LEMMA SetNextServerType ==
  ASSUME TypeOK, NEW s \in Servers, NEW snap \in SUBSET Servers, SetNextServer(s, snap)
  PROVE  /\ next' \in [Servers -> Conns \cup {None}] /\ epoch' \in [Servers -> 0 .. MaxEpoch]
         /\ peer' \in [Conns -> Servers \cup {0}] /\ closed' \subseteq Conns
         /\ alive' \subseteq Servers /\ pc' \in [Threads -> PCs]
         /\ dropped' \subseteq Conns /\ blind' \subseteq Servers /\ faults' \in 0 .. MaxFaults
<1> DEFINE succ == Successor(s, snap)
           c == <<s, epoch[s] + 1>>
<1>0. dropped' \subseteq Conns /\ blind' \subseteq Servers /\ faults' \in 0 .. MaxFaults
  <2>1. faults' = faults \/ Fault
    BY DEF SetNextServer, Misses
  <2>2. faults' \in 0 .. MaxFaults
    BY <2>1, ReconfigAssumption DEF Fault, TypeOK
  <2>3. QED
    BY <2>2 DEF SetNextServer, TypeOK
<1>1. next[s] \in Conns \cup {None} /\ closed \cup ({next[s]} \ {None}) \subseteq Conns
  BY DEF TypeOK
<1>2. CASE closed' = closed \cup ({next[s]} \ {None}) /\ next' = [next EXCEPT ![s] = None]
           /\ UNCHANGED <<alive, pc, peer, epoch>>
  BY <1>0, <1>1, <1>2 DEF TypeOK
<1>3. CASE (Die(s) \/ UNCHANGED <<alive, pc>>) /\ UNCHANGED <<next, closed, peer, epoch>>
  BY <1>0, <1>3, DieType DEF TypeOK
<1>4. CASE /\ closed' = closed \cup ({next[s]} \ {None}) /\ CanRead(s, succ)
           /\ epoch[s] < MaxEpoch /\ next' = [next EXCEPT ![s] = c]
           /\ peer' = [peer EXCEPT ![c] = succ] /\ epoch' = [epoch EXCEPT ![s] = epoch[s] + 1]
           /\ UNCHANGED <<alive, pc>>
  <2>1. succ \in Servers
    BY <1>4 DEF CanRead, TypeOK
  <2>2. epoch[s] + 1 \in 0 .. MaxEpoch
    BY <1>4, ReconfigAssumption DEF TypeOK
  <2>3. c \in Conns
    BY <2>2, ConnsAndThreads
  <2>4. QED
    BY <1>0, <1>1, <1>4, <2>1, <2>2, <2>3 DEF TypeOK
<1>5. QED
  BY <1>0, <1>2, <1>3, <1>4 DEF SetNextServer

LEMMA SetNextServerBusy ==
  ASSUME TypeInv, NEW s \in Servers, NEW snap \in SUBSET Servers, SetNextServer(s, snap),
         UNCHANGED <<op, at>>
  PROVE  BusyOK'
<1> USE DEF TypeInv
<1>1. \A t \in Threads : pc'[t] # "idle" => pc[t] # "idle"
  BY DEF SetNextServer, Die, TypeOK
<1>2. \A c \in Conns : peer'[c] = 0 => peer[c] = 0
  <2>1. \A x : CanRead(s, x) => x # 0
    BY ServersAreNumbers DEF CanRead, TypeOK
  <2>2. QED
    BY <2>1 DEF SetNextServer, TypeOK
<1>3. \A t \in Threads : ServedAt(t)' = 0 => ServedAt(t) = 0
  BY <1>2 DEF ServedAt, Threads
<1>4. QED
  BY <1>1, <1>3 DEF BusyOK

(* The two halves of a write: the table has the put stored or refused, and  *)
(* the put goes on over a usable connection or does not.                   *)
Kept(t) == Stores(t) \/ \E r \in {0, -1} : Refuses(t, r)

GoesOn(t) == \E c \in ForwardOutcomes(t) :
    /\ Usable(c)
    /\ pc' = [pc EXCEPT ![t] = "waiting", ![c] = "sent"]
    /\ op' = [op EXCEPT ![c] = PutOf(t)]
    /\ fwd' = [fwd EXCEPT ![t] = c]

Stays(t) == /\ \E how \in {"written", "stuck"} : pc' = [pc EXCEPT ![t] = how]
            /\ UNCHANGED <<op, fwd>>

LEMMA WriteParts ==
  ASSUME NEW t, Write(t)
  PROVE  /\ pc[t] = "invoked" /\ WritersAt(ServedAt(t)) = {}
         /\ Kept(t) /\ (GoesOn(t) \/ Stays(t)) /\ (UNCHANGED faults \/ Fault)
         /\ UNCHANGED <<zkVars, main, msnap, alive, next, epoch, peer, closed, at, acked>>
<1>1. TablePut(t) \/ Unsent(t) => Kept(t) /\ (UNCHANGED faults \/ Fault)
  BY DEF TablePut, Unsent, Kept, LacksMemory
<1>2. Forward(t) \/ Unsent(t) => GoesOn(t) \/ Stays(t)
  BY DEF Forward, Unsent, GoesOn, Stays
<1>3. QED
  BY <1>1, <1>2 DEF Write

LEMMA KeptType ==
  ASSUME TypeInv, NEW t \in PutThreads, pc[t] # "idle", Kept(t)
  PROVE  /\ log' \in [Servers -> Seq(Puts)] /\ missed' \subseteq Servers \X Puts \X {0, -1}
         /\ res' \in [Threads -> {0, -1}]
<1>1. t \in Threads /\ ServedAt(t) \in Servers /\ PutOf(t) \in Puts
  BY BusyTypes
<1>2. CASE Stores(t)
  BY <1>1, <1>2 DEF Stores, TypeInv, TypeOK
<1>3. ASSUME NEW r \in {0, -1}, Refuses(t, r)
      PROVE  /\ log' \in [Servers -> Seq(Puts)] /\ missed' \subseteq Servers \X Puts \X {0, -1}
             /\ res' \in [Threads -> {0, -1}]
  BY <1>1, <1>3 DEF Refuses, TypeInv, TypeOK
<1>4. QED
  BY <1>2, <1>3 DEF Kept

(* The connections that a failed forward can drop. *)
LEMMA DropType ==
  ASSUME TypeInv, NEW t \in PutThreads, pc[t] # "idle",
         UNCHANGED dropped \/ \E c \in ForwardOutcomes(t) : Drop(c)
  PROVE  dropped' \subseteq Conns
<1>1. t \in Threads /\ ServedAt(t) \in Servers
  BY BusyTypes
<1>2. ForwardOutcomes(t) \subseteq Conns \cup {None}
  BY <1>1 DEF ForwardOutcomes, TypeInv, TypeOK
<1>3. QED
  BY <1>2 DEF Drop, TypeInv, TypeOK

(* The first layer: types. *)
LEMMA InitTypeInv == Init => TypeInv
<1> SUFFICES ASSUME Init PROVE TypeInv
  OBVIOUS
<1>1. /\ 1 \in Servers /\ Founders \subseteq Servers
      /\ \A s \in Servers : s < NumFounders => s + 1 \in Servers
      /\ NumServers \in Nat /\ MaxEpoch \in Nat \ {0} /\ MaxFaults \in Nat
  BY ReconfigAssumption DEF Servers, Founders
<1>2. next \in [Servers -> Conns \cup {None}] /\ peer \in [Conns -> Servers \cup {0}]
  <2>1. \A s \in Servers : <<s, 1>> \in Conns
    BY <1>1, ConnsAndThreads
  <2>2. next \in [Servers -> Conns \cup {None}]
    BY <2>1 DEF Init
  <2>3. \A c \in Conns : c[1] \in Servers
    BY ConnsAndThreads
  <2>4. QED
    BY <1>1, <2>2, <2>3 DEF Init
<1>3. TypeOK
  BY <1>1, <1>2 DEF TypeOK, Init, MainPCs, PCs
<1>4. BusyOK
  BY DEF BusyOK, Init
<1>5. QED
  BY <1>3, <1>4 DEF TypeInv

(* Each group of actions keeps the types. *)
LEMMA MainKeepsTypeInv ==
  ASSUME TypeInv, NEW s \in Servers, MainStep(s)
  PROVE  TypeInv'
<1> USE DEF TypeInv, GotoMain
<1>1. CASE Start(s)
  BY <1>1 DEF Start, TypeOK, BusyOK, ServedAt, zkVars, linkVars, threadVars, MainPCs
<1>2. CASE CreateNode(s)
  <2>1. zk' \subseteq Servers /\ heads' \subseteq Servers /\ armed' \subseteq Servers
        /\ event' \subseteq Servers
    <3>1. zk \cup {s} \in SUBSET Servers
      BY DEF TypeOK
    <3>2. QED
      BY <1>2, <3>1, ChildrenType DEF CreateNode
  <2>2. QED
    BY <1>2, <2>1 DEF CreateNode, TypeOK, BusyOK, ServedAt, linkVars, threadVars, MainPCs
<1>3. CASE SetWatch(s)
  BY <1>3 DEF SetWatch, TypeOK, BusyOK, ServedAt, linkVars, threadVars, MainPCs
<1>4. CASE SetWatchFails(s)
  <2>1. alive' \subseteq Servers /\ pc' \in [Threads -> PCs]
    BY <1>4, DieType DEF SetWatchFails
  <2>2. \A t \in Threads : pc'[t] # "idle" => pc[t] # "idle"
    BY <1>4 DEF SetWatchFails, Die, TypeOK
  <2>0. faults' \in 0 .. MaxFaults
    BY <1>4, ReconfigAssumption DEF SetWatchFails, Misses, Fault, TypeOK
  <2>3. QED
    BY <1>4, <2>0, <2>1, <2>2 DEF SetWatchFails, TypeOK, BusyOK, ServedAt, zkVars, linkVars, MainPCs
<1>5. CASE MainSetsNext(s)
  <2>1. msnap[s] \in SUBSET Servers
    BY DEF TypeOK
  <2>2. BusyOK'
    BY <1>5, <2>1, SetNextServerBusy DEF MainSetsNext
  <2>3. QED
    BY <1>5, <2>1, <2>2, SetNextServerType DEF MainSetsNext, TypeOK, zkVars, MainPCs
<1>6. CASE AskPredecessor(s)
  <2>0. faults' \in 0 .. MaxFaults
    BY <1>6, ReconfigAssumption DEF AskPredecessor, Misses, Fault, TypeOK
  <2> DEFINE pred == Predecessor(s, msnap[s])
             c == <<s, 0>>
  <2>1. c \in Conns /\ c \in Threads /\ "sent" \in PCs
    BY ConnsAndThreads DEF PCs
  <2>2. CASE /\ CanRead(s, pred) /\ GotoMain(s, "joining", "loading")
             /\ peer' = [peer EXCEPT ![c] = pred] /\ pc' = [pc EXCEPT ![c] = "sent"]
    <3>1. pred \in Servers /\ pred # 0
      BY <2>2, ServersAreNumbers DEF CanRead, TypeOK
    <3>2. TypeOK'
      BY <1>6, <2>0, <2>1, <2>2, <3>1 DEF AskPredecessor, TypeOK, zkVars, MainPCs
    <3>3. \A t \in Threads : t # c => pc'[t] = pc[t] /\ ServedAt(t)' = ServedAt(t)
      BY <1>6, <2>1, <2>2 DEF AskPredecessor, TypeOK, ServedAt, Threads
    <3>4. ServedAt(c)' = pred
      BY <2>1, <2>2, ConnsAndThreads DEF ServedAt, TypeOK
    <3>5. QED
      BY <1>6, <3>1, <3>2, <3>3, <3>4 DEF AskPredecessor, BusyOK
  <2>3. CASE GotoMain(s, "joining", "serving") /\ UNCHANGED <<peer, pc>>
    BY <1>6, <2>0, <2>3 DEF AskPredecessor, TypeOK, BusyOK, ServedAt, zkVars, MainPCs
  <2>4. QED
    BY <1>6, <2>2, <2>3 DEF AskPredecessor
<1>7. CASE Load(s)
  <2> DEFINE pred == peer[<<s, 0>>]
  <2>1. <<s, 0>> \in Threads /\ <<s, 0>> \in Conns
    BY ConnsAndThreads
  <2>2. pred \in Servers
    BY <1>7, <2>1, ConnsAndThreads DEF Load, BusyOK, ServedAt, TypeOK
  <2>3. missed' \subseteq Servers \X Puts \X {0, -1}
    BY <1>7 DEF Load, TypeOK
  <2>4. log' \in [Servers -> Seq(Puts)]
    BY <1>7, <2>2 DEF Load, TypeOK
  <2>5. pc' \in [Threads -> PCs] /\ \A t \in Threads : pc'[t] # "idle" => pc[t] # "idle"
    BY <1>7, <2>1 DEF Load, TypeOK, PCs
  <2>6. QED
    BY <1>7, <2>3, <2>4, <2>5
       DEF Load, TypeOK, BusyOK, ServedAt, zkVars, linkVars, MainPCs
<1>8. CASE LoadFails(s)
  BY <1>8 DEF LoadFails, TypeOK, BusyOK, ServedAt, zkVars, linkVars, threadVars, MainPCs
<1>9. QED
  BY <1>1, <1>2, <1>3, <1>4, <1>5, <1>6, <1>7, <1>8 DEF MainStep

LEMMA WatcherKeepsTypeInv ==
  ASSUME TypeInv, NEW s \in Servers,
         WatcherStep(s) \/ Crash(s) \/ Expire(s) \/ ExpireRunning(s)
  PROVE  TypeInv'
<1> USE DEF TypeInv
<1>1. CASE WatcherReads(s)
  BY <1>1 DEF WatcherReads, TypeOK, BusyOK, ServedAt, linkVars, threadVars
<1>2. CASE WatcherReadsNothing(s)
  <2>1. alive' \subseteq Servers /\ pc' \in [Threads -> PCs]
    BY <1>2, DieType DEF WatcherReadsNothing, TypeOK
  <2>2. \A t \in Threads : pc'[t] # "idle" => pc[t] # "idle"
    BY <1>2 DEF WatcherReadsNothing, Die, TypeOK
  <2>0. faults' \in 0 .. MaxFaults /\ blind' \subseteq Servers
    BY <1>2, ReconfigAssumption DEF WatcherReadsNothing, Misses, Fault, TypeOK
  <2>3. wsnap' \in [Servers -> SUBSET Servers]
    <3>1. {s} \in SUBSET Servers
      OBVIOUS
    <3>2. wsnap' = wsnap \/ wsnap' = [wsnap EXCEPT ![s] = {s}]
      BY <1>2 DEF WatcherReadsNothing
    <3>3. QED
      BY <3>1, <3>2 DEF TypeOK
  <2>4. QED
    BY <1>2, <2>0, <2>1, <2>2, <2>3
       DEF WatcherReadsNothing, TypeOK, BusyOK, ServedAt, linkVars
<1>3. CASE WatcherSetsNext(s)
  <2>1. wsnap[s] \in SUBSET Servers
    BY DEF TypeOK
  <2>2. BusyOK'
    BY <1>3, <2>1, SetNextServerBusy DEF WatcherSetsNext
  <2>3. QED
    BY <1>3, <2>1, <2>2, SetNextServerType DEF WatcherSetsNext, TypeOK
<1>4. CASE Crash(s)
  <2>1. alive' \subseteq Servers /\ pc' \in [Threads -> PCs]
    BY <1>4, DieType DEF Crash
  <2>2. \A t \in Threads : pc'[t] # "idle" => pc[t] # "idle"
    BY <1>4 DEF Crash, Die, TypeOK
  <2>3. faults' \in 0 .. MaxFaults
    BY <1>4, ReconfigAssumption DEF Crash, Fault, TypeOK
  <2>4. QED
    BY <1>4, <2>1, <2>2, <2>3 DEF Crash, TypeOK, BusyOK, ServedAt, zkVars, linkVars
<1>5. CASE Expire(s) \/ ExpireRunning(s)
  <2>1. zk \ {s} \in SUBSET Servers /\ ChildrenBecome(zk \ {s})
    BY <1>5 DEF Expire, ExpireRunning, TypeOK
  <2>2. faults' \in 0 .. MaxFaults
    BY <1>5, ReconfigAssumption DEF Expire, ExpireRunning, Fault, TypeOK
  <2>3. zk' \subseteq Servers /\ heads' \subseteq Servers /\ armed' \subseteq Servers
        /\ event' \subseteq Servers
    BY <2>1, ChildrenType
  <2>4. UNCHANGED <<wsnap, blind, main, msnap, alive, log, missed, linkVars, threadVars>>
    BY <1>5 DEF Expire, ExpireRunning
  <2>5. QED
    BY <2>2, <2>3, <2>4 DEF TypeOK, BusyOK, ServedAt, linkVars, threadVars
<1>6. QED
  BY <1>1, <1>2, <1>3, <1>4, <1>5 DEF WatcherStep

(* What a forward can do: it makes a thread of the next server busy, which  *)
(* it can do only over a usable connection, or it fails.                    *)
LEMMA ForwardType ==
  ASSUME TypeInv, NEW t \in PutThreads, pc[t] # "idle", GoesOn(t) \/ Stays(t), UNCHANGED <<peer, at>>
  PROVE  /\ pc' \in [Threads -> PCs] /\ op' \in [Conns -> Puts \cup {0}]
         /\ fwd' \in [Threads -> Conns \cup {None}]
         /\ BusyOK'
<1>1. t \in Threads /\ ServedAt(t) \in Servers /\ PutOf(t) \in Puts
  BY BusyTypes
<1>4. \A x : ServedAt(x)' = ServedAt(x)
  BY DEF ServedAt
<1>5. CASE GoesOn(t)
  <2>0. PICK c \in ForwardOutcomes(t) :
          /\ Usable(c)
          /\ pc' = [pc EXCEPT ![t] = "waiting", ![c] = "sent"]
          /\ op' = [op EXCEPT ![c] = PutOf(t)]
          /\ fwd' = [fwd EXCEPT ![t] = c]
    BY <1>5 DEF GoesOn
  <2>1. c \in Conns /\ c \in Threads /\ c \notin Puts
    <3>1. c \in Conns \cup {None}
      BY <1>1 DEF ForwardOutcomes, TypeInv, TypeOK
    <3>2. QED
      BY <2>0, <3>1, ConnsAndThreads DEF Usable
  <2>2. ServedAt(c) # 0
    BY <2>0, <2>1, ServersAreNumbers DEF Usable, ServedAt, TypeInv, TypeOK
  <2>3. TypeOK /\ BusyOK
    BY DEF TypeInv
  <2>4. BusyOK'
    BY <1>1, <1>4, <2>0, <2>1, <2>2, <2>3 DEF BusyOK, TypeOK
  <2>5. QED
    BY <1>1, <2>0, <2>1, <2>3, <2>4 DEF TypeOK, PCs
<1>6. CASE Stays(t)
  BY <1>1, <1>4, <1>6 DEF Stays, TypeInv, TypeOK, BusyOK, PCs
<1>7. QED
  BY <1>5, <1>6

LEMMA WorkerKeepsTypeInv ==
  ASSUME TypeInv, NEW t \in PutThreads, WorkerStep(t)
  PROVE  TypeInv'
<1> USE DEF TypeInv
<1>0. t \in Threads
  BY DEF PutThreads
<1>1. CASE Invoke(t)
  <2>1. pc' \in [Threads -> PCs] /\ \A u \in Threads : pc'[u] # "idle" => pc[u] # "idle"
    BY <1>0, <1>1 DEF Invoke, TypeOK, PCs
  <2>2. fwd' \in [Threads -> Conns \cup {None}]
    <3>1. next[ServedAt(t)] \in Conns \cup {None}
      BY <1>1, BusyTypes DEF Invoke, TypeOK
    <3>2. QED
      BY <1>1, <3>1 DEF Invoke, TypeOK
  <2>3. QED
    BY <1>1, <2>1, <2>2 DEF Invoke, TypeOK, BusyOK, ServedAt, zkVars, linkVars
<1>2. CASE Write(t)
  <2>1. pc[t] # "idle" /\ (UNCHANGED dropped \/ \E c \in ForwardOutcomes(t) : Drop(c))
    BY <1>2 DEF Write, Forward, Unsent
  <2>2. faults' \in 0 .. MaxFaults
    <3>1. UNCHANGED faults \/ Fault
      BY <1>2, WriteParts
    <3>2. QED
      BY <3>1, ReconfigAssumption DEF Fault, TypeOK
  <2>3. Kept(t) /\ (GoesOn(t) \/ Stays(t))
        /\ UNCHANGED <<zkVars, main, msnap, alive, next, epoch, peer, closed, at, acked>>
    BY <1>2, WriteParts
  <2>4. dropped' \subseteq Conns
    BY <2>1, DropType
  <2>5. QED
    BY <2>1, <2>2, <2>3, <2>4, KeptType, ForwardType DEF TypeOK, zkVars
<1>3. CASE ForwardFails(t) \/ Unstick(t)
  <2>1. /\ pc' \in [Threads -> PCs] /\ \A u \in Threads : pc'[u] # "idle" => pc[u] # "idle"
        /\ UNCHANGED <<zkVars, main, msnap, alive, faults, log, missed, next, epoch, peer, closed,
                       op, at, fwd, res, acked>>
    BY <1>3 DEF ForwardFails, Unstick, TypeOK, PCs
  <2>2. dropped' \subseteq Conns
    <3>1. pc[t] # "idle" /\ (UNCHANGED dropped \/ \E c \in ForwardOutcomes(t) : Drop(c))
      BY <1>3 DEF ForwardFails, Unstick
    <3>2. QED
      BY <3>1, DropType
  <2>3. QED
    BY <2>1, <2>2 DEF TypeOK, BusyOK, ServedAt, zkVars
<1>4. CASE Finish(t)
  <2>1. pc' \in [Threads -> PCs] /\ \A u \in Threads : pc'[u] # "idle" => pc[u] # "idle"
    BY <1>4 DEF Finish, WaitersOn, TypeOK, PCs
  <2>2. QED
    BY <1>4, <2>1 DEF Finish, TypeOK, BusyOK, ServedAt, zkVars, linkVars
<1>5. QED
  BY <1>1, <1>2, <1>3, <1>4 DEF WorkerStep, RunningStep

LEMMA SendKeepsTypeInv ==
  ASSUME TypeInv, NEW p \in Puts, SendPut(p)
  PROVE  TypeInv'
<1>1. PICK head \in heads \cap alive : at' = [at EXCEPT ![p] = head]
  BY DEF SendPut
<1>2. head \in Servers /\ head # 0 /\ p \in Threads /\ p \notin Conns
  BY ConnsAndThreads, ServersAreNumbers DEF TypeInv, TypeOK
<1>3. TypeOK'
  BY <1>1, <1>2 DEF SendPut, TypeInv, TypeOK, zkVars, linkVars, PCs
<1>4. \A t \in Threads : t # p => pc'[t] = pc[t] /\ ServedAt(t)' = ServedAt(t)
  BY <1>1, <1>2 DEF SendPut, TypeInv, TypeOK, ServedAt, linkVars, Threads
<1>5. ServedAt(p)' = head
  BY <1>1, <1>2 DEF ServedAt, TypeInv, TypeOK
<1>6. BusyOK'
  BY <1>2, <1>4, <1>5 DEF SendPut, TypeInv, BusyOK
<1>7. QED
  BY <1>3, <1>6 DEF TypeInv

(* Every variable keeps its type: the connections that set_next_server and  *)
(* set_antecessor make lead to servers, next_server is one of them or NULL, *)
(* and a busy thread works for a server and has a put.                      *)
THEOREM ReconfigTypeInv == Spec => []TypeInv
<1>1. TypeInv /\ [Next]_vars => TypeInv'
  <2> SUFFICES ASSUME TypeInv, [Next]_vars PROVE TypeInv'
    OBVIOUS
  <2>1. CASE UNCHANGED vars
    BY <2>1 DEF vars, zkVars, linkVars, threadVars, TypeInv, TypeOK, BusyOK, ServedAt
  <2>2. CASE Next
    BY <2>2, MainKeepsTypeInv, WatcherKeepsTypeInv, WorkerKeepsTypeInv, SendKeepsTypeInv
       DEF Next
  <2>3. QED
    BY <2>1, <2>2
<1>2. QED
  BY <1>1, InitTypeInv, PTL DEF Spec

(* The type invariant that the runs check. *)
THEOREM ReconfigTypes == Spec => []TypeOK
<1>1. TypeInv => TypeOK
  BY DEF TypeInv
<1>2. QED
  BY <1>1, ReconfigTypeInv, PTL
---------------------------------------------------------------------------
(* The second layer: who is next to whom. *)
LEMMA InitOrderInv == Init => OrderInv
<1> SUFFICES ASSUME Init PROVE OrderInv
  OBVIOUS
<1>1. /\ Founders \subseteq Servers /\ 1 \in Founders
      /\ \A s \in Servers : s \in Founders <=> s <= NumFounders
      /\ NumFounders \in Nat /\ MaxEpoch \in Nat
  BY ReconfigAssumption DEF Servers, Founders
<1>2. \A s \in Servers : Registered(s) <=> s \in Founders
  BY DEF Init, Registered
<1>3. InOrder
  BY <1>1, <1>2, ServersAreNumbers DEF InOrder, Init
<1>4. HeadsFirst
  BY ServersAreNumbers, <1>1 DEF HeadsFirst, Init
<1>5. ListsCurrent
  BY DEF ListsCurrent, Init
<1>6. LinksAdjacent
  <2> SUFFICES ASSUME NEW s \in Servers, NEW e \in 0 .. MaxEpoch, peer[<<s, e>>] # 0
               PROVE  Adjacent(s, e, peer[<<s, e>>])
    BY DEF LinksAdjacent
  <2>1. e = 1 /\ s < NumFounders /\ peer[<<s, e>>] = s + 1
    BY ConnsAndThreads DEF Init
  <2>2. s + 1 \in Founders /\ s \in Nat
    BY <1>1, <2>1, ServersAreNumbers DEF Founders
  <2>3. \A r \in zk : r \in Nat
    BY <1>1, ServersAreNumbers DEF Init
  <2>4. QED
    BY <1>1, <1>2, <2>1, <2>2, <2>3 DEF Adjacent
<1>7. QED
  BY <1>3, <1>4, <1>5, <1>6 DEF OrderInv

(* The order of the chain is not disturbed when a server leaves it ... *)
LEMMA LeavingKeepsOrder ==
  ASSUME TypeInv, OrderInv, NEW s \in Servers, ChildrenBecome(zk \ {s}),
         UNCHANGED <<wsnap, msnap, main, peer>>
  PROVE  OrderInv'
<1> USE DEF OrderInv, ChildrenBecome
<1>1. \A x \in Servers : Registered(x)' = Registered(x)
  BY DEF Registered
<1>2. InOrder'
  BY <1>1 DEF InOrder, TypeInv, TypeOK
<1>3. HeadsFirst'
  BY DEF HeadsFirst
<1>4. ListsCurrent'
  BY DEF ListsCurrent
<1>5. LinksAdjacent'
  BY DEF LinksAdjacent, Adjacent, Registered
<1>6. QED
  BY <1>2, <1>3, <1>4, <1>5

(* ... nor when one joins at its end. *)
LEMMA JoiningKeepsOrder ==
  ASSUME TypeInv, OrderInv, NEW s \in Servers, CreateNode(s)
  PROVE  OrderInv'
<1> USE DEF OrderInv, CreateNode, ChildrenBecome, GotoMain, linkVars
<1> USE ServersAreNumbers
<1>1. /\ \A x \in Servers : Registered(x)' <=> Registered(x) \/ x = s
      /\ ~ Registered(s)
      /\ \A x \in Servers : Registered(x) => x < s
      /\ zk \subseteq Servers /\ heads \subseteq Servers
  <2>1. zk \subseteq Servers /\ heads \subseteq Servers /\ main \in [Servers -> MainPCs]
    BY DEF TypeInv, TypeOK
  <2>2. \A x \in Servers : Registered(x)' <=> Registered(x) \/ x = s
    BY <2>1 DEF Registered
  <2>3. ~ Registered(s)
    BY DEF Registered
  <2>4. \A x \in Servers : Registered(x) => x < s
    BY <2>3 DEF InOrder
  <2>5. QED
    BY <2>1, <2>2, <2>3, <2>4
<1>2. InOrder'
  <2>1. \A x \in (zk \cup heads \cup event)' : Registered(x)'
    BY <1>1 DEF InOrder, TypeInv, TypeOK
  <2>2. \A q \in Servers : \A x \in (wsnap[q] \cup msnap[q])' : Registered(x)'
    BY <1>1 DEF InOrder, TypeInv, TypeOK
  <2>3. \A r \in Servers : r < s => Registered(r)
    BY DEF Registered, TypeInv, TypeOK
  <2>4. \A r, q \in Servers : r < q /\ Registered(q)' => Registered(r)'
    BY <1>1, <2>3 DEF InOrder
  <2>5. QED
    BY <2>1, <2>2, <2>4 DEF InOrder
<1>3. HeadsFirst'
  <2>1. \A h \in heads : h < s
    BY <1>1 DEF InOrder
  <2>2. QED
    BY <1>1, <2>1 DEF HeadsFirst
<1>4. ListsCurrent'
  <2>1. \A q \in Servers : \A x \in wsnap[q] \cup msnap[q] : x < s
    BY <1>1 DEF InOrder, TypeInv, TypeOK
  <2>2. \A q \in Servers : main'[q] \in {"watching", "joining"} => q < s /\ main'[q] = main[q]
    BY <1>1 DEF Registered, TypeInv, TypeOK
  <2>3. QED
    BY <1>1, <2>1, <2>2 DEF ListsCurrent, TypeInv, TypeOK
<1>5. LinksAdjacent'
  <2> SUFFICES ASSUME NEW q \in Servers, NEW e \in 0 .. MaxEpoch, peer[<<q, e>>] # 0
               PROVE  Adjacent(q, e, peer[<<q, e>>])'
    BY DEF LinksAdjacent
  <2>1. peer[<<q, e>>] \in Servers
    BY ConnsAndThreads DEF TypeInv, TypeOK
  <2>2. Registered(peer[<<q, e>>]) /\ peer[<<q, e>>] < s
    BY <1>1, <2>1 DEF LinksAdjacent, Adjacent
  <2>3. CASE e = 0
    <3>1. Registered(q)
      BY <2>3 DEF LinksAdjacent, Adjacent
    <3>2. q < s
      BY <1>1, <3>1
    <3>3. QED
      BY <1>1, <2>1, <2>2, <2>3, <3>1, <3>2 DEF LinksAdjacent, Adjacent
  <2>4. CASE e # 0
    BY <1>1, <2>1, <2>2, <2>4 DEF LinksAdjacent, Adjacent
  <2>5. QED
    BY <2>3, <2>4
<1>6. QED
  BY <1>2, <1>3, <1>4, <1>5

(* A connection that was made stays adjacent. *)
LEMMA StaysAdjacent ==
  ASSUME NEW q \in Servers, NEW e, NEW x \in Servers, Adjacent(q, e, x), UNCHANGED zk,
         \A y \in Servers : Registered(y) => Registered(y)'
  PROVE  Adjacent(q, e, x)'
  BY DEF Adjacent

(* A new connection to a successor leads to the next server of the chain,   *)
(* though the list in which it was found may be old.                        *)
LEMMA NewLinkIsAdjacent ==
  ASSUME TypeInv, OrderInv, NEW s \in Servers, NEW snap \in SUBSET Servers,
         \A x \in snap : Registered(x),
         \A r \in zk : s < r /\ (\E x \in snap : r < x) => r \in snap,
         SetNextServer(s, snap), UNCHANGED zk,
         \A x \in Servers : Registered(x) => Registered(x)'
  PROVE  LinksAdjacent'
<1> DEFINE succ == Successor(s, snap)
           c == <<s, epoch[s] + 1>>
<1>1. zk \subseteq Servers
  BY DEF TypeInv, TypeOK
<1>2. CASE UNCHANGED peer
  <2>1. \A q \in Servers, e \in 0 .. MaxEpoch : peer[<<q, e>>] \in Servers \cup {0}
    BY ConnsAndThreads DEF TypeInv, TypeOK
  <2>2. QED
    BY <1>2, <2>1, StaysAdjacent DEF OrderInv, LinksAdjacent
<1>3. CASE CanRead(s, succ) /\ epoch[s] < MaxEpoch /\ peer' = [peer EXCEPT ![c] = succ]
  <2>1. succ \in Servers /\ succ # 0
    BY <1>1, <1>3, ServersAreNumbers DEF CanRead
  <2>2. succ \in snap /\ s < succ /\ \A x \in snap : s < x => succ <= x
    BY <2>1, SuccessorIsNext
  <2>3. \A r \in zk : r < succ => r <= s
    BY <1>1, <2>1, <2>2, ServersAreNumbers
  <2>4. PICK n \in 0 .. MaxEpoch : n = epoch[s] + 1 /\ n # 0
    BY <1>3, ReconfigAssumption DEF TypeInv, TypeOK
  <2>5. \A q \in Servers, e \in 0 .. MaxEpoch :
           /\ peer[<<q, e>>] \in Servers \cup {0}
           /\ peer'[<<q, e>>] = IF q = s /\ e = n THEN succ ELSE peer[<<q, e>>]
    BY <1>3, <2>4, ConnsAndThreads DEF TypeInv, TypeOK
  <2>6. Adjacent(s, n, succ)'
    BY <2>1, <2>2, <2>3, <2>4 DEF Adjacent
  <2>7. QED
    BY <2>1, <2>4, <2>5, <2>6, StaysAdjacent DEF OrderInv, LinksAdjacent
<1>4. QED
  BY <1>2, <1>3 DEF SetNextServer, Die

LEMMA MainKeepsOrder ==
  ASSUME TypeInv, OrderInv, NEW s \in Servers, MainStep(s)
  PROVE  OrderInv'
<1> USE DEF OrderInv, GotoMain, zkVars, linkVars
<1>0. main \in [Servers -> MainPCs] /\ zk \subseteq Servers /\ heads \subseteq Servers
      /\ event \subseteq Servers
      /\ wsnap \in [Servers -> SUBSET Servers] /\ msnap \in [Servers -> SUBSET Servers]
      /\ \A q \in Servers, e \in 0 .. MaxEpoch : peer[<<q, e>>] \in Servers \cup {0}
  BY ConnsAndThreads DEF TypeInv, TypeOK
<1>1. CASE CreateNode(s)
  BY <1>1, JoiningKeepsOrder
<1>2. CASE \/ Start(s) \/ SetWatchFails(s) \/ Load(s) \/ LoadFails(s)
  <2>1. UNCHANGED <<zk, heads, event, wsnap, msnap, peer>>
    BY <1>2 DEF Start, SetWatchFails, Load, LoadFails
  <2>2. \A x \in Servers : Registered(x)' = Registered(x)
    BY <1>0, <1>2 DEF Start, SetWatchFails, Load, LoadFails, Registered
  <2>3. \A x \in Servers : main'[x] \in {"watching", "joining"} => main[x] = main'[x]
    BY <1>0, <1>2 DEF Start, SetWatchFails, Load, LoadFails
  <2>4. InOrder' /\ HeadsFirst'
    BY <1>0, <2>1, <2>2 DEF InOrder, HeadsFirst
  <2>5. ListsCurrent'
    BY <1>0, <2>1, <2>3 DEF ListsCurrent
  <2>6. LinksAdjacent'
    BY <1>0, <2>1, <2>2, StaysAdjacent DEF LinksAdjacent
  <2>7. QED
    BY <2>4, <2>5, <2>6
<1>3. CASE SetWatch(s)
  <2>1. \A x \in Servers : Registered(x)' = Registered(x)
    BY <1>0, <1>3 DEF SetWatch, Registered
  <2>2. InOrder' /\ HeadsFirst'
    BY <1>0, <1>3, <2>1 DEF SetWatch, InOrder, HeadsFirst
  <2>3. ListsCurrent'
    BY <1>0, <1>3 DEF SetWatch, ListsCurrent
  <2>4. LinksAdjacent'
    BY <1>0, <1>3, <2>1, StaysAdjacent DEF SetWatch, LinksAdjacent
  <2>5. QED
    BY <2>2, <2>3, <2>4
<1>4. CASE MainSetsNext(s)
  <2>1. \A x \in Servers : Registered(x)' = Registered(x)
    BY <1>0, <1>4 DEF MainSetsNext, Registered
  <2>2. InOrder' /\ HeadsFirst'
    BY <1>0, <1>4, <2>1 DEF MainSetsNext, InOrder, HeadsFirst
  <2>3. ListsCurrent'
    BY <1>0, <1>4 DEF MainSetsNext, ListsCurrent
  <2>4. /\ \A x \in msnap[s] : Registered(x)
        /\ \A r \in zk : s < r /\ (\E x \in msnap[s] : r < x) => r \in msnap[s]
    BY <1>0 DEF InOrder, ListsCurrent
  <2>5. LinksAdjacent'
    BY <1>0, <1>4, <2>1, <2>4, NewLinkIsAdjacent DEF MainSetsNext
  <2>6. QED
    BY <2>2, <2>3, <2>5
<1>5. CASE AskPredecessor(s)
  <2> DEFINE pred == Predecessor(s, msnap[s])
  <2>1. \A x \in Servers : Registered(x)' = Registered(x)
    BY <1>0, <1>5 DEF AskPredecessor, Registered
  <2>2. InOrder' /\ HeadsFirst'
    BY <1>0, <1>5, <2>1 DEF AskPredecessor, InOrder, HeadsFirst
  <2>3. ListsCurrent'
    BY <1>0, <1>5 DEF AskPredecessor, ListsCurrent
  <2>4. CASE UNCHANGED peer
    <3>1. UNCHANGED zk
      BY <1>5 DEF AskPredecessor
    <3>2. LinksAdjacent'
      BY <1>0, <2>1, <2>4, <3>1, StaysAdjacent DEF LinksAdjacent
    <3>3. QED
      BY <2>2, <2>3, <3>2
  <2>5. CASE CanRead(s, pred) /\ peer' = [peer EXCEPT ![<<s, 0>>] = pred]
    <3>1. pred \in zk /\ pred \in Servers /\ pred # 0
      BY <1>0, <2>5, ServersAreNumbers DEF CanRead
    <3>2. pred < s /\ \A x \in msnap[s] : x < s => x <= pred
      BY <1>0, <3>1, PredecessorIsLast
    <3>3. \A r \in zk : r < s => r <= pred
      BY <1>0, <1>5, <3>2 DEF AskPredecessor, ListsCurrent
    <3>4. Registered(s) /\ Registered(pred)
      BY <1>5, <3>1 DEF AskPredecessor, Registered, InOrder
    <3>5. \A q \in Servers, e \in 0 .. MaxEpoch :
             peer'[<<q, e>>] = IF q = s /\ e = 0 THEN pred ELSE peer[<<q, e>>]
      BY <2>5, ConnsAndThreads DEF TypeInv, TypeOK
    <3>6. LinksAdjacent'
      <4>1. Adjacent(s, 0, pred)'
        BY <1>5, <2>1, <3>1, <3>2, <3>3, <3>4 DEF AskPredecessor, Adjacent
      <4>2. QED
        BY <1>0, <1>5, <2>1, <3>1, <3>5, <4>1, StaysAdjacent DEF AskPredecessor, LinksAdjacent
    <3>7. QED
      BY <2>2, <2>3, <3>6
  <2>6. QED
    BY <1>5, <2>2, <2>3, <2>4, <2>5 DEF AskPredecessor
<1>6. QED
  BY <1>1, <1>2, <1>3, <1>4, <1>5 DEF MainStep

LEMMA WatcherKeepsOrder ==
  ASSUME TypeInv, OrderInv, NEW s \in Servers, WatcherStep(s)
  PROVE  OrderInv'
<1> USE DEF OrderInv, linkVars
<1>0. zk \subseteq Servers /\ heads \subseteq Servers /\ event \subseteq Servers
      /\ wsnap \in [Servers -> SUBSET Servers] /\ msnap \in [Servers -> SUBSET Servers]
      /\ \A q \in Servers, e \in 0 .. MaxEpoch : peer[<<q, e>>] \in Servers \cup {0}
  BY ConnsAndThreads DEF TypeInv, TypeOK
<1>1. UNCHANGED <<zk, heads, main, msnap>> /\ event' \subseteq event
  BY DEF WatcherStep, WatcherReads, WatcherReadsNothing, WatcherSetsNext
<1>2. \A x : Registered(x)' = Registered(x)
  BY <1>1 DEF Registered
<1>3. /\ \A q \in Servers : q # s => wsnap'[q] = wsnap[q]
      /\ wsnap'[s] \in {zk, {s}, {}, wsnap[s]}
      /\ wsnap'[s] = {s} => wsnap[s] = {s} \/ s \in event
  BY <1>0 DEF WatcherStep, WatcherReads, WatcherReadsNothing, WatcherSetsNext
<1>4. InOrder'
  <2>1. \A x \in (zk \cup heads \cup event)' : Registered(x)'
    BY <1>1, <1>2 DEF InOrder
  <2>2. \A x \in wsnap'[s] : Registered(x)
    BY <1>3 DEF InOrder
  <2>3. QED
    BY <1>1, <1>2, <1>3, <2>1, <2>2 DEF InOrder
<1>5. HeadsFirst'
  BY <1>1 DEF HeadsFirst
<1>6. ListsCurrent'
  <2>1. \A r \in zk : s < r /\ (\E x \in wsnap'[s] : r < x) => r \in wsnap'[s]
    <3> SUFFICES ASSUME NEW r \in zk, s < r, NEW x \in wsnap'[s], r < x
                 PROVE  r \in wsnap'[s]
      OBVIOUS
    <3>1. CASE wsnap'[s] = {s}
      BY <1>0, <3>1, ServersAreNumbers
    <3>2. CASE wsnap'[s] = wsnap[s]
      BY <3>2 DEF ListsCurrent
    <3>3. QED
      BY <1>3, <3>1, <3>2
  <2>2. QED
    BY <1>1, <1>3, <2>1 DEF ListsCurrent
<1>7. LinksAdjacent'
  <2>1. CASE UNCHANGED peer
    BY <1>0, <1>1, <1>2, <2>1, StaysAdjacent DEF LinksAdjacent
  <2>2. CASE WatcherSetsNext(s)
    <3>1. /\ \A x \in wsnap[s] : Registered(x)
          /\ \A r \in zk : s < r /\ (\E x \in wsnap[s] : r < x) => r \in wsnap[s]
      BY <1>0 DEF InOrder, ListsCurrent
    <3>2. wsnap[s] \in SUBSET Servers
      BY <1>0
    <3>3. QED
      BY <1>1, <1>2, <2>2, <3>1, <3>2, NewLinkIsAdjacent DEF WatcherSetsNext
  <2>3. QED
    BY <2>1, <2>2 DEF WatcherStep, WatcherReads, WatcherReadsNothing
<1>8. QED
  BY <1>4, <1>5, <1>6, <1>7

(* Whatever main and the watcher threads have read, a list of children      *)
(* lacks no child that matters to its server, and every connection that     *)
(* set_next_server or set_antecessor makes leads to the nearest server on   *)
(* its side: nobody of the chain is between its two ends, then or later.    *)
THEOREM ReconfigOrderInv == Spec => []OrderInv
<1>1. TypeInv /\ OrderInv /\ [Next]_vars => OrderInv'
  <2> SUFFICES ASSUME TypeInv, OrderInv, [Next]_vars PROVE OrderInv'
    OBVIOUS
  <2>1. CASE \E s \in Servers : MainStep(s) \/ WatcherStep(s)
    BY <2>1, MainKeepsOrder, WatcherKeepsOrder
  <2>2. CASE \E s \in Servers : Expire(s) \/ ExpireRunning(s)
    BY <2>2, LeavingKeepsOrder DEF Expire, ExpireRunning, linkVars
  <2>3. CASE UNCHANGED <<zk, heads, event, wsnap, main, msnap, peer>>
    BY <2>3 DEF OrderInv, InOrder, HeadsFirst, ListsCurrent, LinksAdjacent, Adjacent, Registered
  <2>4. QED
    <3>1. \A s \in Servers : Crash(s) => UNCHANGED <<zk, heads, event, wsnap, main, msnap, peer>>
      BY DEF Crash, zkVars, linkVars
    <3>2. \A t : WorkerStep(t) \/ SendPut(t)
             => UNCHANGED <<zk, heads, event, wsnap, main, msnap, peer>>
      BY DEF WorkerStep, RunningStep, Invoke, Write, ForwardFails, Unstick, Finish, SendPut, zkVars, linkVars
    <3>3. UNCHANGED vars => UNCHANGED <<zk, heads, event, wsnap, main, msnap, peer>>
      BY DEF vars, zkVars, linkVars
    <3>4. QED
      BY <2>1, <2>2, <2>3, <3>1, <3>2, <3>3 DEF Next
<1>2. QED
  BY <1>1, InitOrderInv, ReconfigTypeInv, PTL DEF Spec
---------------------------------------------------------------------------
(* The third layer: the threads and their connections. *)
LEMMA InitThreadInv == Init => ThreadInv
<1> SUFFICES ASSUME Init PROVE ThreadInv
  OBVIOUS
<1>1. NextIsOwn
  BY DEF NextIsOwn, Init
<1>2. Fresh
  <2>1. \A s \in Servers, e \in 0 .. MaxEpoch : e > epoch[s] => peer[<<s, e>>] = 0
    BY ReconfigAssumption, ConnsAndThreads DEF Init
  <2>2. QED
    BY <2>1 DEF Fresh, Init
<1>3. InvokedOK
  BY DEF InvokedOK, Init, PutThreads
<1>4. AskedRuns
  BY ConnsAndThreads DEF AskedRuns, Init
<1>5. QED
  BY <1>1, <1>2, <1>3, <1>4 DEF ThreadInv

(* A step of a main or a watcher thread changes the connections only by     *)
(* set_next_server and, for the one to the predecessor, by set_antecessor.  *)
LEMMA LinkSteps ==
  ASSUME TypeInv, [Next]_vars
  PROVE  \/ UNCHANGED <<next, epoch, peer>>
         \/ \E s \in Servers, x \in Servers \cup {0} :
               /\ AskPredecessor(s)
               /\ peer' = [peer EXCEPT ![<<s, 0>>] = x]
               /\ UNCHANGED <<next, epoch>>
         \/ \E s \in Servers :
               /\ next' = [next EXCEPT ![s] = None]
               /\ UNCHANGED <<epoch, peer>>
         \/ \E s \in Servers, x \in Servers :
               /\ epoch[s] < MaxEpoch
               /\ next' = [next EXCEPT ![s] = <<s, epoch[s] + 1>>]
               /\ epoch' = [epoch EXCEPT ![s] = epoch[s] + 1]
               /\ peer' = [peer EXCEPT ![<<s, epoch[s] + 1>>] = x]
<1> DEFINE Goal == \/ UNCHANGED <<next, epoch, peer>>
                   \/ \E s \in Servers, x \in Servers \cup {0} :
                         /\ AskPredecessor(s)
                         /\ peer' = [peer EXCEPT ![<<s, 0>>] = x]
                         /\ UNCHANGED <<next, epoch>>
                   \/ \E s \in Servers :
                         /\ next' = [next EXCEPT ![s] = None]
                         /\ UNCHANGED <<epoch, peer>>
                   \/ \E s \in Servers, x \in Servers :
                         /\ epoch[s] < MaxEpoch
                         /\ next' = [next EXCEPT ![s] = <<s, epoch[s] + 1>>]
                         /\ epoch' = [epoch EXCEPT ![s] = epoch[s] + 1]
                         /\ peer' = [peer EXCEPT ![<<s, epoch[s] + 1>>] = x]
<1>1. ASSUME NEW s \in Servers, NEW snap, SetNextServer(s, snap) PROVE Goal
  <2>1. \A x : CanRead(s, x) => x \in Servers
    BY DEF CanRead, TypeInv, TypeOK
  <2>2. QED
    BY <1>1, <2>1 DEF SetNextServer
<1>2. ASSUME NEW s \in Servers, AskPredecessor(s) PROVE Goal
  <2>1. \A x : CanRead(s, x) => x \in Servers
    BY DEF CanRead, TypeInv, TypeOK
  <2>2. QED
    BY <1>2, <2>1 DEF AskPredecessor
<1>3. \A s \in Servers : MainSetsNext(s) \/ WatcherSetsNext(s) => Goal
  BY <1>1 DEF MainSetsNext, WatcherSetsNext
<1>4. UNCHANGED <<next, epoch, peer>> => Goal
  OBVIOUS
<1>5. \A s \in Servers : MainStep(s) \/ WatcherStep(s) => Goal
  <2> HIDE DEF Goal
  <2>1. \A s \in Servers : \/ Start(s) \/ CreateNode(s) \/ SetWatch(s) \/ SetWatchFails(s)
                           \/ Load(s) \/ LoadFails(s) \/ WatcherReads(s) \/ WatcherReadsNothing(s)
                  => UNCHANGED <<next, epoch, peer>>
    BY DEF Start, CreateNode, SetWatch, SetWatchFails, Load, LoadFails, WatcherReads,
           WatcherReadsNothing, linkVars
  <2>2. QED
    BY <1>2, <1>3, <1>4, <2>1 DEF MainStep, WatcherStep
<1>6. \A s \in Servers : Crash(s) \/ Expire(s) \/ ExpireRunning(s) => UNCHANGED <<next, epoch, peer>>
  BY DEF Crash, Expire, ExpireRunning, linkVars
<1>7. \A t : WorkerStep(t) \/ SendPut(t) => UNCHANGED <<next, epoch, peer>>
  BY DEF WorkerStep, RunningStep, Invoke, Write, ForwardFails, Unstick, Finish, SendPut, linkVars
<1>8. UNCHANGED vars => UNCHANGED <<next, epoch, peer>>
  BY DEF vars, linkVars
<1>9. QED
  <2> HIDE DEF Goal
  <2>1. Goal
    BY <1>4, <1>5, <1>6, <1>7, <1>8 DEF Next
  <2>2. QED
    BY <2>1 DEF Goal

(* Only SendPut sends a put to a server, and only once. *)
LEMMA SendSteps ==
  ASSUME TypeInv, [Next]_vars
  PROVE  \/ UNCHANGED at
         \/ \E p \in Puts, h \in heads \cap alive :
               at[p] = 0 /\ at' = [at EXCEPT ![p] = h] /\ UNCHANGED <<heads, peer>>
<1>1. \A s \in Servers : MainStep(s) \/ WatcherStep(s) \/ Crash(s) \/ Expire(s) \/ ExpireRunning(s)
         => UNCHANGED at
  BY DEF MainStep, Start, CreateNode, SetWatch, SetWatchFails, MainSetsNext, AskPredecessor, Load,
         LoadFails, WatcherStep, WatcherReads, WatcherReadsNothing, WatcherSetsNext, Crash, Expire,
         ExpireRunning, threadVars
<1>2. \A t : WorkerStep(t) => UNCHANGED at
  BY DEF WorkerStep, RunningStep, Invoke, Write, ForwardFails, Unstick, Finish
<1>3. UNCHANGED vars => UNCHANGED at
  BY DEF vars, threadVars
<1>4. QED
  BY <1>1, <1>2, <1>3 DEF Next, SendPut, zkVars, linkVars

(* A thread that is busy stays with its server. *)
LEMMA BusyStay ==
  ASSUME TypeInv, ThreadInv, [Next]_vars
  PROVE  \A t \in PutThreads : pc[t] # "idle" => ServedAt(t)' = ServedAt(t)
<1> SUFFICES ASSUME NEW t \in PutThreads, pc[t] # "idle" PROVE ServedAt(t)' = ServedAt(t)
  OBVIOUS
<1>1. t \in Threads /\ ServedAt(t) # 0
  BY BusyTypes, ServersAreNumbers
<1>2. CASE t \in Puts
  BY <1>1, <1>2, SendSteps DEF ServedAt, TypeInv, TypeOK
<1>3. CASE t \notin Puts
  <2>1. t \in Conns /\ t[1] \in Servers /\ t[2] \in 0 .. MaxEpoch /\ t = <<t[1], t[2]>> /\ t[2] # 0
    BY <1>1, <1>3, ConnsAndThreads DEF Threads, PutThreads
  <2>2. peer[t] # 0
    BY <1>1, <1>3 DEF ServedAt
  <2>3. ~ (t[2] > epoch[t[1]])
    BY <2>1, <2>2 DEF ThreadInv, Fresh
  <2>4. \A s \in Servers : t # <<s, epoch[s] + 1>> /\ t # <<s, 0>>
    BY <2>1, <2>3, ReconfigAssumption DEF TypeInv, TypeOK
  <2>5. peer'[t] = peer[t]
    <3>1. \/ UNCHANGED peer
          \/ \E c, x : peer' = [peer EXCEPT ![c] = x] /\ t # c
      BY <2>4, LinkSteps
    <3>2. QED
      BY <2>1, <3>1 DEF TypeInv, TypeOK
  <2>6. QED
    BY <1>3, <2>5 DEF ServedAt
<1>4. QED
  BY <1>2, <1>3

(* A server that serves goes on serving, and who was a head was a head. *)
LEMMA ServingStays ==
  ASSUME TypeInv, [Next]_vars
  PROVE  /\ \A s \in Servers : main[s] = "serving" => main'[s] = "serving"
         /\ heads \subseteq heads'
<1>1. \A s \in Servers : MainStep(s) => \/ UNCHANGED main
                                        \/ \E m : main[s] # "serving" /\ main' = [main EXCEPT ![s] = m]
  BY DEF MainStep, Start, CreateNode, SetWatch, SetWatchFails, MainSetsNext, AskPredecessor, Load,
         LoadFails, GotoMain
<1>2. \A s \in Servers : WatcherStep(s) \/ Crash(s) \/ Expire(s) \/ ExpireRunning(s) => UNCHANGED main
  BY DEF WatcherStep, WatcherReads, WatcherReadsNothing, WatcherSetsNext, Crash, Expire,
         ExpireRunning
<1>3. \A t : WorkerStep(t) \/ SendPut(t) => UNCHANGED main
  BY DEF WorkerStep, RunningStep, Invoke, Write, ForwardFails, Unstick, Finish, SendPut
<1>4. \A s \in Servers : MainStep(s) => heads \subseteq heads'
  BY DEF MainStep, Start, CreateNode, SetWatch, SetWatchFails, MainSetsNext, AskPredecessor, Load,
         LoadFails, ChildrenBecome, zkVars
<1>5. \A s \in Servers : WatcherStep(s) \/ Crash(s) \/ Expire(s) \/ ExpireRunning(s)
         => heads \subseteq heads'
  BY DEF WatcherStep, WatcherReads, WatcherReadsNothing, WatcherSetsNext, Crash, Expire,
         ExpireRunning, ChildrenBecome, zkVars
<1>6. \A t : WorkerStep(t) \/ SendPut(t) => heads \subseteq heads'
  BY DEF WorkerStep, RunningStep, Invoke, Write, ForwardFails, Unstick, Finish, SendPut, zkVars
<1>7. UNCHANGED vars => UNCHANGED main /\ heads \subseteq heads'
  BY DEF vars, zkVars
<1>8. heads \subseteq heads'
  BY <1>4, <1>5, <1>6, <1>7 DEF Next
<1>9. UNCHANGED main \/ \E s \in Servers : \E m : main[s] # "serving" /\ main' = [main EXCEPT ![s] = m]
  BY <1>1, <1>2, <1>3, <1>7 DEF Next
<1>10. QED
  BY <1>8, <1>9 DEF TypeInv, TypeOK

(* The connection over which a forward goes is one that the server made to  *)
(* a successor.                                                             *)
LEMMA ForwardsGoOn ==
  ASSUME TypeInv, ThreadInv, NEW t \in PutThreads, pc[t] = "invoked",
         NEW c \in ForwardOutcomes(t), Usable(c)
  PROVE  /\ c \in Conns /\ c[1] = ServedAt(t) /\ c[2] # 0 /\ peer[c] \in alive
         /\ c \in PutThreads
<1>1. ServedAt(t) \in Servers /\ t \in Threads
  BY BusyTypes
<1>2. c = fwd[t] \/ c = next[ServedAt(t)]
  BY DEF ForwardOutcomes, Usable
<1>3. c \in Conns /\ c # None /\ peer[c] \in alive
  BY <1>1, <1>2, ConnsAndThreads DEF Usable, TypeInv, TypeOK
<1>4. c[1] = ServedAt(t) /\ c[2] # 0
  BY <1>1, <1>2, <1>3 DEF ThreadInv, NextIsOwn, InvokedOK
<1>5. c \in PutThreads
  BY <1>3, <1>4, ConnsAndThreads DEF PutThreads
<1>6. QED
  BY <1>3, <1>4, <1>5

(* How a thread gets a put, and how it is invoked. *)
LEMMA WriteSends ==
  ASSUME TypeInv, ThreadInv, NEW u \in PutThreads, Write(u), NEW t \in Threads
  PROVE  \/ t = u /\ pc'[t] \in {"waiting", "written", "stuck"}
         \/ t # u /\ pc'[t] = pc[t] /\ fwd'[t] = fwd[t] /\ (t \in Conns => op'[t] = op[t])
         \/ /\ t \in ForwardOutcomes(u) /\ Usable(t)
            /\ pc'[t] = "sent" /\ op'[t] = PutOf(u)
<1>1. pc[u] = "invoked" /\ u \in Threads /\ (GoesOn(u) \/ Stays(u))
  BY WriteParts DEF PutThreads
<1>2. CASE GoesOn(u)
  <2>1. PICK c \in ForwardOutcomes(u) :
          /\ Usable(c)
          /\ pc' = [pc EXCEPT ![u] = "waiting", ![c] = "sent"]
          /\ op' = [op EXCEPT ![c] = PutOf(u)]
          /\ fwd' = [fwd EXCEPT ![u] = c]
    BY <1>2 DEF GoesOn
  <2>2. c \in Conns /\ c \in Threads
    BY <1>1, <2>1, ForwardsGoOn, ConnsAndThreads
  <2>3. QED
    BY <1>1, <2>1, <2>2 DEF TypeInv, TypeOK
<1>3. CASE Stays(u)
  BY <1>1, <1>3 DEF Stays, TypeInv, TypeOK
<1>4. QED
  BY <1>1, <1>2, <1>3

LEMMA ThreadSteps ==
  ASSUME TypeInv, ThreadInv, [Next]_vars, NEW t \in Threads
  PROVE  /\ pc'[t] = "invoked" => \/ pc[t] = "invoked" /\ fwd'[t] = fwd[t]
                                  \/ t \in PutThreads /\ Invoke(t)
         /\ pc'[t] = "sent" => \/ pc[t] = "sent"
                               \/ \E s \in Servers : t = <<s, 0>> /\ AskPredecessor(s)
                               \/ t \in Puts /\ SendPut(t)
                               \/ \E u \in PutThreads : /\ Write(u) /\ t \in ForwardOutcomes(u)
                                                        /\ Usable(t) /\ op'[t] = PutOf(u)
<1> DEFINE Goal == /\ pc'[t] = "invoked" => \/ pc[t] = "invoked" /\ fwd'[t] = fwd[t]
                                            \/ t \in PutThreads /\ Invoke(t)
                   /\ pc'[t] = "sent" =>
                        \/ pc[t] = "sent"
                        \/ \E s \in Servers : t = <<s, 0>> /\ AskPredecessor(s)
                        \/ t \in Puts /\ SendPut(t)
                        \/ \E u \in PutThreads : /\ Write(u) /\ t \in ForwardOutcomes(u)
                                                 /\ Usable(t) /\ op'[t] = PutOf(u)
<1>0. pc \in [Threads -> PCs] /\ fwd \in [Threads -> Conns \cup {None}]
  BY DEF TypeInv, TypeOK
<1>1. (pc'[t] = pc[t] \/ pc'[t] \in {"idle", "lost", "waiting", "stuck", "written"}) /\ UNCHANGED fwd
        => Goal
  OBVIOUS
<1>2. \A s \in Servers : Die(s) /\ UNCHANGED fwd => Goal
  BY <1>0, <1>1 DEF Die
<1>3. \A s \in Servers : AskPredecessor(s) => Goal
  BY <1>0 DEF AskPredecessor
<1>4. \A s \in Servers : \A snap : SetNextServer(s, snap) /\ UNCHANGED fwd => Goal
  BY <1>1, <1>2 DEF SetNextServer
<1>5. \A p \in Puts : SendPut(p) => Goal
  BY <1>0 DEF SendPut
<1>6. \A u \in PutThreads : Invoke(u) => Goal
  BY <1>0 DEF Invoke
<1>7. \A u \in PutThreads : Write(u) => Goal
  BY WriteSends
<1>8. \A u \in PutThreads : ForwardFails(u) \/ Unstick(u) \/ Finish(u) => Goal
  <2>1. \A u \in PutThreads : ForwardFails(u) \/ Unstick(u) \/ Finish(u) =>
           (pc'[t] = pc[t] \/ pc'[t] \in {"idle", "lost", "waiting", "stuck", "written"}) /\ UNCHANGED fwd
    BY <1>0 DEF ForwardFails, Unstick, Finish
  <2>2. QED
    BY <1>1, <2>1
<1> HIDE DEF Goal
<1>9. \A s \in Servers : MainStep(s) => Goal
  <2>1. \A s \in Servers : \/ Start(s) \/ CreateNode(s) \/ SetWatch(s) \/ Load(s) \/ LoadFails(s)
           => (pc'[t] = pc[t] \/ pc'[t] = "idle") /\ UNCHANGED fwd
    BY <1>0 DEF Start, CreateNode, SetWatch, Load, LoadFails, threadVars
  <2>2. \A s \in Servers : SetWatchFails(s) => Goal
    BY <1>2 DEF SetWatchFails
  <2>3. \A s \in Servers : MainSetsNext(s) => Goal
    BY <1>4 DEF MainSetsNext
  <2>4. QED
    BY <1>1, <1>3, <2>1, <2>2, <2>3 DEF MainStep
<1>10. \A s \in Servers : WatcherStep(s) \/ Crash(s) \/ Expire(s) \/ ExpireRunning(s) => Goal
  <2>1. \A s \in Servers : WatcherReads(s) \/ Expire(s) \/ ExpireRunning(s)
           => pc'[t] = pc[t] /\ UNCHANGED fwd
    BY DEF WatcherReads, Expire, ExpireRunning, threadVars
  <2>2. \A s \in Servers : WatcherReadsNothing(s) \/ Crash(s)
           => Goal
    BY <1>1, <1>2 DEF WatcherReadsNothing, Crash
  <2>3. \A s \in Servers : WatcherSetsNext(s) => Goal
    BY <1>4 DEF WatcherSetsNext
  <2>4. QED
    BY <1>1, <2>1, <2>2, <2>3 DEF WatcherStep
<1>11. UNCHANGED vars => Goal
  BY <1>1 DEF vars, threadVars
<1>12. Goal
  BY <1>5, <1>6, <1>7, <1>8, <1>9, <1>10, <1>11 DEF Next, WorkerStep, RunningStep
<1>13. QED
  BY <1>12 DEF Goal

(* Who dies takes the requests it was sent with it. *)
LEMMA DeathSteps ==
  ASSUME TypeInv, [Next]_vars, NEW x \in alive
  PROVE  x \in alive' \/ Die(x)
<1>1. \A s \in Servers : MainStep(s) => x \in alive' \/ Die(x)
  BY DEF MainStep, Start, CreateNode, SetWatch, SetWatchFails, MainSetsNext, AskPredecessor, Load,
         LoadFails, SetNextServer, Die
<1>2. \A s \in Servers : WatcherStep(s) \/ Crash(s) \/ Expire(s) \/ ExpireRunning(s)
         => x \in alive' \/ Die(x)
  BY DEF WatcherStep, WatcherReads, WatcherReadsNothing, WatcherSetsNext, Crash, Expire,
         ExpireRunning, SetNextServer, Die
<1>3. \A t : WorkerStep(t) \/ SendPut(t) => UNCHANGED alive
  BY DEF WorkerStep, RunningStep, Invoke, Write, ForwardFails, Unstick, Finish, SendPut
<1>4. UNCHANGED vars => UNCHANGED alive
  BY DEF vars
<1>5. QED
  BY <1>1, <1>2, <1>3, <1>4 DEF Next

LEMMA NextKeepsThreadInv ==
  ASSUME TypeInv, TypeInv', ThreadInv, [Next]_vars
  PROVE  ThreadInv'
<1>0. /\ next \in [Servers -> Conns \cup {None}] /\ epoch \in [Servers -> 0 .. MaxEpoch]
      /\ peer \in [Conns -> Servers \cup {0}] /\ MaxEpoch \in Nat
  BY ReconfigAssumption DEF TypeInv, TypeOK
<1>1. NextIsOwn'
  <2>1. NextIsOwn /\ \A s \in Servers : epoch[s] + 1 # 0
    BY <1>0 DEF ThreadInv
  <2>2. CASE UNCHANGED next
    BY <2>1, <2>2 DEF NextIsOwn
  <2>3. CASE \E s \in Servers : next' = [next EXCEPT ![s] = None]
    BY <1>0, <2>1, <2>3 DEF NextIsOwn
  <2>4. CASE \E s \in Servers : next' = [next EXCEPT ![s] = <<s, epoch[s] + 1>>]
    BY <1>0, <2>1, <2>4 DEF NextIsOwn
  <2>5. QED
    BY <2>2, <2>3, <2>4, LinkSteps
<1>2. Fresh'
  <2>1. \A s \in Servers, e \in 0 .. MaxEpoch : e > epoch'[s] => peer'[<<s, e>>] = 0
    <3> SUFFICES ASSUME NEW s \in Servers, NEW e \in 0 .. MaxEpoch, e > epoch'[s]
                 PROVE  peer'[<<s, e>>] = 0
      OBVIOUS
    <3>1. \A q \in Servers, n \in 0 .. MaxEpoch : n > epoch[q] => peer[<<q, n>>] = 0
      BY DEF ThreadInv, Fresh
    <3>2. <<s, e>> \in Conns
      BY ConnsAndThreads
    <3>3. CASE UNCHANGED <<epoch, peer>>
      BY <3>1, <3>3
    <3>4. CASE UNCHANGED epoch /\ \E q \in Servers : \E x : peer' = [peer EXCEPT ![<<q, 0>>] = x]
      <4>1. e > epoch[s] /\ e # 0
        BY <1>0, <3>4
      <4>2. QED
        BY <1>0, <3>1, <3>2, <3>4, <4>1
    <3>5. CASE \E q \in Servers, x \in Servers :
                 /\ epoch' = [epoch EXCEPT ![q] = epoch[q] + 1]
                 /\ peer' = [peer EXCEPT ![<<q, epoch[q] + 1>>] = x]
      <4>1. PICK q \in Servers, x \in Servers :
                    /\ epoch' = [epoch EXCEPT ![q] = epoch[q] + 1]
                    /\ peer' = [peer EXCEPT ![<<q, epoch[q] + 1>>] = x]
        BY <3>5
      <4>2. e > epoch[s] /\ <<s, e>> # <<q, epoch[q] + 1>>
        BY <1>0, <4>1
      <4>3. QED
        BY <1>0, <3>1, <3>2, <4>1, <4>2
    <3>6. QED
      BY <3>3, <3>4, <3>5, LinkSteps
  <2>2. \A p \in Puts : at'[p] # 0 => at'[p] \in heads'
    BY SendSteps, ServingStays DEF ThreadInv, Fresh, TypeInv, TypeOK
  <2>3. QED
    BY <2>1, <2>2 DEF Fresh
<1>3. InvokedOK'
  <2> SUFFICES ASSUME NEW t \in PutThreads, pc'[t] = "invoked"
               PROVE  /\ main'[ServedAt(t)'] = "serving"
                      /\ fwd'[t] # None => fwd'[t][1] = ServedAt(t)' /\ fwd'[t][2] # 0
    BY DEF InvokedOK
  <2>1. t \in Threads
    BY DEF PutThreads
  <2>2. CASE pc[t] = "invoked" /\ fwd'[t] = fwd[t]
    BY <2>2, BusyStay, BusyTypes, ServingStays DEF ThreadInv, InvokedOK
  <2>3. CASE Invoke(t)
    <3>1. ServedAt(t)' = ServedAt(t) /\ ServedAt(t) \in Servers
      BY <2>3, BusyStay, BusyTypes DEF Invoke
    <3>2. fwd'[t] = next[ServedAt(t)] /\ main'[ServedAt(t)] = "serving"
      BY <2>1, <2>3 DEF Invoke, TypeInv, TypeOK
    <3>3. QED
      BY <3>1, <3>2 DEF ThreadInv, NextIsOwn
  <2>4. QED
    BY <2>1, <2>2, <2>3, ThreadSteps
<1>4. AskedRuns'
  <2> SUFFICES ASSUME NEW s \in Servers, pc'[<<s, 0>>] = "sent"
               PROVE  peer'[<<s, 0>>] \in alive'
    BY DEF AskedRuns
  <2> DEFINE c == <<s, 0>>
  <2>1. c \in Conns /\ c \in Threads /\ c \notin Puts /\ c \notin PutThreads /\ c[2] = 0
    BY ConnsAndThreads DEF PutThreads
  <2>2. CASE AskPredecessor(s)
    <3>1. pc[c] = "sent" \/ (peer'[c] \in alive /\ UNCHANGED alive)
      BY <1>0, <2>1, <2>2 DEF AskPredecessor
    <3>2. pc[c] = "sent" => peer[c] \in alive
      BY DEF ThreadInv, AskedRuns
    <3>3. QED
      BY <1>0, <2>1, <2>2, <3>1, <3>2 DEF AskPredecessor
  <2>3. CASE pc[c] = "sent" /\ ~ AskPredecessor(s)
    <3>1. peer[c] \in alive
      BY <2>3 DEF ThreadInv, AskedRuns
    <3>2. peer'[c] = peer[c]
      <4>1. \A q \in Servers : c # <<q, epoch[q] + 1>>
        BY <1>0
      <4>2. \A q \in Servers, x \in Servers \cup {0} :
               AskPredecessor(q) /\ peer' = [peer EXCEPT ![<<q, 0>>] = x] => peer'[c] = peer[c]
        BY <1>0, <2>1, <2>3
      <4>3. QED
        BY <1>0, <2>1, <4>1, <4>2, LinkSteps
    <3>3. ~ Die(peer[c])
      BY <2>1, <2>3 DEF Die, ServedAt
    <3>4. QED
      BY <3>1, <3>2, <3>3, DeathSteps
  <2>4. QED
    <3>1. \A u \in PutThreads : Write(u) => ~ (c \in ForwardOutcomes(u) /\ Usable(c))
      BY <2>1, ForwardsGoOn DEF Write
    <3>2. \A q \in Servers : c = <<q, 0>> => q = s
      OBVIOUS
    <3>3. pc[c] = "sent" \/ AskPredecessor(s)
      BY <2>1, <3>1, <3>2, ThreadSteps
    <3>4. QED
      BY <2>2, <2>3, <3>3
<1>5. QED
  BY <1>1, <1>2, <1>3, <1>4 DEF ThreadInv

(* next_server is NULL or a connection that its own server made to a        *)
(* successor, and so is the copy of it that a thread waiting for the write  *)
(* lock holds; a server that was asked for its table runs.                  *)
THEOREM ReconfigThreadInv == Spec => []ThreadInv
<1>1. TypeInv /\ TypeInv' /\ ThreadInv /\ [Next]_vars => ThreadInv'
  BY NextKeepsThreadInv
<1>2. QED
  BY <1>1, InitThreadInv, ReconfigTypeInv, PTL DEF Spec
---------------------------------------------------------------------------
(* The last layer: the puts. *)
LEMMA InitPutsInv == Init => PutsInv
<1> SUFFICES ASSUME Init PROVE PutsInv
  OBVIOUS
<1>1. \A s \in Servers : Handled(s) = {}
  BY DEF Init, Handled, Applied, ToSet
<1>2. \A t \in PutThreads : pc[t] = "idle"
  BY DEF Init, PutThreads
<1>3. alive \subseteq Servers
  BY InitTypeInv DEF TypeInv, TypeOK
<1>4. QED
  BY <1>1, <1>2, <1>3 DEF PutsInv, EmptyUntilServing, InFlightHandled, HandledInOrder

(* Only a write and the loading of a table change the puts a server has     *)
(* seen, only a write gives a thread a put, and servers join one by one.    *)
LEMMA PutSteps ==
  ASSUME [Next]_vars
  PROVE  /\ \/ UNCHANGED <<log, missed, op>>
            \/ \E s \in Servers : Load(s)
            \/ \E u \in PutThreads : Write(u)
         /\ \A x \in zk' \ zk : x \in Servers /\ CreateNode(x)
         /\ \A x \in alive' \ alive : x \in Servers /\ Start(x)
<1>1. \A s \in Servers : MainStep(s) =>
         /\ Load(s) \/ UNCHANGED <<log, missed, op>>
         /\ \A x \in zk' \ zk : x = s /\ CreateNode(x)
         /\ \A x \in alive' \ alive : x = s /\ Start(x)
  BY DEF MainStep, Start, CreateNode, SetWatch, SetWatchFails, MainSetsNext, AskPredecessor, Load,
         LoadFails, SetNextServer, Die, ChildrenBecome, zkVars, threadVars
<1>2. \A s \in Servers : WatcherStep(s) \/ Crash(s) \/ Expire(s) \/ ExpireRunning(s) =>
         /\ UNCHANGED <<log, missed, op>>
         /\ zk' \subseteq zk /\ alive' \subseteq alive
  BY DEF WatcherStep, WatcherReads, WatcherReadsNothing, WatcherSetsNext, Crash, Expire,
         ExpireRunning, SetNextServer, Die, ChildrenBecome, zkVars, threadVars
<1>3. \A t : WorkerStep(t) \/ SendPut(t) => /\ Write(t) \/ UNCHANGED <<log, missed, op>>
                                            /\ UNCHANGED <<zk, alive>>
  BY DEF WorkerStep, RunningStep, Invoke, Write, ForwardFails, Unstick, Finish, SendPut, zkVars
<1>4. \A p : SendPut(p) => UNCHANGED <<log, missed, op>>
  BY DEF SendPut
<1>5. UNCHANGED vars => UNCHANGED <<log, missed, op, zk, alive>>
  BY DEF vars, zkVars, threadVars
<1>6. QED
  BY <1>1, <1>2, <1>3, <1>4, <1>5 DEF Next

(* What table_put and the loading of a table add to the puts that have been *)
(* at a server.                                                             *)
LEMMA AppendToSet ==
  ASSUME NEW S, NEW l \in Seq(S), NEW p \in S
  PROVE  ToSet(Append(l, p)) = ToSet(l) \cup {p}
<1>1. /\ DOMAIN l = 1 .. Len(l) /\ DOMAIN Append(l, p) = 1 .. Len(l) + 1 /\ Len(l) \in Nat
      /\ \A i \in 1 .. Len(l) : Append(l, p)[i] = l[i]
      /\ Append(l, p)[Len(l) + 1] = p
  OBVIOUS
<1>2. QED
  BY <1>1 DEF ToSet

LEMMA WriteHandles ==
  ASSUME TypeInv, NEW u \in PutThreads, Write(u), NEW s \in Servers
  PROVE  Handled(s)' = IF s = ServedAt(u) THEN Handled(s) \cup {PutOf(u)} ELSE Handled(s)
<1>1. ServedAt(u) \in Servers /\ PutOf(u) \in Puts
  BY BusyTypes DEF Write
<1>2. log \in [Servers -> Seq(Puts)]
  BY DEF TypeInv, TypeOK
<1>0. \/ log' = [log EXCEPT ![ServedAt(u)] = Append(@, PutOf(u))] /\ UNCHANGED missed
      \/ /\ \E r \in {0, -1} : missed' = missed \cup {<<ServedAt(u), PutOf(u), r>>}
         /\ UNCHANGED log
  BY WriteParts DEF Kept, Stores, Refuses
<1>3. CASE log' = [log EXCEPT ![ServedAt(u)] = Append(@, PutOf(u))] /\ UNCHANGED missed
  <2>1. CASE s = ServedAt(u)
    <3>1. log[s] \in Seq(Puts) /\ log'[s] = Append(log[s], PutOf(u))
      BY <1>1, <1>2, <1>3, <2>1
    <3>2. Applied(s)' = Applied(s) \cup {PutOf(u)}
      BY <1>1, <3>1, AppendToSet DEF Applied
    <3>3. QED
      BY <1>3, <2>1, <3>2 DEF Handled
  <2>2. CASE s # ServedAt(u)
    BY <1>2, <1>3, <2>2 DEF Handled, Applied
  <2>3. QED
    BY <2>1, <2>2
<1>4. CASE /\ \E r \in {0, -1} : missed' = missed \cup {<<ServedAt(u), PutOf(u), r>>}
           /\ UNCHANGED log
  <2>1. PICK r \in {0, -1} : missed' = missed \cup {<<ServedAt(u), PutOf(u), r>>}
    BY <1>4
  <2> DEFINE m == <<ServedAt(u), PutOf(u), r>>
  <2>2. m[1] = ServedAt(u) /\ m[2] = PutOf(u) /\ m \in missed'
    BY <2>1
  <2>3. CASE s = ServedAt(u)
    <3>1. \A x : (\E n \in missed' : n[1] = s /\ x = n[2])
                 <=> (x = PutOf(u) \/ \E n \in missed : n[1] = s /\ x = n[2])
      <4> HIDE DEF m
      <4>1. \A n : n \in missed' <=> n \in missed \/ n = m
        BY <2>1 DEF m
      <4>2. QED
        BY <2>2, <2>3, <4>1
    <3>2. QED
      BY <1>4, <2>3, <3>1 DEF Handled, Applied
  <2>4. CASE s # ServedAt(u)
    <3>1. \A n : n \in missed' /\ n[1] = s <=> n \in missed /\ n[1] = s
      BY <2>1, <2>2, <2>4
    <3>2. QED
      BY <1>4, <2>4, <3>1 DEF Handled, Applied
  <2>5. QED
    BY <2>3, <2>4
<1>5. QED
  BY <1>0, <1>3, <1>4

LEMMA LoadHandles ==
  ASSUME TypeInv, PutsInv, NEW q \in Servers, Load(q), NEW s \in Servers
  PROVE  Handled(s)' = IF s = q THEN Handled(peer[<<q, 0>>]) ELSE Handled(s)
<1> DEFINE pred == peer[<<q, 0>>]
<1>1. Handled(q) = {}
  BY DEF Load, GotoMain, PutsInv, EmptyUntilServing
<1>2. /\ log' = [log EXCEPT ![q] = log[pred]]
      /\ missed' = missed \cup {<<q, m[2], m[3]>> : m \in {n \in missed : n[1] = pred}}
      /\ log \in [Servers -> Seq(Puts)]
  BY DEF Load, TypeInv, TypeOK
<1>3. Applied(s)' = IF s = q THEN Applied(pred) ELSE Applied(s)
  BY <1>2 DEF Applied
<1> DEFINE copies == {<<q, m[2], m[3]>> : m \in {n \in missed : n[1] = pred}}
<1>4. \A n : n \in missed' <=> n \in missed \/ n \in copies
  BY <1>2
<1>5. \A n \in copies : n[1] = q /\ \E m \in missed : m[1] = pred /\ n[2] = m[2]
  OBVIOUS
<1>6. \A m \in missed : m[1] = pred => \E n \in copies : n[1] = q /\ n[2] = m[2]
  <2> SUFFICES ASSUME NEW m \in missed, m[1] = pred
               PROVE  \E n \in copies : n[1] = q /\ n[2] = m[2]
    OBVIOUS
  <2>1. <<q, m[2], m[3]>> \in copies
    OBVIOUS
  <2>2. <<q, m[2], m[3]>>[1] = q /\ <<q, m[2], m[3]>>[2] = m[2]
    OBVIOUS
  <2>3. QED
    BY <2>1, <2>2, Zenon
<1> HIDE DEF copies
<1>7. \A x : x \in {m[2] : m \in {n \in missed' : n[1] = s}}
             <=> \E n \in missed' : n[1] = s /\ x = n[2]
  OBVIOUS
<1>8. \A v, x : x \in {m[2] : m \in {n \in missed : n[1] = v}}
             <=> \E n \in missed : n[1] = v /\ x = n[2]
  OBVIOUS
<1>9. CASE s = q
  <2>1. \A x : ~ \E n \in missed : n[1] = q /\ x = n[2]
    BY <1>1, <1>8 DEF Handled
  <2>2. \A x : (\E n \in missed' : n[1] = q /\ x = n[2])
               <=> \E n \in missed : n[1] = pred /\ x = n[2]
    <3>1. ASSUME NEW x, NEW n \in missed', n[1] = q, x = n[2]
          PROVE  \E m \in missed : m[1] = pred /\ x = m[2]
      <4>1. n \in copies
        BY <1>4, <2>1, <3>1
      <4>2. PICK m \in missed : m[1] = pred /\ n[2] = m[2]
        BY <1>5, <4>1
      <4>3. QED
        BY <3>1, <4>2
    <3>2. ASSUME NEW x, NEW m \in missed, m[1] = pred, x = m[2]
          PROVE  \E n \in missed' : n[1] = q /\ x = n[2]
      <4>1. PICK n \in copies : n[1] = q /\ n[2] = m[2]
        BY <1>6, <3>2
      <4>2. n \in missed'
        BY <1>4, <4>1
      <4>3. QED
        BY <3>2, <4>1, <4>2
    <3>3. QED
      BY <3>1, <3>2
  <2>3. \A x : x \in {m[2] : m \in {n \in missed' : n[1] = s}}
               <=> x \in {m[2] : m \in {n \in missed : n[1] = pred}}
    BY <1>7, <1>8, <1>9, <2>2
  <2>4. QED
    BY <1>3, <1>9, <2>3 DEF Handled
<1>10. CASE s # q
  <2>1. \A n : n \in missed' /\ n[1] = s <=> n \in missed /\ n[1] = s
    BY <1>4, <1>5, <1>10
  <2>2. QED
    BY <1>3, <1>10, <2>1 DEF Handled
<1>11. QED
  BY <1>9, <1>10

(* No put that has been at a server is forgotten. *)
LEMMA HandledStays ==
  ASSUME TypeInv, PutsInv, [Next]_vars, NEW s \in Servers
  PROVE  Handled(s) \subseteq Handled(s)'
<1>1. CASE UNCHANGED <<log, missed>>
  BY <1>1 DEF Handled, Applied
<1>2. CASE \E u \in PutThreads : Write(u)
  BY <1>2, WriteHandles
<1>3. ASSUME NEW q \in Servers, Load(q) PROVE Handled(s) \subseteq Handled(s)'
  <2>1. main[q] # "serving"
    BY <1>3 DEF Load, GotoMain
  <2>2. Handled(q) = {}
    BY <2>1 DEF PutsInv, EmptyUntilServing
  <2>3. QED
    BY <1>3, <2>2, LoadHandles
<1>4. QED
  BY <1>1, <1>2, <1>3, PutSteps

(* The server that a thread works for has been registered. *)
LEMMA ServedRegistered ==
  ASSUME TypeInv, OrderInv, ThreadInv, NEW t \in PutThreads, pc[t] # "idle"
  PROVE  Registered(ServedAt(t))
<1>1. t \in Threads /\ ServedAt(t) \in Servers /\ ServedAt(t) # 0
  BY BusyTypes, ServersAreNumbers
<1>2. CASE t \in Puts
  BY <1>1, <1>2 DEF ServedAt, ThreadInv, Fresh, OrderInv, InOrder
<1>3. CASE t \notin Puts
  <2>1. t \in Conns /\ t[1] \in Servers /\ t[2] \in 0 .. MaxEpoch /\ t = <<t[1], t[2]>>
    BY <1>1, <1>3, ConnsAndThreads DEF Threads
  <2>2. peer[t] = ServedAt(t) /\ peer[<<t[1], t[2]>>] = peer[t]
    BY <1>3, <2>1 DEF ServedAt
  <2>3. Adjacent(t[1], t[2], peer[t])
    BY <1>1, <2>1, <2>2 DEF OrderInv, LinksAdjacent
  <2>4. QED
    BY <2>2, <2>3 DEF Adjacent
<1>4. QED
  BY <1>2, <1>3

(* A server that is new in the chain, or new at all, has nobody behind it   *)
(* that has seen a put.                                                     *)
LEMMA NewcomersAreLast ==
  ASSUME TypeInv, OrderInv, [Next]_vars, NEW r \in alive' \cap zk', r \notin alive \cap zk
  PROVE  /\ CreateNode(r) /\ ~ Registered(r) /\ r \in Servers
         /\ \A s \in Servers : r < s => ~ Registered(s)
<1>1. \A x \in Servers : ~ Registered(x) => x \notin zk
  BY DEF OrderInv, InOrder
<1>2. r \in Servers
  BY PutSteps
<1>3. CASE r \notin zk
  <2>1. CreateNode(r)
    BY <1>3, PutSteps
  <2>2. ~ Registered(r)
    BY <2>1 DEF CreateNode, GotoMain, Registered
  <2>3. QED
    BY <1>2, <2>1, <2>2 DEF OrderInv, InOrder
<1>4. CASE r \in zk
  <2>1. Start(r)
    BY <1>4, PutSteps
  <2>2. ~ Registered(r)
    BY <2>1 DEF Start, Registered
  <2>3. QED
    BY <1>1, <1>2, <1>4, <2>2
<1>5. QED
  BY <1>3, <1>4

LEMMA NextKeepsPutsInv ==
  ASSUME TypeInv, TypeInv', OrderInv, ThreadInv, PutsInv, [Next]_vars
  PROVE  PutsInv'
<1>0. /\ zk \subseteq Servers /\ alive \subseteq Servers /\ alive' \subseteq Servers
      /\ \A s \in Servers : s \in Nat
  BY ServersAreNumbers DEF TypeInv, TypeOK
<1>1. \A u \in PutThreads : Write(u) =>
         /\ main[ServedAt(u)] = "serving" /\ pc[u] = "invoked"
         /\ ServedAt(u) \in Servers /\ PutOf(u) \in Puts
         /\ UNCHANGED <<zk, alive, peer>>
  BY BusyTypes DEF Write, ThreadInv, InvokedOK, zkVars, linkVars
<1>2. EmptyUntilServing'
  <2> SUFFICES ASSUME NEW s \in Servers, main'[s] # "serving" PROVE Handled(s)' = {}
    BY DEF EmptyUntilServing
  <2>1. main[s] # "serving" /\ Handled(s) = {}
    BY ServingStays DEF PutsInv, EmptyUntilServing
  <2>2. CASE UNCHANGED <<log, missed>>
    BY <2>1, <2>2 DEF Handled, Applied
  <2>3. ASSUME NEW u \in PutThreads, Write(u) PROVE Handled(s)' = {}
    BY <1>1, <2>1, <2>3, WriteHandles
  <2>4. ASSUME NEW q \in Servers, Load(q) PROVE Handled(s)' = {}
    <3>1. main'[q] = "serving"
      BY <2>4 DEF Load, GotoMain, TypeInv, TypeOK
    <3>2. QED
      BY <2>1, <2>4, <3>1, LoadHandles
  <2>5. QED
    BY <2>2, <2>3, <2>4, PutSteps
<1>3. HandledInOrder'
  <2> SUFFICES ASSUME NEW r \in alive' \cap zk', NEW s \in alive', r < s
               PROVE  Handled(s)' \subseteq Handled(r)'
    BY DEF HandledInOrder
  <2>1. r \in Servers /\ s \in Servers
    BY <1>0
  <2>2. CASE r \notin alive \cap zk
    <3>1. CreateNode(r) /\ ~ Registered(s)
      BY <2>1, <2>2, NewcomersAreLast
    <3>2. Handled(s) = {}
      BY <2>1, <3>1 DEF Registered, PutsInv, EmptyUntilServing
    <3>3. Handled(s)' = Handled(s)
      BY <3>1 DEF CreateNode, Handled, Applied
    <3>4. QED
      BY <3>2, <3>3
  <2>3. CASE s \notin alive
    <3>1. Start(s)
      BY <2>3, PutSteps
    <3>2. Handled(s) = {}
      BY <2>1, <3>1 DEF Start, PutsInv, EmptyUntilServing
    <3>3. Handled(s)' = Handled(s)
      BY <3>1 DEF Start, Handled, Applied
    <3>4. QED
      BY <3>2, <3>3
  <2>4. CASE r \in alive \cap zk /\ s \in alive
    <3>1. Handled(s) \subseteq Handled(r) /\ Handled(r) \subseteq Handled(r)'
      BY <2>1, <2>4, HandledStays DEF PutsInv, HandledInOrder
    <3>2. CASE UNCHANGED <<log, missed>>
      BY <3>1, <3>2 DEF Handled, Applied
    <3>3. ASSUME NEW u \in PutThreads, Write(u) PROVE Handled(s)' \subseteq Handled(r)'
      <4>1. s = ServedAt(u) => PutOf(u) \in Handled(r)
        BY <1>1, <2>4, <3>3 DEF PutsInv, InFlightHandled
      <4>2. QED
        BY <2>1, <3>1, <3>3, <4>1, WriteHandles
    <3>4. ASSUME NEW q \in Servers, Load(q) PROVE Handled(s)' \subseteq Handled(r)'
      <4> DEFINE pred == peer[<<q, 0>>]
      <4>1. CASE s # q
        BY <2>1, <3>1, <3>4, <4>1, LoadHandles
      <4>2. CASE s = q
        <5>1. pred \in alive /\ pred \in Servers
          BY <1>0, <3>4 DEF Load, ThreadInv, AskedRuns
        <5>2. Adjacent(q, 0, pred)
          BY <5>1, ServersAreNumbers, ConnsAndThreads DEF OrderInv, LinksAdjacent
        <5>3. r <= pred
          BY <2>4, <4>2, <5>2 DEF Adjacent
        <5>4. Handled(pred) \subseteq Handled(r)
          <6>1. r = pred \/ r < pred
            BY <1>0, <2>1, <5>1, <5>3
          <6>2. QED
            BY <2>4, <5>1, <6>1 DEF PutsInv, HandledInOrder
        <5>5. Handled(s)' = Handled(pred)
          BY <2>1, <3>4, <4>2, LoadHandles
        <5>6. QED
          BY <3>1, <5>4, <5>5
      <4>3. QED
        BY <4>1, <4>2
    <3>5. QED
      BY <3>2, <3>3, <3>4, PutSteps
  <2>5. QED
    BY <2>2, <2>3, <2>4
<1>4. InFlightHandled'
  <2> SUFFICES ASSUME NEW t \in PutThreads, NEW r \in alive' \cap zk',
                      pc'[t] \in {"sent", "invoked"}, r < ServedAt(t)'
               PROVE  PutOf(t)' \in Handled(r)'
    BY DEF InFlightHandled
  <2>1. r \in Servers /\ t \in Threads /\ \A s \in Servers : t # <<s, 0>>
    BY <1>0 DEF PutThreads
  <2>2. CASE pc[t] \in {"sent", "invoked"} /\ PutOf(t)' = PutOf(t)
    <3>1. ServedAt(t)' = ServedAt(t) /\ ServedAt(t) \in Servers /\ Registered(ServedAt(t))
      BY <2>2, BusyStay, BusyTypes, ServedRegistered
    <3>2. r \in alive \cap zk
      BY <3>1, NewcomersAreLast
    <3>3. PutOf(t) \in Handled(r)
      BY <2>2, <3>1, <3>2 DEF PutsInv, InFlightHandled
    <3>4. QED
      BY <2>1, <2>2, <3>3, HandledStays
  <2>3. CASE t \in Puts /\ SendPut(t)
    <3>1. PICK h \in heads \cap alive : at' = [at EXCEPT ![t] = h]
      BY <2>3 DEF SendPut
    <3>2. ServedAt(t)' = h /\ h \in Servers
      BY <1>0, <2>3, <3>1 DEF ServedAt, TypeInv, TypeOK
    <3>3. r \in zk
      BY <2>3 DEF SendPut, zkVars
    <3>4. h <= r
      BY <3>1, <3>3 DEF OrderInv, HeadsFirst
    <3>5. QED
      BY <1>0, <2>1, <3>2, <3>4
  <2>4. ASSUME NEW u \in PutThreads, Write(u), t \in ForwardOutcomes(u), Usable(t), op'[t] = PutOf(u)
        PROVE  PutOf(t)' \in Handled(r)'
    <3>1. /\ t \in Conns /\ t[1] = ServedAt(u) /\ t[2] # 0 /\ peer[t] \in alive
          /\ t[1] \in Servers /\ t[2] \in 0 .. MaxEpoch /\ t = <<t[1], t[2]>> /\ t \notin Puts
      BY <1>1, <2>4, ForwardsGoOn, ConnsAndThreads
    <3>2. ServedAt(t)' = peer[t] /\ PutOf(t)' = PutOf(u) /\ peer[t] \in Servers /\ r \in alive \cap zk
      BY <1>0, <1>1, <2>4, <3>1 DEF ServedAt, PutOf
    <3>3. Adjacent(t[1], t[2], peer[t])
      <4>1. peer[<<t[1], t[2]>>] = peer[t] /\ peer[t] # 0
        BY <3>1, <3>2, ServersAreNumbers
      <4>2. QED
        BY <3>1, <4>1 DEF OrderInv, LinksAdjacent
    <3>4. r <= ServedAt(u)
      BY <3>1, <3>2, <3>3 DEF Adjacent
    <3>5. CASE r = ServedAt(u)
      BY <2>1, <2>4, <3>2, <3>5, WriteHandles
    <3>6. CASE r # ServedAt(u)
      <4>1. r < ServedAt(u)
        BY <1>0, <1>1, <2>1, <2>4, <3>4, <3>6
      <4>2. PutOf(u) \in Handled(r)
        BY <1>1, <2>4, <3>2, <4>1 DEF PutsInv, InFlightHandled
      <4>3. QED
        BY <2>1, <3>2, <4>2, HandledStays
    <3>7. QED
      BY <3>5, <3>6
  <2>5. pc[t] \in {"sent", "invoked"} =>
          \/ PutOf(t)' = PutOf(t)
          \/ \E u \in PutThreads : /\ Write(u) /\ t \in ForwardOutcomes(u) /\ Usable(t)
                                   /\ op'[t] = PutOf(u)
    <3>1. UNCHANGED op => PutOf(t)' = PutOf(t)
      BY DEF PutOf
    <3>2. \A q \in Servers : Load(q) => UNCHANGED op
      BY DEF Load
    <3>3. \A u \in PutThreads : Write(u) =>
             \/ PutOf(t)' = PutOf(t)
             \/ t \in ForwardOutcomes(u) /\ Usable(t) /\ op'[t] = PutOf(u)
      BY <2>1, WriteSends DEF PutOf, Threads
    <3>4. QED
      BY <3>1, <3>2, <3>3, PutSteps
  <2>6. QED
    <3>1. \A u \in PutThreads : Invoke(u) => pc[u] = "sent"
      BY DEF Invoke
    <3>2. QED
      BY <2>1, <2>2, <2>3, <2>4, <2>5, <3>1, ThreadSteps
<1>5. QED
  BY <1>2, <1>3, <1>4 DEF PutsInv

(* In every reachable state the puts on their way and those that a server   *)
(* has seen have been through the servers of the chain before it: worker    *)
(* threads, watchers, joins, crashes and lost sessions keep PutsInv.        *)
THEOREM ReconfigPutsInv == Spec => []PutsInv
<1>1. /\ TypeInv /\ TypeInv' /\ OrderInv /\ ThreadInv /\ PutsInv /\ [Next]_vars => PutsInv'
  BY NextKeepsPutsInv
<1>2. QED
  BY <1>1, InitPutsInv, ReconfigTypeInv, ReconfigOrderInv, ReconfigThreadInv, PTL DEF Spec

(* The update propagation invariant of chain replication, whatever joins,   *)
(* crashes, ends of sessions, failed allocations and reconnections happen:  *)
(* a running server has applied only puts that have been in table_put of    *)
(* every running server of the chain before it.                             *)
THEOREM ReconfigUpdatePropagation == Spec => []UpdatePropagation
<1>1. PutsInv => UpdatePropagation
  BY DEF PutsInv, HandledInOrder, UpdatePropagation, Handled
<1>2. QED
  BY <1>1, ReconfigPutsInv, PTL
---------------------------------------------------------------------------
(***************************************************************************)
(* The watch.  A server whose watch is not set has an event to handle, and *)
(* one that has none to handle holds, or has used, the children there are. *)
(***************************************************************************)

(* Whether main of s has set the watch. *)
Watching(s) == main[s] \notin {"off", "listening", "created"}

WatchKept ==
    /\ \A s \in Servers : ~ Watching(s) => s \notin armed \cup event /\ wsnap[s] = {}
    /\ \A s \in zk \ blind : Watching(s) => s \in armed \cup event
    /\ \A s \in zk \ blind : s \notin event /\ wsnap[s] # {} => wsnap[s] = zk

(* Whether main of s has set next_server. *)
HasSetNext(s) == Watching(s) /\ main[s] # "watching"

KnowsNext == \A s \in (alive \cap zk) \ blind :
    /\ HasSetNext(s) /\ s \notin event /\ wsnap[s] = {}
    /\ s \in Founders \/ Successor(s, msnap[s]) = Successor(s, zk)
    => ForwardsToSuccessor(s)

FoundersServe == \A s \in Founders : main[s] = "serving"

WatchInv == WatchKept /\ KnowsNext /\ FoundersServe


LEMMA InitWatchInv == Init => WatchInv
<1> SUFFICES ASSUME Init PROVE WatchInv
  OBVIOUS
<1>1. /\ zk = Founders /\ armed = Founders /\ event = {} /\ alive = Founders
      /\ \A s \in Servers : wsnap[s] = {} /\ (main[s] = IF s \in Founders THEN "serving" ELSE "off")
      /\ Founders \subseteq Servers
  BY InitTypeInv DEF Init, TypeInv, TypeOK
<1>2. WatchKept
  BY <1>1 DEF WatchKept, Watching
<1>3. KnowsNext
  <2> SUFFICES ASSUME NEW s \in Founders PROVE ForwardsToSuccessor(s)
    BY <1>1 DEF KnowsNext
  <2>1. /\ NumFounders \in Nat /\ Founders = 1 .. NumFounders /\ s \in Servers
        /\ next[s] = IF s < NumFounders THEN <<s, 1>> ELSE None
    BY <1>1, ReconfigAssumption DEF Founders, Init
  <2>2. CASE s < NumFounders
    <3>1. next[s] = <<s, 1>> /\ <<s, 1>> \in Conns /\ next[s] # None
      <4>1. 1 \in 0 .. MaxEpoch
        BY ReconfigAssumption
      <4>2. QED
        BY <2>1, <2>2, <4>1, ConnsAndThreads
    <3>2. peer[next[s]] = s + 1
      BY <2>2, <3>1 DEF Init
    <3>3. \A x \in zk : x > s /\ (\A y \in zk : y > s => x <= y) => x = s + 1
      BY <1>1, <2>1, <2>2
    <3>4. {x \in zk : x > s} # {}
      <4>1. s + 1 \in zk /\ s + 1 > s
        BY <1>1, <2>1, <2>2
      <4>2. QED
        BY <4>1
    <3>5. QED
      BY <3>1, <3>2, <3>3, <3>4 DEF ForwardsToSuccessor
  <2>3. CASE ~ (s < NumFounders)
    <3>1. {x \in zk : x > s} = {} /\ next[s] = None
      BY <1>1, <2>1, <2>3
    <3>2. QED
      BY <3>1 DEF ForwardsToSuccessor
  <2>4. QED
    BY <2>2, <2>3
<1>4. QED
  BY <1>1, <1>2, <1>3 DEF WatchInv, FoundersServe

(* set_next_server, called with a list that is right about the successor,   *)
(* connects to it.                                                          *)
LEMMA SetNextForwards ==
  ASSUME TypeInv, NEW s \in alive' \cap zk, NEW snap, SetNextServer(s, snap),
         Successor(s, snap) = Successor(s, zk), UNCHANGED zk, s \notin blind'
  PROVE  ForwardsToSuccessor(s)'
<1> DEFINE succ == Successor(s, zk)
           after == {x \in zk : x > s}
           c == <<s, epoch[s] + 1>>
<1>0. /\ s \in Servers /\ zk \subseteq Servers /\ alive \subseteq Servers
      /\ next \in [Servers -> Conns \cup {None}] /\ peer \in [Conns -> Servers \cup {0}]
      /\ epoch[s] \in 0 .. MaxEpoch
  BY DEF TypeInv, TypeOK
<1>1. CASE after = {}
  <2>1. succ = 0 /\ ~ CanRead(s, succ)
    BY <1>0, <1>1, ServersAreNumbers DEF Successor, CanRead
  <2>2. next'[s] = None
    BY <1>0, <2>1 DEF SetNextServer
  <2>3. QED
    BY <1>1, <2>2 DEF ForwardsToSuccessor
<1>2. CASE after # {}
  <2>1. succ \in after /\ \A y \in after : succ <= y
    <3>1. after \subseteq Nat
      BY <1>0, ServersAreNumbers
    <3>2. succ = Min(after)
      BY <1>2 DEF Successor
    <3>3. QED
      <4> HIDE DEF after, succ
      <4> QED BY <1>2, <3>1, <3>2, MinIsLeast
  <2>2. CanRead(s, succ) /\ succ # 0 /\ succ \in Servers
    BY <1>0, <2>1, ServersAreNumbers DEF CanRead
  <2>3. /\ UNCHANGED alive
        /\ IF succ \in alive
           THEN /\ epoch[s] < MaxEpoch /\ next' = [next EXCEPT ![s] = c]
                /\ peer' = [peer EXCEPT ![c] = succ]
           ELSE next' = [next EXCEPT ![s] = None]
    <3>1. \A x : blind' # x \cup {s}
      OBVIOUS
    <3> HIDE DEF c, succ
    <3> QED BY <2>2, <3>1 DEF SetNextServer, succ, c
  <2>4. SUFFICES ASSUME NEW x \in after, x \in alive', \A y \in after : x <= y
                 PROVE  next'[s] # None /\ peer'[next'[s]] = x
    BY <1>2 DEF ForwardsToSuccessor
  <2>5. x = succ
    BY <1>0, <2>1, <2>4, ServersAreNumbers
  <2>6. epoch[s] < MaxEpoch /\ next' = [next EXCEPT ![s] = c] /\ peer' = [peer EXCEPT ![c] = succ]
    BY <2>3, <2>4, <2>5
  <2>7. c \in Conns /\ c # None
    <3>1. epoch[s] + 1 \in 0 .. MaxEpoch
      BY <1>0, <2>6, ReconfigAssumption
    <3>2. QED
      BY <1>0, <3>1, ConnsAndThreads
  <2>8. QED
    BY <1>0, <2>5, <2>6, <2>7
<1>3. QED
  BY <1>1, <1>2

(* Otherwise what a server knows stays right while /chain stays as it is. *)
LEMMA StillForwards ==
  ASSUME NEW s, ForwardsToSuccessor(s), UNCHANGED zk, next'[s] = next[s],
         next[s] # None => peer'[next[s]] = peer[next[s]], alive' \cap zk \subseteq alive
  PROVE  ForwardsToSuccessor(s)'
  BY DEF ForwardsToSuccessor

(* A change of the children tells every server that watches. *)
LEMMA ChildrenKeepWatch ==
  ASSUME WatchInv, NEW z \in SUBSET Servers, ChildrenBecome(z), UNCHANGED <<wsnap, blind>>,
         \A s \in Servers : Watching(s)' = Watching(s),
         \A s \in z \ zk : ~ Watching(s)
  PROVE  WatchKept' /\ KnowsNext'
<1>1. zk' = z /\ event' = event \cup (armed \cap z) /\ armed' = {}
  BY DEF ChildrenBecome
<1>2. \A s \in zk' \ blind : Watching(s) => s \in event'
  BY <1>1 DEF WatchInv, WatchKept
<1>3. WatchKept'
  BY <1>1, <1>2 DEF WatchInv, WatchKept
<1>4. KnowsNext'
  BY <1>1, <1>2 DEF KnowsNext, HasSetNext
<1>5. QED
  BY <1>3, <1>4
(* Steps that change neither the children nor what a watcher does. *)
LEMMA QuietKeepsWatch ==
  ASSUME TypeInv, WatchInv, UNCHANGED <<zk, armed, event, wsnap>>, blind \subseteq blind',
         \A s \in Servers : (Watching(s)' <=> Watching(s)) /\ (HasSetNext(s)' <=> HasSetNext(s)),
         \A s \in zk : msnap'[s] = msnap[s] /\ next'[s] = next[s],
         \A s \in zk : next[s] # None => peer'[next[s]] = peer[next[s]],
         alive' \cap zk \subseteq alive
  PROVE  WatchKept' /\ KnowsNext'
<1>1. zk \subseteq Servers
  BY DEF TypeInv, TypeOK
<1>2. WatchKept'
  BY <1>1 DEF WatchInv, WatchKept
<1>3. KnowsNext'
  <2> SUFFICES ASSUME NEW s \in (alive' \cap zk') \ blind', HasSetNext(s)', s \notin event',
        (wsnap[s] = {})',
                      s \in Founders \/ (Successor(s, msnap[s]) = Successor(s, zk))'
               PROVE  ForwardsToSuccessor(s)'
    BY DEF KnowsNext
  <2>1. ForwardsToSuccessor(s)
    BY <1>1 DEF WatchInv, KnowsNext, Successor
  <2>2. QED
    BY <2>1, StillForwards
<1>4. QED
  BY <1>2, <1>3

(* What a call of set_next_server by server q leaves alone. *)
LEMMA SetNextLeaves ==
  ASSUME TypeInv, ThreadInv, NEW q \in Servers, NEW snap, SetNextServer(q, snap)
  PROVE  /\ alive' \subseteq alive /\ blind \subseteq blind'
         /\ \A s \in Servers : s # q => next'[s] = next[s]
         /\ \A s \in Servers : s # q /\ next[s] # None => peer'[next[s]] = peer[next[s]]
<1>1. /\ next \in [Servers -> Conns \cup {None}] /\ peer \in [Conns -> Servers \cup {0}]
      /\ \A s \in Servers : next[s] # None => next[s][1] = s
  BY DEF TypeInv, TypeOK, ThreadInv, NextIsOwn
<1>2. QED
  BY <1>1 DEF SetNextServer, Die

LEMMA MainKeepsWatch ==
  ASSUME TypeInv, OrderInv, ThreadInv, WatchInv, NEW q \in Servers, MainStep(q)
  PROVE  WatchKept' /\ KnowsNext'
<1>0. /\ zk \subseteq Servers /\ main \in [Servers -> MainPCs] /\ msnap \in [Servers -> SUBSET Servers]
      /\ \A s \in zk : Registered(s)
      /\ \A s \in Servers : next[s] \in Conns \cup {None}
      /\ peer \in [Conns -> Servers \cup {0}]
  BY DEF TypeInv, TypeOK, OrderInv, InOrder
<1>1. CASE Start(q)
  <2>1. q \notin zk
    BY <1>0, <1>1 DEF Start, Registered
  <2>2. QED
    BY <1>0, <1>1, <2>1, QuietKeepsWatch DEF Start, Watching, HasSetNext, zkVars, linkVars
<1>2. CASE CreateNode(q)
  <2>1. \A s \in Servers : Watching(s)' = Watching(s)
    BY <1>0, <1>2 DEF CreateNode, GotoMain, Watching
  <2>2. ~ Watching(q)
    BY <1>2 DEF CreateNode, GotoMain, Watching
  <2>3. QED
    BY <1>0, <1>2, <2>1, <2>2, ChildrenKeepWatch DEF CreateNode
<1>3. CASE SetWatch(q)
  <2>1. /\ UNCHANGED <<zk, event, wsnap, next, peer, alive, blind>> /\ armed' = armed \cup {q}
        /\ ~ Watching(q) /\ ~ HasSetNext(q)'
        /\ \A s \in Servers : s # q => /\ Watching(s)' = Watching(s)
                                       /\ HasSetNext(s)' = HasSetNext(s)
                                       /\ msnap'[s] = msnap[s]
    BY <1>0, <1>3 DEF SetWatch, GotoMain, Watching, HasSetNext, linkVars
  <2>2. WatchKept'
    BY <1>0, <2>1, <1>3 DEF WatchInv, WatchKept, SetWatch, GotoMain, Watching
  <2>3. KnowsNext'
    <3> SUFFICES ASSUME NEW s \in (alive' \cap zk') \ blind', HasSetNext(s)', s \notin event',
        (wsnap[s] = {})',
                        s \in Founders \/ (Successor(s, msnap[s]) = Successor(s, zk))'
                 PROVE  ForwardsToSuccessor(s)'
      BY DEF KnowsNext
    <3>1. ForwardsToSuccessor(s)
      BY <1>0, <2>1 DEF WatchInv, KnowsNext, Successor
    <3>2. QED
      BY <2>1, <3>1, StillForwards
  <2>4. QED
    BY <2>2, <2>3
<1>4. CASE SetWatchFails(q)
  BY <1>0, <1>4, QuietKeepsWatch
     DEF SetWatchFails, Die, Watching, HasSetNext, zkVars, linkVars
<1>5. CASE MainSetsNext(q)
  <2>1. /\ UNCHANGED <<zk, armed, event, wsnap, msnap>>
        /\ \A s \in Servers : /\ Watching(s)' = Watching(s)
                              /\ s # q => HasSetNext(s)' = HasSetNext(s)
        /\ main[q] = "watching"
    BY <1>0, <1>5 DEF MainSetsNext, GotoMain, Watching, HasSetNext, zkVars
  <2>2. SetNextServer(q, msnap[q]) /\ blind \subseteq blind'
    BY <1>5, SetNextLeaves DEF MainSetsNext
  <2>3. WatchKept'
    BY <2>1, <2>2, <1>0 DEF WatchInv, WatchKept
  <2>4. KnowsNext'
    <3> SUFFICES ASSUME NEW s \in (alive' \cap zk') \ blind', HasSetNext(s)', s \notin event',
        (wsnap[s] = {})',
                        s \in Founders \/ (Successor(s, msnap[s]) = Successor(s, zk))'
                 PROVE  ForwardsToSuccessor(s)'
      BY DEF KnowsNext
    <3>1. CASE s = q
      <4>1. q \notin Founders
        BY <2>1 DEF WatchInv, FoundersServe
      <4>2. Successor(s, msnap[s]) = Successor(s, zk)
        BY <2>1, <3>1, <4>1 DEF Successor
      <4>3. QED
        BY <2>1, <2>2, <3>1, <4>2, SetNextForwards
    <3>2. CASE s # q
      <4>1. s \in Servers /\ alive' \subseteq alive
        BY <1>0, <2>1, <2>2, SetNextLeaves
      <4>2. ForwardsToSuccessor(s)
        BY <2>1, <2>2, <3>2, <4>1 DEF WatchInv, KnowsNext, Successor
      <4>3. QED
        BY <2>1, <2>2, <3>2, <4>1, <4>2, StillForwards, SetNextLeaves
    <3>3. QED
      BY <3>1, <3>2
  <2>5. QED
    BY <2>3, <2>4
<1>6. CASE AskPredecessor(q)
  <2>1. \A s \in Servers : next[s] # None => next[s] # <<q, 0>>
    BY DEF ThreadInv, NextIsOwn
  <2>2. \A s \in Servers : next[s] # None => peer'[next[s]] = peer[next[s]]
    BY <1>0, <1>6, <2>1 DEF AskPredecessor
  <2>3. QED
    BY <1>0, <1>6, <2>2, QuietKeepsWatch DEF AskPredecessor, GotoMain, Watching, HasSetNext, zkVars
<1>7. CASE Load(q) \/ LoadFails(q)
  BY <1>0, <1>7, QuietKeepsWatch
     DEF Load, LoadFails, GotoMain, Watching, HasSetNext, zkVars, linkVars
<1>8. QED
  BY <1>1, <1>2, <1>3, <1>4, <1>5, <1>6, <1>7 DEF MainStep

LEMMA WatcherKeepsWatch ==
  ASSUME TypeInv, OrderInv, ThreadInv, WatchInv, NEW q \in Servers, WatcherStep(q)
  PROVE  WatchKept' /\ KnowsNext'
<1>0. /\ zk \subseteq Servers /\ wsnap \in [Servers -> SUBSET Servers]
      /\ UNCHANGED <<zk, main, msnap>>
      /\ \A s \in Servers : Watching(s)' = Watching(s) /\ HasSetNext(s)' = HasSetNext(s)
      /\ \A s \in Servers : ~ Watching(s) => s \notin event /\ wsnap[s] = {}
  <2>1. UNCHANGED <<zk, main, msnap>>
    BY DEF WatcherStep, WatcherReads, WatcherReadsNothing, WatcherSetsNext, zkVars
  <2>2. \A s \in Servers : ~ Watching(s) => s \notin event /\ wsnap[s] = {}
    BY DEF WatchInv, WatchKept
  <2>3. QED
    BY <2>1, <2>2 DEF TypeInv, TypeOK, Watching, HasSetNext
<1>1. CASE WatcherReads(q)
  <2>1. /\ q \in zk /\ q \in event /\ event' = event \ {q} /\ armed' = armed \cup {q}
        /\ wsnap' = [wsnap EXCEPT ![q] = zk]
        /\ UNCHANGED <<next, peer, alive, blind>>
    BY <1>1 DEF WatcherReads, linkVars
  <2>2. WatchKept'
    BY <1>0, <2>1 DEF WatchInv, WatchKept
  <2>3. KnowsNext'
    <3> SUFFICES ASSUME NEW s \in (alive' \cap zk') \ blind', HasSetNext(s)', s \notin event',
        (wsnap[s] = {})',
                        s \in Founders \/ (Successor(s, msnap[s]) = Successor(s, zk))'
                 PROVE  ForwardsToSuccessor(s)'
      BY DEF KnowsNext
    <3>1. s # q /\ s \in Servers
      BY <1>0, <2>1
    <3>2. ForwardsToSuccessor(s)
      BY <1>0, <2>1, <3>1 DEF WatchInv, KnowsNext, Successor
    <3>3. QED
      BY <1>0, <2>1, <3>2, StillForwards
  <2>4. QED
    BY <2>2, <2>3
<1>2. CASE WatcherReadsNothing(q)
  <2>1. /\ q \notin zk \ blind' /\ event' = event \ {q} /\ q \in event
        /\ UNCHANGED <<armed, next, peer>> /\ blind \subseteq blind'
        /\ alive' \subseteq alive
        /\ \A s \in Servers : s # q => wsnap'[s] = wsnap[s]
    BY <1>0, <1>2 DEF WatcherReadsNothing, linkVars, Die
  <2>2. WatchKept'
    BY <1>0, <2>1 DEF WatchInv, WatchKept
  <2>3. KnowsNext'
    <3> SUFFICES ASSUME NEW s \in (alive' \cap zk') \ blind', HasSetNext(s)', s \notin event',
        (wsnap[s] = {})',
                        s \in Founders \/ (Successor(s, msnap[s]) = Successor(s, zk))'
                 PROVE  ForwardsToSuccessor(s)'
      BY DEF KnowsNext
    <3>1. s # q /\ s \in Servers
      BY <1>0, <2>1
    <3>2. ForwardsToSuccessor(s)
      BY <1>0, <2>1, <3>1 DEF WatchInv, KnowsNext, Successor
    <3>3. QED
      BY <1>0, <2>1, <3>2, StillForwards
  <2>4. QED
    BY <2>2, <2>3
<1>3. CASE WatcherSetsNext(q)
  <2>1. /\ wsnap[q] # {} /\ wsnap' = [wsnap EXCEPT ![q] = {}] /\ SetNextServer(q, wsnap[q])
        /\ UNCHANGED <<armed, event>> /\ blind \subseteq blind'
    BY <1>3, SetNextLeaves DEF WatcherSetsNext
  <2>2. WatchKept'
    BY <1>0, <2>1 DEF WatchInv, WatchKept
  <2>3. KnowsNext'
    <3> SUFFICES ASSUME NEW s \in (alive' \cap zk') \ blind', HasSetNext(s)', s \notin event',
        (wsnap[s] = {})',
                        s \in Founders \/ (Successor(s, msnap[s]) = Successor(s, zk))'
                 PROVE  ForwardsToSuccessor(s)'
      BY DEF KnowsNext
    <3>1. CASE s = q
      <4>1. wsnap[q] = zk
        BY <1>0, <2>1, <3>1 DEF WatchInv, WatchKept
      <4>2. QED
        BY <1>0, <2>1, <3>1, <4>1, SetNextForwards
    <3>2. CASE s # q
      <4>1. s \in Servers /\ alive' \subseteq alive
        BY <1>0, <2>1, SetNextLeaves
      <4>2. ForwardsToSuccessor(s)
        BY <1>0, <2>1, <3>2, <4>1 DEF WatchInv, KnowsNext, Successor
      <4>3. QED
        BY <1>0, <2>1, <3>2, <4>1, <4>2, StillForwards, SetNextLeaves
    <3>3. QED
      BY <3>1, <3>2
  <2>4. QED
    BY <2>2, <2>3
<1>4. QED
  BY <1>1, <1>2, <1>3 DEF WatcherStep

LEMMA NextKeepsWatchInv ==
  ASSUME TypeInv, OrderInv, ThreadInv, WatchInv, [Next]_vars
  PROVE  WatchInv'
<1>1. FoundersServe'
  <2>1. Founders \subseteq Servers
    BY InitTypeInv, ReconfigAssumption DEF Founders, Servers
  <2>2. QED
    BY <2>1, ServingStays DEF WatchInv, FoundersServe
<1>2. \A s \in Servers : MainStep(s) \/ WatcherStep(s) => WatchKept' /\ KnowsNext'
  BY MainKeepsWatch, WatcherKeepsWatch
<1>3. \A s \in Servers : Expire(s) \/ ExpireRunning(s) => WatchKept' /\ KnowsNext'
  <2> SUFFICES ASSUME NEW s \in Servers, Expire(s) \/ ExpireRunning(s) PROVE WatchKept' /\ KnowsNext'
    OBVIOUS
  <2>1. zk \ {s} \in SUBSET Servers
    BY DEF TypeInv, TypeOK
  <2>2. ChildrenBecome(zk \ {s}) /\ UNCHANGED <<wsnap, blind, main>>
    BY DEF Expire, ExpireRunning
  <2>3. QED
    BY <2>1, <2>2, ChildrenKeepWatch DEF Watching
<1>4. \A s \in Servers : Crash(s) => WatchKept' /\ KnowsNext'
  BY QuietKeepsWatch DEF Crash, Die, Watching, HasSetNext, zkVars, linkVars
<1>5. (\E t : WorkerStep(t) \/ SendPut(t)) \/ UNCHANGED vars => WatchKept' /\ KnowsNext'
  <2>1. \A t : WorkerStep(t) \/ SendPut(t) \/ UNCHANGED vars
           => UNCHANGED <<zkVars, main, msnap, alive, next, peer>>
    BY DEF WorkerStep, RunningStep, Invoke, Write, ForwardFails, Unstick, Finish, SendPut, vars,
           linkVars
  <2>2. QED
    BY <2>1, QuietKeepsWatch DEF Watching, HasSetNext, zkVars
<1>6. QED
  BY <1>1, <1>2, <1>3, <1>4, <1>5 DEF Next, WatchInv

(* The one-shot watches lose nothing: each server of the chain whose own    *)
(* calls got through has its watch set or an event to handle, and knows its *)
(* successor when it has none.                                              *)
THEOREM ReconfigWatchInv == Spec => []WatchInv
<1>1. TypeInv /\ OrderInv /\ ThreadInv /\ WatchInv /\ [Next]_vars => WatchInv'
  BY NextKeepsWatchInv
<1>2. QED
  BY <1>1, InitWatchInv, ReconfigTypeInv, ReconfigOrderInv, ReconfigThreadInv, PTL DEF Spec

(* No change of the chain falls between the firing of a one-shot watch and  *)
(* its being set again: a server that has handled its events, and none of   *)
(* whose own calls to ZooKeeper or to its successor has failed with nothing *)
(* wrong at the other end, forwards to the server behind it, for any number *)
(* of joins, crashes, ended sessions and calls of other servers that fail.  *)
THEOREM ReconfigNextIsSuccessor == Spec => []NextIsSuccessor
<1>1. TypeInv /\ WatchInv => NextIsSuccessor
  BY DEF WatchInv, KnowsNext, NextIsSuccessor, Settled, Serving, HasSetNext, Watching
<1>2. QED
  BY <1>1, ReconfigWatchInv, ReconfigTypeInv, PTL
---------------------------------------------------------------------------
(* A thread with a put that its server has still to serve. *)
Frontier(t) == pc[t] \in {"sent", "invoked"}

(* A put is on its way to one server of the first chain at most, ... *)
OneFrontier == \A t, u \in PutThreads :
    /\ Frontier(t) /\ Frontier(u) /\ PutOf(t) = PutOf(u)
    /\ ServedAt(t) \in Founders /\ ServedAt(u) \in Founders
    => t = u

(* ... and neither that server nor one behind it has it, ... *)
NewBehind == \A t \in PutThreads, s \in Founders :
    Frontier(t) /\ ServedAt(t) <= s => PutOf(t) \notin Applied(s)

(* ... nor any, before it is sent. *)
UnsentIsNowhere == \A p \in Puts : at[p] = 0 =>
    /\ \A s \in Founders : p \notin Applied(s)
    /\ \A t \in PutThreads : Frontier(t) => PutOf(t) # p

CountedOnce == \A s \in Founders :
    IsFiniteSet(Applied(s)) /\ Cardinality(Applied(s)) = Len(log[s])

OnceInv == OneFrontier /\ NewBehind /\ UnsentIsNowhere /\ CountedOnce

(* A thread whose put stays on its way to the same server. *)
Unmoved(t) == /\ Frontier(t) /\ PutOf(t)' = PutOf(t) /\ ServedAt(t)' = ServedAt(t)
              /\ ~ Write(t)

(* A put that is on its way was so, or is sent by a client, or goes on to a *)
(* later server.                                                            *)
LEMMA FrontierSteps ==
  ASSUME TypeInv, OrderInv, ThreadInv, [Next]_vars, NEW t \in PutThreads, Frontier(t)'
  PROVE  \/ Unmoved(t)
         \/ t \in Puts /\ SendPut(t) /\ PutOf(t)' = t
         \/ \E u \in PutThreads : /\ Write(u) /\ PutOf(t)' = PutOf(u)
                                  /\ ServedAt(u) < ServedAt(t)'
<1>1. t \in Threads /\ pc'[t] \in {"sent", "invoked"} /\ \A s \in Servers : t # <<s, 0>>
  BY DEF PutThreads, Frontier
<1>2. ASSUME NEW u \in PutThreads, Write(u), t \in ForwardOutcomes(u), Usable(t), op'[t] = PutOf(u)
      PROVE  PutOf(t)' = PutOf(u) /\ ServedAt(u) < ServedAt(t)'
  <2>1. /\ t \in Conns /\ t[1] = ServedAt(u) /\ t[2] # 0 /\ peer[t] \in alive
        /\ t[1] \in Servers /\ t[2] \in 0 .. MaxEpoch /\ t = <<t[1], t[2]>> /\ t \notin Puts
    BY <1>2, ForwardsGoOn, ConnsAndThreads DEF Write
  <2>2. ServedAt(t)' = peer[t] /\ PutOf(t)' = PutOf(u) /\ peer[t] # 0
    BY <1>2, <2>1, ServersAreNumbers DEF ServedAt, PutOf, Write, linkVars, TypeInv, TypeOK
  <2>3. Adjacent(t[1], t[2], peer[t])
    <3>1. peer[<<t[1], t[2]>>] = peer[t]
      BY <2>1
    <3>2. QED
      BY <2>1, <2>2, <3>1 DEF OrderInv, LinksAdjacent
  <2>4. QED
    BY <2>1, <2>2, <2>3 DEF Adjacent
<1>3. CASE Frontier(t) /\ PutOf(t)' = PutOf(t) /\ ~ Write(t)
  BY <1>3, BusyStay DEF Frontier, Unmoved
<1>4. CASE t \in Puts /\ SendPut(t)
  BY <1>4 DEF PutOf
<1>5. CASE Write(t)
  <2>1. t \in ForwardOutcomes(t) /\ Usable(t) /\ op'[t] = PutOf(t)
    BY <1>1, <1>5, WriteSends
  <2>2. QED
    BY <1>2, <1>5, <2>1
<1>6. Frontier(t) =>
        \/ PutOf(t)' = PutOf(t)
        \/ \E u \in PutThreads : /\ Write(u) /\ t \in ForwardOutcomes(u) /\ Usable(t)
                                 /\ op'[t] = PutOf(u)
  <2>1. UNCHANGED op => PutOf(t)' = PutOf(t)
    BY DEF PutOf
  <2>2. \A q \in Servers : Load(q) => UNCHANGED op
    BY DEF Load
  <2>3. \A u \in PutThreads : Write(u) =>
           \/ PutOf(t)' = PutOf(t)
           \/ t \in ForwardOutcomes(u) /\ Usable(t) /\ op'[t] = PutOf(u)
    BY <1>1, WriteSends DEF PutOf, Threads
  <2>4. QED
    BY <2>1, <2>2, <2>3, PutSteps
<1>7. \/ Frontier(t)
      \/ t \in Puts /\ SendPut(t)
      \/ \E u \in PutThreads : /\ Write(u) /\ t \in ForwardOutcomes(u) /\ Usable(t)
                               /\ op'[t] = PutOf(u)
  <2>1. \A u \in PutThreads : Invoke(u) => pc[u] = "sent"
    BY DEF Invoke
  <2>2. QED
    BY <1>1, <2>1, ThreadSteps DEF Frontier
<1>8. QED
  BY <1>2, <1>3, <1>4, <1>5, <1>6, <1>7

(* A step moves one put at most. *)
LEMMA OneMoves ==
  ASSUME TypeInv, OrderInv, ThreadInv, [Next]_vars
  PROVE  \E c : \A t \in PutThreads : t # c /\ Frontier(t)' => Unmoved(t)
<1>1. ASSUME NEW u \in PutThreads, Write(u)
      PROVE  \E c : \A t \in PutThreads : t # c /\ Frontier(t)' => Unmoved(t)
  <2>1. /\ u \in Threads /\ pc \in [Threads -> PCs] /\ op \in [Conns -> Puts \cup {0}]
        /\ UNCHANGED <<at, peer>> /\ (GoesOn(u) \/ Stays(u))
    BY <1>1, WriteParts DEF PutThreads, TypeInv, TypeOK
  <2>2. PICK c : \/ /\ pc' = [pc EXCEPT ![u] = "waiting", ![c] = "sent"]
                    /\ op' = [op EXCEPT ![c] = PutOf(u)]
                 \/ /\ \E how \in {"written", "stuck"} : pc' = [pc EXCEPT ![u] = how]
                    /\ UNCHANGED op
    BY <2>1 DEF GoesOn, Stays
  <2>3. ASSUME NEW t \in PutThreads, t # c, Frontier(t)' PROVE Unmoved(t)
    <3>1. t \in Threads /\ (t \notin Puts => t \in Conns)
      BY DEF PutThreads, Threads
    <3>2. t # u
      BY <2>1, <2>2, <2>3 DEF Frontier
    <3>3. pc'[t] = pc[t] /\ (t \in Conns => op'[t] = op[t])
      BY <2>1, <2>2, <2>3, <3>1, <3>2
    <3>4. ~ Write(t)
      <4>1. Write(t) => pc[t] = "invoked" /\ pc'[t] # "invoked"
        BY <3>1, WriteSends DEF Write
      <4>2. QED
        BY <3>3, <4>1
    <3>5. QED
      BY <2>1, <2>3, <3>1, <3>3, <3>4 DEF Unmoved, Frontier, PutOf, ServedAt
  <2>4. QED
    BY <2>3
<1>2. ASSUME NEW p \in Puts, SendPut(p)
      PROVE  \E c : \A t \in PutThreads : t # c /\ Frontier(t)' => Unmoved(t)
  <2>1. ASSUME NEW t \in PutThreads, t # p, Frontier(t)' PROVE Unmoved(t)
    <3>1. at[p] = 0 /\ (t \in Puts => at'[t] = at[t])
      BY <1>2, <2>1 DEF SendPut, TypeInv, TypeOK
    <3>2. ~ (t \in Puts /\ SendPut(t))
      <4>1. ASSUME t \in Puts, SendPut(t) PROVE FALSE
        <5>1. at[t] = 0 /\ at'[t] \in heads
          BY <4>1 DEF SendPut, TypeInv, TypeOK
        <5>2. 0 \notin heads
          BY ServersAreNumbers DEF TypeInv, TypeOK
        <5>3. QED
          BY <3>1, <4>1, <5>1, <5>2
      <4>2. QED
        BY <4>1
    <3>3. ASSUME NEW u \in PutThreads, Write(u) PROVE FALSE
      <4>1. UNCHANGED at
        BY <3>3 DEF Write
      <4>2. 0 \notin heads
        BY ServersAreNumbers DEF TypeInv, TypeOK
      <4>3. QED
        BY <1>2, <4>1, <4>2 DEF SendPut, TypeInv, TypeOK
    <3>4. QED
      BY <2>1, <3>2, <3>3, FrontierSteps
  <2>2. QED
    BY <2>1
<1>3. QED
  BY <1>1, <1>2, FrontierSteps
(* What a step does to the table of a server of the first chain. *)
LEMMA FounderLog ==
  ASSUME TypeInv, WatchInv, [Next]_vars, NEW s \in Founders
  PROVE  /\ s \in Servers /\ s \in Nat /\ log[s] \in Seq(Puts)
         /\ \/ log'[s] = log[s]
            \/ \E u \in PutThreads : /\ Write(u) /\ ServedAt(u) = s /\ PutOf(u) \in Puts
                                     /\ log'[s] = Append(log[s], PutOf(u))
<1>1. s \in Servers /\ s \in Nat /\ log \in [Servers -> Seq(Puts)] /\ main[s] = "serving"
  BY ReconfigAssumption DEF Founders, Servers, TypeInv, TypeOK, WatchInv, FoundersServe
<1>2. ASSUME NEW q \in Servers, Load(q) PROVE log'[s] = log[s]
  BY <1>1, <1>2 DEF Load, GotoMain
<1>3. ASSUME NEW u \in PutThreads, Write(u)
      PROVE  log'[s] = log[s] \/ (ServedAt(u) = s /\ PutOf(u) \in Puts
                                  /\ log'[s] = Append(log[s], PutOf(u)))
  <2>1. ServedAt(u) \in Servers /\ PutOf(u) \in Puts
    BY <1>3, BusyTypes DEF Write
  <2>2. QED
    BY <1>1, <1>3, <2>1, WriteParts DEF Kept, Stores, Refuses
<1>4. QED
  BY <1>1, <1>2, <1>3, PutSteps

LEMMA NextKeepsOnceInv ==
  ASSUME TypeInv, TypeInv', OrderInv, ThreadInv, WatchInv, OnceInv, [Next]_vars
  PROVE  OnceInv'
<1>0. \A u \in PutThreads : Write(u) =>
         Frontier(u) /\ ServedAt(u) \in Servers /\ ServedAt(u) \in Nat /\ PutOf(u) \in Puts
  BY BusyTypes, ServersAreNumbers DEF Write, Frontier
<1>1. NumFounders \in Nat /\ \A x : x \in Founders <=> x \in Nat /\ x # 0 /\ x <= NumFounders
  BY ReconfigAssumption DEF Founders
<1>2. \A s \in Founders : \/ Applied(s)' = Applied(s)
                          \/ \E u \in PutThreads : /\ Write(u) /\ ServedAt(u) = s
                                                   /\ Applied(s)' = Applied(s) \cup {PutOf(u)}
  <2> SUFFICES ASSUME NEW s \in Founders
               PROVE  \/ Applied(s)' = Applied(s)
                      \/ \E u \in PutThreads : /\ Write(u) /\ ServedAt(u) = s
                                               /\ Applied(s)' = Applied(s) \cup {PutOf(u)}
    OBVIOUS
  <2>1. log'[s] = log[s] => Applied(s)' = Applied(s)
    BY DEF Applied
  <2>2. \A p \in Puts : log'[s] = Append(log[s], p) => Applied(s)' = Applied(s) \cup {p}
    BY FounderLog, AppendToSet DEF Applied
  <2>3. QED
    BY <2>1, <2>2, FounderLog
<1>3. \A t \in PutThreads : /\ Frontier(t) => ServedAt(t) \in Nat /\ ServedAt(t) # 0
                            /\ Frontier(t)' => ServedAt(t)' \in Nat /\ ServedAt(t)' # 0
  <2> SUFFICES ASSUME NEW t \in PutThreads
               PROVE  /\ Frontier(t) => ServedAt(t) \in Nat /\ ServedAt(t) # 0
                      /\ Frontier(t)' => ServedAt(t)' \in Nat /\ ServedAt(t)' # 0
    OBVIOUS
  <2>1. t \in Threads
    BY DEF PutThreads
  <2>2. ServedAt(t) \in Servers \cup {0} /\ ServedAt(t)' \in Servers \cup {0}
    BY <2>1 DEF TypeInv, TypeOK, ServedAt, Threads
  <2>3. QED
    BY <2>1, <2>2, ServersAreNumbers DEF TypeInv, BusyOK, Frontier
<1>4. OneFrontier'
  <2>1. ASSUME NEW x \in PutThreads, NEW y \in PutThreads, x # y, PutOf(x)' = PutOf(y)',
               ServedAt(x)' \in Founders, ServedAt(y)' \in Founders,
               Unmoved(x), Frontier(y)'
        PROVE  FALSE
    <3>1. CASE Unmoved(y)
      BY <2>1, <3>1 DEF OnceInv, OneFrontier, Unmoved
    <3>2. CASE y \in Puts /\ SendPut(y) /\ PutOf(y)' = y
      BY <2>1, <3>2 DEF OnceInv, UnsentIsNowhere, SendPut, Unmoved
    <3>3. CASE \E u \in PutThreads : /\ Write(u) /\ PutOf(y)' = PutOf(u)
                                     /\ ServedAt(u) < ServedAt(y)'
      <4>1. PICK u \in PutThreads : /\ Write(u) /\ PutOf(y)' = PutOf(u)
                                    /\ ServedAt(u) < ServedAt(y)'
        BY <3>3
      <4>2. Frontier(u) /\ ServedAt(u) \in Founders /\ u # x
        <5>1. Frontier(u) /\ ServedAt(u) \in Nat /\ ServedAt(u) # 0 /\ ServedAt(y)' \in Nat
          BY <1>0, <1>3, <2>1, <4>1
        <5>2. ServedAt(u) <= NumFounders
          BY <1>1, <2>1, <4>1, <5>1
        <5>3. QED
          BY <1>1, <2>1, <4>1, <5>1, <5>2 DEF Unmoved
      <4>3. QED
        BY <2>1, <4>1, <4>2 DEF OnceInv, OneFrontier, Unmoved
    <3>4. QED
      BY <2>1, <3>1, <3>2, <3>3, FrontierSteps
  <2>2. PICK c : \A t \in PutThreads : t # c /\ Frontier(t)' => Unmoved(t)
    BY OneMoves
  <2> SUFFICES ASSUME NEW t \in PutThreads, NEW v \in PutThreads,
                      Frontier(t)', Frontier(v)', PutOf(t)' = PutOf(v)',
                      ServedAt(t)' \in Founders, ServedAt(v)' \in Founders, t # v
               PROVE  FALSE
    BY DEF OneFrontier, Founders
  <2>3. CASE t # c
    BY <2>1, <2>2, <2>3
  <2>4. CASE v # c
    BY <2>1, <2>2, <2>4
  <2>5. QED
    BY <2>3, <2>4
<1>5. NewBehind'
  <2> SUFFICES ASSUME NEW t \in PutThreads, NEW s \in Founders, Frontier(t)', ServedAt(t)' <= s,
                      PutOf(t)' \in Applied(s)'
               PROVE  FALSE
    BY DEF NewBehind, Founders
  <2>0. s \in Nat /\ s <= NumFounders /\ ServedAt(t)' \in Nat /\ ServedAt(t)' # 0
    BY <1>1, <1>3
  <2>1. CASE Unmoved(t)
    <3>1. PutOf(t) \notin Applied(s) /\ ServedAt(t) \in Founders
      BY <1>1, <2>0, <2>1 DEF OnceInv, NewBehind, Unmoved
    <3>2. PICK u \in PutThreads : /\ Write(u) /\ ServedAt(u) = s
                                  /\ Applied(s)' = Applied(s) \cup {PutOf(u)}
      BY <1>2, <2>1, <3>1 DEF Unmoved
    <3>3. PutOf(u) = PutOf(t) /\ Frontier(u)
      BY <1>0, <2>1, <3>1, <3>2 DEF Unmoved
    <3>4. u = t
      BY <2>1, <3>1, <3>2, <3>3 DEF OnceInv, OneFrontier, Unmoved
    <3>5. QED
      BY <2>1, <3>2, <3>4 DEF Unmoved
  <2>2. CASE t \in Puts /\ SendPut(t) /\ PutOf(t)' = t
    <3>1. t \notin Applied(s) /\ UNCHANGED log
      BY <2>2 DEF OnceInv, UnsentIsNowhere, SendPut
    <3>2. QED
      BY <2>2, <3>1 DEF Applied
  <2>3. CASE \E v \in PutThreads : /\ Write(v) /\ PutOf(t)' = PutOf(v)
                                   /\ ServedAt(v) < ServedAt(t)'
    <3>1. PICK v \in PutThreads : /\ Write(v) /\ PutOf(t)' = PutOf(v)
                                  /\ ServedAt(v) < ServedAt(t)'
      BY <2>3
    <3>2. /\ Frontier(v) /\ ServedAt(v) \in Founders /\ ServedAt(v) < s
          /\ PutOf(v) \notin Applied(s)
      <4>1. Frontier(v) /\ ServedAt(v) \in Nat /\ ServedAt(v) # 0
        BY <1>0, <1>3, <3>1
      <4>2. ServedAt(v) < s /\ ServedAt(v) <= NumFounders
        BY <1>1, <2>0, <3>1, <4>1
      <4>3. QED
        BY <1>1, <4>1, <4>2 DEF OnceInv, NewBehind
    <3>3. PICK u \in PutThreads : /\ Write(u) /\ ServedAt(u) = s
                                  /\ Applied(s)' = Applied(s) \cup {PutOf(u)}
      BY <1>2, <3>1, <3>2
    <3>4. PutOf(u) = PutOf(v) /\ Frontier(u)
      BY <1>0, <3>1, <3>2, <3>3
    <3>5. u = v
      BY <3>2, <3>3, <3>4 DEF OnceInv, OneFrontier
    <3>6. QED
      BY <2>0, <3>2, <3>3, <3>5
  <2>4. QED
    BY <2>1, <2>2, <2>3, FrontierSteps
<1>6. UnsentIsNowhere'
  <2> SUFFICES ASSUME NEW p \in Puts, at'[p] = 0
               PROVE  /\ \A s \in Founders : p \notin Applied(s)'
                      /\ \A t \in PutThreads : Frontier(t)' => PutOf(t)' # p
    BY DEF UnsentIsNowhere, Founders
  <2>1. at[p] = 0 /\ ~ SendPut(p)
    <3>1. at[p] = 0
      BY SendSteps, ServersAreNumbers DEF TypeInv, TypeOK
    <3>2. SendPut(p) => at'[p] \in heads
      BY DEF SendPut, TypeInv, TypeOK
    <3>3. QED
      BY <3>1, <3>2, ServersAreNumbers DEF TypeInv, TypeOK
  <2>2. \A u \in PutThreads : Write(u) => PutOf(u) # p
    BY <1>0, <2>1 DEF OnceInv, UnsentIsNowhere
  <2>3. \A s \in Founders : p \notin Applied(s)'
    BY <1>2, <2>1, <2>2 DEF OnceInv, UnsentIsNowhere
  <2>4. \A t \in PutThreads : Frontier(t)' => PutOf(t)' # p
    BY <2>1, <2>2, FrontierSteps DEF OnceInv, UnsentIsNowhere, Unmoved
  <2>5. QED
    BY <2>3, <2>4
<1>7. CountedOnce'
  <2> SUFFICES ASSUME NEW s \in Founders
               PROVE  IsFiniteSet(Applied(s)') /\ Cardinality(Applied(s)') = Len(log'[s])
    BY DEF CountedOnce, Founders
  <2>1. /\ IsFiniteSet(Applied(s)) /\ Cardinality(Applied(s)) = Len(log[s])
        /\ log[s] \in Seq(Puts)
    BY FounderLog DEF OnceInv, CountedOnce
  <2>2. CASE log'[s] = log[s]
    BY <2>1, <2>2 DEF Applied
  <2>3. CASE \E u \in PutThreads : /\ Write(u) /\ ServedAt(u) = s /\ PutOf(u) \in Puts
                                   /\ log'[s] = Append(log[s], PutOf(u))
    <3>1. PICK u \in PutThreads : /\ Write(u) /\ ServedAt(u) = s /\ PutOf(u) \in Puts
                                  /\ log'[s] = Append(log[s], PutOf(u))
      BY <2>3
    <3>2. PutOf(u) \notin Applied(s)
      BY <1>0, <1>1, <3>1 DEF OnceInv, NewBehind
    <3>3. Applied(s)' = Applied(s) \cup {PutOf(u)} /\ Len(log'[s]) = Len(log[s]) + 1
      BY <2>1, <3>1, AppendToSet DEF Applied
    <3>4. QED
      BY <2>1, <3>2, <3>3, FS_AddElement
  <2>4. QED
    BY <2>2, <2>3, FounderLog
<1>8. QED
  BY <1>4, <1>5, <1>6, <1>7 DEF OnceInv

LEMMA InitOnceInv == Init => OnceInv
<1> SUFFICES ASSUME Init PROVE OnceInv
  OBVIOUS
<1>1. \A s \in Founders : s \in Servers /\ log[s] = <<>>
  BY ReconfigAssumption DEF Init, Founders, Servers
<1>2. \A s \in Founders : Applied(s) = {} /\ Len(log[s]) = 0
  BY <1>1 DEF Applied, ToSet
<1>3. \A t \in PutThreads : ~ Frontier(t)
  BY DEF Init, Frontier, PutThreads
<1>4. CountedOnce
  BY <1>2, FS_EmptySet DEF CountedOnce
<1>5. QED
  BY <1>2, <1>3, <1>4 DEF OnceInv, OneFrontier, NewBehind, UnsentIsNowhere

(* A put is on its way to one server of the first chain at most, and neither *)
(* that server nor one behind it has the put.                               *)
THEOREM ReconfigOnceInv == Spec => []OnceInv
<1>1. /\ TypeInv /\ TypeInv' /\ OrderInv /\ ThreadInv /\ WatchInv /\ OnceInv /\ [Next]_vars
      => OnceInv'
  BY NextKeepsOnceInv
<1>2. QED
  BY <1>1, InitOnceInv, ReconfigWatchInv, ReconfigTypeInv, ReconfigOrderInv, ReconfigThreadInv,
     PTL DEF Spec

(* No server of the first chain applies a put twice, for any number of      *)
(* joins, crashes, ended sessions, failed forwards and mixed up             *)
(* connections.                                                             *)
THEOREM ReconfigAppliedOnce == Spec => []AppliedOnce
<1>1. OnceInv => AppliedOnce
  BY DEF OnceInv, CountedOnce, AppliedOnce
<1>2. QED
  BY <1>1, ReconfigOnceInv, PTL
---------------------------------------------------------------------------
(* A chain that nobody joins and that has one fault at most. *)
OneFaultAtMost == NumServers = NumFounders /\ MaxFaults <= 1

(* One server at most is lost, and none if an allocation has failed; ...    *)
LosesOne ==
    /\ \E k \in Servers : Servers \ {k} \subseteq alive \cap zk
    /\ faults = 0 \/ missed # {} => Servers \subseteq alive \cap zk
    /\ faults = 0 => missed = {}
    /\ missed = {} => \A t \in Threads : res[t] = 0

(* ... its leaving is the one event that there is, ... *)
LeavesOnce ==
    /\ zk = Servers => event = {} /\ \A s \in Servers : wsnap[s] = {}
    /\ event \subseteq zk
    /\ \A s \in Servers : wsnap[s] # {} => s \in zk /\ wsnap[s] = zk
    /\ 1 \in zk => heads = {1}
    /\ heads \subseteq {1, 2}

(* ... and a put is answered by the server that a client sent it to only    *)
(* after table_put.                                                         *)
AnsweredIsStored == \A p \in Puts :
    (pc[p] \in {"waiting", "stuck", "written"} /\ res[p] = 0) \/ p \in acked
        => at[p] # 0 /\ (p \in Applied(at[p]) \/ <<at[p], p, 0>> \in missed)

(* The connection from the first server to the second. *)
FirstLink == <<1, 1>>

(* The servers behind the first head are as they were, and there has been no *)
(* fault, or it was that the first is lost.                                  *)
SecondIntact == /\ 2 \in Servers /\ Servers \ {1} \subseteq alive \cap zk /\ missed = {}
                /\ faults = 0 \/ 1 \notin alive \cap zk

AtSecond(p) ==
    /\ pc[p] = "invoked" => fwd[p] = FirstLink
    /\ pc[p] = "waiting" =>
          /\ fwd[p] = FirstLink /\ op[FirstLink] = p
          /\ pc[FirstLink] # "idle"
          /\ pc[FirstLink] \in {"waiting", "stuck", "written"} => p \in Applied(2)
    /\ pc[p] # "stuck"
    /\ pc[p] = "written" => p \in Applied(2)

(* While that is so, what the first head has finished is in the table of the *)
(* second.                                                                   *)
SecondFollows == SecondIntact =>
    /\ next[1] = FirstLink /\ peer[FirstLink] = 2 /\ FirstLink \notin closed \cup dropped
    /\ pc[FirstLink] # "lost"
    /\ \A t \in PutThreads : pc[t] = "stuck" => fwd[t] # FirstLink
    /\ \A p \in Puts : at[p] = 1 => AtSecond(p)
    /\ acked \subseteq Applied(2)

HeadInv == LosesOne /\ LeavesOnce /\ AnsweredIsStored /\ SecondFollows

LEMMA FirstLinkIsOne ==
  /\ FirstLink \in Conns /\ FirstLink \in Threads /\ FirstLink \in PutThreads
  /\ FirstLink \notin Puts /\ FirstLink # None /\ FirstLink[1] = 1 /\ FirstLink[2] = 1
  /\ 1 \in Servers
<1>1. 1 \in Servers /\ 1 \in 0 .. MaxEpoch
  BY ReconfigAssumption DEF Servers
<1>2. QED
  BY <1>1, ConnsAndThreads DEF FirstLink, PutThreads

LEMMA InitHeadInv ==
  ASSUME OneFaultAtMost, Init
  PROVE  HeadInv
<1>1. /\ Founders = Servers /\ zk = Servers /\ alive = Servers /\ event = {} /\ missed = {}
      /\ \A s \in Servers : wsnap[s] = {}
      /\ \A t \in Threads : res[t] = 0 /\ pc[t] = "idle"
      /\ heads = {1} /\ acked = {} /\ closed = {} /\ dropped = {}
  BY DEF OneFaultAtMost, Init, Founders, Servers
<1>2. LosesOne /\ LeavesOnce
  BY <1>1, FirstLinkIsOne DEF LosesOne, LeavesOnce
<1>3. AnsweredIsStored
  <2>1. \A p \in Puts : pc[p] = "idle"
    BY <1>1, ConnsAndThreads
  <2>2. QED
    BY <1>1, <2>1 DEF AnsweredIsStored
<1>4. SecondFollows
  <2> SUFFICES ASSUME 2 \in Servers
               PROVE  next[1] = FirstLink /\ peer[FirstLink] = 2
    BY <1>1, FirstLinkIsOne, ConnsAndThreads DEF SecondFollows, SecondIntact, AtSecond, PutThreads
  <2>1. 1 < NumFounders
    BY ReconfigAssumption DEF OneFaultAtMost, Servers
  <2>2. QED
    BY <2>1, FirstLinkIsOne DEF Init, FirstLink
<1>5. QED
  BY <1>2, <1>3, <1>4 DEF HeadInv

(* No server of this chain starts. *)
LEMMA NobodyJoins ==
  ASSUME OneFaultAtMost, WatchInv, NEW s \in Servers
  PROVE  ~ MainStep(s)
<1>1. main[s] = "serving"
  BY DEF OneFaultAtMost, Servers, Founders, WatchInv, FoundersServe
<1>2. QED
  BY <1>1 DEF MainStep, Start, CreateNode, SetWatch, SetWatchFails, MainSetsNext, AskPredecessor,
              Load, LoadFails, GotoMain

LEMMA NoMoreFaults ==
  ASSUME OneFaultAtMost, TypeInv, HeadInv, Fault
  PROVE  faults = 0 /\ faults' = 1 /\ missed = {} /\ alive = Servers /\ zk = Servers
<1>1. faults = 0 /\ faults' = 1
  BY ReconfigAssumption DEF OneFaultAtMost, Fault, TypeInv, TypeOK
<1>2. QED
  BY <1>1 DEF HeadInv, LosesOne, TypeInv, TypeOK

(* The lists that watchers read are right, and their calls do not fail: an  *)
(* event comes after the one fault.                                         *)
LEMMA WatchersDoWell ==
  ASSUME OneFaultAtMost, TypeInv, HeadInv, NEW s \in Servers
  PROVE  /\ ~ WatcherReadsNothing(s)
         /\ WatcherStep(s) => UNCHANGED <<alive, pc, faults>>
<1>1. ASSUME Fault, s \in event \/ wsnap[s] # {} PROVE FALSE
  BY <1>1, NoMoreFaults DEF HeadInv, LeavesOnce
<1>2. ~ WatcherReadsNothing(s)
  BY <1>1 DEF WatcherReadsNothing, Misses, HeadInv, LeavesOnce
<1>3. WatcherReads(s) => UNCHANGED <<alive, pc, faults>>
  BY DEF WatcherReads, threadVars
<1>4. ASSUME WatcherSetsNext(s) PROVE UNCHANGED <<alive, pc, faults>>
  <2>1. s \in zk /\ wsnap[s] = zk /\ zk \subseteq Servers /\ ~ Misses(s)
    BY <1>1, <1>4 DEF WatcherSetsNext, HeadInv, LeavesOnce, TypeInv, TypeOK, Misses
  <2>2. Successor(s, zk) = 0 \/ CanRead(s, Successor(s, zk))
    BY <2>1, SuccessorIsNext DEF CanRead
  <2>3. QED
    BY <1>4, <2>1, <2>2 DEF WatcherSetsNext, SetNextServer
<1>5. QED
  BY <1>2, <1>3, <1>4 DEF WatcherStep

(* The steps of this chain, with what each leaves alone. *)
LEMMA ChainSteps ==
  ASSUME OneFaultAtMost, TypeInv, WatchInv, HeadInv, [Next]_vars
  PROVE  \/ \E k \in Servers : Crash(k)
         \/ \E k \in Servers : Expire(k) \/ ExpireRunning(k)
         \/ \E k \in Servers : WatcherStep(k) /\ UNCHANGED <<alive, pc, faults>>
         \/ \E p \in Puts : SendPut(p)
         \/ \E t \in PutThreads : WorkerStep(t)
         \/ UNCHANGED vars
  BY NobodyJoins, WatchersDoWell DEF Next

LEMMA NextKeepsLosesOne ==
  ASSUME OneFaultAtMost, TypeInv, TypeInv', WatchInv, HeadInv, [Next]_vars
  PROVE  LosesOne'
<1>1. CASE UNCHANGED <<alive, zk, faults, missed, res>>
  BY <1>1 DEF HeadInv, LosesOne
<1>2. ASSUME NEW k \in Servers, Crash(k) PROVE LosesOne'
  <2>1. alive' = Servers \ {k} /\ zk' = Servers /\ faults' = 1 /\ missed' = {} /\ UNCHANGED res
        /\ missed = {}
    BY <1>2, NoMoreFaults DEF Crash, Die, zkVars
  <2>2. QED
    BY <2>1 DEF LosesOne, HeadInv
<1>3. ASSUME NEW k \in Servers, ExpireRunning(k) PROVE LosesOne'
  <2>1. alive' = Servers /\ zk' = Servers \ {k} /\ faults' = 1 /\ missed' = {} /\ UNCHANGED res
        /\ missed = {}
    BY <1>3, NoMoreFaults DEF ExpireRunning, ChildrenBecome, threadVars
  <2>2. QED
    BY <2>1 DEF LosesOne, HeadInv
<1>4. ASSUME NEW k \in Servers, Expire(k) PROVE LosesOne'
  <2>1. k \notin alive /\ k \in zk /\ zk' = zk \ {k} /\ UNCHANGED <<alive, faults, missed, res>>
    BY <1>4 DEF Expire, ChildrenBecome, threadVars
  <2>2. PICK j \in Servers : Servers \ {j} \subseteq alive \cap zk
    BY DEF HeadInv, LosesOne
  <2>3. j = k
    BY <2>1, <2>2
  <2>4. QED
    BY <2>1, <2>2, <2>3 DEF LosesOne, HeadInv
<1>5. ASSUME NEW u \in PutThreads, Write(u) PROVE LosesOne'
  <2>1. UNCHANGED <<alive, zk>> /\ u \in Threads /\ res \in [Threads -> {0, -1}]
    BY <1>5, WriteParts DEF zkVars, PutThreads, TypeInv, TypeOK
  <2>2. CASE Fault
    <3>1. alive = Servers /\ zk = Servers /\ faults' = 1
      BY <2>2, NoMoreFaults
    <3>2. missed' = {} => \A t \in Threads : res'[t] = 0
      <4>1. Refuses(u, 0) \/ Refuses(u, -1) => missed' # {}
        BY DEF Refuses
      <4>2. missed' = {} => res' = [res EXCEPT ![u] = 0] /\ missed = {}
        BY <1>5, <4>1, WriteParts DEF Kept, Stores, Refuses
      <4>3. QED
        BY <2>1, <4>2 DEF HeadInv, LosesOne
    <3>3. QED
      BY <2>1, <2>2, <3>1, <3>2, FirstLinkIsOne DEF LosesOne
  <2>3. CASE UNCHANGED <<faults, missed>> /\ res' = [res EXCEPT ![u] = 0]
    BY <2>1, <2>3 DEF LosesOne, HeadInv
  <2>4. QED
    BY <1>5, <2>2, <2>3 DEF Write, TablePut, Unsent, LacksMemory, Stores
<1>6. \A k \in Servers : WatcherStep(k) /\ UNCHANGED <<alive, faults>> => UNCHANGED <<alive, zk, faults, missed, res>>
  BY DEF WatcherStep, WatcherReads, WatcherReadsNothing, WatcherSetsNext, threadVars
<1>7. \A p \in Puts : SendPut(p) => UNCHANGED <<alive, zk, faults, missed, res>>
  BY DEF SendPut, zkVars
<1>8. \A t \in PutThreads : WorkerStep(t) => Write(t) \/ UNCHANGED <<alive, zk, faults, missed, res>>
  BY DEF WorkerStep, RunningStep, Invoke, ForwardFails, Unstick, Finish, zkVars
<1>9. UNCHANGED vars => UNCHANGED <<alive, zk, faults, missed, res>>
  BY DEF vars, zkVars, threadVars
<1>10. QED
  BY <1>1, <1>2, <1>3, <1>4, <1>5, <1>6, <1>7, <1>8, <1>9, ChainSteps

LEMMA NextKeepsLeavesOnce ==
  ASSUME OneFaultAtMost, TypeInv, TypeInv', WatchInv, HeadInv, [Next]_vars
  PROVE  LeavesOnce'
<1>0. zk \subseteq Servers
  BY DEF TypeInv, TypeOK
<1>1. CASE UNCHANGED zkVars
  BY <1>1 DEF HeadInv, LeavesOnce, zkVars
<1>2. ASSUME NEW k \in Servers, Expire(k) \/ ExpireRunning(k) PROVE LeavesOnce'
  <2>1. k \in zk /\ ChildrenBecome(zk \ {k}) /\ UNCHANGED wsnap
    BY <1>2 DEF Expire, ExpireRunning
  <2>2. zk = Servers
    <3>1. CASE ExpireRunning(k)
      BY <3>1, NoMoreFaults DEF ExpireRunning
    <3>2. CASE Expire(k)
      <4>1. PICK j \in Servers : Servers \ {j} \subseteq alive \cap zk
        BY DEF HeadInv, LosesOne
      <4>2. QED
        BY <1>0, <3>2, <4>1 DEF Expire
    <3>3. QED
      BY <1>2, <3>1, <3>2
  <2>3. /\ event = {} /\ (\A s \in Servers : wsnap[s] = {}) /\ heads = {1}
        /\ zk' = Servers \ {k} /\ event' \subseteq zk'
        /\ heads' = heads \cup {r \in zk' : \A q \in zk' : r <= q}
    BY <2>1, <2>2, FirstLinkIsOne DEF HeadInv, LeavesOnce, ChildrenBecome
  <2>4. \A r \in zk' : (\A q \in zk' : r <= q) => r = 1 \/ (k = 1 /\ r = 2)
    <3> SUFFICES ASSUME NEW r \in zk', \A q \in zk' : r <= q PROVE r = 1 \/ (k = 1 /\ r = 2)
      OBVIOUS
    <3>1. r \in Servers /\ r \in Nat /\ r # 0 /\ r <= NumServers /\ NumServers \in Nat
      BY <2>3, ReconfigAssumption DEF Servers
    <3>2. CASE k # 1
      BY <2>3, <3>1, <3>2, FirstLinkIsOne
    <3>3. CASE k = 1
      <4>1. r # 1 /\ 2 <= NumServers
        BY <2>3, <3>1, <3>3
      <4>2. 2 \in zk'
        BY <2>3, <3>1, <3>3, <4>1 DEF Servers
      <4>3. QED
        BY <3>1, <3>3, <4>1, <4>2
    <3>4. QED
      BY <3>2, <3>3
  <2>5. QED
    BY <2>1, <2>3, <2>4 DEF LeavesOnce
<1>3. ASSUME NEW k \in Servers, WatcherStep(k), UNCHANGED alive PROVE LeavesOnce'
  <2>0. UNCHANGED <<zk, heads>> /\ wsnap \in [Servers -> SUBSET Servers]
    BY <1>3 DEF WatcherStep, WatcherReads, WatcherReadsNothing, WatcherSetsNext, TypeInv, TypeOK
  <2>1. CASE WatcherReads(k)
    BY <2>0, <2>1 DEF WatcherReads, HeadInv, LeavesOnce
  <2>2. CASE WatcherSetsNext(k)
    BY <2>0, <2>2 DEF WatcherSetsNext, HeadInv, LeavesOnce
  <2>3. QED
    BY <1>3, <2>1, <2>2, WatchersDoWell DEF WatcherStep
<1>4. \A k \in Servers : Crash(k) => UNCHANGED zkVars
  BY DEF Crash
<1>5. \A t : SendPut(t) \/ WorkerStep(t) => UNCHANGED zkVars
  BY DEF SendPut, WorkerStep, RunningStep, Invoke, Write, ForwardFails, Unstick, Finish
<1>6. UNCHANGED vars => UNCHANGED zkVars
  BY DEF vars, zkVars
<1>7. QED
  BY <1>1, <1>2, <1>3, <1>4, <1>5, <1>6, ChainSteps

(* No table forgets a put. *)
LEMMA StoredStays ==
  ASSUME OneFaultAtMost, TypeInv, WatchInv, HeadInv, [Next]_vars
  PROVE  missed \subseteq missed' /\ \A s \in Servers : Applied(s) \subseteq Applied(s)'
<1>1. missed \subseteq missed'
  <2>1. \A k \in Servers : Crash(k) \/ Expire(k) \/ ExpireRunning(k) \/ WatcherStep(k) => UNCHANGED missed
    BY DEF Crash, Expire, ExpireRunning, WatcherStep, WatcherReads, WatcherReadsNothing, WatcherSetsNext
  <2>2. \A t : SendPut(t) \/ WorkerStep(t) => missed \subseteq missed'
    <3>1. \A t : Write(t) => missed \subseteq missed'
      BY WriteParts DEF Kept, Stores, Refuses
    <3>2. QED
      BY <3>1 DEF SendPut, WorkerStep, RunningStep, Invoke, ForwardFails, Unstick, Finish
  <2>3. UNCHANGED vars => UNCHANGED missed
    BY DEF vars
  <2>4. QED
    BY <2>1, <2>2, <2>3, ChainSteps
<1>2. Servers = Founders
  BY DEF OneFaultAtMost, Servers, Founders
<1>3. ASSUME NEW s \in Founders PROVE Applied(s) \subseteq Applied(s)'
  <2>1. log'[s] = log[s] => Applied(s)' = Applied(s)
    BY DEF Applied
  <2>2. \A p \in Puts : log'[s] = Append(log[s], p) => Applied(s)' = Applied(s) \cup {p}
    BY <1>3, FounderLog, AppendToSet DEF Applied
  <2>3. QED
    BY <1>3, <2>1, <2>2, FounderLog
<1>4. QED
  BY <1>1, <1>2, <1>3

(* What table_put leaves of the put of thread u. *)
LEMMA WriteStores ==
  ASSUME TypeInv, NEW u \in PutThreads, Write(u)
  PROVE  /\ ServedAt(u) \in Servers /\ PutOf(u) \in Puts
         /\ \/ PutOf(u) \in Applied(ServedAt(u))' /\ UNCHANGED missed
            \/ missed' = missed \cup {<<ServedAt(u), PutOf(u), res'[u]>>} /\ UNCHANGED log
<1>1. ServedAt(u) \in Servers /\ PutOf(u) \in Puts /\ u \in Threads
  BY BusyTypes DEF Write
<1>2. log \in [Servers -> Seq(Puts)] /\ res \in [Threads -> {0, -1}]
  BY DEF TypeInv, TypeOK
<1>3. CASE Stores(u)
  <2>1. log'[ServedAt(u)] = Append(log[ServedAt(u)], PutOf(u)) /\ log[ServedAt(u)] \in Seq(Puts)
    BY <1>1, <1>2, <1>3 DEF Stores
  <2>2. ServedAt(u)' = ServedAt(u)
    BY WriteParts DEF ServedAt
  <2>3. ToSet(log'[ServedAt(u)]) = ToSet(log[ServedAt(u)]) \cup {PutOf(u)}
    BY <1>1, <2>1, AppendToSet
  <2>4. QED
    BY <1>1, <1>3, <2>2, <2>3 DEF Applied, Stores
<1>4. CASE \E r \in {0, -1} : Refuses(u, r)
  BY <1>1, <1>2, <1>4 DEF Refuses
<1>5. QED
  BY <1>1, <1>3, <1>4, WriteParts DEF Kept

(* A thread has been in table_put before it waits, and its result is kept.  *)
InPut(t) == pc[t] \in {"waiting", "stuck", "written"}

LEMMA InPutSteps ==
  ASSUME OneFaultAtMost, TypeInv, ThreadInv, WatchInv, HeadInv, [Next]_vars, NEW t \in PutThreads
  PROVE  InPut(t)' => Write(t) \/ (InPut(t) /\ res'[t] = res[t])
<1>0. t \in Threads /\ pc \in [Threads -> PCs] /\ res \in [Threads -> {0, -1}]
  BY DEF PutThreads, TypeInv, TypeOK
<1>1. \A k \in Servers : Crash(k) => (InPut(t)' => InPut(t)) /\ UNCHANGED res
  BY <1>0 DEF Crash, Die, InPut
<1>2. \A k \in Servers : Expire(k) \/ ExpireRunning(k) => UNCHANGED <<pc, res>>
  BY DEF Expire, ExpireRunning, threadVars
<1>3. \A k \in Servers : WatcherStep(k) => UNCHANGED res
  BY DEF WatcherStep, WatcherReads, WatcherReadsNothing, WatcherSetsNext, threadVars
<1>4. \A p \in Puts : SendPut(p) => (InPut(t)' => InPut(t)) /\ UNCHANGED res
  BY <1>0 DEF SendPut, InPut
<1>5. \A u \in PutThreads : Write(u) => u = t \/ ((InPut(t)' => InPut(t)) /\ res'[t] = res[t])
  <2> SUFFICES ASSUME NEW u \in PutThreads, Write(u), u # t
               PROVE  (InPut(t)' => InPut(t)) /\ res'[t] = res[t]
    OBVIOUS
  <2>1. pc'[t] = pc[t] \/ pc'[t] = "sent"
    BY <1>0, WriteSends
  <2>2. res'[t] = res[t]
    BY <1>0, WriteParts DEF Kept, Stores, Refuses
  <2>3. QED
    BY <2>1, <2>2 DEF InPut
<1>6. \A u \in PutThreads : Invoke(u) \/ ForwardFails(u) \/ Unstick(u) \/ Finish(u) =>
         (InPut(t)' => InPut(t)) /\ UNCHANGED res
  <2> SUFFICES ASSUME NEW u \in PutThreads, Invoke(u) \/ ForwardFails(u) \/ Unstick(u) \/ Finish(u)
               PROVE  (InPut(t)' => InPut(t)) /\ UNCHANGED res
    OBVIOUS
  <2>1. UNCHANGED res
    BY DEF Invoke, ForwardFails, Unstick, Finish
  <2>2. CASE Invoke(u) \/ ForwardFails(u) \/ Unstick(u)
    BY <1>0, <2>1, <2>2 DEF Invoke, ForwardFails, Unstick, InPut
  <2>3. CASE Finish(u)
    <3>1. pc'[t] \in {"lost", "idle"} \/ t \in WaitersOn(u) \/ pc'[t] = pc[t]
      BY <1>0, <2>3 DEF Finish
    <3>2. QED
      BY <1>0, <2>1, <3>1 DEF InPut, WaitersOn
  <2>4. QED
    BY <2>1, <2>2, <2>3
<1>7. UNCHANGED vars => UNCHANGED <<pc, res>>
  BY DEF vars, threadVars
<1>8. QED
  BY <1>1, <1>2, <1>3, <1>4, <1>5, <1>6, <1>7, ChainSteps DEF InPut, WorkerStep, RunningStep

LEMMA AckSteps ==
  ASSUME OneFaultAtMost, TypeInv, WatchInv, HeadInv, [Next]_vars, NEW p \in acked'
  PROVE  p \in acked \/ (p \in Puts /\ Finish(p) /\ res[p] = 0)
<1>1. \A k \in Servers : Crash(k) \/ Expire(k) \/ ExpireRunning(k) \/ WatcherStep(k) => UNCHANGED acked
  BY DEF Crash, Expire, ExpireRunning, WatcherStep, WatcherReads, WatcherReadsNothing,
         WatcherSetsNext, threadVars
<1>2. \A t : SendPut(t) \/ Invoke(t) \/ Write(t) \/ ForwardFails(t) \/ Unstick(t)
          => UNCHANGED acked
  BY DEF SendPut, Invoke, Write, ForwardFails, Unstick
<1>3. \A t \in PutThreads : Finish(t) => p \in acked \/ (p = t /\ t \in Puts /\ res[t] = 0)
  BY DEF Finish, Ends, PutThreads, TypeInv, TypeOK
<1>4. UNCHANGED vars => UNCHANGED acked
  BY DEF vars, threadVars
<1>5. QED
  BY <1>1, <1>2, <1>3, <1>4, ChainSteps DEF WorkerStep, RunningStep

LEMMA NextKeepsAnswered ==
  ASSUME OneFaultAtMost, TypeInv, ThreadInv, WatchInv, HeadInv, [Next]_vars
  PROVE  AnsweredIsStored'
<1> SUFFICES ASSUME NEW p \in Puts, (InPut(p)' /\ res'[p] = 0) \/ p \in acked'
             PROVE  (at[p] # 0 /\ (p \in Applied(at[p]) \/ <<at[p], p, 0>> \in missed))'
  BY DEF AnsweredIsStored, InPut
<1>0. p \in PutThreads /\ at[p] \in Servers \cup {0}
  BY ConnsAndThreads DEF PutThreads, Threads, Conns, TypeInv, TypeOK
<1>1. CASE Write(p) /\ res'[p] = 0
  <2>1. ServedAt(p) = at[p] /\ PutOf(p) = p /\ at'[p] = at[p] /\ ServedAt(p)' = at'[p]
    BY <1>1 DEF ServedAt, PutOf, Write
  <2>2. at[p] # 0 /\ (p \in Applied(ServedAt(p))' \/ <<at[p], p, 0>> \in missed')
    BY <1>0, <1>1, <2>1, WriteStores, ServersAreNumbers
  <2>3. QED
    BY <2>1, <2>2 DEF Applied
<1>2. CASE (InPut(p) /\ res[p] = 0) \/ p \in acked
  <2>1. at[p] # 0 /\ (p \in Applied(at[p]) \/ <<at[p], p, 0>> \in missed)
    BY <1>2 DEF HeadInv, AnsweredIsStored, InPut
  <2>2. at'[p] = at[p]
    BY <2>1, SendSteps DEF TypeInv, TypeOK
  <2>3. Applied(at[p])' = ToSet(log'[at[p]])
    BY <2>2 DEF Applied
  <2>4. \A s \in Servers : Applied(s) \subseteq ToSet(log'[s])
    BY StoredStays DEF Applied
  <2>5. missed \subseteq missed'
    BY StoredStays
  <2>6. QED
    BY <1>0, <2>1, <2>2, <2>3, <2>4, <2>5
<1>3. CASE Finish(p) /\ res[p] = 0
  BY <1>2, <1>3 DEF Finish, InPut
<1>4. QED
  BY <1>0, <1>1, <1>2, <1>3, InPutSteps, AckSteps

(* SecondFollows, action by action. *)
LEMMA LossKeepsSecond ==
  ASSUME OneFaultAtMost, TypeInv, TypeInv', ThreadInv, WatchInv, HeadInv, SecondIntact,
         SecondIntact', NEW k \in Servers, Crash(k) \/ Expire(k) \/ ExpireRunning(k)
  PROVE  SecondFollows'
<1>0. /\ SecondFollows /\ pc \in [Threads -> PCs] /\ UNCHANGED <<linkVars, at, fwd, op, acked, log>>
      /\ peer[FirstLink] = 2 /\ UNCHANGED peer
  BY DEF HeadInv, SecondFollows, TypeInv, TypeOK, Crash, Expire, ExpireRunning, threadVars, linkVars
<1>1. CASE UNCHANGED pc
  BY <1>0, <1>1 DEF SecondFollows, AtSecond, Applied, linkVars
<1>2. CASE Crash(k)
  <2>1. k = 1
    BY <1>2 DEF Crash, Die, SecondIntact
  <2>2. pc'[FirstLink] = pc[FirstLink]
    BY <1>0, <1>2, <2>1, FirstLinkIsOne DEF Crash, Die, ServedAt
  <2>3. \A p \in Puts : at[p] = 1 => pc'[p] \in {"idle", "lost"}
    BY <1>0, <1>2, <2>1, ConnsAndThreads DEF Crash, Die, ServedAt
  <2>4. \A t \in PutThreads : pc'[t] = "stuck" => pc[t] = "stuck"
    BY <1>0, <1>2 DEF Crash, Die, PutThreads
  <2>5. QED
    BY <1>0, <2>2, <2>3, <2>4 DEF SecondFollows, AtSecond, Applied, linkVars
<1>3. QED
  BY <1>1, <1>2 DEF Expire, ExpireRunning, threadVars

LEMMA WatcherKeepsSecond ==
  ASSUME OneFaultAtMost, TypeInv, ThreadInv, WatchInv, HeadInv, SecondIntact,
         NEW k \in Servers, WatcherStep(k)
  PROVE  SecondFollows'
<1>0. SecondFollows /\ UNCHANGED <<at, fwd, op, acked, log, pc, alive>>
  BY WatchersDoWell DEF HeadInv, WatcherStep, WatcherReads, WatcherReadsNothing, WatcherSetsNext, threadVars
<1>1. k # 1
  <2>1. event # {} \/ wsnap[k] # {}
    BY DEF WatcherStep, WatcherReads, WatcherReadsNothing, WatcherSetsNext
  <2>2. zk # Servers /\ zk \subseteq Servers
    BY <2>1 DEF HeadInv, LeavesOnce, TypeInv, TypeOK
  <2>3. k \in zk
    BY DEF WatcherStep, WatcherReads, WatcherReadsNothing, WatcherSetsNext, HeadInv, LeavesOnce
  <2>4. QED
    BY <2>2, <2>3 DEF SecondIntact
<1>2. next'[1] = next[1] /\ peer'[FirstLink] = peer[FirstLink]
      /\ FirstLink \notin closed' \cup dropped'
  <2>1. CASE UNCHANGED linkVars
    BY <1>0, <2>1 DEF linkVars, SecondFollows
  <2>2. ASSUME SetNextServer(k, wsnap[k])
        PROVE  /\ next'[1] = next[1] /\ peer'[FirstLink] = peer[FirstLink]
               /\ FirstLink \notin closed' \cup dropped'
    <3>1. next[1] = FirstLink /\ next[1] # None
      BY <1>0, FirstLinkIsOne DEF SecondFollows
    <3>2. next'[1] = next[1] /\ peer'[next[1]] = peer[next[1]]
      BY <1>1, <2>2, <3>1, FirstLinkIsOne, SetNextLeaves
    <3>3. next[k] # FirstLink
      BY <1>1, FirstLinkIsOne DEF ThreadInv, NextIsOwn
    <3>4. /\ closed' = closed \/ closed' = closed \cup ({next[k]} \ {None})
          /\ dropped' \subseteq dropped
      BY <2>2 DEF SetNextServer
    <3>5. QED
      BY <1>0, <3>1, <3>2, <3>3, <3>4 DEF SecondFollows
  <2>3. QED
    BY <2>1, <2>2 DEF WatcherStep, WatcherReads, WatcherReadsNothing, WatcherSetsNext, linkVars
<1>3. QED
  BY <1>0, <1>2 DEF SecondFollows, AtSecond, Applied

LEMMA SendKeepsSecond ==
  ASSUME TypeInv, HeadInv, SecondIntact, NEW p \in Puts, SendPut(p)
  PROVE  SecondFollows'
<1>1. /\ SecondFollows /\ UNCHANGED <<linkVars, fwd, op, acked, log>>
      /\ \A t \in Threads : t # p => pc'[t] = pc[t]
      /\ \A q \in Puts : q # p => at'[q] = at[q]
      /\ pc'[p] = "sent"
  BY ConnsAndThreads DEF SendPut, TypeInv, TypeOK, HeadInv
<1>2. pc'[FirstLink] = pc[FirstLink]
  BY <1>1, FirstLinkIsOne
<1>3. \A q \in Puts : at'[q] = 1 => AtSecond(q)'
  BY <1>1, <1>2, ConnsAndThreads DEF SecondFollows, AtSecond, Applied, SecondIntact
<1>4. \A t \in PutThreads : pc'[t] = "stuck" => pc[t] = "stuck"
  BY <1>1 DEF PutThreads
<1>5. QED
  BY <1>1, <1>2, <1>3, <1>4 DEF SecondFollows, SecondIntact, Applied, linkVars

LEMMA InvokeKeepsSecond ==
  ASSUME TypeInv, HeadInv, SecondIntact, NEW t \in PutThreads, Invoke(t)
  PROVE  SecondFollows'
<1>1. /\ SecondFollows /\ UNCHANGED <<linkVars, at, op, acked, log>>
      /\ \A u \in Threads : u # t => pc'[u] = pc[u] /\ fwd'[u] = fwd[u]
      /\ pc'[t] = "invoked" /\ fwd'[t] = next[ServedAt(t)] /\ pc[t] = "sent" /\ t \in Threads
  BY DEF Invoke, TypeInv, TypeOK, HeadInv, PutThreads
<1>2. pc'[FirstLink] = pc[FirstLink] \/ (pc[FirstLink] = "sent" /\ pc'[FirstLink] = "invoked")
  BY <1>1, FirstLinkIsOne
<1>3. ASSUME NEW q \in Puts, at[q] = 1 PROVE AtSecond(q)'
  <2>1. AtSecond(q) /\ next[1] = FirstLink
    BY <1>1, <1>3 DEF SecondFollows, SecondIntact
  <2>2. CASE q = t
    BY <1>1, <1>3, <2>1, <2>2 DEF AtSecond, ServedAt
  <2>3. CASE q # t
    BY <1>1, <1>2, <2>1, <2>3, ConnsAndThreads DEF AtSecond, Applied
  <2>4. QED
    BY <2>2, <2>3
<1>4. \A u \in PutThreads : pc'[u] = "stuck" => pc[u] = "stuck" /\ fwd'[u] = fwd[u]
  BY <1>1 DEF PutThreads
<1>5. QED
  BY <1>1, <1>2, <1>3, <1>4 DEF SecondFollows, SecondIntact, Applied, linkVars

(* The only threads of the first server are those of clients. *)
LEMMA FirstServesPuts ==
  ASSUME TypeInv, OrderInv, NEW u \in PutThreads, ServedAt(u) = 1
  PROVE  u \in Puts /\ at[u] = 1
<1>1. u \in Threads
  BY DEF PutThreads
<1>2. ASSUME u \notin Puts PROVE FALSE
  <2>1. u \in Conns /\ u[1] \in Servers /\ u[2] \in 0 .. MaxEpoch /\ u = <<u[1], u[2]>> /\ u[2] # 0
    BY <1>1, <1>2, ConnsAndThreads DEF Threads, PutThreads
  <2>2. peer[<<u[1], u[2]>>] = 1
    BY <1>2, <2>1 DEF ServedAt
  <2>3. u[1] < 1
    BY <2>1, <2>2 DEF OrderInv, LinksAdjacent, Adjacent
  <2>4. QED
    BY <2>1, <2>3, ServersAreNumbers
<1>3. QED
  BY <1>2 DEF ServedAt

(* A forward of another server that fails, or that is stuck, leaves the     *)
(* first connection alone.                                                  *)
LEMMA FailuresAreElsewhere ==
  ASSUME TypeInv, OrderInv, ThreadInv, HeadInv, SecondIntact, NEW t \in PutThreads,
         ForwardFails(t) \/ Unstick(t)
  PROVE  FirstLink \notin ForwardOutcomes(t) /\ (pc[t] = "waiting" => fwd[t] # FirstLink)
<1>1. SecondFollows /\ Usable(FirstLink)
  BY FirstLinkIsOne DEF HeadInv, SecondFollows, SecondIntact, Usable
<1>2. fwd[t] # FirstLink
  <2>1. CASE ForwardFails(t)
    BY <1>1, <2>1 DEF ForwardFails
  <2>2. CASE Unstick(t)
    BY <1>1, <2>2 DEF Unstick, SecondFollows
  <2>3. QED
    BY <2>1, <2>2
<1>3. ServedAt(t) # 1
  <2> SUFFICES ASSUME ServedAt(t) = 1 PROVE FALSE
    OBVIOUS
  <2>1. t \in Puts /\ at[t] = 1 /\ pc[t] \in {"waiting", "stuck"}
    BY FirstServesPuts DEF ForwardFails, Unstick
  <2>2. QED
    BY <1>1, <1>2, <2>1 DEF SecondFollows, AtSecond
<1>4. ServedAt(t) \in Servers
  BY BusyTypes DEF ForwardFails, Unstick
<1>5. next[ServedAt(t)] # FirstLink
  BY <1>3, <1>4, FirstLinkIsOne DEF ThreadInv, NextIsOwn
<1>6. QED
  BY <1>2, <1>5 DEF ForwardOutcomes

LEMMA FailureKeepsSecond ==
  ASSUME TypeInv, OrderInv, ThreadInv, HeadInv, SecondIntact, NEW t \in PutThreads,
         ForwardFails(t) \/ Unstick(t)
  PROVE  SecondFollows'
<1>0. SecondFollows /\ t \in Threads /\ pc \in [Threads -> PCs]
      /\ pc[t] \in {"waiting", "stuck"} /\ (pc[t] = "waiting" => fwd[t] # FirstLink)
  BY FailuresAreElsewhere DEF HeadInv, TypeInv, TypeOK, PutThreads, ForwardFails, Unstick
<1>1. /\ UNCHANGED <<next, epoch, peer, closed, at, op, acked, log, fwd>>
      /\ pc'[t] \in {"written", "stuck"}
      /\ \A u \in Threads : u # t => pc'[u] = pc[u] \/ (u \in Puts /\ pc'[u] = "lost")
  BY <1>0 DEF ForwardFails, Unstick
<1>2. FirstLink \notin closed' \cup dropped'
  BY <1>0, FailuresAreElsewhere DEF SecondFollows, SecondIntact, ForwardFails, Unstick, Drop
<1>3. \/ pc'[FirstLink] = pc[FirstLink]
      \/ pc[FirstLink] \in {"waiting", "stuck"} /\ pc'[FirstLink] \in {"written", "stuck"}
  BY <1>0, <1>1, FirstLinkIsOne
<1>4. ASSUME NEW q \in Puts, at[q] = 1 PROVE AtSecond(q)'
  <2>1. AtSecond(q) /\ q \in Threads
    BY <1>0, <1>4, ConnsAndThreads DEF SecondFollows, SecondIntact
  <2>2. q # t
    BY <1>0, <2>1 DEF AtSecond
  <2>3. pc'[q] = pc[q] \/ pc'[q] = "lost"
    BY <1>1, <2>1, <2>2
  <2>4. QED
    BY <1>1, <1>3, <2>1, <2>3 DEF AtSecond, Applied
<1>5. \A u \in PutThreads : pc'[u] = "stuck" => fwd'[u] # FirstLink
  <2> SUFFICES ASSUME NEW u \in PutThreads, pc'[u] = "stuck" PROVE fwd[u] # FirstLink
    BY <1>1
  <2>1. pc[u] = "stuck" => fwd[u] # FirstLink
    BY <1>0 DEF SecondFollows, SecondIntact
  <2>2. u \in Threads
    BY DEF PutThreads
  <2>3. QED
    BY <1>0, <1>1, <2>1, <2>2
<1>6. QED
  BY <1>0, <1>1, <1>2, <1>3, <1>4, <1>5 DEF SecondFollows, SecondIntact, Applied

(* A write that gets stuck was to go over a connection that is closed. *)
LEMMA WriteStuck ==
  ASSUME TypeInv, ThreadInv, NEW u \in PutThreads, Write(u), pc'[u] = "stuck"
  PROVE  ~ GoesOn(u) /\ UNCHANGED fwd /\ fwd[u] \in closed \cup dropped
<1>1. u \in Threads /\ pc \in [Threads -> PCs] /\ pc[u] = "invoked"
  BY WriteParts DEF PutThreads, TypeInv, TypeOK
<1>2. ~ GoesOn(u)
  <2> SUFFICES ASSUME NEW c \in ForwardOutcomes(u), Usable(c),
                      pc' = [pc EXCEPT ![u] = "waiting", ![c] = "sent"]
               PROVE  FALSE
    BY DEF GoesOn
  <2>1. c \in Threads
    BY <1>1, ForwardsGoOn, ConnsAndThreads
  <2>2. QED
    BY <1>1, <2>1
<1>3. ~ Unsent(u)
  BY <1>1 DEF Unsent
<1>4. QED
  BY <1>1, <1>2, <1>3 DEF Write, Forward, GoesOn, ForwardOutcomes

(* A write that finds no memory is the one fault, with all servers there. *)
LEMMA WriteFindsMemory ==
  ASSUME OneFaultAtMost, TypeInv, HeadInv, SecondIntact', NEW u, Write(u)
  PROVE  ~ LacksMemory(u)
<1> SUFFICES ASSUME Fault PROVE FALSE
  BY DEF LacksMemory
<1>1. alive = Servers /\ zk = Servers /\ faults' = 1
  BY NoMoreFaults
<1>2. alive' = Servers /\ zk' = Servers
  BY <1>1, WriteParts DEF zkVars
<1>3. QED
  BY <1>1, <1>2, FirstLinkIsOne DEF SecondIntact

LEMMA WriteKeepsSecond ==
  ASSUME OneFaultAtMost, TypeInv, OrderInv, ThreadInv, WatchInv, HeadInv, SecondIntact, SecondIntact',
         NEW u \in PutThreads, Write(u), [Next]_vars
  PROVE  SecondFollows'
<1>0. /\ SecondFollows /\ UNCHANGED <<next, peer, closed, at, acked>>
      /\ pc[u] = "invoked" /\ u \in Threads
      /\ WritersAt(ServedAt(u)) = {}
      /\ missed = {} /\ missed' = {}
      /\ \A s \in Servers : Applied(s) \subseteq ToSet(log'[s])
  BY StoredStays, WriteParts DEF HeadInv, SecondIntact, PutThreads, Applied
<1>1. 2 \in Servers /\ ToSet(log'[2]) = Applied(2)' /\ Applied(2) \subseteq Applied(2)'
  BY <1>0 DEF SecondIntact, Applied
<1>2. ServedAt(u) = 2 => PutOf(u) \in Applied(2)'
  <2>1. missed' # missed \cup {<<ServedAt(u), PutOf(u), res'[u]>>}
    BY <1>0
  <2>2. PutOf(u) \in Applied(ServedAt(u))'
    BY <2>1, WriteStores
  <2>3. ServedAt(u)' = ServedAt(u)
    BY <1>0 DEF ServedAt
  <2>4. QED
    BY <1>0, <2>2, <2>3 DEF Applied
<1>3. \A t \in Threads : t \in ForwardOutcomes(u) /\ Usable(t) => t[1] = ServedAt(u) /\ t \notin Puts
  BY <1>0, ForwardsGoOn, ConnsAndThreads
<1>4. \A t \in Threads : t # u => \/ pc'[t] = pc[t] /\ fwd'[t] = fwd[t] /\ (t \in Conns => op'[t] = op[t])
                                  \/ t \notin Puts /\ t[1] = ServedAt(u) /\ pc'[t] = "sent" /\ op'[t] = PutOf(u)
  BY <1>3, WriteSends
<1>5. \A t \in Threads \cap Puts : t # u => pc'[t] = pc[t] /\ fwd'[t] = fwd[t]
  BY <1>4
<1>6. ServedAt(FirstLink) = 2 /\ PutOf(FirstLink) = op[FirstLink]
  BY <1>0, FirstLinkIsOne DEF SecondFollows, ServedAt, PutOf
<1>7. Usable(FirstLink)
  BY <1>0, FirstLinkIsOne DEF SecondFollows, SecondIntact, Usable
<1>8. FirstLink \notin closed' \cup dropped'
  <2>1. dropped' = dropped \/ \E c : ~ Usable(c) /\ Drop(c)
    BY DEF Write, Forward, Unsent
  <2>2. QED
    BY <1>0, <1>7, <2>1 DEF SecondFollows, SecondIntact, Drop
<1>9. \A t \in PutThreads : pc'[t] = "stuck" => fwd'[t] # FirstLink
  <2> SUFFICES ASSUME NEW t \in PutThreads, pc'[t] = "stuck" PROVE fwd'[t] # FirstLink
    OBVIOUS
  <2>1. t \in Threads
    BY DEF PutThreads
  <2>2. CASE t # u
    <3>1. pc[t] = "stuck" /\ fwd'[t] = fwd[t]
      BY <1>4, <2>1, <2>2
    <3>2. QED
      BY <1>0, <3>1 DEF SecondFollows, SecondIntact
  <2>3. CASE t = u
    <3>1. ~ GoesOn(u)
      BY <1>0, <2>3, WriteStuck
    <3>2. UNCHANGED fwd /\ fwd[u] \in closed \cup dropped
      BY <1>0, <2>3, <3>1, WriteStuck
    <3>3. QED
      BY <1>0, <2>3, <3>2 DEF SecondFollows, SecondIntact
  <2>4. QED
    BY <2>2, <2>3
<1>10. CASE u = FirstLink
  <2>1. pc'[FirstLink] \in {"waiting", "stuck", "written"} /\ op'[FirstLink] = op[FirstLink]
    <3>1. FirstLink \notin ForwardOutcomes(u) \/ ~ Usable(FirstLink)
      BY <1>3, <1>6, <1>10, FirstLinkIsOne
    <3>2. pc'[FirstLink] \in {"waiting", "stuck", "written"}
      BY <1>10, <3>1, FirstLinkIsOne, WriteSends
    <3>3. PICK c \in ForwardOutcomes(u) :
             UNCHANGED op \/ (Usable(c) /\ op' = [op EXCEPT ![c] = PutOf(u)])
      BY WriteParts DEF GoesOn, Stays, ForwardOutcomes
    <3>4. QED
      BY <3>1, <3>2, <3>3, FirstLinkIsOne DEF TypeInv, TypeOK
  <2>2. ASSUME NEW q \in Puts, at[q] = 1 PROVE AtSecond(q)'
    <3>1. AtSecond(q) /\ pc'[q] = pc[q] /\ fwd'[q] = fwd[q]
      BY <1>0, <1>5, <1>10, <2>2, FirstLinkIsOne, ConnsAndThreads DEF SecondFollows
    <3>2. op[FirstLink] \in Applied(2)'
      BY <1>2, <1>6, <1>10
    <3>3. QED
      BY <1>1, <2>1, <3>1, <3>2 DEF AtSecond
  <2>3. QED
    BY <1>0, <1>1, <1>8, <1>9, <2>1, <2>2 DEF SecondFollows, SecondIntact
<1>11. CASE u # FirstLink /\ ServedAt(u) # 1
  <2>1. pc'[FirstLink] = pc[FirstLink] /\ op'[FirstLink] = op[FirstLink]
    BY <1>4, <1>11, FirstLinkIsOne
  <2>2. ASSUME NEW q \in Puts, at[q] = 1 PROVE AtSecond(q)'
    <3>1. AtSecond(q) /\ pc'[q] = pc[q] /\ fwd'[q] = fwd[q]
      BY <1>0, <1>5, <1>11, <2>2, ConnsAndThreads DEF SecondFollows, ServedAt
    <3>2. QED
      BY <1>1, <2>1, <3>1 DEF AtSecond
  <2>3. QED
    BY <1>0, <1>1, <1>8, <1>9, <2>1, <2>2 DEF SecondFollows, SecondIntact
<1>12. CASE u # FirstLink /\ ServedAt(u) = 1 /\ u \in Puts
  <2>1. AtSecond(u) /\ fwd[u] = FirstLink /\ at[u] = 1 /\ PutOf(u) = u
    BY <1>0, <1>12 DEF SecondFollows, AtSecond, ServedAt, PutOf
  <2>2. Usable(FirstLink) /\ ForwardOutcomes(u) = {FirstLink}
    BY <1>0, <2>1, FirstLinkIsOne DEF SecondFollows, SecondIntact, Usable, ForwardOutcomes
  <2>3. /\ pc' = [pc EXCEPT ![u] = "waiting", ![FirstLink] = "sent"]
        /\ op' = [op EXCEPT ![FirstLink] = u] /\ fwd' = [fwd EXCEPT ![u] = FirstLink]
    <3>1. ~ Unsent(u)
      BY WriteFindsMemory DEF Unsent
    <3>2. FirstLink \notin closed \cup dropped
      BY <1>0 DEF SecondFollows, SecondIntact
    <3>3. QED
      BY <2>1, <2>2, <3>1, <3>2 DEF Write, Forward
  <2>4. /\ pc'[FirstLink] = "sent" /\ op'[FirstLink] = u /\ fwd'[u] = FirstLink
        /\ pc'[u] = "waiting"
    BY <1>0, <1>12, <2>3, FirstLinkIsOne DEF TypeInv, TypeOK
  <2>5. ASSUME NEW q \in Puts, at[q] = 1 PROVE AtSecond(q)'
    <3>1. CASE q = u
      BY <2>4, <3>1 DEF AtSecond
    <3>2. CASE q # u
      <4>1. AtSecond(q) /\ pc'[q] = pc[q] /\ fwd'[q] = fwd[q] /\ q \in Threads
        BY <1>0, <1>5, <2>5, <3>2, ConnsAndThreads DEF SecondFollows
      <4>2. pc[q] # "waiting"
        BY <1>0, <1>12, <2>5, <4>1 DEF WritersAt, ServedAt
      <4>3. QED
        BY <1>1, <4>1, <4>2 DEF AtSecond
    <3>3. QED
      BY <3>1, <3>2
  <2>6. QED
    BY <1>0, <1>1, <1>8, <1>9, <2>4, <2>5 DEF SecondFollows, SecondIntact
<1>13. ServedAt(u) = 1 => u \in Puts
  BY FirstServesPuts
<1>14. QED
  BY <1>10, <1>11, <1>12, <1>13

LEMMA FinishKeepsSecond ==
  ASSUME OneFaultAtMost, TypeInv, ThreadInv, WatchInv, HeadInv, SecondIntact,
         NEW t \in PutThreads, Finish(t)
  PROVE  SecondFollows'
<1>0. /\ SecondFollows /\ UNCHANGED <<linkVars, at, op, log, fwd>> /\ pc[t] = "written"
      /\ t \in Threads /\ res[t] = 0 /\ missed = {} /\ ~ Ends(t)
  BY DEF Finish, HeadInv, LosesOne, SecondIntact, PutThreads, Ends
<1>1. PICK after \in IF t \in closed THEN {"written", "stuck"} ELSE {"written"} :
        pc' = [u \in Threads |-> IF u = t THEN (IF Ends(t) THEN "lost" ELSE "idle")
                                 ELSE IF u \in WaitersOn(t) THEN after ELSE pc[u]]
  BY DEF Finish
<1>2. after \in {"written", "stuck"} /\ (t = FirstLink => after = "written")
  BY <1>0, <1>1 DEF SecondFollows
<1>3. /\ \A u \in Threads : u = t => pc'[u] = "idle"
      /\ \A u \in Threads : u # t /\ u \in WaitersOn(t) => pc'[u] = after
      /\ \A u \in Threads : u # t /\ u \notin WaitersOn(t) => pc'[u] = pc[u]
  BY <1>0, <1>1
<1>4. \/ t = FirstLink /\ pc'[FirstLink] = "idle"
      \/ t # FirstLink /\ pc'[FirstLink] = pc[FirstLink]
      \/ t # FirstLink /\ pc[FirstLink] = "waiting" /\ pc'[FirstLink] \in {"written", "stuck"}
  BY <1>2, <1>3, FirstLinkIsOne DEF WaitersOn
<1>5. ASSUME NEW q \in Puts, at[q] = 1 PROVE AtSecond(q)'
  <2>1. AtSecond(q) /\ q \in Threads /\ q # FirstLink
    BY <1>0, <1>5, FirstLinkIsOne, ConnsAndThreads DEF SecondFollows
  <2>2. CASE q = t
    BY <1>3, <2>1, <2>2 DEF AtSecond
  <2>3. CASE q # t /\ t = FirstLink
    <3>1. CASE pc[q] = "waiting"
      <4>1. pc'[q] = "written"
        BY <1>2, <1>3, <2>1, <2>3, <3>1 DEF AtSecond, WaitersOn
      <4>2. q \in Applied(2)
        BY <1>0, <2>1, <2>3, <3>1 DEF AtSecond
      <4>3. QED
        BY <1>0, <4>1, <4>2 DEF AtSecond, Applied
    <3>2. CASE pc[q] # "waiting"
      <4>1. pc'[q] = pc[q]
        BY <1>3, <2>1, <2>3, <3>2 DEF WaitersOn
      <4>2. QED
        BY <1>0, <2>1, <3>2, <4>1 DEF AtSecond, Applied
    <3>3. QED
      BY <3>1, <3>2
  <2>4. CASE q # t /\ t # FirstLink
    <3>1. pc'[q] = pc[q]
      BY <1>3, <2>1, <2>4 DEF AtSecond, WaitersOn
    <3>2. QED
      BY <1>0, <1>4, <2>1, <2>4, <3>1 DEF AtSecond, Applied
  <2>5. QED
    BY <2>2, <2>3, <2>4
<1>6. acked' \subseteq Applied(2)
  <2>1. acked \subseteq Applied(2)
    BY <1>0 DEF SecondFollows
  <2>2. CASE t \in Puts
    <3>1. at[t] # 0 /\ at[t] \in heads
      BY <1>0, <2>2 DEF TypeInv, BusyOK, ServedAt, ThreadInv, Fresh
    <3>2. at[t] \in {1, 2}
      BY <3>1 DEF HeadInv, LeavesOnce
    <3>3. at[t] = 1 => t \in Applied(2)
      BY <1>0, <2>2 DEF SecondFollows, AtSecond
    <3>4. at[t] = 2 => t \in Applied(2)
      BY <1>0, <2>2 DEF HeadInv, AnsweredIsStored
    <3>5. acked' \subseteq acked \cup {t}
      BY DEF Finish
    <3>6. QED
      BY <2>1, <3>2, <3>3, <3>4, <3>5
  <2>3. CASE t \notin Puts
    BY <2>1, <2>3 DEF Finish
  <2>4. QED
    BY <2>2, <2>3
<1>7. \A u \in PutThreads : pc'[u] = "stuck" => fwd[u] # FirstLink
  <2> SUFFICES ASSUME NEW u \in PutThreads, pc'[u] = "stuck" PROVE fwd[u] # FirstLink
    OBVIOUS
  <2>1. u \in Threads /\ u # t
    BY <1>3 DEF PutThreads
  <2>2. CASE u \in WaitersOn(t)
    BY <1>2, <1>3, <2>1, <2>2 DEF WaitersOn
  <2>3. CASE u \notin WaitersOn(t)
    <3>1. pc[u] = "stuck"
      BY <1>3, <2>1, <2>3
    <3>2. QED
      BY <1>0, <3>1 DEF SecondFollows, SecondIntact
  <2>4. QED
    BY <2>2, <2>3
<1>8. QED
  BY <1>0, <1>4, <1>5, <1>6, <1>7 DEF SecondFollows, SecondIntact, Applied, linkVars

(* After the one fault nobody else is lost. *)
LEMMA FaultsEnd ==
  ASSUME OneFaultAtMost, TypeInv, WatchInv, HeadInv, [Next]_vars, faults # 0,
         Servers \subseteq alive \cap zk
  PROVE  faults' # 0 /\ UNCHANGED <<alive, zk>>
<1>1. ~ Fault
  BY NoMoreFaults
<1>2. \A k \in Servers : ~ Crash(k) /\ ~ Expire(k) /\ ~ ExpireRunning(k)
  BY <1>1 DEF Crash, Expire, ExpireRunning
<1>3. \A k \in Servers : WatcherStep(k) => UNCHANGED zk
  BY DEF WatcherStep, WatcherReads, WatcherReadsNothing, WatcherSetsNext
<1>4. \A p \in Puts : SendPut(p) => UNCHANGED <<alive, zk, faults>>
  BY DEF SendPut, zkVars
<1>5. \A t \in PutThreads : WorkerStep(t) => UNCHANGED <<alive, zk, faults>>
  <2>1. \A t : Write(t) => UNCHANGED <<alive, zk, faults>>
    BY <1>1, WriteParts DEF zkVars
  <2>2. QED
    BY <2>1 DEF WorkerStep, RunningStep, Invoke, ForwardFails, Unstick, Finish, zkVars
<1>6. UNCHANGED vars => UNCHANGED <<alive, zk, faults>>
  BY DEF vars, zkVars
<1>7. QED
  BY <1>2, <1>3, <1>4, <1>5, <1>6, ChainSteps

LEMMA NextKeepsSecond ==
  ASSUME OneFaultAtMost, TypeInv, TypeInv', OrderInv, ThreadInv, WatchInv, HeadInv, [Next]_vars
  PROVE  SecondFollows'
<1> SUFFICES ASSUME SecondIntact' PROVE SecondFollows'
  BY DEF SecondFollows
<1>1. SecondIntact
  <2>1. alive' \subseteq alive /\ zk' \subseteq zk
    <3>1. \A s \in Servers : ~ CreateNode(s) /\ ~ Start(s)
      BY NobodyJoins DEF MainStep
    <3>2. QED
      BY <3>1, PutSteps
  <2>2. Servers \ {1} \subseteq alive \cap zk /\ 2 \in Servers /\ missed = {}
    BY <2>1, StoredStays DEF SecondIntact
  <2>3. faults # 0 /\ 1 \in alive \cap zk => faults' # 0 /\ UNCHANGED <<alive, zk>>
    BY <2>2, FaultsEnd
  <2>4. QED
    BY <2>2, <2>3 DEF SecondIntact
<1>2. CASE UNCHANGED vars
  BY <1>2 DEF HeadInv, SecondFollows, SecondIntact, AtSecond, Applied, vars, linkVars, threadVars, zkVars
<1>3. QED
  BY <1>1, <1>2, ChainSteps, LossKeepsSecond, WatcherKeepsSecond, SendKeepsSecond, InvokeKeepsSecond,
     WriteKeepsSecond, FailureKeepsSecond, FinishKeepsSecond DEF WorkerStep, RunningStep

(* What keeps an answered put at the head: as long as all servers behind the *)
(* first are intact, it is answered only when the second has it.            *)
THEOREM ReconfigHeadInv ==
  ASSUME OneFaultAtMost
  PROVE  Spec => []HeadInv
<1>1. /\ TypeInv /\ TypeInv' /\ OrderInv /\ ThreadInv /\ WatchInv /\ HeadInv /\ [Next]_vars
      => HeadInv'
  BY NextKeepsLosesOne, NextKeepsLeavesOnce, NextKeepsAnswered, NextKeepsSecond DEF HeadInv
<1>2. Init => HeadInv
  BY InitHeadInv
<1>3. QED
  BY <1>1, <1>2, ReconfigWatchInv, ReconfigTypeInv, ReconfigOrderInv, ReconfigThreadInv,
     PTL DEF Spec

LEMMA HeadInvGivesHead ==
  ASSUME OneFaultAtMost, TypeInv, ThreadInv, WatchInv, HeadInv
  PROVE  AckedAtHead
<1> SUFFICES ASSUME Serving # {}, NEW p \in acked
             PROVE  p \in Applied(Min(Serving)) \/ <<Min(Serving), p, 0>> \in missed
  BY DEF AckedAtHead
<1>1. Serving = alive \cap zk
  BY DEF Serving, WatchInv, FoundersServe, OneFaultAtMost, Founders, Servers, TypeInv, TypeOK
<1>2. Serving \subseteq Nat /\ Serving \subseteq Servers
  BY <1>1, ServersAreNumbers DEF TypeInv, TypeOK
<1>3. Min(Serving) \in Serving /\ \A s \in Serving : Min(Serving) <= s
  BY <1>2, MinIsLeast
<1>4. CASE 1 \in alive \cap zk
  <2>1. Min(Serving) = 1
    <3>1. Min(Serving) \in Servers /\ Min(Serving) <= 1
      BY <1>1, <1>2, <1>3, <1>4
    <3>2. QED
      BY <3>1, ServersAreNumbers
  <2>2. p \in Puts /\ at[p] # 0 /\ (p \in Applied(at[p]) \/ <<at[p], p, 0>> \in missed)
    BY DEF HeadInv, AnsweredIsStored, TypeInv, TypeOK
  <2>3. at[p] = 1
    BY <1>4, <2>2 DEF ThreadInv, Fresh, HeadInv, LeavesOnce
  <2>4. QED
    BY <2>1, <2>2, <2>3
<1>5. CASE 1 \notin alive \cap zk
  <2>1. PICK k \in Servers : Servers \ {k} \subseteq alive \cap zk
    BY DEF HeadInv, LosesOne
  <2>2. k = 1 /\ missed = {}
    BY <1>5, <2>1, FirstLinkIsOne DEF HeadInv, LosesOne
  <2>3. Min(Serving) = 2 /\ 2 \in Servers
    <3>1. Min(Serving) \in Servers /\ Min(Serving) # 1
      BY <1>1, <1>2, <1>3, <1>5
    <3>2. Min(Serving) \in Nat /\ Min(Serving) >= 2 /\ 2 \in Servers
      BY <3>1, ReconfigAssumption DEF Servers
    <3>3. 2 \in Serving
      BY <1>1, <2>1, <2>2, <3>2
    <3>4. QED
      BY <1>3, <3>2, <3>3
  <2>4. SecondIntact
    BY <1>5, <2>1, <2>2, <2>3 DEF SecondIntact
  <2>5. QED
    BY <2>3, <2>4 DEF HeadInv, SecondFollows
<1>6. QED
  BY <1>4, <1>5

(* In a chain that nobody joins and that has one fault at most, whatever    *)
(* the number of its servers and of the puts on their way, an answered put  *)
(* is in the table of the server that is the head.                          *)
THEOREM ReconfigAckedAtHead ==
  ASSUME NumServers = NumFounders, MaxFaults <= 1
  PROVE  Spec => []AckedAtHead
<1>1. OneFaultAtMost
  BY DEF OneFaultAtMost
<1>2. TypeInv /\ ThreadInv /\ WatchInv /\ HeadInv => AckedAtHead
  BY <1>1, HeadInvGivesHead
<1>3. Spec => []HeadInv
  BY <1>1, ReconfigHeadInv
<1>4. QED
  BY <1>2, <1>3, ReconfigWatchInv, ReconfigTypeInv, ReconfigThreadInv, PTL
=============================================================================

-------------------------- MODULE ClientViewProofs --------------------------
(***************************************************************************)
(* What the client's view of the chain promises, for any number of         *)
(* servers, joins and crashes.  TypeInv bounds the rtables by the changes   *)
(* of /chain that a watch has seen; WatchInv says what the client knows of  *)
(* the chain; PeerInv says to which servers head and tail were made, TailInv  *)
(* and OwnInv which connections their descriptors name.                     *)
(***************************************************************************)
EXTENDS ClientView, Least, FiniteSetTheorems

(* What a thread has still to make, and the changes that made it so: the    *)
(* start and each change of /chain that a watch sees lead to two rtables.   *)
Places == { "starting", "ready", "calling", "failing", "idle",
            "check head", "connect head", "check tail", "connect tail" }

ToMake(place) == CASE place \in {"starting", "check head", "connect head"} -> 2
                   [] place \in {"check tail", "connect tail"} -> 1
                   [] OTHER -> 0

Unheard == IF event THEN 2 ELSE 0

Pending == ToMake(pc["main"]) + ToMake(pc["watcher"]) + Unheard

Changes == (joined - NumFounders) + (joined - Cardinality(zk))

Commanding == pc["main"] \in {"calling", "failing"}

ChainType == /\ joined \in NumFounders .. NumServers
             /\ zk \subseteq 1 .. joined /\ alive \subseteq zk
             /\ joined - Cardinality(alive) <= MaxCrashes

ThreadType == /\ armed \in BOOLEAN /\ event \in BOOLEAN /\ running \in BOOLEAN
              /\ blind \in BOOLEAN /\ missed \subseteq Ends
              /\ pc \in [Threads -> Places]
              /\ pc["main"] # "idle" /\ pc["watcher"] \notin {"starting", "ready", "calling", "failing"}
              /\ snap \in [Threads -> SUBSET (1 .. joined)]

RtableType == /\ made \in Nat /\ made + Pending <= 2 * (1 + Changes)
              /\ rtable \in [Ends -> 0 .. made] /\ used \in 0 .. made
              /\ freed \subseteq 1 .. made
              /\ sockfd \in [Rtables -> Fds \cup {0}]
              /\ \A r \in 1 .. made : sockfd[r] # 0
              /\ file \in [Fds -> 0 .. made] /\ cut \subseteq 1 .. made
              /\ \A fd \in Fds : fd > made => file[fd] = 0
              /\ peer \in [Rtables -> 0 .. joined]
              /\ Commanding => used # NULL

TypeInv == ChainType /\ ThreadType /\ RtableType

Limit == 2 * (1 + (NumServers - NumFounders) + MaxCrashes)

LEMMA ToMakeNumber == \A p : ToMake(p) \in 0 .. 2
  BY DEF ToMake

LEMMA TwoMore ==
  \A m, p, q, c \in Nat : m + p <= 2 * (1 + c) /\ q <= p + 2 => m + q <= 2 * (1 + (c + 1))
  OBVIOUS

LEMMA NoMore ==
  \A m, p, q, c \in Nat : m + p <= 2 * (1 + c) /\ q <= p => m + q <= 2 * (1 + c)
  OBVIOUS

LEMMA SwapTwo == \A n \in Nat : n + 0 + 2 = n + 2 + 0
  OBVIOUS

LEMMA PendingNumber == Pending \in Nat /\ Unheard \in {0, 2}
  BY ToMakeNumber DEF Pending, Unheard

LEMMA RtablesAre == Rtables = 1 .. Limit /\ Fds = 1 .. Limit /\ Limit \in Nat \ {0, 1}
  BY ViewAssumption DEF Rtables, Fds, Limit

LEMMA ChainCounts ==
  ASSUME ChainType
  PROVE  /\ IsFiniteSet(zk) /\ IsFiniteSet(alive)
         /\ Cardinality(zk) \in Nat /\ Cardinality(alive) \in Nat /\ joined \in Nat
         /\ Cardinality(alive) <= Cardinality(zk) /\ Cardinality(zk) <= joined
         /\ Changes \in Nat /\ 2 * (1 + Changes) <= Limit
<1>1. joined \in Nat /\ joined <= NumServers /\ joined >= NumFounders
  BY ViewAssumption DEF ChainType
<1>2. IsFiniteSet(1 .. joined) /\ Cardinality(1 .. joined) = joined
  BY <1>1, FS_Interval, ViewAssumption DEF ChainType
<1>3. IsFiniteSet(zk) /\ Cardinality(zk) <= joined
  BY <1>2, FS_Subset DEF ChainType
<1>4. IsFiniteSet(alive) /\ Cardinality(alive) <= Cardinality(zk)
  BY <1>3, FS_Subset DEF ChainType
<1>5. Cardinality(zk) \in Nat /\ Cardinality(alive) \in Nat
  BY <1>3, <1>4, FS_CardinalityType
<1>6. Changes \in Nat /\ 2 * (1 + Changes) <= Limit
  BY <1>1, <1>3, <1>4, <1>5, ViewAssumption DEF Changes, Limit, ChainType
<1>7. QED
  BY <1>1, <1>3, <1>4, <1>5, <1>6

(* An rtable that is still to be made is one of Rtables. *)
LEMMA RoomForOne ==
  ASSUME TypeInv, Pending > 0
  PROVE  made + 1 \in Rtables
<1>1. made \in Nat /\ made + Pending <= Limit /\ Pending \in Nat
  BY ChainCounts, RtablesAre, PendingNumber DEF TypeInv, RtableType
<1>2. QED
  BY <1>1, RtablesAre

LEMMA InitTypeInv == Init => TypeInv
<1> SUFFICES ASSUME Init PROVE TypeInv
  OBVIOUS
<1>1. Cardinality(1 .. NumFounders) = NumFounders
  BY FS_Interval, ViewAssumption
<1>2. ChainType
  BY <1>1, ViewAssumption DEF Init, ChainType
<1>3. ThreadType
  BY DEF Init, ThreadType, Threads, Places
<1>4. Pending = 2 /\ Changes = 0
  BY <1>1, ViewAssumption DEF Init, Pending, Unheard, ToMake, Changes, Threads
<1>5. RtableType
  BY <1>4, RtablesAre, ViewAssumption DEF Init, RtableType, Ends, Threads, NULL, Commanding
<1>6. QED
  BY <1>2, <1>3, <1>5 DEF TypeInv

(* The chain changes, and perhaps the watch sees it. *)
LEMMA JoinKeepsTypes ==
  ASSUME TypeInv, Join
  PROVE  TypeInv'
<1>1. /\ joined < NumServers /\ joined' = joined + 1 /\ alive' = alive \cup {joined + 1}
      /\ zk' = zk \cup {joined + 1} /\ event' = (event \/ armed) /\ armed' = FALSE
      /\ UNCHANGED <<running, pc, snap, rtable, made, sockfd, freed, file, used, peer, cut, missed, blind>>
  BY DEF Join, ChildrenBecome, viewVars, histVars
<1>2. /\ IsFiniteSet(zk) /\ IsFiniteSet(alive)
      /\ Cardinality(zk) \in Nat /\ Cardinality(alive) \in Nat /\ joined \in Nat
  BY ChainCounts DEF TypeInv
<1>3. joined + 1 \notin zk /\ joined + 1 \notin alive
  BY <1>2 DEF TypeInv, ChainType
<1>4. Cardinality(zk') = Cardinality(zk) + 1 /\ Cardinality(alive') = Cardinality(alive) + 1
  BY <1>1, <1>2, <1>3, FS_AddElement
<1>5. ChainType'
  BY <1>1, <1>2, <1>4, ViewAssumption DEF TypeInv, ChainType
<1>6. 1 .. joined \subseteq 1 .. joined' /\ 0 .. joined \subseteq 0 .. joined'
  BY <1>1, <1>2
<1>7. ThreadType'
  BY <1>1, <1>6 DEF TypeInv, ThreadType
<1>8. Pending' <= Pending + 2 /\ Changes' = Changes + 1
  <2>1. Changes' = Changes + 1
    BY <1>1, <1>2, <1>4, ViewAssumption DEF Changes
  <2>2. Pending' <= Pending + 2
    BY <1>1, ToMakeNumber DEF Pending, Unheard
  <2>3. QED
    BY <2>1, <2>2
<1>9. RtableType'
  <2>1. Changes \in Nat /\ Pending \in Nat /\ Pending' \in Nat
    BY ChainCounts, PendingNumber, ToMakeNumber DEF TypeInv, Pending, Unheard
  <2>2. made' + Pending' <= 2 * (1 + Changes')
    <3>1. made' = made /\ made \in Nat /\ made + Pending <= 2 * (1 + Changes)
      BY <1>1 DEF TypeInv, RtableType
    <3>2. made + Pending' <= 2 * (1 + (Changes + 1))
      BY <1>8, <2>1, <3>1, TwoMore
    <3>3. QED
      BY <1>8, <3>1, <3>2
  <2>3. peer' \in [Rtables -> 0 .. joined']
    BY <1>1, <1>6 DEF TypeInv, RtableType
  <2>4. QED
    BY <1>1, <2>2, <2>3 DEF TypeInv, RtableType, Commanding
<1>10. QED
  BY <1>5, <1>7, <1>9 DEF TypeInv

LEMMA ExpireKeepsTypes ==
  ASSUME TypeInv, NEW s, Expire(s)
  PROVE  TypeInv'
<1>1. /\ s \in zk /\ s \notin alive /\ zk' = zk \ {s}
      /\ event' = (event \/ armed) /\ armed' = FALSE
      /\ UNCHANGED <<joined, alive, running, pc, snap, rtable, made, sockfd, freed, file, used, peer, cut, missed, blind>>
  BY DEF Expire, ChildrenBecome, viewVars, histVars
<1>2. IsFiniteSet(zk) /\ Cardinality(zk) \in Nat /\ joined \in Nat
  BY ChainCounts DEF TypeInv
<1>3. Cardinality(zk') = Cardinality(zk) - 1
  BY <1>1, <1>2, FS_RemoveElement
<1>4. ChainType'
  BY <1>1 DEF TypeInv, ChainType
<1>5. ThreadType'
  BY <1>1 DEF TypeInv, ThreadType
<1>6. Pending' <= Pending + 2 /\ Changes' = Changes + 1
  <2>1. Changes' = Changes + 1
    BY <1>1, <1>2, <1>3, ViewAssumption DEF Changes
  <2>2. Pending' <= Pending + 2
    BY <1>1, ToMakeNumber DEF Pending, Unheard
  <2>3. QED
    BY <2>1, <2>2
<1>7. RtableType'
  <2>1. Changes \in Nat /\ Pending \in Nat /\ Pending' \in Nat
    BY ChainCounts, PendingNumber, ToMakeNumber DEF TypeInv, Pending, Unheard
  <2>2. made' + Pending' <= 2 * (1 + Changes')
    <3>1. made' = made /\ made \in Nat /\ made + Pending <= 2 * (1 + Changes)
      BY <1>1 DEF TypeInv, RtableType
    <3>2. made + Pending' <= 2 * (1 + (Changes + 1))
      BY <1>6, <2>1, <3>1, TwoMore
    <3>3. QED
      BY <1>6, <3>1, <3>2
  <2>3. QED
    BY <1>1, <2>2 DEF TypeInv, RtableType, Commanding
<1>8. QED
  BY <1>4, <1>5, <1>7 DEF TypeInv

LEMMA CrashKeepsTypes ==
  ASSUME TypeInv, NEW s, Crash(s)
  PROVE  TypeInv'
<1>1. /\ s \in alive /\ joined - Cardinality(alive) < MaxCrashes /\ alive' = alive \ {s}
      /\ UNCHANGED <<zk, joined, armed, event, running, pc, snap, rtable, made, sockfd, freed, file, used,
                     peer, cut, missed, blind>>
  BY DEF Crash, watchVars, viewVars, histVars
<1>2. IsFiniteSet(alive) /\ Cardinality(alive) \in Nat /\ joined \in Nat
  BY ChainCounts DEF TypeInv
<1>3. Cardinality(alive') = Cardinality(alive) - 1
  BY <1>1, <1>2, FS_RemoveElement
<1>4. ChainType'
  BY <1>1, <1>2, <1>3, ViewAssumption DEF TypeInv, ChainType
<1>5. ThreadType' /\ Pending' = Pending /\ Changes' = Changes
  BY <1>1 DEF TypeInv, ThreadType, Pending, Unheard, Changes
<1>6. QED
  BY <1>1, <1>4, <1>5 DEF TypeInv, RtableType, Commanding

LEMMA SessionKeepsTypes ==
  ASSUME TypeInv, SessionEnds
  PROVE  TypeInv'
<1>1. /\ event' \in {FALSE, event} /\ armed' = FALSE /\ blind' = TRUE
      /\ UNCHANGED <<zk, joined, alive, running, pc, snap, rtable, made, sockfd, freed, file, used,
                     peer, cut, missed>>
  BY DEF SessionEnds, chainVars, viewVars
<1>2. ChainType' /\ ThreadType' /\ Changes' = Changes
  BY <1>1 DEF TypeInv, ChainType, ThreadType, Changes
<1>3. made' + Pending' <= 2 * (1 + Changes')
  <2>1. Pending' <= Pending /\ Pending' \in Nat /\ Pending \in Nat
    <3>1. /\ ToMake(pc["main"]) \in Nat /\ ToMake(pc["watcher"]) \in Nat
          /\ ToMake(pc["main"])' = ToMake(pc["main"]) /\ ToMake(pc["watcher"])' = ToMake(pc["watcher"])
      BY <1>1, ToMakeNumber
    <3>2. Unheard \in {0, 2} /\ Unheard' \in {0, 2} /\ Unheard' <= Unheard
      <4>1. CASE event' = FALSE
        BY <4>1 DEF Unheard
      <4>2. CASE event' = event
        BY <4>2 DEF Unheard
      <4>3. QED
        BY <1>1, <4>1, <4>2
    <3>3. QED
      BY <3>1, <3>2 DEF Pending
  <2>2. made \in Nat /\ made + Pending <= 2 * (1 + Changes) /\ Changes \in Nat
    BY ChainCounts DEF TypeInv, RtableType
  <2>3. made' = made /\ Changes' = Changes
    BY <1>1, <1>2
  <2>4. made + Pending' <= 2 * (1 + Changes)
    BY ONLY <2>1, <2>2, NoMore, Zenon
  <2>5. QED
    BY <2>3, <2>4
<1>4. QED
  BY <1>1, <1>2, <1>3 DEF TypeInv, RtableType, Commanding

(* Start, and the watcher when an event comes, with a list or without. *)
LEMMA ReadingKeepsTypes ==
  ASSUME TypeInv, NEW t \in Threads,
         snap' \in [Threads -> SUBSET (1 .. joined)],
         armed' \in BOOLEAN, running' \in BOOLEAN, blind' \in BOOLEAN, event' \in BOOLEAN,
         pc' = [pc EXCEPT ![t] = "check head"],
         UNCHANGED <<zk, joined, alive, rtable, made, sockfd, freed, file, used, peer, cut, missed>>,
         t = "main" => pc["main"] = "starting" /\ (event' <=> event),
         t = "watcher" => pc["watcher"] = "idle" /\ event /\ ~ event'
  PROVE  TypeInv'
<1>1. /\ pc' = [pc EXCEPT ![t] = "check head"]
      /\ UNCHANGED <<zk, joined, alive, rtable, made, sockfd, freed, file, used, peer, cut, missed>>
  OBVIOUS
<1>2. t = "main" \/ t = "watcher"
  BY DEF Threads
<1>3. ChainType'
  BY <1>1 DEF TypeInv, ChainType
<1>4. ThreadType'
  BY <1>1 DEF TypeInv, ThreadType, ChainType, Places, Threads
<1>5. Pending' = Pending /\ Changes' = Changes
  <2>1. Changes' = Changes
    BY <1>1 DEF Changes
  <2>2. /\ ToMake("idle") = 0 /\ ToMake("check head") = 2 /\ ToMake("starting") = 2
        /\ ToMake(pc["main"]) \in Nat /\ ToMake(pc["watcher"]) \in Nat
    BY ToMakeNumber DEF ToMake
  <2>3. CASE t = "main"
    <3>1. /\ pc'["main"] = "check head" /\ pc'["watcher"] = pc["watcher"] /\ pc["main"] = "starting"
          /\ (event' <=> event)
      BY <1>1, <2>3 DEF TypeInv, ThreadType, Threads
    <3>5. Unheard' = Unheard
      BY <3>1 DEF Unheard
    <3>2. /\ Pending = ToMake("starting") + ToMake(pc["watcher"]) + Unheard
          /\ Pending' = ToMake("check head") + ToMake(pc["watcher"]) + Unheard
      BY <3>1, <3>5 DEF Pending
    <3>3. Pending' = Pending
      BY <2>2, <3>2
    <3>4. QED
      BY <2>1, <3>3
  <2>5. CASE t = "watcher"
    <3>1. /\ pc'["watcher"] = "check head" /\ pc'["main"] = pc["main"] /\ pc["watcher"] = "idle"
          /\ event = TRUE /\ event' = FALSE
      BY <1>1, <2>5 DEF TypeInv, ThreadType, Threads
    <3>2. Pending = ToMake(pc["main"]) + 0 + 2 /\ Pending' = ToMake(pc["main"]) + 2 + 0
      BY <2>2, <3>1 DEF Pending, Unheard
    <3>5. ToMake(pc["main"]) + 0 + 2 = ToMake(pc["main"]) + 2 + 0
      BY <2>2, SwapTwo, Zenon
    <3>6. Pending' = Pending
      BY <3>2, <3>5, Zenon
    <3>4. QED
      BY <2>1, <3>6
  <2>4. QED
    BY <1>2, <2>1, <2>3, <2>5
<1>6. Commanding' => Commanding
  BY <1>1, <1>2 DEF TypeInv, ThreadType, Threads, Commanding
<1>7. RtableType'
  BY <1>1, <1>5, <1>6 DEF TypeInv, RtableType
<1>8. QED
  BY <1>3, <1>4, <1>7 DEF TypeInv

(* A close leaves every other descriptor alone. *)
LEMMA Closed ==
  ASSUME NEW n \in Nat, NEW f \in [Fds -> 0 .. n], NEW d
  PROVE  /\ [f EXCEPT ![d] = 0] \in [Fds -> 0 .. n]
         /\ \A fd \in Fds : [f EXCEPT ![d] = 0][fd] = f[fd] \/ [f EXCEPT ![d] = 0][fd] = 0
         /\ \A fd \in Fds : fd # d => [f EXCEPT ![d] = 0][fd] = f[fd]
<1> DEFINE N == 0 .. n
<1>1. 0 \in N /\ f \in [Fds -> N]
  OBVIOUS
<1> HIDE DEF N
<1>2. /\ [f EXCEPT ![d] = 0] \in [Fds -> N]
      /\ \A fd \in Fds : [f EXCEPT ![d] = 0][fd] = f[fd] \/ [f EXCEPT ![d] = 0][fd] = 0
      /\ \A fd \in Fds : fd # d => [f EXCEPT ![d] = 0][fd] = f[fd]
  BY <1>1
<1>3. QED
  BY <1>2 DEF N

LEMMA AltCheckKeepsTypes ==
  ASSUME TypeInv, NEW t \in Threads, NEW e \in Ends, AltCheck(t, e)
  PROVE  TypeInv'
<1> DEFINE r == rtable[e]
<1>1. /\ pc[t] = Check(e) /\ pc' = [pc EXCEPT ![t] = Connect(e)] /\ running' \in BOOLEAN
      /\ \/ UNCHANGED <<file, freed>>
         \/ r # NULL /\ Disconnect(r)
      /\ UNCHANGED <<zk, joined, alive, armed, event, snap, rtable, made, sockfd, used, peer, cut, missed, blind>>
  BY DEF AltCheck, chainVars, watchVars, histVars, TypeInv, ThreadType
<1>2. ToMake(pc'[t]) = ToMake(pc[t]) /\ \A u \in Threads : u # t => pc'[u] = pc[u]
  BY <1>1 DEF Check, Connect, ToMake, TypeInv, ThreadType
<1>3. Pending' = Pending /\ Changes' = Changes
  BY <1>1, <1>2 DEF Pending, Unheard, Changes, Threads
<1>4. ThreadType'
  BY <1>1 DEF TypeInv, ThreadType, Places, Check, Connect, Threads
<1>5. file' \in [Fds -> 0 .. made] /\ freed' \subseteq 1 .. made /\ \A fd \in Fds : fd > made => file'[fd] = 0
  <2>1. CASE UNCHANGED <<file, freed>>
    BY <2>1 DEF TypeInv, RtableType
  <2>2. CASE r # NULL /\ file' = [file EXCEPT ![sockfd[r]] = 0] /\ freed' = freed \cup {r}
    <3>1. r \in 1 .. made
      BY <2>2 DEF TypeInv, RtableType, NULL
    <3>2. file' \in [Fds -> 0 .. made] /\ \A fd \in Fds : file'[fd] = file[fd] \/ file'[fd] = 0
      BY <2>2, Closed DEF TypeInv, RtableType
    <3>3. freed' \subseteq 1 .. made
      BY <2>2, <3>1 DEF TypeInv, RtableType
    <3>4. QED
      BY <3>2, <3>3 DEF TypeInv, RtableType
  <2>3. QED
    BY <1>1, <2>1, <2>2 DEF Disconnect
<1>6. Commanding' => Commanding
  BY <1>1 DEF TypeInv, ThreadType, Threads, Connect, Commanding
<1>7. RtableType'
  BY <1>1, <1>3, <1>5, <1>6 DEF TypeInv, RtableType
<1>8. ChainType'
  BY <1>1 DEF TypeInv, ChainType
<1>9. QED
  BY <1>4, <1>7, <1>8 DEF TypeInv

(* What connect_node changes when it connects, and when it does not. *)
Connects(t, e, fd) ==
  /\ made' = made + 1 /\ made + 1 \in Rtables
  /\ sockfd' = [sockfd EXCEPT ![made + 1] = fd]
  /\ file' = [file EXCEPT ![fd] = made + 1]
  /\ peer' = [peer EXCEPT ![made + 1] = At(e, snap[t])]
  /\ rtable' = [rtable EXCEPT ![e] = made + 1]
  /\ missed' = missed \ {e}

ConnectsNot(t, e) ==
  /\ rtable' = [rtable EXCEPT ![e] = NULL]
  /\ missed' = IF At(e, snap[t]) \in zk \cap alive THEN missed \cup {e} ELSE missed \ {e}
  /\ UNCHANGED <<made, sockfd, file, peer>>

(* connect_node gets the smallest descriptor that is free. *)
LEMMA Connected ==
  ASSUME TypeInv, NEW t \in Threads, NEW e \in Ends, ConnectNode(t, e), ~ ConnectsNot(t, e)
  PROVE  /\ At(e, snap[t]) \in zk \cap alive
         /\ \E fd \in Fds :
              file[fd] = 0 /\ fd <= made + 1 /\ Connects(t, e, fd)
<1> DEFINE Free == {f \in Fds : file[f] = 0}
<1>1. Pending > 0
  <2>0. pc[t] \in {"connect head", "connect tail"}
    BY DEF ConnectNode, Connect
  <2>1. ToMake(pc[t]) \in {1, 2} /\ ToMake(pc["main"]) \in Nat /\ ToMake(pc["watcher"]) \in Nat
        /\ Unheard \in Nat
    <3>1. ToMake(pc[t]) \in {1, 2}
      BY <2>0 DEF ToMake
    <3>2. QED
      BY <3>1, PendingNumber, ToMakeNumber
  <2>2. CASE t = "main"
    BY <2>1, <2>2 DEF Pending
  <2>3. CASE t = "watcher"
    BY <2>1, <2>3 DEF Pending
  <2>4. QED
    BY <2>2, <2>3 DEF Threads
<1>2. made + 1 \in Rtables /\ Fds = Rtables /\ Fds \subseteq Nat
  BY <1>1, RoomForOne, RtablesAre DEF Fds
<1>3. file[made + 1] = 0
  BY <1>2, RtablesAre DEF TypeInv, RtableType
<1>4. Min(Free) \in Free /\ \A f \in Free : Min(Free) <= f
  BY <1>2, <1>3, MinIsLeast
<1>5. /\ At(e, snap[t]) \in zk \cap alive
      /\ made' = made + 1
      /\ sockfd' = [sockfd EXCEPT ![made'] = Min(Free)]
      /\ file' = [file EXCEPT ![Min(Free)] = made']
      /\ peer' = [peer EXCEPT ![made'] = At(e, snap[t])]
      /\ rtable' = [rtable EXCEPT ![e] = made']
      /\ missed' = missed \ {e}
  BY DEF ConnectNode, ConnectsNot
<1> HIDE DEF Free
<1>6. Min(Free) \in Fds /\ file[Min(Free)] = 0 /\ Min(Free) <= made + 1
  BY <1>2, <1>3, <1>4 DEF Free
<1>7. QED
  BY <1>2, <1>5, <1>6 DEF Connects

LEMMA ConnectKeepsTypes ==
  ASSUME TypeInv, NEW t \in Threads, NEW e \in Ends, ConnectNode(t, e)
  PROVE  TypeInv'
<1>1. /\ pc[t] = Connect(e) /\ pc' = [pc EXCEPT ![t] = AfterConnect(t, e)]
      /\ UNCHANGED <<zk, joined, alive, armed, event, running, snap, freed, used, cut, blind>>
  BY DEF ConnectNode, chainVars, watchVars
<1>2. ChainType'
  BY <1>1 DEF TypeInv, ChainType
<1>3. ThreadType'
  <2>1. missed' \subseteq Ends
    BY Connected DEF TypeInv, ThreadType, Connects, ConnectsNot
  <2>2. QED
    BY <1>1, <2>1 DEF TypeInv, ThreadType, Places, AfterConnect, Connect, Threads, Ends
<1>4. Commanding' => Commanding
  BY <1>1 DEF TypeInv, ThreadType, Threads, AfterConnect, Commanding
<1>5. Pending' = Pending - 1 /\ Changes' = Changes /\ Pending \in Nat /\ Pending > 0 /\ Changes \in Nat
  <2>1. Changes' = Changes /\ Unheard' = Unheard /\ Unheard \in Nat /\ Changes \in Nat /\ Pending \in Nat
    BY <1>1, PendingNumber, ChainCounts DEF Changes, Unheard, TypeInv
  <2>2. ToMake(pc'[t]) = ToMake(pc[t]) - 1 /\ ToMake(pc[t]) \in {1, 2}
        /\ ToMake(pc["main"]) \in Nat /\ ToMake(pc["watcher"]) \in Nat
    <3>0. ToMake(pc["main"]) \in Nat /\ ToMake(pc["watcher"]) \in Nat
      BY ToMakeNumber
    <3>1. pc'[t] = AfterConnect(t, e)
      BY <1>1 DEF TypeInv, ThreadType
    <3>2. /\ ToMake("connect head") = 2 /\ ToMake("connect tail") = 1
          /\ ToMake("check tail") = 1 /\ ToMake("ready") = 0 /\ ToMake("idle") = 0
      BY DEF ToMake
    <3>3. CASE e = "head"
      <4>1. pc[t] = "connect head" /\ pc'[t] = "check tail"
        BY <1>1, <3>1, <3>3 DEF AfterConnect, Connect
      <4>2. ToMake(pc[t]) = 2 /\ ToMake(pc'[t]) = 1
        BY <3>2, <4>1
      <4>3. QED
        BY <4>2, <3>0
    <3>4. CASE e = "tail"
      <4>1. pc[t] = "connect tail" /\ pc'[t] \in {"ready", "idle"}
        BY <1>1, <3>1, <3>4 DEF AfterConnect, Connect
      <4>2. ToMake(pc[t]) = 1 /\ ToMake(pc'[t]) = 0
        BY <3>2, <4>1
      <4>3. QED
        BY <4>2, <3>0
    <3>5. QED
      BY <3>3, <3>4 DEF Ends
  <2>3. \A u \in Threads : u # t => pc'[u] = pc[u]
    BY <1>1 DEF TypeInv, ThreadType
  <2>4. CASE t = "main"
    BY <2>1, <2>2, <2>3, <2>4 DEF Pending, Threads
  <2>5. CASE t = "watcher"
    BY <2>1, <2>2, <2>3, <2>5 DEF Pending, Threads
  <2>6. QED
    BY <2>4, <2>5 DEF Threads
<1>6. CASE ~ ConnectsNot(t, e)
  <2>1. PICK fd \in Fds : fd <= made + 1 /\ Connects(t, e, fd)
    BY <1>6, Connected
  <2>2. made \in Nat /\ At(e, snap[t]) \in 0 .. joined /\ fd \in Nat /\ 1 .. made \subseteq Rtables
    <3>1. joined \in Nat /\ At(e, snap[t]) \in 1 .. joined
      BY <1>6, Connected, ChainCounts DEF TypeInv, ChainType
    <3>2. made \in Nat /\ fd \in Nat /\ 1 .. made \subseteq Rtables
      BY <2>1, RtablesAre DEF TypeInv, RtableType, Connects
    <3>3. QED
      BY <3>1, <3>2
  <2>3. file' \in [Fds -> 0 .. made + 1] /\ peer' \in [Rtables -> 0 .. joined]
    BY <2>1, <2>2 DEF TypeInv, RtableType, Connects
  <2>4. sockfd' \in [Rtables -> Fds \cup {0}] /\ rtable' \in [Ends -> 0 .. made + 1]
    BY <2>1, <2>2 DEF TypeInv, RtableType, Connects
  <2>5. \A r \in 1 .. made + 1 : sockfd'[r] # 0
    BY <2>1, <2>2, RtablesAre DEF TypeInv, RtableType, Connects
  <2>6. \A f \in Fds : f > made + 1 => file'[f] = 0
    BY <2>1, <2>2, RtablesAre DEF TypeInv, RtableType, Connects
  <2>7. made' + Pending' <= 2 * (1 + Changes')
    <3>1. made + Pending <= 2 * (1 + Changes)
      BY DEF TypeInv, RtableType
    <3>2. made + 1 + (Pending - 1) = made + Pending
      BY <1>5, <2>2
    <3>3. QED
      BY <1>5, <2>1, <3>1, <3>2 DEF Connects
  <2>8. used' \in 0 .. made' /\ freed' \subseteq 1 .. made' /\ cut' \subseteq 1 .. made' /\ made' \in Nat
    BY <1>1, <2>1, <2>2 DEF TypeInv, RtableType, Connects
  <2>9. RtableType'
    <3>1. made' = made + 1 /\ joined' = joined
      BY <1>1, <2>1 DEF Connects
    <3>2. QED
      BY <1>1, <1>4, <3>1, <2>3, <2>4, <2>5, <2>6, <2>7, <2>8 DEF RtableType, TypeInv
  <2>10. QED
    BY <1>2, <1>3, <2>9 DEF TypeInv
<1>7. CASE ConnectsNot(t, e)
  <2>1. rtable' = [rtable EXCEPT ![e] = NULL] /\ UNCHANGED <<made, sockfd, file, peer>>
    BY <1>7 DEF ConnectsNot
  <2>2. rtable' \in [Ends -> 0 .. made]
    BY <2>1 DEF TypeInv, RtableType, NULL
  <2>3. made + Pending' <= 2 * (1 + Changes)
    <3>1. made \in Nat /\ made + Pending <= 2 * (1 + Changes)
      BY DEF TypeInv, RtableType
    <3>2. made + (Pending - 1) <= 2 * (1 + Changes)
      BY <1>5, <3>1
    <3>3. QED
      BY <1>5, <3>2
  <2>4. RtableType'
    BY <1>1, <1>4, <1>5, <2>1, <2>2, <2>3 DEF TypeInv, RtableType
  <2>5. QED
    BY <1>2, <1>3, <2>4 DEF TypeInv
<1>8. QED
  BY <1>6, <1>7

LEMMA TypesBound == TypeInv => made \in Nat /\ Limit \in Nat /\ made <= Limit
  BY ChainCounts, PendingNumber, RtablesAre DEF TypeInv, RtableType

(* An rtable that head or tail points to has a descriptor. *)
LEMMA RtableFds ==
  ASSUME TypeInv
  PROVE  \A e \in Ends : rtable[e] # NULL => sockfd[rtable[e]] \in Fds
<1> SUFFICES ASSUME NEW e \in Ends, rtable[e] # NULL
             PROVE  sockfd[rtable[e]] \in Fds
  OBVIOUS
<1>1. made \in Nat /\ Limit \in Nat /\ made <= Limit /\ rtable[e] \in 1 .. made
  BY TypesBound DEF TypeInv, RtableType, NULL
<1>2. rtable[e] \in Rtables
  BY <1>1, RtablesAre
<1>3. QED
  BY <1>1, <1>2 DEF TypeInv, RtableType

(* The steps of a command: what it uses, and what a failure closes. *)
Command == (\E e \in Ends : Call(e)) \/ Return \/ CallFails \/ CloseFailed

(* A failed command closes one descriptor at most, and cut knows which       *)
(* connection it named.                                                      *)
LEMMA CommandCloses ==
  ASSUME TypeInv, Command
  PROVE  /\ file' \in [Fds -> 0 .. made]
         /\ \A fd \in Fds : file'[fd] = file[fd] \/ (file'[fd] = 0 /\ file[fd] \in cut')
         /\ cut \subseteq cut' /\ cut' \subseteq 1 .. made
<1>0. made \in Nat /\ file \in [Fds -> 0 .. made] /\ cut \subseteq 1 .. made
  BY DEF TypeInv, RtableType
<1>1. CASE UNCHANGED <<file, cut>>
  BY <1>0, <1>1
<1>2. CASE CloseFailed /\ ~ UNCHANGED <<file, cut>>
  <2>1. PICK r \in Found :
           IF r # NULL /\ file[sockfd[r]] # 0
           THEN /\ cut' = cut \cup {file[sockfd[r]]}
                /\ file' = [file EXCEPT ![sockfd[r]] = 0]
           ELSE UNCHANGED <<cut, file>>
    BY <1>2 DEF CloseFailed
  <2>2. /\ r # NULL /\ file[sockfd[r]] # 0 /\ cut' = cut \cup {file[sockfd[r]]}
        /\ file' = [file EXCEPT ![sockfd[r]] = 0]
    BY <1>2, <2>1
  <2>3. r \in Rtables /\ sockfd[r] \in Fds
    <3>1. made <= Limit /\ Limit \in Nat /\ r \in 1 .. made
      BY <2>2, TypesBound DEF Found, TypeInv, RtableType, NULL
    <3>2. QED
      BY <3>1, RtablesAre DEF TypeInv, RtableType
  <2>4. file' \in [Fds -> 0 .. made] /\ \A fd \in Fds : fd # sockfd[r] => file'[fd] = file[fd]
    BY <1>0, <2>2, Closed
  <2>5. file'[sockfd[r]] = 0
    BY <1>0, <2>2, <2>3
  <2>6. file[sockfd[r]] \in 1 .. made
    BY <1>0, <2>2, <2>3
  <2>7. QED
    BY <1>0, <2>2, <2>4, <2>5, <2>6
<1>3. QED
  BY <1>1, <1>2 DEF Command, Call, Return, CallFails, viewVars, histVars

LEMMA CommandKeepsTypes ==
  ASSUME TypeInv, Command
  PROVE  TypeInv'
<1>0. "main" \in Threads /\ "watcher" \in Threads
  BY DEF Threads
<1>1. UNCHANGED <<zk, joined, alive, armed, event, running, snap, rtable, made, sockfd, freed, peer, missed, blind>>
  BY DEF Command, Call, Return, CallFails, CloseFailed, chainVars, watchVars, viewVars, histVars
<1>2. /\ pc["main"] \in {"ready", "calling", "failing"}
      /\ \E place \in {"ready", "calling", "failing"} : pc' = [pc EXCEPT !["main"] = place]
  BY DEF Command, Call, Return, CallFails, CloseFailed
<1>3. ChainType' /\ ThreadType'
  BY <1>0, <1>1, <1>2 DEF TypeInv, ChainType, ThreadType, Places
<1>4. Pending' = Pending /\ Changes' = Changes
  <2>1. /\ pc'["main"] \in {"ready", "calling", "failing"} /\ pc'["watcher"] = pc["watcher"]
        /\ ToMake("calling") = 0 /\ ToMake("ready") = 0 /\ ToMake("failing") = 0
    BY <1>0, <1>2 DEF TypeInv, ThreadType, ToMake
  <2>2. ToMake(pc'["main"]) = ToMake(pc["main"])
    BY <1>2, <2>1
  <2>3. QED
    BY <1>1, <2>1, <2>2 DEF Pending, Unheard, Changes
<1>5. used' \in 0 .. made /\ (Commanding' => used' # NULL)
  <2>1. CASE \E e \in Ends : Call(e)
    BY <2>1 DEF Call, TypeInv, RtableType
  <2>2. CASE Return \/ CloseFailed
    BY <1>0, <2>2 DEF Return, CloseFailed, TypeInv, ThreadType, RtableType, NULL, Commanding
  <2>3. CASE CallFails
    BY <2>3 DEF CallFails, TypeInv, RtableType, Commanding
  <2>4. QED
    BY <2>1, <2>2, <2>3 DEF Command
<1>6. file' \in [Fds -> 0 .. made] /\ cut' \subseteq 1 .. made /\ \A fd \in Fds : fd > made => file'[fd] = 0
  BY CommandCloses DEF TypeInv, RtableType
<1>7. RtableType'
  BY <1>1, <1>4, <1>5, <1>6 DEF TypeInv, RtableType
<1>8. QED
  BY <1>3, <1>7 DEF TypeInv

LEMMA NextKeepsTypes ==
  ASSUME TypeInv, [Next]_vars
  PROVE  TypeInv'
<1>0. "main" \in Threads /\ "watcher" \in Threads /\ ThreadType /\ zk \subseteq 1 .. joined
  BY DEF Threads, TypeInv, ChainType
<1>1. CASE Start
  <2>1. /\ snap' = [snap EXCEPT !["main"] = zk] /\ armed' = TRUE /\ running' = (zk # {})
        /\ pc' = [pc EXCEPT !["main"] = "check head"] /\ pc["main"] = "starting" /\ event' = event
        /\ UNCHANGED <<zk, joined, alive, rtable, made, sockfd, freed, file, used, peer, cut, missed, blind>>
    BY <1>1 DEF Start, ReadChildren, chainVars, viewVars, histVars
  <2>2. snap' \in [Threads -> SUBSET (1 .. joined)] /\ event' \in BOOLEAN /\ blind' \in BOOLEAN
    BY <1>0, <2>1 DEF ThreadType
  <2>3. QED
    BY <1>0, <2>1, <2>2, ReadingKeepsTypes
<1>2. CASE WatcherReads
  <2>1. /\ snap' = [snap EXCEPT !["watcher"] = zk] /\ armed' = TRUE /\ running' = (zk # {})
        /\ pc' = [pc EXCEPT !["watcher"] = "check head"] /\ pc["watcher"] = "idle" /\ event /\ event' = FALSE
        /\ UNCHANGED <<zk, joined, alive, rtable, made, sockfd, freed, file, used, peer, cut, missed, blind>>
    BY <1>2 DEF WatcherReads, ReadChildren, chainVars, viewVars, histVars
  <2>2. snap' \in [Threads -> SUBSET (1 .. joined)] /\ blind' \in BOOLEAN
    BY <1>0, <2>1 DEF ThreadType
  <2>3. QED
    BY <1>0, <2>1, <2>2, ReadingKeepsTypes
<1>3. CASE WatcherReadsNothing
  <2>1. /\ armed' = FALSE /\ blind' = TRUE /\ (running' = FALSE \/ running' = running)
        /\ pc' = [pc EXCEPT !["watcher"] = "check head"] /\ pc["watcher"] = "idle" /\ event /\ event' = FALSE
        /\ UNCHANGED <<zk, joined, alive, snap, rtable, made, sockfd, freed, file, used, peer, cut, missed>>
    BY <1>3 DEF WatcherReadsNothing, chainVars, viewVars
  <2>2. snap' \in [Threads -> SUBSET (1 .. joined)] /\ running' \in BOOLEAN
    BY <1>0, <2>1 DEF ThreadType
  <2>3. QED
    BY <1>0, <2>1, <2>2, ReadingKeepsTypes
<1>4. CASE UNCHANGED vars \/ StartFails
  <2>1. /\ UNCHANGED <<zk, joined, alive, armed, event, pc, snap, rtable, made, sockfd, freed, file, used,
                       peer, cut, missed, blind>>
        /\ running' = running \/ running' = FALSE
    BY <1>4 DEF vars, StartFails, chainVars, watchVars, viewVars, histVars
  <2>2. QED
    BY <2>1 DEF TypeInv, ChainType, ThreadType, RtableType, Commanding, Pending, Unheard, Changes
<1>5. CASE Command
  BY <1>5, CommandKeepsTypes
<1>6. QED
  BY <1>1, <1>2, <1>3, <1>4, <1>5, JoinKeepsTypes, ExpireKeepsTypes, CrashKeepsTypes, SessionKeepsTypes,
     AltCheckKeepsTypes, ConnectKeepsTypes DEF Next, SetHeadTail, Command

(* The variables keep their types, and no more rtables are made than the     *)
(* start and the changes of /chain call for.                                *)
THEOREM ClientTypeInv == Spec => []TypeInv
  BY InitTypeInv, NextKeepsTypes, PTL DEF Spec

LEMMA TypesInRange == TypeInv => TypeOK
<1> SUFFICES ASSUME TypeInv PROVE TypeOK
  OBVIOUS
<1>1. joined \in Nat /\ joined <= NumServers /\ made \in Nat /\ Pending \in Nat
  BY ChainCounts, PendingNumber, ViewAssumption DEF TypeInv, ChainType, RtableType
<1>2. made <= Limit
  BY <1>1, ChainCounts, RtablesAre DEF TypeInv, RtableType
<1>3. 1 .. joined \subseteq Servers /\ 0 .. joined \subseteq Servers \cup {0}
  BY <1>1, ViewAssumption DEF Servers
<1>4. 1 .. made \subseteq Rtables /\ 0 .. made \subseteq Rtables \cup {0}
  BY <1>1, <1>2, RtablesAre
<1>5. zk \subseteq Servers /\ alive \subseteq Servers /\ joined \in 0 .. NumServers
  BY <1>1, <1>3, ViewAssumption DEF TypeInv, ChainType
<1>6. armed \in BOOLEAN /\ event \in BOOLEAN /\ running \in BOOLEAN /\ snap \in [Threads -> SUBSET Servers]
  BY <1>3 DEF TypeInv, ThreadType
<1>7. rtable \in [Ends -> Rtables \cup {NULL}] /\ made \in Rtables \cup {0} /\ used \in Rtables \cup {NULL}
      /\ freed \subseteq Rtables
  BY <1>1, <1>4 DEF TypeInv, RtableType, NULL
<1>8. /\ sockfd \in [Rtables -> Fds \cup {0}] /\ file \in [Fds -> Rtables \cup {0}]
      /\ peer \in [Rtables -> Servers \cup {0}] /\ cut \subseteq Rtables
      /\ missed \subseteq Ends /\ blind \in BOOLEAN
  BY <1>3, <1>4 DEF TypeInv, RtableType, ThreadType
<1>9. QED
  BY <1>5, <1>6, <1>7, <1>8 DEF TypeOK

(* The client keeps its types for any number of servers, joins and crashes:  *)
(* however the two threads interleave, an rtable and a descriptor are free    *)
(* whenever set_head_tail connects.                                          *)
THEOREM ClientTypes == Spec => []TypeOK
  BY ClientTypeInv, TypesInRange, PTL
---------------------------------------------------------------------------
Busy(t) == pc[t] \in {"check head", "connect head", "check tail", "connect tail"}

Running == pc["main"] \in {"ready", "calling", "failing"}

(* Until the client has started nothing happens in the chain.               *)
AtStart == ~ Running => /\ ~ event /\ pc["watcher"] = "idle"
                        /\ joined = NumFounders /\ zk = 1 .. joined /\ alive = zk

(* A change that no watch sees is one that the client is still to be told   *)
(* of, and while the watch is set the list that a thread works on is right.  *)
WatchInv == /\ pc["main"] # "starting" => armed \/ event \/ blind
            /\ armed => \A t \in Threads : Busy(t) => snap[t] = zk
            /\ AtStart

LEMMA Places2 ==
  ASSUME ThreadType
  PROVE  /\ "main" \in Threads /\ "watcher" \in Threads /\ \A t \in Threads : t = "main" \/ t = "watcher"
         /\ Busy("main") => ~ Running
         /\ ~ Running /\ pc["main"] # "starting" => Busy("main")
         /\ pc["watcher"] # "idle" <=> Busy("watcher")
  BY DEF ThreadType, Threads, Busy, Running, Places

LEMMA InitWatchInv == Init => WatchInv
  BY ViewAssumption DEF Init, WatchInv, AtStart, Running, Busy, Threads

(* The chain and what the client has been told of it.                       *)
LEMMA ChainKeepsWatchInv ==
  ASSUME QuietStart, TypeInv, WatchInv, Join \/ \E s \in Servers : Crash(s) \/ Expire(s)
  PROVE  WatchInv' /\ Running /\ Running'
<1>1. Running /\ UNCHANGED <<pc, snap, blind>>
  BY DEF Join, Crash, Expire, ChildrenBecome, Started, Running, histVars
<1>2. Running' /\ AtStart'
  BY <1>1 DEF Running, AtStart
<1>3. CASE Join \/ \E s \in Servers : Expire(s)
  <2>1. event' = (event \/ armed) /\ armed' = FALSE
    BY <1>3 DEF Join, Expire, ChildrenBecome
  <2>2. QED
    BY <1>1, <1>2, <2>1 DEF WatchInv
<1>4. CASE \E s \in Servers : Crash(s)
  <2>1. UNCHANGED <<event, armed, zk>>
    BY <1>4 DEF Crash, watchVars
  <2>2. QED
    BY <1>1, <1>2, <2>1 DEF WatchInv, Busy
<1>5. QED
  BY <1>1, <1>2, <1>3, <1>4

(* One thread at a time is in set_head_tail. *)
LEMMA OneBusy ==
  ASSUME TypeInv, WatchInv, NEW t \in Threads, NEW u \in Threads, Busy(t), u # t
  PROVE  ~ Busy(u) /\ (t = "watcher" => Running) /\ (t = "main" => ~ Running /\ pc["watcher"] = "idle")
  BY Places2 DEF TypeInv, WatchInv, AtStart

LEMMA ReadingKeepsWatchInv ==
  ASSUME TypeInv, WatchInv, Start \/ WatcherReads \/ WatcherReadsNothing
  PROVE  WatchInv'
<1>0. ThreadType
  BY DEF TypeInv
<1>1. CASE Start
  <2>1. /\ pc["main"] = "starting" /\ armed' = TRUE /\ UNCHANGED <<zk, joined, alive, event>>
        /\ pc' = [pc EXCEPT !["main"] = "check head"] /\ snap' = [snap EXCEPT !["main"] = zk]
    BY <1>1 DEF Start, ReadChildren, chainVars
  <2>2. ~ Running /\ AtStart
    BY <2>1 DEF Running, WatchInv
  <2>3. pc'["watcher"] = "idle" /\ snap'["main"] = zk /\ pc'["main"] = "check head"
    BY <1>0, <2>1, <2>2 DEF AtStart, ThreadType, Threads
  <2>4. QED
    BY <2>1, <2>2, <2>3 DEF WatchInv, AtStart, Running, Busy, Threads
<1>2. CASE WatcherReads
  <2>1. /\ event /\ armed' = TRUE /\ UNCHANGED <<zk, joined, alive>>
        /\ pc' = [pc EXCEPT !["watcher"] = "check head"] /\ snap' = [snap EXCEPT !["watcher"] = zk]
    BY <1>2 DEF WatcherReads, ReadChildren, chainVars
  <2>2. Running
    BY <2>1 DEF WatchInv, AtStart
  <2>3. snap'["watcher"] = zk /\ pc'["main"] = pc["main"]
    BY <1>0, <2>1 DEF ThreadType, Threads
  <2>4. Running' /\ ~ Busy("main")'
    BY <2>2, <2>3 DEF Running, Busy
  <2>5. QED
    BY <2>1, <2>3, <2>4 DEF WatchInv, AtStart, Threads
<1>3. CASE WatcherReadsNothing
  <2>1. /\ event /\ armed' = FALSE /\ blind' = TRUE /\ UNCHANGED <<zk, joined, alive>>
        /\ pc' = [pc EXCEPT !["watcher"] = "check head"]
    BY <1>3 DEF WatcherReadsNothing, chainVars
  <2>2. Running
    BY <2>1 DEF WatchInv, AtStart
  <2>3. Running'
    BY <1>0, <2>1, <2>2 DEF ThreadType, Threads, Running
  <2>4. QED
    BY <2>1, <2>3 DEF WatchInv, AtStart
<1>4. QED
  BY <1>1, <1>2, <1>3

LEMMA MovesKeepWatchInv ==
  ASSUME TypeInv, WatchInv, (\E t \in Threads : SetHeadTail(t)) \/ Command
  PROVE  WatchInv'
<1>0. ThreadType
  BY DEF TypeInv
<1>1. UNCHANGED <<zk, joined, alive, armed, event, snap, blind>>
  BY DEF SetHeadTail, AltCheck, ConnectNode, Command, Call, Return, CallFails, CloseFailed, chainVars,
     watchVars, histVars
<1>2. CASE \E t \in Threads : SetHeadTail(t)
  <2>1. PICK t \in Threads : SetHeadTail(t)
    BY <1>2
  <2>2. PICK e \in Ends : AltCheck(t, e) \/ ConnectNode(t, e)
    BY <2>1 DEF SetHeadTail
  <2>3. /\ Busy(t) /\ pc'[t] \in {"connect head", "connect tail", "check tail", "ready", "idle"}
        /\ \A u \in Threads : u # t => pc'[u] = pc[u]
    BY <1>0, <2>2 DEF AltCheck, ConnectNode, Busy, Check, Connect, AfterConnect, ThreadType
  <2>4. \A u \in Threads : Busy(u)' => Busy(u)
    BY <2>3 DEF Busy
  <2>5. AtStart'
    <3>1. t = "watcher" => Running /\ Running'
      BY <1>0, <2>3, Places2 DEF WatchInv, AtStart, Running
    <3>2. t = "main" => ~ Running /\ pc'["watcher"] = pc["watcher"]
      BY <1>0, <2>3, Places2
    <3>3. QED
      BY <1>0, <1>1, <3>1, <3>2, Places2 DEF WatchInv, AtStart
  <2>6. pc["main"] # "starting"
    BY <1>0, <2>3, Places2 DEF WatchInv, AtStart, Running, Busy
  <2>7. QED
    BY <1>1, <2>4, <2>5, <2>6 DEF WatchInv
<1>3. CASE Command
  <2>1. /\ pc["main"] \in {"ready", "calling", "failing"} /\ pc'["main"] \in {"ready", "calling", "failing"}
        /\ pc'["watcher"] = pc["watcher"]
    BY <1>0, <1>3 DEF Command, Call, Return, CallFails, CloseFailed, ThreadType, Threads
  <2>2. QED
    BY <1>1, <2>1 DEF WatchInv, AtStart, Running, Busy, Threads
<1>4. QED
  BY <1>2, <1>3

LEMMA NextKeepsWatchInv ==
  ASSUME QuietStart, TypeInv, WatchInv, [Next]_vars
  PROVE  WatchInv'
<1>1. CASE UNCHANGED vars \/ StartFails
  <2>1. UNCHANGED <<zk, joined, alive, armed, event, pc, snap, blind>>
    BY <1>1 DEF vars, StartFails, chainVars, watchVars, histVars
  <2>2. QED
    BY <2>1 DEF WatchInv, AtStart, Running, Busy
<1>2. CASE SessionEnds
  <2>1. UNCHANGED <<zk, joined, alive, pc, snap>> /\ armed' = FALSE /\ blind' = TRUE /\ event' \in {FALSE, event}
    BY <1>2 DEF SessionEnds, chainVars
  <2>2. (event' => event) /\ (Running' <=> Running)
    <3>1. CASE event' = FALSE
      BY <2>1, <3>1 DEF Running
    <3>2. CASE event' = event
      BY <2>1, <3>2 DEF Running
    <3>3. QED
      BY <2>1, <3>1, <3>2
  <2>3. AtStart'
    BY <2>1, <2>2 DEF WatchInv, AtStart
  <2>4. QED
    BY <2>1, <2>3 DEF WatchInv
<1>3. QED
  BY <1>1, <1>2, ChainKeepsWatchInv, ReadingKeepsWatchInv, MovesKeepWatchInv DEF Next, Command

(* No change of /chain escapes a client that could read the children each    *)
(* time it was told of one and keeps its session, and at most one of its     *)
(* threads is in set_head_tail: the watch is set again before its list is    *)
(* used.                                                                     *)
THEOREM ClientWatchInv ==
  ASSUME QuietStart
  PROVE  Spec => [](TypeInv /\ WatchInv)
<1>1. Init => TypeInv /\ WatchInv
  BY InitTypeInv, InitWatchInv
<1>2. TypeInv /\ WatchInv /\ [Next]_vars => (TypeInv /\ WatchInv)'
  BY NextKeepsTypes, NextKeepsWatchInv
<1>3. QED
  BY <1>1, <1>2, PTL DEF Spec
---------------------------------------------------------------------------
(* Every server of the chain lives that the client is to know of. *)
Quiet == armed /\ zk # {} /\ zk \subseteq alive

(* The rtable of an end was made to the server that is there now. *)
MadeTo(e) == rtable[e] # NULL /\ peer[rtable[e]] = At(e, zk)

(* The ends that nobody is about to make anew: tail is made after head. *)
Made(e) == \/ Running /\ pc["watcher"] = "idle"
           \/ e = "head" /\ \E t \in Threads : pc[t] \in {"check tail", "connect tail"}

PeerInv == \A e \in Ends : Quiet /\ Made(e) /\ e \notin missed => MadeTo(e)

LEMMA InitPeerInv == Init => PeerInv
  BY DEF Init, PeerInv, Made, Running, Threads

(* connect_node, with a list that is the chain as it is. *)
LEMMA ConnectMakes ==
  ASSUME TypeInv, WatchInv, NEW t \in Threads, NEW e \in Ends, ConnectNode(t, e), Quiet, e \notin missed'
  PROVE  MadeTo(e)'
<1>1. snap[t] = zk /\ UNCHANGED zk
  BY DEF ConnectNode, Connect, WatchInv, Busy, chainVars, Quiet, Ends
<1>2. At(e, zk) \in zk
  <2>1. joined \in Nat /\ zk \subseteq 0 .. joined /\ zk \subseteq Nat
    BY ChainCounts DEF TypeInv, ChainType
  <2>2. Min(zk) \in zk /\ Max(zk) \in zk
    BY <2>1, MinIsLeast, MaxIsGreatest DEF Quiet
  <2>3. QED
    BY <2>2 DEF At
<1>3. At(e, snap[t]) \in zk \cap alive
  BY <1>1, <1>2 DEF Quiet
<1>4. ~ ConnectsNot(t, e)
  BY <1>3 DEF ConnectsNot
<1>5. PICK fd \in Fds : Connects(t, e, fd)
  BY <1>4, Connected
<1>6. rtable'[e] = made + 1 /\ peer'[made + 1] = At(e, zk) /\ made + 1 # NULL
  <2>1. made \in Nat /\ made + 1 \in Rtables /\ rtable \in [Ends -> 0 .. made] /\ peer \in [Rtables -> 0 .. joined]
    BY <1>5 DEF TypeInv, RtableType, Connects
  <2>2. made + 1 # NULL
    BY <2>1 DEF NULL
  <2>3. QED
    BY <1>1, <1>5, <2>1, <2>2 DEF Connects
<1>7. At(e, zk)' = At(e, zk)
  BY <1>1 DEF At
<1>8. QED
  BY <1>6, <1>7 DEF MadeTo

(* connect_node leaves the rtable of the other end and its server alone. *)
LEMMA ConnectLeaves ==
  ASSUME TypeInv, NEW t \in Threads, NEW e \in Ends, NEW o \in Ends, o # e, ConnectNode(t, e)
  PROVE  /\ rtable'[o] = rtable[o] /\ (o \in missed' <=> o \in missed)
         /\ rtable[o] # NULL => /\ rtable[o] \in 1 .. made /\ rtable[o] \in Rtables
                                /\ peer'[rtable[o]] = peer[rtable[o]]
                                /\ sockfd'[rtable[o]] = sockfd[rtable[o]]
<1>1. rtable'[o] = rtable[o] /\ (o \in missed' <=> o \in missed)
  BY Connected DEF Connects, ConnectsNot, TypeInv, RtableType
<1>2. SUFFICES ASSUME rtable[o] # NULL
               PROVE  /\ rtable[o] \in 1 .. made /\ rtable[o] \in Rtables
                      /\ peer'[rtable[o]] = peer[rtable[o]] /\ sockfd'[rtable[o]] = sockfd[rtable[o]]
  BY <1>1
<1>3. rtable[o] \in 1 .. made /\ rtable[o] \in Rtables /\ rtable[o] # made + 1
  <2>1. made \in Nat /\ Limit \in Nat /\ made <= Limit /\ rtable[o] \in 1 .. made
    BY <1>2, TypesBound DEF TypeInv, RtableType, NULL
  <2>2. QED
    BY <2>1, RtablesAre
<1>4. peer'[rtable[o]] = peer[rtable[o]] /\ sockfd'[rtable[o]] = sockfd[rtable[o]]
  BY <1>3, Connected DEF Connects, ConnectsNot, TypeInv, RtableType
<1>5. QED
  BY <1>3, <1>4

LEMMA ConnectKeepsPeerInv ==
  ASSUME TypeInv, WatchInv, PeerInv, NEW t \in Threads, NEW e \in Ends, ConnectNode(t, e)
  PROVE  PeerInv'
<1>0. ThreadType /\ Busy(t) /\ pc[t] = Connect(e)
  BY DEF TypeInv, ConnectNode, Connect, Busy, Ends
<1>1. /\ pc' = [pc EXCEPT ![t] = AfterConnect(t, e)] /\ pc'[t] = AfterConnect(t, e)
      /\ \A u \in Threads : u # t => pc'[u] = pc[u] /\ ~ Busy(u)
      /\ UNCHANGED <<zk, alive, armed>>
  BY <1>0, OneBusy DEF ConnectNode, chainVars, watchVars, ThreadType
<1> SUFFICES ASSUME NEW o \in Ends, Quiet', Made(o)', o \notin missed'
             PROVE  MadeTo(o)'
  BY DEF PeerInv
<1>2. Quiet
  BY <1>1 DEF Quiet
<1>3. CASE o = e
  BY <1>2, <1>3, ConnectMakes
<1>4. CASE o # e
  <2>1. e = "tail" /\ o = "head"
    <3>1. CASE e = "head"
      <4>1. pc'[t] = "check tail" /\ o = "tail"
        BY <1>1, <1>4, <3>1 DEF AfterConnect, Ends
      <4>2. QED
        BY <4>1 DEF Made, Running, Threads
    <3>2. QED
      BY <1>4, <3>1 DEF Ends
  <2>2. pc[t] = "connect tail"
    BY <1>0, <2>1 DEF Connect
  <2>3. MadeTo(o)
    BY <1>2, <1>4, <2>1, <2>2, ConnectLeaves DEF PeerInv, Made
  <2>4. At(o, zk)' = At(o, zk)
    BY <1>1 DEF At
  <2>5. QED
    BY <1>4, <2>3, <2>4, ConnectLeaves DEF MadeTo
<1>5. QED
  BY <1>3, <1>4

LEMMA NextKeepsPeerInv ==
  ASSUME QuietStart, TypeInv, WatchInv, PeerInv, [Next]_vars
  PROVE  PeerInv'
<1>0. ThreadType /\ "main" \in Threads /\ "watcher" \in Threads
  BY DEF TypeInv, Threads
<1>1. CASE Join \/ (\E s \in Servers : Expire(s)) \/ SessionEnds \/ WatcherReadsNothing
  <2>1. armed' = FALSE
    BY <1>1 DEF Join, Expire, ChildrenBecome, SessionEnds, WatcherReadsNothing
  <2>2. QED
    BY <2>1 DEF PeerInv, Quiet
<1>2. CASE \E s \in Servers : Crash(s)
  <2>1. UNCHANGED <<zk, armed, pc, rtable, peer, missed>> /\ alive' \subseteq alive
    BY <1>2 DEF Crash, watchVars, viewVars, histVars
  <2>2. \A e \in Ends : (Quiet' => Quiet) /\ (Made(e)' <=> Made(e)) /\ (MadeTo(e)' <=> MadeTo(e))
    BY <2>1 DEF Quiet, Made, Running, MadeTo, At
  <2>3. QED
    BY <2>1, <2>2 DEF PeerInv
<1>3. CASE Start \/ WatcherReads
  <2>1. PICK t \in Threads : /\ pc' = [pc EXCEPT ![t] = "check head"] /\ ~ Busy(t)
                             /\ t = "main" => pc["main"] = "starting"
                             /\ t = "watcher" => event
    BY <1>0, <1>3 DEF Start, WatcherReads, ReadChildren, Busy
  <2>2. pc'[t] = "check head" /\ \A u \in Threads : u # t => pc'[u] = pc[u]
    BY <1>0, <2>1 DEF ThreadType
  <2>3. \A u \in Threads : ~ Busy(u)' \/ u = t
    <3>1. CASE t = "main"
      BY <1>0, <2>1, <2>2, <3>1, Places2 DEF WatchInv, AtStart, Running, Busy, Threads
    <3>2. CASE t = "watcher"
      BY <1>0, <2>1, <2>2, <3>2, Places2 DEF WatchInv, AtStart, Running, Busy, Threads
    <3>3. QED
      BY <1>0, <3>1, <3>2, Places2
  <2>4. \A e \in Ends : ~ Made(e)'
    BY <1>0, <2>2, <2>3, Places2 DEF Made, Running, Busy
  <2>5. QED
    BY <2>4 DEF PeerInv
<1>4. CASE \E t \in Threads : SetHeadTail(t)
  <2>1. PICK t \in Threads, e \in Ends : AltCheck(t, e) \/ ConnectNode(t, e)
    BY <1>4 DEF SetHeadTail
  <2>2. CASE AltCheck(t, e)
    <3>1. /\ pc[t] = Check(e) /\ pc'[t] = Connect(e) /\ \A u \in Threads : u # t => pc'[u] = pc[u]
          /\ UNCHANGED <<zk, alive, armed, rtable, peer, missed>>
      BY <1>0, <2>2 DEF AltCheck, chainVars, watchVars, histVars, ThreadType
    <3>2. \A o \in Ends : (Quiet' <=> Quiet) /\ (Made(o)' => Made(o)) /\ (MadeTo(o)' <=> MadeTo(o))
      <4>1. ~ (Running' /\ pc'["watcher"] = "idle")
        BY <1>0, <3>1, Places2 DEF Running, Connect
      <4>2. \A u \in Threads : pc'[u] \in {"check tail", "connect tail"} => pc[u] \in {"check tail", "connect tail"}
        BY <3>1 DEF Check, Connect, Ends
      <4>3. QED
        BY <3>1, <4>1, <4>2 DEF Quiet, Made, MadeTo, At
    <3>3. QED
      BY <3>1, <3>2 DEF PeerInv
  <2>3. QED
    BY <2>1, <2>2, ConnectKeepsPeerInv
<1>5. CASE Command \/ StartFails \/ UNCHANGED vars
  <2>1. UNCHANGED <<zk, alive, armed, rtable, peer, missed>>
    BY <1>5 DEF Command, Call, Return, CallFails, CloseFailed, StartFails, chainVars, watchVars, viewVars,
       histVars, vars
  <2>2. (Running' <=> Running) /\ \A u \in Threads : pc'[u] = pc[u] \/ (u = "main" /\ Running /\ Running')
    BY <1>0, <1>5 DEF Command, Call, Return, CallFails, CloseFailed, StartFails, vars, ThreadType, Threads, Running
  <2>3. \A o \in Ends : (Quiet' <=> Quiet) /\ (Made(o)' => Made(o)) /\ (MadeTo(o)' <=> MadeTo(o))
    <3>1. pc'["watcher"] = pc["watcher"]
      BY <1>0, <2>2
    <3>2. \A u \in Threads : pc'[u] \in {"check tail", "connect tail"} => pc'[u] = pc[u]
      BY <2>2 DEF Running
    <3>3. QED
      BY <2>1, <2>2, <3>1, <3>2 DEF Quiet, Made, MadeTo, At
  <2>4. QED
    BY <2>1, <2>3 DEF PeerInv
<1>6. QED
  BY <1>1, <1>2, <1>3, <1>4, <1>5 DEF Next, Command
---------------------------------------------------------------------------
(* tail's descriptor names the connection that was made for it, unless a     *)
(* failed command has closed that one: whoever takes the descriptor of       *)
(* another connection takes it before tail is made.                          *)
TailInv == Running /\ pc["watcher"] = "idle" /\ rtable["tail"] # NULL =>
    file[sockfd[rtable["tail"]]] = rtable["tail"] \/ rtable["tail"] \in cut

LEMMA TailConnected ==
  ASSUME TypeInv, NEW t \in Threads, ConnectNode(t, "tail"), rtable'["tail"] # NULL
  PROVE  file'[sockfd'[rtable'["tail"]]] = rtable'["tail"]
<1>0. "tail" \in Ends /\ rtable \in [Ends -> 0 .. made]
  BY DEF Ends, TypeInv, RtableType
<1>1. ~ ConnectsNot(t, "tail")
  BY <1>0 DEF ConnectsNot
<1>2. PICK fd \in Fds : Connects(t, "tail", fd)
  BY <1>0, <1>1, Connected
<1>3. rtable'["tail"] = made + 1 /\ sockfd'[made + 1] = fd /\ file'[fd] = made + 1
  BY <1>0, <1>2 DEF Connects, TypeInv, RtableType
<1>4. QED
  BY <1>3

LEMMA NextKeepsTailInv ==
  ASSUME QuietStart, TypeInv, WatchInv, TailInv, [Next]_vars
  PROVE  TailInv'
<1>0. ThreadType /\ "tail" \in Ends /\ "main" \in Threads /\ "watcher" \in Threads
  BY DEF TypeInv, Ends, Threads
<1>1. SUFFICES ASSUME Running', pc'["watcher"] = "idle", rtable'["tail"] # NULL
               PROVE  file'[sockfd'[rtable'["tail"]]] = rtable'["tail"] \/ rtable'["tail"] \in cut'
  BY DEF TailInv
<1>2. CASE Join \/ (\E s \in Servers : Crash(s) \/ Expire(s)) \/ SessionEnds \/ StartFails \/ UNCHANGED vars
  <2>1. UNCHANGED <<pc, rtable, file, sockfd, cut>>
    BY <1>2 DEF Join, Crash, Expire, ChildrenBecome, SessionEnds, StartFails, vars, viewVars, histVars
  <2>2. QED
    BY <1>1, <2>1 DEF TailInv, Running
<1>3. CASE Start \/ WatcherReads \/ WatcherReadsNothing
  BY <1>0, <1>1, <1>3 DEF Start, WatcherReads, WatcherReadsNothing, ReadChildren, ThreadType, Running
<1>4. CASE \E t \in Threads : SetHeadTail(t)
  <2>1. PICK t \in Threads, e \in Ends : AltCheck(t, e) \/ ConnectNode(t, e)
    BY <1>4 DEF SetHeadTail
  <2>2. CASE AltCheck(t, e) \/ e = "head"
    <3>1. pc'[t] \in {"connect head", "connect tail", "check tail"}
      BY <1>0, <2>1, <2>2 DEF AltCheck, ConnectNode, Connect, AfterConnect, ThreadType
    <3>2. QED
      BY <1>0, <1>1, <3>1, Places2 DEF Running
  <2>3. CASE ConnectNode(t, "tail")
    BY <1>1, <2>3, TailConnected
  <2>4. QED
    BY <2>1, <2>2, <2>3 DEF Ends
<1>5. CASE Command
  <2>1. UNCHANGED <<rtable, sockfd>> /\ Running /\ pc'["watcher"] = pc["watcher"]
    BY <1>0, <1>5 DEF Command, Call, Return, CallFails, CloseFailed, viewVars, ThreadType, Running
  <2>3. sockfd[rtable["tail"]] \in Fds
    BY <1>0, <1>1, <2>1, RtableFds
  <2>4. file[sockfd[rtable["tail"]]] = rtable["tail"] \/ rtable["tail"] \in cut
    BY <1>1, <2>1 DEF TailInv
  <2>5. QED
    BY <1>5, <2>1, <2>3, <2>4, CommandCloses
<1>6. QED
  BY <1>2, <1>3, <1>4, <1>5 DEF Next, Command

(* Once the client has dealt with every change of the chain, tail is the     *)
(* connection that was made to the last server, whatever servers joined,      *)
(* crashed or lost their session and whatever descriptors failed commands     *)
(* closed for others, unless the last attempt to connect failed or a failed   *)
(* command has closed that very connection: tail is connected last.  The      *)
(* chain is at rest until the client has started.                             *)
THEOREM ClientTailCurrent ==
  ASSUME QuietStart
  PROVE  Spec => []TailCurrent
<1>1. Init => PeerInv /\ TailInv
  BY InitPeerInv DEF Init, TailInv, Running, Threads
<1>2. TypeInv /\ WatchInv /\ PeerInv /\ TailInv /\ [Next]_vars => PeerInv' /\ TailInv'
  BY NextKeepsPeerInv, NextKeepsTailInv
<1>3. TypeInv /\ WatchInv /\ PeerInv /\ TailInv => TailCurrent
  <2> SUFFICES ASSUME TypeInv, WatchInv, PeerInv, TailInv, Settled, "tail" \notin missed
               PROVE  LET r == rtable["tail"]
                      IN  r # NULL /\ peer[r] = At("tail", zk) /\ (file[sockfd[r]] = r \/ r \in cut)
    BY DEF TailCurrent
  <2>1. Running /\ pc["watcher"] = "idle" /\ Quiet
    BY DEF Settled, WatchInv, Running, Quiet
  <2>2. MadeTo("tail")
    BY <2>1 DEF PeerInv, Made, Ends
  <2>3. QED
    BY <2>1, <2>2 DEF TailInv, MadeTo
<1>4. QED
  BY <1>1, <1>2, <1>3, ClientWatchInv, PTL DEF Spec
---------------------------------------------------------------------------
(* The ends that a thread is about to make: alt_check has closed them. *)
Making(e) == \E t \in Threads : pc[t] = Connect(e)

(* As long as no failed command has closed a connection, every end that is   *)
(* not being made has a connection and a descriptor of its own.              *)
OwnInv == running /\ cut = {} => \A e \in Ends : rtable[e] # NULL =>
             /\ ~ Making(e) => file[sockfd[rtable[e]]] = rtable[e]
             /\ \A o \in Ends : o # e => rtable[o] # rtable[e]

LEMMA AltCheckKeepsOwn ==
  ASSUME TypeInv, WatchInv, OwnInv, NEW t \in Threads, NEW e \in Ends, AltCheck(t, e), running', cut' = {}
  PROVE  OwnInv'
<1>0. ThreadType /\ Busy(t) /\ pc[t] = Check(e) /\ running
  BY DEF TypeInv, AltCheck, Check, Busy, Ends
<1>1. /\ pc'[t] = Connect(e) /\ \A u \in Threads : u # t => pc'[u] = pc[u] /\ ~ Busy(u)
      /\ cut = {} /\ UNCHANGED <<rtable, sockfd>>
  BY <1>0, OneBusy DEF AltCheck, ThreadType, histVars
<1>2. ~ Making(e) /\ Making(e)'
  <2>1. \A u \in Threads : pc[u] # Connect(e)
    BY <1>0, <1>1 DEF Busy, Connect, Check
  <2>2. QED
    BY <1>1, <2>1 DEF Making, Connect
<1> SUFFICES ASSUME NEW o \in Ends, rtable[o] # NULL
             PROVE  /\ ~ Making(o)' => file'[sockfd[rtable[o]]] = rtable[o]
                    /\ \A q \in Ends : q # o => rtable[q] # rtable[o]
  BY <1>1 DEF OwnInv, Making
<1>3. \A q \in Ends : q # o => rtable[q] # rtable[o]
  BY <1>0, <1>1 DEF OwnInv
<1>4. ASSUME ~ Making(o)'
      PROVE  file'[sockfd[rtable[o]]] = rtable[o]
  <2>1. o # e
    BY <1>2, <1>4
  <2>2. ~ Making(o)
    <3> SUFFICES ASSUME NEW u \in Threads, pc[u] = Connect(o) PROVE FALSE
      BY DEF Making
    <3>1. u # t
      BY <1>0 DEF Check, Connect
    <3>2. QED
      BY <1>1, <3>1 DEF Busy, Connect
  <2>3. file[sockfd[rtable[o]]] = rtable[o]
    BY <1>0, <1>1, <2>2 DEF OwnInv
  <2>4. CASE UNCHANGED file
    BY <2>3, <2>4
  <2>5. CASE rtable[e] # NULL /\ file' = [file EXCEPT ![sockfd[rtable[e]]] = 0]
    <3>1. file[sockfd[rtable[e]]] = rtable[e] /\ rtable[e] # rtable[o]
      BY <1>0, <1>1, <1>2, <2>1, <2>5 DEF OwnInv
    <3>2. sockfd[rtable[o]] # sockfd[rtable[e]]
      BY <2>3, <3>1
    <3>3. sockfd[rtable[o]] \in Fds
      BY RtableFds
    <3>4. made \in Nat /\ file \in [Fds -> 0 .. made]
      BY DEF TypeInv, RtableType
    <3>5. QED
      BY <2>3, <2>5, <3>2, <3>3, <3>4, Closed
  <2>6. QED
    BY <2>4, <2>5 DEF AltCheck, Disconnect
<1>5. QED
  BY <1>3, <1>4

LEMMA ConnectKeepsOwn ==
  ASSUME TypeInv, WatchInv, OwnInv, NEW t \in Threads, NEW e \in Ends, ConnectNode(t, e), cut' = {}
  PROVE  OwnInv'
<1>0. ThreadType /\ Busy(t) /\ pc[t] = Connect(e) /\ running /\ made \in Nat
  BY DEF TypeInv, RtableType, ConnectNode, Connect, Busy, Ends
<1>1. cut = {} /\ \A u \in Threads : u # t => pc'[u] = pc[u] /\ ~ Busy(u)
  BY <1>0, OneBusy DEF ConnectNode, ThreadType
<1> SUFFICES ASSUME NEW o \in Ends, rtable'[o] # NULL
             PROVE  /\ ~ Making(o)' => file'[sockfd'[rtable'[o]]] = rtable'[o]
                    /\ \A q \in Ends : q # o => rtable'[q] # rtable'[o]
  BY DEF OwnInv, Making
<1>2. rtable \in [Ends -> 0 .. made]
  BY DEF TypeInv, RtableType
<1>3. CASE o = e
  <2>1. ~ ConnectsNot(t, e)
    BY <1>2, <1>3 DEF ConnectsNot
  <2>2. PICK fd \in Fds : Connects(t, e, fd)
    BY <2>1, Connected
  <2>3. rtable'[e] = made + 1 /\ sockfd'[made + 1] = fd /\ file'[fd] = made + 1
    BY <1>2, <2>2 DEF Connects, TypeInv, RtableType
  <2>4. \A q \in Ends : q # e => rtable'[q] \in 0 .. made
    BY <1>2, ConnectLeaves
  <2>5. QED
    BY <1>0, <1>3, <2>3, <2>4
<1>4. CASE o # e
  <2>1. /\ rtable'[o] = rtable[o] /\ rtable[o] # NULL /\ rtable[o] \in 1 .. made
        /\ sockfd'[rtable[o]] = sockfd[rtable[o]]
    BY <1>4, ConnectLeaves
  <2>2. ~ Making(o)
    <3> SUFFICES ASSUME NEW u \in Threads, pc[u] = Connect(o) PROVE FALSE
      BY DEF Making
    <3>1. u # t
      BY <1>0, <1>4 DEF Connect, Ends
    <3>2. QED
      BY <1>1, <3>1 DEF Busy, Connect
  <2>3. file[sockfd[rtable[o]]] = rtable[o]
    BY <1>0, <1>1, <2>1, <2>2 DEF OwnInv
  <2>4. sockfd[rtable[o]] \in Fds
    BY <2>1, RtableFds
  <2>5. file'[sockfd[rtable[o]]] = file[sockfd[rtable[o]]] /\ rtable'[e] # rtable[o]
    <3>1. CASE ConnectsNot(t, e)
      BY <1>2, <2>1, <3>1 DEF ConnectsNot
    <3>2. CASE ~ ConnectsNot(t, e)
      <4>1. PICK fd \in Fds : file[fd] = 0 /\ Connects(t, e, fd)
        BY <3>2, Connected
      <4>2. rtable'[e] = made + 1 /\ file' = [file EXCEPT ![fd] = made + 1]
        BY <1>2, <4>1 DEF Connects
      <4>3. fd # sockfd[rtable[o]]
        BY <2>1, <2>3, <4>1
      <4>4. file \in [Fds -> 0 .. made]
        BY DEF TypeInv, RtableType
      <4>5. QED
        BY <1>0, <2>1, <2>4, <4>2, <4>3, <4>4
    <3>3. QED
      BY <3>1, <3>2
  <2>6. \A q \in Ends : q # o => q = e
    BY <1>4 DEF Ends
  <2>7. QED
    BY <2>1, <2>3, <2>5, <2>6
<1>5. QED
  BY <1>3, <1>4

LEMMA NextKeepsOwnInv ==
  ASSUME QuietStart, TypeInv, WatchInv, OwnInv, [Next]_vars
  PROVE  OwnInv'
<1>0. ThreadType /\ "main" \in Threads /\ "watcher" \in Threads
  BY DEF TypeInv, Threads
<1> SUFFICES ASSUME running', cut' = {}
             PROVE  OwnInv'
  BY DEF OwnInv
<1>1. running
  BY DEF Next, Join, Crash, Expire, ChildrenBecome, Started, SessionEnds, Start, StartFails, WatcherReads,
     WatcherReadsNothing, SetHeadTail, AltCheck, ConnectNode, Call, Return, CallFails, CloseFailed, vars
<1>2. CASE Join \/ (\E s \in Servers : Crash(s) \/ Expire(s)) \/ SessionEnds \/ StartFails \/ UNCHANGED vars
  <2>1. UNCHANGED <<pc, rtable, file, sockfd, cut>>
    BY <1>2 DEF Join, Crash, Expire, ChildrenBecome, SessionEnds, StartFails, vars, viewVars, histVars
  <2>2. QED
    BY <1>1, <2>1 DEF OwnInv, Making
<1>3. CASE Start \/ WatcherReads \/ WatcherReadsNothing
  <2>1. UNCHANGED <<rtable, file, sockfd, cut>> /\ \E t \in Threads : pc' = [pc EXCEPT ![t] = "check head"] /\ ~ Busy(t)
    BY <1>0, <1>3 DEF Start, WatcherReads, WatcherReadsNothing, ReadChildren, viewVars, histVars, Busy
  <2>2. \A e \in Ends : Making(e) => Making(e)'
    <3>1. PICK t \in Threads : pc' = [pc EXCEPT ![t] = "check head"] /\ ~ Busy(t)
      BY <2>1
    <3>2. \A u \in Threads, e \in Ends : pc[u] = Connect(e) => pc'[u] = Connect(e)
      BY <1>0, <3>1 DEF ThreadType, Busy, Connect
    <3>3. QED
      BY <3>2 DEF Making, Connect
  <2>3. QED
    BY <1>1, <2>1, <2>2 DEF OwnInv
<1>4. CASE \E t \in Threads : SetHeadTail(t)
  BY <1>4, AltCheckKeepsOwn, ConnectKeepsOwn DEF SetHeadTail
<1>5. CASE Command
  <2>1. /\ UNCHANGED <<rtable, sockfd>> /\ pc["main"] \in {"ready", "calling", "failing"}
        /\ \A u \in Threads : u # "main" => pc'[u] = pc[u]
    BY <1>0, <1>5 DEF Command, Call, Return, CallFails, CloseFailed, viewVars, ThreadType
  <2>2. cut = {} /\ \A fd \in Fds : file'[fd] = file[fd]
    BY <1>5, CommandCloses
  <2>3. \A e \in Ends : Making(e) => Making(e)'
    BY <2>1 DEF Making, Connect
  <2>4. \A e \in Ends : rtable[e] # NULL => sockfd[rtable[e]] \in Fds
    BY RtableFds
  <2>5. QED
    BY <1>1, <2>1, <2>2, <2>3, <2>4 DEF OwnInv
<1>6. QED
  BY <1>2, <1>3, <1>4, <1>5 DEF Next, Command

(* Once the client has dealt with every change of the chain, head was made to *)
(* the first server, whatever servers joined, crashed or lost their session,  *)
(* unless the last attempt to connect failed, and its descriptor names that   *)
(* connection as long as no failed command has closed one.  The chain is at    *)
(* rest until the client has started.                                          *)
THEOREM ClientHeadCurrent ==
  ASSUME QuietStart
  PROVE  Spec => []HeadCurrent
<1>1. Init => PeerInv /\ OwnInv
  BY InitPeerInv DEF Init, OwnInv
<1>2. TypeInv /\ WatchInv /\ PeerInv /\ OwnInv /\ [Next]_vars => PeerInv' /\ OwnInv'
  BY NextKeepsPeerInv, NextKeepsOwnInv
<1>3. TypeInv /\ WatchInv /\ PeerInv /\ OwnInv => HeadCurrent
  <2> SUFFICES ASSUME TypeInv, WatchInv, PeerInv, OwnInv, Settled, "head" \notin missed
               PROVE  LET r == rtable["head"]
                      IN  r # NULL /\ peer[r] = At("head", zk) /\ (cut = {} => file[sockfd[r]] = r)
    BY DEF HeadCurrent
  <2>1. running /\ Running /\ pc["watcher"] = "idle" /\ Quiet
    BY DEF Settled, WatchInv, Running, Quiet
  <2>2. MadeTo("head")
    BY <2>1 DEF PeerInv, Made, Ends
  <2>3. ~ Making("head")
    BY <2>1, Places2 DEF Making, Running, Connect, TypeInv
  <2>4. QED
    BY <2>1, <2>2, <2>3 DEF OwnInv, MadeTo, Ends
<1>4. QED
  BY <1>1, <1>2, <1>3, ClientWatchInv, PTL DEF Spec
=============================================================================

--------------------------- MODULE SocketsProofs ---------------------------
(***************************************************************************)
(* The descriptors of a server and its count of clients, for every number  *)
(* of descriptors and of clients, though threads do call close on numbers  *)
(* that name the connections of others.                                    *)
(***************************************************************************)
EXTENDS Sockets, Least, FiniteSetTheorems

(* A thread has a descriptor as long as it lives, and forwards through one. *)
ThreadsHaveFd ==
    /\ \A c \in Clients : worker[c] # "none" => connsockfd[c] \in Fds
    /\ \A c \in Clients : fwdfd[c] # 0 => fwdfd[c] \in Fds

Counted == {c \in Clients : worker[c] \notin {"none", "created"}}

(* The strengthening that every step preserves. *)
IInv == /\ TypeOK
        /\ ThreadsHaveFd
        /\ NoDescriptorLeak
        /\ ClientsCounted

(* The kernel gives a descriptor that was free. *)
LEMMA LowestIsFree ==
  ASSUME NEW f, {fd \in Fds : f[fd] = Free} # {}
  PROVE  /\ Min({fd \in Fds : f[fd] = Free}) \in Fds
         /\ f[Min({fd \in Fds : f[fd] = Free})] = Free
<1> DEFINE S == {fd \in Fds : f[fd] = Free}
<1>1. S \subseteq Nat /\ S # {}
  BY SocketsAssumption DEF Fds
<1>2. Min(S) \in S
  <2> HIDE DEF S
  <2> QED BY <1>1, MinIsLeast
<1>3. QED
  BY <1>2

(* Closing a descriptor never leaks one. *)
LEMMA CloseLeaksNothing ==
  ASSUME IInv, NEW fd \in Fds \cup {0}, Close(fd), UNCHANGED <<connsockfd, sockfd>>,
         \A c \in Clients : worker'[c] = "none" => worker[c] = "none"
  PROVE  NoDescriptorLeak' /\ file' \in [Fds -> Clients \cup {Free, Successor}]
<1>1. \A x \in Fds : file'[x] = Free \/ file'[x] = file[x]
  BY DEF Close, IInv, TypeOK
<1>2. QED
  BY <1>1 DEF Close, IInv, TypeOK, NoDescriptorLeak

LEMMA SameFilesLeakNothing ==
  ASSUME IInv, UNCHANGED <<file, connsockfd, sockfd>>,
         \A c \in Clients : worker'[c] = "none" => worker[c] = "none"
  PROVE  NoDescriptorLeak'
  BY DEF IInv, NoDescriptorLeak

LEMMA CountedFinite == IsFiniteSet(Counted) /\ Cardinality(Counted) \in Nat
  BY SocketsAssumption, FS_Subset, FS_CardinalityType DEF Counted

(* A thread that stays on its side of its loop leaves the count alone, *)
LEMMA StaysCounted ==
  ASSUME IInv, NEW c \in Clients, NEW from, NEW to, Goto(c, from, to), n_clients' = n_clients,
         from \in {"none", "created"} <=> to \in {"none", "created"}
  PROVE  ClientsCounted'
<1>1. Counted' = Counted
  BY DEF Counted, Goto, IInv, TypeOK
<1>2. QED
  BY <1>1 DEF Counted, ClientsCounted, IInv

LEMMA AllStayCounted ==
  ASSUME IInv, UNCHANGED <<worker, n_clients>>
  PROVE  ClientsCounted'
  BY DEF IInv, ClientsCounted
---------------------------------------------------------------------------
LEMMA AcceptKeeps == ASSUME IInv, NEW c \in Clients, Accept(c) PROVE IInv'
<1> DEFINE fd == Min(FreeFds)
<1>1. fd \in Fds /\ file[fd] = Free
  BY LowestIsFree DEF Accept, FreeFds
<1>2. /\ file' = [file EXCEPT ![fd] = c] /\ connsockfd' = [connsockfd EXCEPT ![c] = fd]
      /\ Goto(c, "none", "created") /\ conn' = [conn EXCEPT ![c] = "open"]
      /\ UNCHANGED <<request, serving, fwdfd, fwdto, sockfd, up, n_clients>>
  BY DEF Accept, fwdVars
<1> HIDE DEF fd
<1>3. TypeOK'
  BY <1>1, <1>2 DEF IInv, TypeOK, Goto, Conns, Workers
<1>4. ThreadsHaveFd'
  BY <1>1, <1>2 DEF IInv, TypeOK, ThreadsHaveFd, Goto
<1>5. NoDescriptorLeak'
  <2> SUFFICES ASSUME NEW x \in Fds, file'[x] # Free, file'[x] # Successor \/ sockfd' # x
               PROVE  file'[x] \in Clients /\ worker'[file'[x]] # "none" /\ connsockfd'[file'[x]] = x
    BY DEF NoDescriptorLeak
  <2>1. CASE x = fd
    BY <1>1, <1>2, <2>1 DEF IInv, TypeOK, Goto
  <2>2. CASE x # fd
    <3>1. file'[x] = file[x]
      BY <1>1, <1>2, <2>2 DEF IInv, TypeOK
    <3>2. file[x] \in Clients /\ worker[file[x]] # "none" /\ connsockfd[file[x]] = x
      BY <1>2, <3>1 DEF IInv, NoDescriptorLeak
    <3>3. file[x] # c
      BY <1>2, <3>2 DEF Goto
    <3>4. QED
      BY <1>2, <3>1, <3>2, <3>3 DEF IInv, TypeOK, Goto
  <2>3. QED
    BY <2>1, <2>2
<1>6. ClientsCounted'
  BY <1>2, StaysCounted
<1>7. QED
  BY <1>3, <1>4, <1>5, <1>6 DEF IInv

(* What a client does moves no descriptor. *)
LEMMA ClientKeeps == ASSUME IInv, NEW c \in Clients, Send(c) \/ End(c) \/ Reset(c) PROVE IInv'
<1>1. TypeOK'
  BY DEF IInv, TypeOK, Send, End, Reset, Conns, Requests, fwdVars
<1>2. UNCHANGED <<file, worker, connsockfd, fwdfd, sockfd, n_clients>>
  BY DEF Send, End, Reset, fwdVars
<1>3. QED
  BY <1>1, <1>2, SameFilesLeakNothing, AllStayCounted DEF IInv, ThreadsHaveFd

LEMMA StartKeeps == ASSUME IInv, NEW c \in Clients, ThreadStarts(c) PROVE IInv'
<1>1. Counted' = Counted \cup {c} /\ c \notin Counted
  BY DEF ThreadStarts, Goto, Counted, IInv, TypeOK
<1>2. ClientsCounted'
  BY <1>1, CountedFinite, FS_AddElement DEF ThreadStarts, IInv, ClientsCounted, Counted
<1>3. TypeOK' /\ ThreadsHaveFd'
  BY DEF ThreadStarts, Goto, IInv, TypeOK, ThreadsHaveFd, Workers, clientVars, fwdVars
<1>4. NoDescriptorLeak'
  BY SameFilesLeakNothing DEF ThreadStarts, Goto, IInv, TypeOK
<1>5. QED
  BY <1>2, <1>3, <1>4 DEF IInv

LEMMA LeaveKeeps == ASSUME IInv, NEW c \in Clients, Leave(c) PROVE IInv'
<1>1. Counted' = Counted \ {c} /\ c \in Counted
  BY DEF Leave, Goto, Counted, IInv, TypeOK
<1>2. ClientsCounted' /\ n_clients' \in Nat
  <2>1. Cardinality(Counted') = Cardinality(Counted) - 1
    BY <1>1, CountedFinite, FS_RemoveElement
  <2>2. Cardinality(Counted') \in Nat
    BY <1>1, CountedFinite, FS_RemoveElement, FS_CardinalityType
  <2>3. QED
    BY <2>1, <2>2 DEF Leave, IInv, ClientsCounted, Counted
<1>3. /\ file' = [file EXCEPT ![connsockfd[c]] = Free] /\ connsockfd' = [connsockfd EXCEPT ![c] = 0]
      /\ worker[c] = "leaving" /\ worker' = [worker EXCEPT ![c] = "none"]
      /\ UNCHANGED <<serving, fwdfd, fwdto, sockfd, up>> /\ connsockfd[c] \in Fds
  BY DEF Leave, Close, Goto, fwdVars, IInv, ThreadsHaveFd
<1>4. TypeOK'
  BY <1>2, <1>3 DEF Leave, IInv, TypeOK, Conns, Requests, Workers
<1>5. ThreadsHaveFd'
  BY <1>3 DEF IInv, TypeOK, ThreadsHaveFd
<1>6. NoDescriptorLeak'
  <2> SUFFICES ASSUME NEW x \in Fds, file'[x] # Free, file'[x] # Successor \/ sockfd' # x
               PROVE  file'[x] \in Clients /\ worker'[file'[x]] # "none" /\ connsockfd'[file'[x]] = x
    BY DEF NoDescriptorLeak
  <2>1. x # connsockfd[c] /\ file'[x] = file[x]
    BY <1>3 DEF IInv, TypeOK
  <2>2. file[x] \in Clients /\ worker[file[x]] # "none" /\ connsockfd[file[x]] = x
    BY <1>3, <2>1 DEF IInv, NoDescriptorLeak
  <2>3. QED
    BY <1>3, <2>1, <2>2 DEF IInv, TypeOK
<1>7. QED
  BY <1>2, <1>4, <1>5, <1>6 DEF IInv

(* A thread of the server takes a request, or leaves its loop. *)
LEMMA ReceiveKeeps ==
  ASSUME IInv, NEW c \in Clients, ReceiveRequest(c) \/ ReceiveEnds(c) \/ ReceiveFails(c)
  PROVE  IInv'
<1>1. CASE ReceiveRequest(c)
  <2>1. PICK x \in Clients : /\ serving' = [serving EXCEPT ![c] = request[x]]
                             /\ request' = [request EXCEPT ![x] = "none"]
    BY <1>1 DEF ReceiveRequest
  <2>2. Goto(c, "receiving", "invoking") /\ UNCHANGED <<file, conn, connsockfd, fwdfd, fwdto, sockfd, up, n_clients>>
    BY <1>1 DEF ReceiveRequest, fwdVars
  <2>3. TypeOK' /\ ThreadsHaveFd'
    BY <2>1, <2>2 DEF IInv, TypeOK, ThreadsHaveFd, Goto, Requests, Workers
  <2>4. NoDescriptorLeak'
    BY <2>2, SameFilesLeakNothing DEF Goto, IInv, TypeOK
  <2>5. QED
    BY <2>2, <2>3, <2>4, StaysCounted DEF IInv
<1>2. CASE ReceiveEnds(c)
  <2>1. Goto(c, "receiving", "leaving") /\ UNCHANGED <<file, conn, request, connsockfd, serving, fwdfd, fwdto, sockfd, up, n_clients>>
    BY <1>2 DEF ReceiveEnds, fwdVars, clientVars
  <2>2. TypeOK' /\ ThreadsHaveFd'
    BY <2>1 DEF IInv, TypeOK, ThreadsHaveFd, Goto, Workers
  <2>3. NoDescriptorLeak'
    BY <2>1, SameFilesLeakNothing DEF Goto, IInv, TypeOK
  <2>4. QED
    BY <2>1, <2>2, <2>3, StaysCounted DEF IInv
<1>3. CASE ReceiveFails(c)
  <2>1. /\ Goto(c, "receiving", "leaving") /\ Close(connsockfd[c])
        /\ UNCHANGED <<conn, request, connsockfd, serving, fwdfd, fwdto, sockfd, up, n_clients>>
    BY <1>3 DEF ReceiveFails, fwdVars, clientVars
  <2>2. NoDescriptorLeak' /\ file' \in [Fds -> Clients \cup {Free, Successor}]
    BY <2>1, CloseLeaksNothing DEF Goto, IInv, TypeOK
  <2>3. TypeOK' /\ ThreadsHaveFd'
    BY <2>1, <2>2 DEF IInv, TypeOK, ThreadsHaveFd, Goto, Workers
  <2>4. QED
    BY <2>1, <2>2, <2>3, StaysCounted DEF IInv
<1>4. QED
  BY <1>1, <1>2, <1>3

LEMMA HandleKeeps == ASSUME IInv, NEW c \in Clients, Handle(c) PROVE IInv'
<1>1. PICK to \in {"replying", "leaving"} : Goto(c, "invoking", to)
  BY DEF Handle
<1>2. /\ serving' = [serving EXCEPT ![c] = "none"]
      /\ UNCHANGED <<file, conn, request, connsockfd, fwdfd, fwdto, sockfd, up, n_clients>>
  BY DEF Handle, clientVars, fwdVars
<1>3. TypeOK' /\ ThreadsHaveFd'
  BY <1>1, <1>2 DEF IInv, TypeOK, ThreadsHaveFd, Goto, Workers, Requests
<1>4. NoDescriptorLeak'
  BY <1>1, <1>2, SameFilesLeakNothing DEF Goto, IInv, TypeOK
<1>5. QED
  BY <1>1, <1>2, <1>3, <1>4, StaysCounted DEF IInv

LEMMA WrittenType ==
  ASSUME TypeOK, NEW x  PROVE Written(x) \subseteq [Clients -> Conns]
  BY DEF TypeOK, Written, Conns

LEMMA ForwardKeeps == ASSUME IInv, NEW c \in Clients, Forward(c) PROVE IInv'
<1> DEFINE x == file[sockfd]
<1>1. /\ sockfd \in Fds /\ worker[c] = "invoking"
      /\ serving' = [serving EXCEPT ![c] = "none"]
      /\ UNCHANGED <<request, connsockfd, sockfd, up, n_clients>>
  BY DEF Forward, Goto, IInv, TypeOK
<1> DEFINE Sent   == /\ Goto(c, "invoking", "forwarding") /\ conn' \in Written(x) /\ UNCHANGED file
                     /\ fwdfd' = [fwdfd EXCEPT ![c] = sockfd] /\ fwdto' = [fwdto EXCEPT ![c] = x]
           Failed == Goto(c, "invoking", "replying") /\ Close(sockfd) /\ UNCHANGED <<conn, fwdfd, fwdto>>
<1>2. CASE Sent
  <2>1. /\ Goto(c, "invoking", "forwarding") /\ conn' \in Written(x) /\ UNCHANGED file
        /\ fwdfd' = [fwdfd EXCEPT ![c] = sockfd] /\ fwdto' = [fwdto EXCEPT ![c] = x]
    BY <1>2
  <2>2. conn' \in [Clients -> Conns]
    BY <2>1, WrittenType DEF IInv
  <2>3. TypeOK' /\ ThreadsHaveFd'
    BY <1>1, <2>1, <2>2 DEF IInv, TypeOK, ThreadsHaveFd, Goto, Workers, Requests
  <2>4. NoDescriptorLeak'
    BY <1>1, <2>1, SameFilesLeakNothing DEF Goto, IInv, TypeOK
  <2>5. QED
    BY <1>1, <2>1, <2>3, <2>4, StaysCounted DEF IInv
<1>3. CASE Failed
  <2>1. Goto(c, "invoking", "replying") /\ Close(sockfd) /\ UNCHANGED <<conn, fwdfd, fwdto>>
    BY <1>3
  <2>2. NoDescriptorLeak' /\ file' \in [Fds -> Clients \cup {Free, Successor}]
    BY <1>1, <2>1, CloseLeaksNothing DEF Goto, IInv, TypeOK
  <2>3. TypeOK' /\ ThreadsHaveFd'
    BY <1>1, <2>1, <2>2 DEF IInv, TypeOK, ThreadsHaveFd, Goto, Workers, Requests
  <2>4. QED
    BY <1>1, <2>1, <2>2, <2>3, StaysCounted DEF IInv
<1>4. QED
  BY <1>2, <1>3 DEF Forward, fwdVars

LEMMA ForwardEndsKeeps == ASSUME IInv, NEW c \in Clients, ForwardEnds(c) PROVE IInv'
<1>1. /\ Goto(c, "forwarding", "replying") /\ UNCHANGED <<conn, connsockfd, serving, sockfd, up, n_clients>>
      /\ fwdfd' = [fwdfd EXCEPT ![c] = 0] /\ fwdto' = [fwdto EXCEPT ![c] = Free]
  BY DEF ForwardEnds
<1>2. PICK fd \in {fwdfd[c], sockfd} \ {0} :
        \/ UNCHANGED <<file, request>>
        \/ Close(fd) /\ UNCHANGED request
        \/ /\ file[fd] \in Clients
           /\ request' = [request EXCEPT ![file[fd]] = "none"]
           /\ UNCHANGED file
  BY DEF ForwardEnds
<1>3. NoDescriptorLeak' /\ file' \in [Fds -> Clients \cup {Free, Successor}]
  <2>1. \A d \in Clients : worker'[d] = "none" => worker[d] = "none"
    BY <1>1 DEF Goto, IInv, TypeOK
  <2>2. CASE Close(fd)
    BY <1>1, <1>2, <2>1, <2>2, CloseLeaksNothing DEF IInv, TypeOK
  <2>3. CASE UNCHANGED file
    BY <1>1, <2>1, <2>3, SameFilesLeakNothing DEF IInv, TypeOK
  <2>4. QED
    BY <1>2, <2>2, <2>3
<1>4. request' \in [Clients -> Requests]
  BY <1>2 DEF IInv, TypeOK, Requests
<1>5. TypeOK' /\ ThreadsHaveFd'
  BY <1>1, <1>3, <1>4 DEF IInv, TypeOK, ThreadsHaveFd, Goto, Workers
<1>6. QED
  BY <1>1, <1>3, <1>5, StaysCounted DEF IInv

LEMMA ReplyKeeps == ASSUME IInv, NEW c \in Clients, Reply(c) PROVE IInv'
<1> DEFINE x == file[connsockfd[c]]
<1>1. UNCHANGED <<request, connsockfd, serving, fwdfd, fwdto, sockfd, up, n_clients>>
  BY DEF Reply, fwdVars
<1>2. CASE Goto(c, "replying", "receiving") /\ conn' \in Written(x) /\ UNCHANGED file
  <2>1. Goto(c, "replying", "receiving") /\ conn' \in Written(x) /\ UNCHANGED file
    BY <1>2
  <2>2. conn' \in [Clients -> Conns]
    BY <2>1, WrittenType DEF IInv
  <2>3. TypeOK' /\ ThreadsHaveFd'
    BY <1>1, <2>1, <2>2 DEF IInv, TypeOK, ThreadsHaveFd, Goto, Workers, Requests
  <2>4. NoDescriptorLeak'
    BY <1>1, <2>1, SameFilesLeakNothing DEF Goto, IInv, TypeOK
  <2>5. QED
    BY <1>1, <2>1, <2>3, <2>4, StaysCounted DEF IInv
<1>3. CASE Goto(c, "replying", "leaving") /\ Close(connsockfd[c]) /\ UNCHANGED conn
  <2>1. Goto(c, "replying", "leaving") /\ Close(connsockfd[c]) /\ UNCHANGED conn
    BY <1>3
  <2>2. NoDescriptorLeak' /\ file' \in [Fds -> Clients \cup {Free, Successor}]
    BY <1>1, <2>1, CloseLeaksNothing DEF Goto, IInv, TypeOK
  <2>3. TypeOK' /\ ThreadsHaveFd'
    BY <1>1, <2>1, <2>2 DEF IInv, TypeOK, ThreadsHaveFd, Goto, Workers, Requests
  <2>4. QED
    BY <1>1, <2>1, <2>2, <2>3, StaysCounted DEF IInv
<1>4. QED
  BY <1>2, <1>3 DEF Reply
---------------------------------------------------------------------------
(* The watcher gives up the descriptor of the old successor before it asks *)
(* for one for the new.                                                    *)
LEMMA WatcherKeeps == ASSUME IInv, set_next_server PROVE IInv'
<1>1. /\ UNCHANGED <<conn, request, worker, connsockfd, serving, fwdfd, n_clients>>
      /\ fwdto' \in [Clients -> Clients \cup {Free, Former, Successor}]
  BY DEF set_next_server, clientVars, IInv, TypeOK
<1> DEFINE after == IF sockfd = 0 THEN file ELSE [file EXCEPT ![sockfd] = Free]
           free == {fd \in Fds : after[fd] = Free}
<1>2. /\ after \in [Fds -> Clients \cup {Free, Successor}]
      /\ \A fd \in Fds : after[fd] # Free => after[fd] = file[fd] /\ fd # sockfd
  <2>1. sockfd # 0 => sockfd \in Fds
    BY DEF IInv, TypeOK
  <2>2. sockfd = 0 => \A fd \in Fds : fd # sockfd
    BY DEF Fds
  <2>3. QED
    BY <2>1, <2>2 DEF IInv, TypeOK
<1>3. \A fd \in Fds : after[fd] = Free \/
        (file[fd] \in Clients /\ worker[file[fd]] # "none" /\ connsockfd[file[fd]] = fd)
  BY <1>2 DEF IInv, NoDescriptorLeak
<1>4. \/ file' = after /\ sockfd' = 0 /\ up' = up
      \/ /\ free # {} /\ up' = TRUE /\ sockfd' = Min(free)
         /\ file' = [after EXCEPT ![Min(free)] = Successor]
  BY DEF set_next_server
<1> HIDE DEF after
<1>5. free # {} => Min(free) \in Fds /\ after[Min(free)] = Free
  BY LowestIsFree
<1> HIDE DEF free
<1>6. TypeOK'
  BY <1>1, <1>2, <1>4, <1>5 DEF IInv, TypeOK
<1>7. NoDescriptorLeak'
  <2>1. CASE file' = after
    BY <1>1, <1>2, <1>3, <2>1 DEF NoDescriptorLeak
  <2>2. CASE free # {} /\ sockfd' = Min(free) /\ file' = [after EXCEPT ![Min(free)] = Successor]
    BY <1>1, <1>2, <1>3, <1>5, <2>2 DEF NoDescriptorLeak
  <2>3. QED
    BY <1>4, <2>1, <2>2
<1>8. ClientsCounted' /\ ThreadsHaveFd'
  BY <1>1, AllStayCounted DEF IInv, ThreadsHaveFd
<1>9. QED
  BY <1>6, <1>7, <1>8 DEF IInv

LEMMA OthersKeep == ASSUME IInv, SuccessorCrashes \/ UNCHANGED vars PROVE IInv'
<1>1. UNCHANGED <<file, conn, request, worker, connsockfd, serving, fwdfd, fwdto, sockfd, n_clients>>
      /\ up' \in BOOLEAN
  BY DEF SuccessorCrashes, vars, clientVars, fwdVars, IInv, TypeOK
<1>2. TypeOK' /\ ThreadsHaveFd'
  BY <1>1 DEF IInv, TypeOK, ThreadsHaveFd
<1>3. QED
  BY <1>1, <1>2, SameFilesLeakNothing, AllStayCounted DEF IInv

LEMMA InitHolds == Init => IInv
<1> SUFFICES ASSUME Init PROVE IInv
  OBVIOUS
<1>1. 1 \in Fds
  BY SocketsAssumption, FS_CardinalityType DEF Fds
<1>2. TypeOK /\ ThreadsHaveFd
  BY <1>1 DEF Init, TypeOK, ThreadsHaveFd, Conns, Requests, Workers
<1>3. NoDescriptorLeak
  BY <1>1 DEF Init, NoDescriptorLeak
<1>4. Counted = {}
  BY DEF Init, Counted
<1>5. ClientsCounted
  BY <1>4, FS_EmptySet DEF Init, ClientsCounted, Counted
<1>6. QED
  BY <1>2, <1>3, <1>5 DEF IInv

LEMMA SocketsInvariant == Spec => []IInv
<1>1. IInv /\ [Next]_vars => IInv'
  BY AcceptKeeps, ClientKeeps, StartKeeps, LeaveKeeps, ReceiveKeeps, HandleKeeps, ForwardKeeps,
     ForwardEndsKeeps, ReplyKeeps, WatcherKeeps, OthersKeep DEF Next, ThreadStep
<1>2. QED
  BY <1>1, InitHolds, PTL DEF Spec
---------------------------------------------------------------------------
(* The variables of the descriptors, the threads and the clients keep their *)
(* types; in particular n_clients never becomes negative.                   *)
THEOREM SocketsTypes == Spec => []TypeOK
  BY SocketsInvariant, PTL DEF IInv

(* Whatever connection fails, on whatever side and in whatever order, each  *)
(* open descriptor is one that a living thread or next_server will close.   *)
THEOREM SocketsLeakNothing == Spec => []NoDescriptorLeak
  BY SocketsInvariant, PTL DEF IInv

(* The statistic of connected clients is exact: each way out of the loop of *)
(* a thread counts its client out, once.                                    *)
THEOREM SocketsCountClients == Spec => []ClientsCounted
  BY SocketsInvariant, PTL DEF IInv
=============================================================================

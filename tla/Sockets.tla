------------------------------ MODULE Sockets ------------------------------
(***************************************************************************)
(* The file descriptors of one server process: the accept loop and the     *)
(* threads of source/server_network.c, the connection to the successor     *)
(* that next_server keeps (source/client_network.c, client_stub.c), and    *)
(* the count of clients of source/stats.c.                                 *)
(*                                                                         *)
(* A descriptor is a number; the kernel gives the smallest free one, and a *)
(* call on a number concerns whatever file it names at that moment.  A     *)
(* blocked read is taken to start when its bytes arrive.  Definitions      *)
(* named Slip... are mistakes the properties must notice.                  *)
(***************************************************************************)
EXTENDS Integers, FiniteSets, FiniteSetsExt

CONSTANTS
    Clients,          \* connections to the server; one that is over may be opened anew
    NumFds,           \* descriptors that sockets may have
    Successor,        \* the connection to the next server of the chain
    Former,           \* a connection to it that the watcher has given up
    Free,             \* the file of an unused descriptor
    MayReset,         \* whether a client may die in the middle of a message or of a call
    MayLoseSuccessor  \* whether the next server may crash and be replaced

Fds == 1 .. NumFds

ASSUME SocketsAssumption ==
    /\ IsFiniteSet(Clients)
    /\ NumFds \in Nat /\ NumFds > Cardinality(Clients)
    /\ Successor \notin Clients /\ Free \notin Clients /\ Former \notin Clients
    /\ Free # Successor /\ Former # Successor /\ Former # Free
    /\ MayReset \in BOOLEAN /\ MayLoseSuccessor \in BOOLEAN

VARIABLES
    file,        \* file[fd]: the connection that descriptor fd names, or Free
    conn,        \* conn[c]: the client's end of connection c
    request,     \* request[c]: the request on connection c
    worker,      \* worker[c]: where the thread made for connection c is
    connsockfd,  \* connsockfd[c]: the descriptor that thread was given
    serving,     \* serving[c]: the request that invoke has before it, or "none"
    fwdfd,       \* fwdfd[c]: the descriptor its forward was written to, or 0
    fwdto,       \* fwdto[c]: the connection it was written to; Former, if a read of it
                 \* goes on though the watcher closed it; Free, if nobody will answer
    sockfd,      \* next_server->sockfd, or 0 when next_server is NULL
    up,          \* whether the next server runs
    n_clients    \* the statistic

clientVars == <<conn, request>>
fwdVars == <<fwdfd, fwdto>>
vars == <<file, clientVars, worker, connsockfd, serving, fwdVars, sockfd, up, n_clients>>

Conns == {"closed", "open", "waiting", "ended", "reset"}
Requests == {"none", "read", "write"}
Workers == {"none", "created", "receiving", "invoking", "forwarding", "replying", "leaving"}

FreeFds == {fd \in Fds : file[fd] = Free}

Init == /\ file = [fd \in Fds |-> IF fd = 1 THEN Successor ELSE Free]
        /\ conn = [c \in Clients |-> "closed"]
        /\ request = [c \in Clients |-> "none"]
        /\ worker = [c \in Clients |-> "none"]
        /\ connsockfd = [c \in Clients |-> 0]
        /\ serving = [c \in Clients |-> "none"]
        /\ fwdfd = [c \in Clients |-> 0]
        /\ fwdto = [c \in Clients |-> Free]
        /\ sockfd = 1
        /\ up = TRUE
        /\ n_clients = 0

Goto(c, from, to) == worker[c] = from /\ worker' = [worker EXCEPT ![c] = to]

(* close(fd): no effect, but EBADF, if fd is not in use. *)
Close(fd) == file' = [file EXCEPT ![fd] = Free]
---------------------------------------------------------------------------
(* A client connects; accept returns a descriptor and a thread is created.  *)
Accept(c) == /\ conn[c] = "closed"
             /\ FreeFds # {}
             /\ Goto(c, "none", "created")
             /\ LET fd == Min(FreeFds) IN
                /\ file' = [file EXCEPT ![fd] = c]
                /\ connsockfd' = [connsockfd EXCEPT ![c] = fd]
             /\ conn' = [conn EXCEPT ![c] = "open"]
             /\ UNCHANGED <<request, serving, fwdVars, sockfd, up, n_clients>>

(* What the client does: one request at a time, then it closes; or it dies, *)
(* idle, with a request on its way or waiting for the answer.              *)
Send(c) == /\ conn[c] = "open"
           /\ \E r \in Requests \ {"none"} : request' = [request EXCEPT ![c] = r]
           /\ conn' = [conn EXCEPT ![c] = "waiting"]
           /\ UNCHANGED <<file, worker, connsockfd, serving, fwdVars, sockfd, up, n_clients>>

End(c) == /\ conn[c] = "open" \/ (MayReset /\ conn[c] = "waiting")
          /\ conn' = [conn EXCEPT ![c] = "ended"]
          /\ UNCHANGED <<file, request, worker, connsockfd, serving, fwdVars, sockfd, up, n_clients>>

Reset(c) == /\ MayReset
            /\ conn[c] \in {"open", "waiting"}
            /\ conn' = [conn EXCEPT ![c] = "reset"]
            /\ request' = [request EXCEPT ![c] = "none"]
            /\ UNCHANGED <<file, worker, connsockfd, serving, fwdVars, sockfd, up, n_clients>>

(* A thread that does not count its client. *)
SlipThreadStarts(c) == /\ Goto(c, "created", "receiving")
                       /\ UNCHANGED <<file, clientVars, connsockfd, serving, fwdVars, sockfd, up,
                                      n_clients>>

(* update_clients_connect *)
ThreadStarts(c) == /\ Goto(c, "created", "receiving")
                   /\ n_clients' = n_clients + 1
                   /\ UNCHANGED <<file, clientVars, connsockfd, serving, fwdVars, sockfd, up>>

(* The client of x has gone, and nothing that it sent is left to read. *)
Over(x, how) == x \in Clients /\ conn[x] = how /\ request[x] = "none"

(* A receive that tries again at the end of the stream. *)
SlipReceiveRetries(c) == /\ Goto(c, "receiving", "receiving")
                         /\ Over(file[connsockfd[c]], "ended")
                         /\ UNCHANGED <<file, clientVars, connsockfd, serving, fwdVars, sockfd, up,
                                        n_clients>>

(***************************************************************************)
(* network_receive on the stream that the descriptor names: it takes a     *)
(* request; returns NULL at the end of the stream; or, after an error,     *)
(* closes the descriptor and returns NULL.                                 *)
(***************************************************************************)
ReceiveRequest(c) == \E x \in Clients :
    /\ Goto(c, "receiving", "invoking")
    /\ file[connsockfd[c]] = x /\ request[x] # "none"
    /\ serving' = [serving EXCEPT ![c] = request[x]]
    /\ request' = [request EXCEPT ![x] = "none"]
    /\ UNCHANGED <<file, conn, connsockfd, fwdVars, sockfd, up, n_clients>>

ReceiveEnds(c) ==
    /\ Goto(c, "receiving", "leaving")
    /\ Over(file[connsockfd[c]], "ended")
    /\ UNCHANGED <<file, clientVars, connsockfd, serving, fwdVars, sockfd, up, n_clients>>

ReceiveFails(c) ==
    /\ Goto(c, "receiving", "leaving")
    /\ file[connsockfd[c]] = Free \/ Over(file[connsockfd[c]], "reset")
    /\ Close(connsockfd[c])
    /\ UNCHANGED <<clientVars, connsockfd, serving, fwdVars, sockfd, up, n_clients>>
---------------------------------------------------------------------------
(* A forward is made under the write lock. *)
LockFree == \A c \in Clients : worker[c] # "forwarding"

(* Requests that are not forwarded; invoke may also return -1. *)
Handle(c) == /\ worker[c] = "invoking"
             /\ LockFree
             /\ serving[c] = "read" \/ sockfd = 0
             /\ \E to \in {"replying", "leaving"} : Goto(c, "invoking", to)
             /\ serving' = [serving EXCEPT ![c] = "none"]
             /\ UNCHANGED <<file, clientVars, connsockfd, fwdVars, sockfd, up, n_clients>>

Open(x) == x # Free /\ IF x = Successor THEN up ELSE conn[x] \in {"open", "waiting"}

(* A write to a connection that the client has closed may still succeed. *)
Writable(x) == Open(x) \/ (x \in Clients /\ conn[x] = "ended")

(* What a write does to the connection: a client that waits takes it for    *)
(* its answer; an end that is closed may answer with a reset.               *)
Written(x) == IF x \notin Clients THEN {conn}
              ELSE {[conn EXCEPT ![x] = how] : how \in CASE conn[x] = "waiting" -> {"open"}
                                                        [] conn[x] = "ended"   -> {"ended", "reset"}
                                                        [] OTHER               -> {conn[x]}}

(* rtable_put or rtable_del through next_server: the request is written to  *)
(* the file that sockfd names.  If that is no open connection,              *)
(* network_send_receive closes the descriptor, and next_server keeps it.    *)
Forward(c) == LET x == file[sockfd] IN
              /\ serving[c] = "write"
              /\ sockfd # 0
              /\ LockFree
              /\ \/ /\ Writable(x)
                    /\ Goto(c, "invoking", "forwarding")
                    /\ fwdfd' = [fwdfd EXCEPT ![c] = sockfd]
                    /\ fwdto' = [fwdto EXCEPT ![c] = x]
                    /\ conn' \in Written(x)
                    /\ UNCHANGED file
                 \/ /\ ~ Open(x)
                    /\ Goto(c, "invoking", "replying")
                    /\ Close(sockfd)
                    /\ UNCHANGED <<conn, fwdVars>>
              /\ serving' = [serving EXCEPT ![c] = "none"]
              /\ UNCHANGED <<request, connsockfd, sockfd, up, n_clients>>

(***************************************************************************)
(* The thread waits for the answer, on the descriptor it wrote to or, if   *)
(* the watcher has freed and made anew the rtable meanwhile, on the one    *)
(* that is there now.  The next server answers on the connection that the  *)
(* request was written to, and on no other: a thread that reads another    *)
(* one waits until that connection fails, or until a client sends a        *)
(* request, which it takes for the answer.  An error closes the            *)
(* descriptor.                                                             *)
(***************************************************************************)
ForwardEnds(c) ==
    /\ Goto(c, "forwarding", "replying")
    /\ \E fd \in {fwdfd[c], sockfd} \ {0} :
          \/ /\ fwdto[c] = Former \/ (fwdto[c] = Successor /\ file[fd] = Successor /\ up)
             /\ UNCHANGED <<file, request>>
          \/ /\ \/ fwdto[c] = Former
                \/ ~ Open(file[fd]) /\ (file[fd] \in Clients => request[file[fd]] = "none")
             /\ Close(fd)
             /\ UNCHANGED request
          \/ /\ file[fd] \in {x \in Clients : request[x] # "none"}
             /\ request' = [request EXCEPT ![file[fd]] = "none"]
             /\ UNCHANGED file
    /\ fwdfd' = [fwdfd EXCEPT ![c] = 0]
    /\ fwdto' = [fwdto EXCEPT ![c] = Free]
    /\ UNCHANGED <<conn, connsockfd, serving, sockfd, up, n_clients>>

(* network_send of the answer, which closes the descriptor after an error. *)
Reply(c) == /\ worker[c] = "replying"
            /\ LET x == file[connsockfd[c]] IN
               \/ /\ Writable(x)
                  /\ Goto(c, "replying", "receiving")
                  /\ conn' \in Written(x)
                  /\ UNCHANGED file
               \/ /\ ~ Open(x)
                  /\ Goto(c, "replying", "leaving")
                  /\ Close(connsockfd[c])
                  /\ UNCHANGED conn
            /\ UNCHANGED <<request, connsockfd, serving, fwdVars, sockfd, up, n_clients>>

(* A thread that does not count the client out. *)
SlipUncounted(c) == /\ Goto(c, "leaving", "none")
                    /\ Close(connsockfd[c])
                    /\ connsockfd' = [connsockfd EXCEPT ![c] = 0]
                    /\ conn' = [conn EXCEPT ![c] = "closed"]
                    /\ request' = [request EXCEPT ![c] = "none"]
                    /\ n_clients' = IF conn[c] = "ended" THEN n_clients - 1 ELSE n_clients
                    /\ UNCHANGED <<serving, fwdVars, sockfd, up>>

(* After the loop: update_clients_disconnect, close, and the thread ends. *)
Leave(c) == /\ Goto(c, "leaving", "none")
            /\ n_clients' = n_clients - 1
            /\ Close(connsockfd[c])
            /\ connsockfd' = [connsockfd EXCEPT ![c] = 0]
            /\ conn' = [conn EXCEPT ![c] = "closed"]
            /\ request' = [request EXCEPT ![c] = "none"]
            /\ UNCHANGED <<serving, fwdVars, sockfd, up>>
---------------------------------------------------------------------------
SuccessorCrashes == /\ MayLoseSuccessor
                    /\ up' = FALSE /\ up
                    /\ UNCHANGED <<file, clientVars, worker, connsockfd, serving, fwdVars, sockfd,
                                   n_clients>>

(* A watcher that drops the rtable without closing its socket. *)
SlipSetNextServer == /\ MayLoseSuccessor
                     /\ IF FreeFds # {}
                        THEN /\ sockfd' = Min(FreeFds)
                             /\ file' = [file EXCEPT ![Min(FreeFds)] = Successor]
                             /\ up' = TRUE
                        ELSE sockfd' = 0 /\ UNCHANGED <<file, up>>
                     /\ UNCHANGED <<clientVars, worker, connsockfd, serving, fwdVars, n_clients>>

(* set_next_server, on the watcher thread: rtable_disconnect of the old     *)
(* connection, rtable_connect to the new successor if there is one.  A      *)
(* thread whose forward went over the old connection gets its answer only   *)
(* if its read is under way: the kernel then keeps that connection.         *)
set_next_server ==
    /\ MayLoseSuccessor
    /\ \E joined \in BOOLEAN :
          LET after == IF sockfd = 0 THEN file ELSE [file EXCEPT ![sockfd] = Free]
              free  == {fd \in Fds : after[fd] = Free}
          IN  IF joined /\ free # {}
              THEN /\ file' = [after EXCEPT ![Min(free)] = Successor]
                   /\ sockfd' = Min(free)
                   /\ up' = TRUE
              ELSE /\ file' = after
                   /\ sockfd' = 0
                   /\ UNCHANGED up
    /\ \E left \in {Former, Free} :
          fwdto' = [c \in Clients |-> IF fwdto[c] = Successor THEN left ELSE fwdto[c]]
    /\ UNCHANGED <<clientVars, worker, connsockfd, serving, fwdfd, n_clients>>
---------------------------------------------------------------------------
ThreadStep(c) == \/ ThreadStarts(c) \/ ReceiveRequest(c) \/ ReceiveEnds(c) \/ ReceiveFails(c)
                 \/ Handle(c) \/ Forward(c) \/ ForwardEnds(c) \/ Reply(c) \/ Leave(c)

Next == \/ \E c \in Clients : Accept(c) \/ Send(c) \/ End(c) \/ Reset(c) \/ ThreadStep(c)
        \/ SuccessorCrashes
        \/ set_next_server

Spec == Init /\ [][Next]_vars

(* Every thread that can run runs. *)
Fairness == \A c \in Clients : WF_vars(ThreadStep(c))

FairSpec == Spec /\ Fairness
---------------------------------------------------------------------------
TypeOK == /\ file \in [Fds -> Clients \cup {Free, Successor}]
          /\ conn \in [Clients -> Conns] /\ request \in [Clients -> Requests]
          /\ worker \in [Clients -> Workers] /\ serving \in [Clients -> Requests]
          /\ connsockfd \in [Clients -> Fds \cup {0}]
          /\ fwdfd \in [Clients -> Fds \cup {0}]
          /\ fwdto \in [Clients -> Clients \cup {Free, Former, Successor}]
          /\ sockfd \in Fds \cup {0} /\ up \in BOOLEAN /\ n_clients \in Nat

(* No descriptor leaks: each one in use is held by the thread that will     *)
(* close it, or by next_server, however requests and forwards fail.         *)
NoDescriptorLeak == \A fd \in Fds :
    \/ file[fd] = Free
    \/ file[fd] = Successor /\ sockfd = fd
    \/ file[fd] \in Clients /\ worker[file[fd]] # "none" /\ connsockfd[file[fd]] = fd

(* The statistic counts the threads that serve a connection, whatever way   *)
(* each left its loop.                                                      *)
ClientsCounted == n_clients = Cardinality({c \in Clients : worker[c] \notin {"none", "created"}})

(* The connection of a client is closed by no thread but its own. *)
OnlyOwnerCloses == [][\A c \in Clients : \A fd \in Fds :
                        file[fd] = c /\ file'[fd] # c => worker'[c] # worker[c]]_vars

(* A forward is written to the next server of the chain, never to a client. *)
ForwardsReachSuccessor == \A c \in Clients : fwdto[c] \in {Free, Former, Successor}

(* The thread of c waits for the lock again and again, for ever, or holds   *)
(* it and waits for an answer.                                             *)
Kept(c) == []<>(worker[c] \in {"invoking", "forwarding"} /\ ~ LockFree)

(* The descriptor of a connection whose client has closed it or has died,   *)
(* idle or in the middle of a call, is released, unless the thread that     *)
(* serves it never gets out of its call: a forward that was written to a    *)
(* client, or whose connection the watcher replaced, keeps the write lock.  *)
EndedIsReleased == \A c \in Clients :
    conn[c] \in {"ended", "reset"} ~> ((\A fd \in Fds : file[fd] # c) \/ Kept(c))
===========================================================================

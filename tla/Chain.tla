------------------------------- MODULE Chain -------------------------------
(***************************************************************************)
(* Chain replication while the set of servers does not change.  Server 1   *)
(* is the head (the smallest znode under /chain) and server N the tail.    *)
(* Clients send put and del to the head and every read to the tail; the    *)
(* handler of a write applies it and, still holding the write lock,        *)
(* forwards it to the next server and waits for the reply.                 *)
(*                                                                         *)
(* One server thread serves each connection (server_network.c): the thread *)
(* of client c is named c, the thread of server j that serves the          *)
(* connection from server j - 1 is named j.  The lock of each server is    *)
(* that of RWLockSpec, which RWLock implements.  Definitions named Slip... *)
(* are mistakes the properties must notice.                                *)
(***************************************************************************)
EXTENDS TableOps

CONSTANTS N,        \* number of servers
          Clients,
          None      \* "no request" and "no answer"

Servers == 1 .. N
Links == 2 .. N
Threads == Clients \cup Links

ASSUME ChainAssumption == /\ N \in Nat \ {0}
                          /\ Clients \cap Links = {}
                          /\ None \notin Ops
                          /\ \A tb \in Tables, o \in Ops : Result(tb, o) # None

VARIABLES
    table,  \* table[i]: the table of server i
    op,     \* op[t]: the request thread t is serving, or None
    ans,    \* ans[t]: the answer thread t has computed, or None
    pc      \* pc[t]: where thread t is in invoke

vars == <<table, op, ans, pc>>

PCs == { "idle",       \* in network_receive, no request
         "sent",       \* has a request, waits for the lock of its server
         "reading",    \* between start_read and end_read
         "forwarding", \* holds the write lock, waits for the reply of the next server
         "written",    \* holds the write lock, about to call end_write
         "answered" }  \* out of the lock, about to send the reply

Init == /\ table = [i \in Servers |-> Empty]
        /\ op = [t \in Threads |-> None]
        /\ ans = [t \in Threads |-> None]
        /\ pc = [t \in Threads |-> "idle"]

(* The server a thread belongs to. *)
Server(t) == IF t \in Links THEN t
             ELSE IF op[t] \in Writes THEN 1 ELSE N

AtServer(i, t) == pc[t] # "idle" /\ Server(t) = i
WritersAt(i) == {t \in Threads : AtServer(i, t) /\ pc[t] \in {"forwarding", "written"}}
ReadersAt(i) == {t \in Threads : AtServer(i, t) /\ pc[t] = "reading"}

(* The client sends a request and waits for the reply. *)
Call(c) == /\ pc[c] = "idle"
           /\ pc' = [pc EXCEPT ![c] = "sent"]
           /\ \E o \in Ops : op' = [op EXCEPT ![c] = o]
           /\ UNCHANGED <<table, ans>>

(* A handler that calls rtable_put after end_write and does not wait for it. *)
SlipWrite(t) ==
    LET i == Server(t) IN
    /\ pc[t] = "sent"
    /\ op[t] \in Writes
    /\ WritersAt(i) = {}
    /\ ReadersAt(i) = {}
    /\ table' = [table EXCEPT ![i] = Effect(table[i], op[t])]
    /\ ans' = [ans EXCEPT ![t] = Result(table[i], op[t])]
    /\ IF i = N
       THEN /\ pc' = [pc EXCEPT ![t] = "written"]
            /\ UNCHANGED op
       ELSE /\ pc' = [pc EXCEPT ![t] = "written", ![i + 1] = "sent"]
            /\ op' = [op EXCEPT ![i + 1] = op[t]]

(* A handler that does not take the write lock. *)
SlipUnlockedWrite(t) ==
    LET i == Server(t) IN
    /\ pc[t] = "sent"
    /\ op[t] \in Writes
    /\ table' = [table EXCEPT ![i] = Effect(table[i], op[t])]
    /\ ans' = [ans EXCEPT ![t] = Result(table[i], op[t])]
    /\ IF i = N
       THEN /\ pc' = [pc EXCEPT ![t] = "written"]
            /\ UNCHANGED op
       ELSE /\ pc' = [pc EXCEPT ![t] = "forwarding", ![i + 1] = "sent"]
            /\ op' = [op EXCEPT ![i + 1] = op[t]]

(* start_write, table_put or table_remove, and the request of rtable_put or *)
(* rtable_del goes to the next server, if there is one.                     *)
Write(t) ==
    LET i == Server(t) IN
    /\ pc[t] = "sent"
    /\ op[t] \in Writes
    /\ WritersAt(i) = {}
    /\ ReadersAt(i) = {}
    /\ table' = [table EXCEPT ![i] = Effect(table[i], op[t])]
    /\ ans' = [ans EXCEPT ![t] = Result(table[i], op[t])]
    /\ IF i = N
       THEN /\ pc' = [pc EXCEPT ![t] = "written"]
            /\ UNCHANGED op
       ELSE /\ pc' = [pc EXCEPT ![t] = "forwarding", ![i + 1] = "sent"]
            /\ op' = [op EXCEPT ![i + 1] = op[t]]

(* end_write: the write lock is free before the reply leaves. *)
EndWrite(t) == /\ pc[t] = "written"
               /\ pc' = [pc EXCEPT ![t] = "answered"]
               /\ UNCHANGED <<table, op, ans>>

(* A reply that leaves the served request in place. *)
SlipReply(j) == /\ pc[j] = "answered"
                /\ pc' = [t \in Threads |-> IF t = j THEN "idle"
                                            ELSE IF t \in WritersAt(j - 1) THEN "written"
                                            ELSE pc[t]]
                /\ ans' = [ans EXCEPT ![j] = None]
                /\ UNCHANGED <<table, op>>

(* A reply that nobody reads. *)
SlipLostReply(j) == /\ pc[j] = "answered"
                    /\ pc' = [pc EXCEPT ![j] = "idle"]
                    /\ op' = [op EXCEPT ![j] = None]
                    /\ ans' = [ans EXCEPT ![j] = None]
                    /\ UNCHANGED table

(* The reply of server j reaches the thread of server j - 1 that forwarded; *)
(* its content is ignored.                                                  *)
Reply(j) == /\ pc[j] = "answered"
            /\ pc' = [t \in Threads |-> IF t = j THEN "idle"
                                        ELSE IF t \in WritersAt(j - 1) THEN "written"
                                        ELSE pc[t]]
            /\ op' = [op EXCEPT ![j] = None]
            /\ ans' = [ans EXCEPT ![j] = None]
            /\ UNCHANGED table

(* A read that does not take the read lock. *)
SlipStartRead(c) == /\ pc[c] = "sent"
                    /\ op[c] \in Reads
                    /\ pc' = [pc EXCEPT ![c] = "reading"]
                    /\ UNCHANGED <<table, op, ans>>

StartRead(c) == /\ pc[c] = "sent"
                /\ op[c] \in Reads
                /\ WritersAt(N) = {}
                /\ pc' = [pc EXCEPT ![c] = "reading"]
                /\ UNCHANGED <<table, op, ans>>

(* A client that reads at the head. *)
SlipEndRead(c) == /\ pc[c] = "reading"
                  /\ ans' = [ans EXCEPT ![c] = Result(table[1], op[c])]
                  /\ pc' = [pc EXCEPT ![c] = "answered"]
                  /\ UNCHANGED <<table, op>>

(* The answer is read from the table before end_read. *)
EndRead(c) == /\ pc[c] = "reading"
              /\ ans' = [ans EXCEPT ![c] = Result(table[N], op[c])]
              /\ pc' = [pc EXCEPT ![c] = "answered"]
              /\ UNCHANGED <<table, op>>

(* The reply reaches the client. *)
Return(c) == /\ pc[c] = "answered"
             /\ pc' = [pc EXCEPT ![c] = "idle"]
             /\ op' = [op EXCEPT ![c] = None]
             /\ ans' = [ans EXCEPT ![c] = None]
             /\ UNCHANGED table

ClientStep(c) == StartRead(c) \/ EndRead(c) \/ Return(c)

ServerStep == \/ \E t \in Threads : Write(t) \/ EndWrite(t)
              \/ \E j \in Links : Reply(j)

Next == \/ \E c \in Clients : Call(c) \/ ClientStep(c)
        \/ ServerStep

Spec == Init /\ [][Next]_vars

(***************************************************************************)
(* Every thread that can run runs and every reply arrives.  The lock is    *)
(* not fair to a given thread, so only the next writer of a server is sure *)
(* to be let in, not any particular one.                                   *)
(***************************************************************************)
Fairness == /\ WF_vars(ServerStep)
            /\ \A c \in Clients : WF_vars(ClientStep(c))
---------------------------------------------------------------------------
TypeOK == /\ table \in [Servers -> Tables]
          /\ op \in [Threads -> Ops \cup {None}]
          /\ pc \in [Threads -> PCs]
          /\ \A t \in Threads : op[t] = None <=> pc[t] = "idle"
          /\ \A j \in Links : op[j] \in Writes \cup {None} /\ pc[j] # "reading"

(* The lock of every server keeps its promise: one writer and no reader. *)
LockOK == \A i \in Servers :
             \A t \in WritersAt(i) : WritersAt(i) = {t} /\ ReadersAt(i) = {}

(* A connection between two servers is busy exactly while the upstream     *)
(* server, and every server before it, holds its write lock waiting for    *)
(* the same write: a second write never overtakes or joins the first.      *)
OneWriteInFlight ==
    \A j \in Links :
        /\ pc[j] # "idle" =>
              \A i \in 1 .. j - 1 : \E t \in WritersAt(i) :
                  pc[t] = "forwarding" /\ op[t] = op[j]
        /\ pc[j] = "idle" => \A t \in WritersAt(j - 1) : pc[t] = "written"

(* The copies differ only by the write in flight: it is applied up to the   *)
(* server whose link has not applied it yet, and nowhere behind it.         *)
ReplicasAgree ==
    /\ (\A j \in Links : pc[j] # "sent") => \A i, k \in Servers : table[i] = table[k]
    /\ \A j \in Links : pc[j] = "sent" =>
          /\ \A i \in Servers : i < j => table[i] = Effect(table[j], op[j])
          /\ \A i \in Servers : i >= j => table[i] = table[j]

(* While the head waits for no reply every server has the same table: the   *)
(* head never releases its lock, and so no client is told that its write is *)
(* done, before every replica has done it.                                  *)
AnsweredIsReplicated ==
    (\A t \in WritersAt(1) : pc[t] # "forwarding") =>
        \A i, k \in Servers : table[i] = table[k]

(* Which requests a thread can hold at each point of invoke. *)
RequestOK == \A t \in Threads :
    /\ pc[t] \in {"forwarding", "written"} => op[t] \in Writes
    /\ pc[t] = "forwarding" => Server(t) < N
    /\ pc[t] = "reading" => op[t] \in Reads

(* The strengthening of the properties above that every step preserves. *)
IInv == /\ TypeOK
        /\ RequestOK
        /\ LockOK
        /\ OneWriteInFlight
        /\ ReplicasAgree

(* A request of client c has taken effect: a read when its answer is read,  *)
(* a write when the tail has applied it.                                    *)
InEffect(c) == \/ pc[c] \in {"written", "answered"}
               \/ pc[c] = "forwarding" /\ \A j \in Links : pc[j] # "sent"

(* The chain of N tables is one linearizable table. *)
Abstract == INSTANCE KVStore WITH
    store <- table[N],
    request <- [c \in Clients |-> op[c]],
    answer <- [c \in Clients |-> IF InEffect(c) THEN ans[c] ELSE None]
Linearizable == Abstract!Spec

(* Every request is answered: the locks held along the chain are released. *)
EveryCallReturns == \A c \in Clients : pc[c] = "sent" ~> pc[c] = "idle"
===========================================================================

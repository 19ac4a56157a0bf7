------------------------------ MODULE KVStore ------------------------------
(***************************************************************************)
(* What a client of the service is promised: one table on which every      *)
(* request takes effect at one instant between its call and its return     *)
(* (a linearizable store), whatever number of servers keeps copies of it.  *)
(***************************************************************************)
EXTENDS TableOps

CONSTANTS Clients,
          None      \* "no request pending" and "no answer yet"

VARIABLES store,    \* the table
          request,  \* request[c]: the pending request of client c, or None
          answer    \* answer[c]: its answer once it has taken effect, or None

vars == <<store, request, answer>>

Init == /\ store = Empty
        /\ request = [c \in Clients |-> None]
        /\ answer = [c \in Clients |-> None]

Call(c) == /\ request[c] = None
           /\ \E op \in Ops : request' = [request EXCEPT ![c] = op]
           /\ UNCHANGED <<store, answer>>

TakeEffect(c) ==
    /\ request[c] # None
    /\ answer[c] = None
    /\ answer' = [answer EXCEPT ![c] = Result(store, request[c])]
    /\ store' = IF request[c] \in Writes THEN Effect(store, request[c]) ELSE store
    /\ UNCHANGED request

Return(c) == /\ answer[c] # None
             /\ request' = [request EXCEPT ![c] = None]
             /\ answer' = [answer EXCEPT ![c] = None]
             /\ UNCHANGED store

Next == \E c \in Clients : Call(c) \/ TakeEffect(c) \/ Return(c)

Spec == Init /\ [][Next]_vars
===========================================================================

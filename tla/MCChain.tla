------------------------------ MODULE MCChain ------------------------------
(***************************************************************************)
(* TLC instance of Chain.  Spec itself is finite-state; MaxCalls bounds    *)
(* the requests because the readers-writer lock starves a writer under an  *)
(* endless supply of readers.                                              *)
(***************************************************************************)
EXTENDS Chain

CONSTANT MaxCalls   \* bound: requests sent

VARIABLE calls

BoundedInit == Init /\ calls = 0

BoundedNext == \/ calls < MaxCalls /\ (\E c \in Clients : Call(c)) /\ calls' = calls + 1
               \/ (\E c \in Clients : ClientStep(c)) /\ UNCHANGED calls
               \/ ServerStep /\ UNCHANGED calls

BoundedSpec == BoundedInit /\ [][BoundedNext]_<<vars, calls>> /\ Fairness
===========================================================================

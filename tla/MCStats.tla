------------------------------ MODULE MCStats ------------------------------
(***************************************************************************)
(* TLC instance of Stats, and with it of RWLock.  Liveness needs the       *)
(* requests to be finite: the lock prefers readers, so that an endless     *)
(* supply of readers starves a writer.                                     *)
(***************************************************************************)
EXTENDS Stats

CONSTANT MaxCalls   \* bound: requests

VARIABLE calls      \* requests so far

BoundedInit == StatsInit /\ calls = 0

BoundedNext ==
    \E t \in Threads :
        \/ /\ calls < MaxCalls
           /\ calls' = calls + 1
           /\ Begin(t) \/ ReceiveStats(t)
        \/ /\ ThreadStep(t) \/ WakesUp(t)
           /\ UNCHANGED calls

BoundedSpec == BoundedInit /\ [][BoundedNext]_<<allVars, calls>> /\ StatsFairness
===========================================================================

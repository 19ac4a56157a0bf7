------------------------------- MODULE Stats -------------------------------
(***************************************************************************)
(* The requests of one server as STATS counts them (source/stats.c and the *)
(* end of each handler of invoke in source/server_skeleton.c).  A worker   *)
(* leaves the lock of the table, adds a successful request to n_operations *)
(* and its duration to total_time under the mutex of the statistics, and   *)
(* then answers.  The handler of STATS takes neither lock nor mutex.       *)
(*                                                                         *)
(* The lock is the one of RWLock, action for action.  Durations are counted *)
(* in units of one request, so that n_operations and total_time agree when *)
(* the same requests are in both.  Definitions named Slip... are mistakes  *)
(* the properties must notice.                                             *)
(***************************************************************************)
EXTENDS RWLock

VARIABLES
    n_operations, \* int n_operations
    total_time,   \* int total_time
    m_stats,      \* the thread that holds the mutex m_stats
    stage,        \* where the thread is in its request, outside the lock
    loaded,       \* loaded[t]: the value that t has read for n_operations++
    report,       \* report[t]: the fields that t has copied for STATS
    answered,     \* history: successful requests whose answer was sent
    floor         \* history: floor[t]: "answered" when t received STATS

countVars == <<n_operations, total_time, m_stats, loaded>>
statsVars == <<countVars, stage, report, answered, floor>>
allVars == <<vars, statsVars>>

Stages == { "none",    \* no request, or in start_*, the table, end_*
            "update",  \* calls update_operations, waits for m_stats
            "store",   \* holds m_stats, has read n_operations, about to write it back
            "time",    \* holds m_stats, about to add to total_time and unlock
            "first",   \* STATS: about to copy n_operations
            "second",  \* STATS: about to copy total_time
            "send",    \* about to send the answer to a counted request
            "other" }  \* about to send another answer

StatsInit == /\ Init
             /\ n_operations = 0
             /\ total_time = 0
             /\ m_stats = NoThread
             /\ stage = [t \in Threads |-> "none"]
             /\ loaded = [t \in Threads |-> 0]
             /\ report = [t \in Threads |-> <<0, 0>>]
             /\ answered = 0
             /\ floor = [t \in Threads |-> 0]

Move(t, from, to) == /\ stage[t] = from
                     /\ stage' = [stage EXCEPT ![t] = to]

(* A request for the table arrives; the thread uses the table in the lock. *)
Begin(t) == /\ stage[t] = "none"
            /\ \E m \in Modes : Call(t, m)
            /\ UNCHANGED statsVars

UseTable(t) == /\ Acquire(t) \/ Wait(t) \/ Pass(t) \/ Count(t) \/ Done(t) \/ Uncount(t)
               /\ UNCHANGED statsVars

WakesUp(t) == SpuriousWakeup(t) /\ UNCHANGED statsVars

(* After end_*: only a request that succeeded is counted. *)
EndTable(t) == /\ Leave(t)
               /\ Move(t, "none", "update") \/ Move(t, "none", "other")
               /\ UNCHANGED <<countVars, report, answered, floor>>

(* An update without the mutex. *)
SlipLoadOperations(t) == /\ Move(t, "update", "store")
                         /\ loaded' = [loaded EXCEPT ![t] = n_operations]
                         /\ UNCHANGED <<vars, n_operations, total_time, m_stats, report, answered, floor>>

(* update_operations: takes the mutex and reads n_operations, ... *)
LoadOperations(t) == /\ m_stats = NoThread
                     /\ Move(t, "update", "store")
                     /\ m_stats' = t
                     /\ loaded' = [loaded EXCEPT ![t] = n_operations]
                     /\ UNCHANGED <<vars, n_operations, total_time, report, answered, floor>>

StoreOperations(t) == /\ Move(t, "store", "time")
                      /\ n_operations' = loaded[t] + 1
                      /\ loaded' = [loaded EXCEPT ![t] = 0]
                      /\ UNCHANGED <<vars, total_time, m_stats, report, answered, floor>>

(* A way out that keeps the mutex. *)
SlipAddTime(t) == /\ Move(t, "time", "send")
                  /\ total_time' = total_time + 1
                  /\ UNCHANGED <<vars, n_operations, m_stats, loaded, report, answered, floor>>

AddTime(t) == /\ Move(t, "time", "send")
              /\ total_time' = total_time + 1
              /\ m_stats' = NoThread
              /\ UNCHANGED <<vars, n_operations, loaded, report, answered, floor>>

(* STATS: the fields are copied one after the other. *)
ReceiveStats(t) == /\ pc[t] = "idle"
                   /\ Move(t, "none", "first")
                   /\ floor' = [floor EXCEPT ![t] = answered]
                   /\ UNCHANGED <<vars, countVars, report, answered>>

CopyOperations(t) == /\ Move(t, "first", "second")
                     /\ report' = [report EXCEPT ![t] = <<n_operations, 0>>]
                     /\ UNCHANGED <<vars, countVars, answered, floor>>

CopyTime(t) == /\ Move(t, "second", "other")
               /\ report' = [report EXCEPT ![t] = <<@[1], total_time>>]
               /\ UNCHANGED <<vars, countVars, answered, floor>>

(* An answer that is sent before the request is counted. *)
SlipSend(t) == /\ \/ /\ stage[t] = "update" /\ answered' = answered + 1 /\ UNCHANGED stage
                  \/ Move(t, "send", "none") /\ UNCHANGED answered
                  \/ Move(t, "other", "none") /\ UNCHANGED answered
               /\ UNCHANGED <<vars, countVars, report, floor>>

(* network_send *)
Send(t) == /\ \/ Move(t, "send", "none") /\ answered' = answered + 1
              \/ Move(t, "other", "none") /\ UNCHANGED answered
           /\ report' = [report EXCEPT ![t] = <<0, 0>>]
           /\ floor' = [floor EXCEPT ![t] = 0]
           /\ UNCHANGED <<vars, countVars>>

Update(t) == LoadOperations(t) \/ StoreOperations(t) \/ AddTime(t)

StatsStep(t) == Update(t) \/ CopyOperations(t) \/ CopyTime(t) \/ Send(t)

ThreadStep(t) == UseTable(t) \/ EndTable(t) \/ StatsStep(t)

StatsNext == \E t \in Threads : Begin(t) \/ ReceiveStats(t) \/ ThreadStep(t) \/ WakesUp(t)

StatsSpec == StatsInit /\ [][StatsNext]_allVars

(* As for RWLock; m_stats too is released again and again.  A thread waits  *)
(* for one thing at a time, so that one condition covers all it waits for.  *)
MutexStep(t) == (Acquire(t) /\ UNCHANGED statsVars) \/ LoadOperations(t)

StatsFairness == \A t \in Threads : WF_allVars(ThreadStep(t)) /\ SF_allVars(MutexStep(t))
---------------------------------------------------------------------------
(* The shapes of the variables. *)
StatsTypeOK == /\ TypeOK
               /\ n_operations \in Nat /\ total_time \in Nat /\ answered \in Nat
               /\ m_stats \in Threads \cup {NoThread}
               /\ stage \in [Threads -> Stages]
               /\ loaded \in [Threads -> Nat]
               /\ report \in [Threads -> Nat \X Nat]
               /\ floor \in [Threads -> Nat]

At(stages) == {t \in Threads : stage[t] \in stages}

(* No update of the counters is lost: each successful request is in them    *)
(* once, from its update on and also after its answer.                      *)
EveryOperationCounted == /\ n_operations = answered + Cardinality(At({"time", "send"}))
                         /\ total_time = answered + Cardinality(At({"send"}))

(* What STATS reports, without a mutex, is at least what was answered when  *)
(* it was asked: a client finds its own earlier requests counted.           *)
ReportCoversAnswered ==
    \A t \in Threads : /\ stage[t] = "second" => report[t][1] >= floor[t]
                       /\ stage[t] = "other" => report[t][1] >= floor[t] /\ report[t][2] >= floor[t]

(* The two fields of a report are of different moments, but the time lacks  *)
(* no more than one of the requests counted: that of the holder of m_stats. *)
ReportLacksOne ==
    \A t \in Threads : stage[t] = "other" => report[t][1] <= report[t][2] + 1

(* The thread that is between taking m_stats and releasing it. *)
StatsMutexHeld == \A t \in Threads : m_stats = t <=> stage[t] \in {"store", "time"}

(* While it holds m_stats, what it has read of n_operations is what is there. *)
LoadIsCurrent == \A t \in Threads : stage[t] = "store" => loaded[t] = n_operations

(* A thread that does not serve STATS has nothing to report; one that does  *)
(* was asked, and has copied n_operations, in the past.                     *)
ReportIsPast ==
    \A t \in Threads : /\ stage[t] \notin {"first", "second", "other"}
                              => report[t] = <<0, 0>> /\ floor[t] = 0
                       /\ floor[t] <= answered
                       /\ report[t][1] <= n_operations

(* The strengthening of the properties above that every step preserves. *)
StatsIInv == /\ StatsTypeOK
             /\ StatsMutexHeld
             /\ LoadIsCurrent
             /\ EveryOperationCounted
             /\ ReportIsPast
             /\ ReportCoversAnswered
             /\ ReportLacksOne

(* Every request that arrives is answered. *)
EveryRequestAnswered == \A t \in Threads :
    (pc[t] # "idle" \/ stage[t] # "none") ~> (pc[t] = "idle" /\ stage[t] = "none")

(* The fields of a report are of one moment. *)
ReportOfOneMoment == \A t \in Threads : stage[t] = "other" => report[t][1] = report[t][2]
===========================================================================

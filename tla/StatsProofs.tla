---------------------------- MODULE StatsProofs ----------------------------
(***************************************************************************)
(* The readers/writer lock is correct for every finite set of threads; so  *)
(* are the statistics, whose requests use the lock as RWLock says.         *)
(***************************************************************************)
EXTENDS Stats, FiniteSetTheorems, TLAPS

(* The sets the counters stand for are finite, so their sizes are numbers. *)
LEMMA CountedFinite ==
  ASSUME NEW m
  PROVE  IsFiniteSet(Counted(m)) /\ Cardinality(Counted(m)) \in Nat
<1>1. Counted(m) \in SUBSET Threads
  BY DEF Counted
<1>2. IsFiniteSet(Counted(m))
  BY <1>1, FS_Subset, ThreadsAssumption
<1>3. QED
  BY <1>2, FS_CardinalityType

(* A counter is positive exactly when some thread is counted: what the loop *)
(* conditions of start_read and start_write rely on.                        *)
LEMMA CounterIsEmptiness ==
  ASSUME CountersExact
  PROVE  /\ n_readers \in Nat /\ n_writers \in Nat
         /\ n_readers = 0 <=> Readers = {}
         /\ n_writers = 0 <=> Writers = {}
<1>1. /\ IsFiniteSet(Readers) /\ Cardinality(Readers) \in Nat
      /\ IsFiniteSet(Writers) /\ Cardinality(Writers) \in Nat
  BY CountedFinite DEF Readers, Writers
<1>2. QED
  BY <1>1, FS_EmptySet DEF CountersExact

LEMMA InitIInv == Init => IInv
<1> SUFFICES ASSUME Init PROVE IInv
  OBVIOUS
<1>1. TypeOK /\ MutexHeld /\ TestStillHolds /\ NoLostWakeup
  BY ThreadsAssumption DEF Init, TypeOK, Modes, PCs, MutexHeld, TestStillHolds, NoLostWakeup
<1>2. Readers = {} /\ Writers = {}
  BY DEF Init, Readers, Writers, Counted
<1>3. Exclusion
  BY <1>2 DEF Exclusion
<1>4. CountersExact
  BY <1>2, FS_EmptySet DEF CountersExact, Init
<1>5. QED
  BY <1>1, <1>3, <1>4 DEF IInv

(* A step that counts nobody in or out leaves both sets as they were. *)
LEMMA SameCounted ==
  ASSUME TypeOK, UNCHANGED <<n_readers, n_writers>>, CountersExact, Exclusion,
         \A t \in Threads : (t \in Readers)' <=> t \in Readers,
         \A t \in Threads : (t \in Writers)' <=> t \in Writers
  PROVE  /\ Readers' = Readers /\ Writers' = Writers
         /\ CountersExact' /\ Exclusion'
<1>1. Readers' = Readers /\ Writers' = Writers
  BY DEF Readers, Writers, Counted
<1>2. QED
  BY <1>1 DEF CountersExact, Exclusion

(* Taking the mutex, waiting, testing, working: the counters do not move. *)
LEMMA QuietStep ==
  ASSUME IInv, NEW t \in Threads,
         \/ \E m \in Modes : Call(t, m)
         \/ Acquire(t) \/ Wait(t) \/ Pass(t) \/ Done(t) \/ SpuriousWakeup(t)
  PROVE  IInv'
<1> USE DEF IInv, TypeOK, Goto
<1>1. TypeOK'
  BY DEF Call, Acquire, Wait, Pass, Done, SpuriousWakeup, Modes, PCs
<1>2. UNCHANGED <<n_readers, n_writers>>
  BY DEF Call, Acquire, Wait, Pass, Done, SpuriousWakeup
<1>3. MutexHeld'
  <2>1. CASE \E m \in Modes : Call(t, m)
    BY <2>1 DEF MutexHeld, Call
  <2>2. CASE Acquire(t)
    BY <2>2, ThreadsAssumption DEF MutexHeld, Acquire
  <2>3. CASE Wait(t)
    BY <2>3, ThreadsAssumption DEF MutexHeld, Wait
  <2>4. CASE Pass(t) \/ Done(t) \/ SpuriousWakeup(t)
    BY <2>4 DEF MutexHeld, Pass, Done, SpuriousWakeup
  <2>5. QED
    BY <2>1, <2>2, <2>3, <2>4
<1>4. TestStillHolds'
  BY <1>2 DEF TestStillHolds, Blocked, Call, Acquire, Wait, Pass, Done, SpuriousWakeup
<1>5. /\ \A u \in Threads : (u \in Readers)' <=> u \in Readers
      /\ \A u \in Threads : (u \in Writers)' <=> u \in Writers
  BY DEF Readers, Writers, Counted, Call, Acquire, Wait, Pass, Done, SpuriousWakeup
<1>6. CountersExact' /\ Exclusion'
  BY <1>2, <1>5, SameCounted
<1>7. NoLostWakeup'
  BY <1>2 DEF NoLostWakeup, Blocked, Broadcasts, Call, Acquire, Wait, Pass, Done,
              SpuriousWakeup
<1>8. QED
  BY <1>1, <1>3, <1>4, <1>6, <1>7

(* start_read or start_write counts the thread in: the condition it tested  *)
(* still holds because nobody took the mutex in between.                    *)
LEMMA CountStep ==
  ASSUME IInv, NEW t \in Threads, Count(t)
  PROVE  IInv'
<1> USE DEF IInv, TypeOK, Goto
<1>1. TypeOK'
  BY DEF Count, Modes, PCs
<1>2. MutexHeld'
  BY ThreadsAssumption DEF MutexHeld, Count
<1>3. TestStillHolds'
  BY DEF TestStillHolds, MutexHeld, Count
<1>4. t \notin Readers /\ t \notin Writers
  BY DEF Count, Readers, Writers, Counted
<1>5. Writers = {} /\ (mode[t] = "w" => Readers = {})
  <2>1. ~ Blocked(t)
    BY DEF Count, TestStillHolds
  <2>2. QED
    BY <2>1, CounterIsEmptiness DEF Blocked
<1>6. IsFiniteSet(Readers) /\ IsFiniteSet(Writers)
  BY CountedFinite DEF Readers, Writers
<1>7. CASE mode[t] = "r"
  <2>1. Readers' = Readers \cup {t} /\ Writers' = Writers
    BY <1>7 DEF Count, Readers, Writers, Counted
  <2>2. CountersExact'
    BY <1>4, <1>6, <1>7, <2>1, FS_AddElement DEF CountersExact, Count
  <2>3. Exclusion'
    BY <1>5, <2>1 DEF Exclusion
  <2>4. NoLostWakeup'
    BY <1>7 DEF NoLostWakeup, MutexHeld, Blocked, Broadcasts, Count
  <2>5. QED
    BY <1>1, <1>2, <1>3, <2>2, <2>3, <2>4
<1>8. CASE mode[t] = "w"
  <2>1. Writers' = Writers \cup {t} /\ Readers' = Readers
    BY <1>8 DEF Count, Readers, Writers, Counted
  <2>2. CountersExact'
    BY <1>4, <1>6, <1>8, <2>1, FS_AddElement DEF CountersExact, Count
  <2>3. Exclusion'
    BY <1>5, <1>8, <2>1 DEF Exclusion
  <2>4. NoLostWakeup'
    BY <1>8 DEF NoLostWakeup, MutexHeld, Blocked, Broadcasts, Count
  <2>5. QED
    BY <1>1, <1>2, <1>3, <2>2, <2>3, <2>4
<1>9. QED
  BY <1>7, <1>8 DEF Modes

(* end_read or end_write counts the thread out; from here on the thread is  *)
(* the one that will broadcast, if its counter reached zero.                *)
LEMMA UncountStep ==
  ASSUME IInv, NEW t \in Threads, Uncount(t)
  PROVE  IInv'
<1> USE DEF IInv, TypeOK, Goto
<1>1. IsFiniteSet(Readers) /\ IsFiniteSet(Writers)
  BY CountedFinite DEF Readers, Writers
<1>2. t \in IF mode[t] = "r" THEN Readers ELSE Writers
  BY DEF Uncount, Readers, Writers, Counted, Modes
<1>3. IF mode[t] = "r" THEN n_readers > 0 ELSE n_writers > 0
  BY <1>2, CounterIsEmptiness
<1>4. TypeOK'
  BY <1>3 DEF Uncount, Modes, PCs
<1>5. MutexHeld' /\ TestStillHolds'
  BY DEF MutexHeld, TestStillHolds, Uncount
<1>6. CASE mode[t] = "r"
  <2>1. Readers' = Readers \ {t} /\ Writers' = Writers
    BY <1>6 DEF Uncount, Readers, Writers, Counted
  <2>2. CountersExact'
    BY <1>1, <1>2, <1>6, <2>1, FS_RemoveElement DEF CountersExact, Uncount
  <2>3. Exclusion'
    BY <2>1 DEF Exclusion
  <2>4. NoLostWakeup'
    BY <1>3, <1>6 DEF NoLostWakeup, Blocked, Broadcasts, Uncount, MutexHeld
  <2>5. QED
    BY <1>4, <1>5, <2>2, <2>3, <2>4
<1>7. CASE mode[t] = "w"
  <2>1. Writers' = Writers \ {t} /\ Readers' = Readers
    BY <1>7 DEF Uncount, Readers, Writers, Counted
  <2>2. CountersExact'
    BY <1>1, <1>2, <1>7, <2>1, FS_RemoveElement DEF CountersExact, Uncount
  <2>3. Exclusion'
    BY <2>1 DEF Exclusion
  <2>4. NoLostWakeup'
    BY <1>7 DEF NoLostWakeup, Blocked, Broadcasts, Uncount, MutexHeld
  <2>5. QED
    BY <1>4, <1>5, <2>2, <2>3, <2>4
<1>8. QED
  BY <1>6, <1>7 DEF Modes

(* The broadcast empties the wait set; without one, every waiter is still   *)
(* blocked by the readers that remain.                                      *)
LEMMA LeaveStep ==
  ASSUME IInv, NEW t \in Threads, Leave(t)
  PROVE  IInv'
<1> USE DEF IInv, TypeOK
<1>1. TypeOK'
  BY DEF Leave, PCs
<1>2. UNCHANGED <<n_readers, n_writers>>
  BY DEF Leave
<1>3. MutexHeld'
  BY ThreadsAssumption DEF MutexHeld, Leave
<1>4. TestStillHolds'
  BY DEF TestStillHolds, Blocked, Leave
<1>5. /\ \A u \in Threads : (u \in Readers)' <=> u \in Readers
      /\ \A u \in Threads : (u \in Writers)' <=> u \in Writers
  BY DEF Readers, Writers, Counted, Leave
<1>6. CountersExact' /\ Exclusion'
  BY <1>2, <1>5, SameCounted
<1>7. NoLostWakeup'
  <2> SUFFICES ASSUME NEW u \in Threads, pc'[u] = "wait"
               PROVE  Blocked(u)'
    BY DEF NoLostWakeup
  <2>1. pc[u] = "wait" /\ ~ Broadcasts(t)
    BY DEF Leave
  <2>2. \A v \in Threads : pc[v] = "leave" => v = t
    BY DEF MutexHeld, Leave
  <2>3. Blocked(u)
    BY <2>1, <2>2 DEF NoLostWakeup
  <2>4. QED
    BY <2>3 DEF Blocked, Leave
<1>8. QED
  BY <1>1, <1>3, <1>4, <1>6, <1>7

LEMMA NextIInv == IInv /\ [Next]_vars => IInv'
<1> SUFFICES ASSUME IInv, [Next]_vars PROVE IInv'
  OBVIOUS
<1>1. CASE UNCHANGED vars
  BY <1>1 DEF vars, IInv, TypeOK, MutexHeld, TestStillHolds, Exclusion, CountersExact,
              NoLostWakeup, Blocked, Broadcasts, Readers, Writers, Counted
<1>2. ASSUME NEW t \in Threads, \E m \in Modes : Call(t, m)
      PROVE  IInv'
  BY <1>2, QuietStep
<1>3. ASSUME NEW t \in Threads, Step(t)
      PROVE  IInv'
  BY <1>3, QuietStep, CountStep, UncountStep, LeaveStep DEF Step
<1>4. ASSUME NEW t \in Threads, SpuriousWakeup(t)
      PROVE  IInv'
  BY <1>4, QuietStep
<1>5. QED
  BY <1>1, <1>2, <1>3, <1>4 DEF Next

(* The inductive invariant holds in every reachable state of the lock. *)
THEOREM LockInvariant == Spec => []IInv
  BY InitIInv, NextIInv, PTL DEF Spec

(* Type correctness: in particular neither counter ever goes below zero. *)
THEOREM LockTypeOK == Spec => []TypeOK
<1>1. IInv => TypeOK
  BY DEF IInv
<1>2. QED
  BY <1>1, LockInvariant, PTL

(* Between start_write and end_write a thread is alone; readers share. *)
THEOREM LockExclusion == Spec => []Exclusion
<1>1. IInv => Exclusion
  BY DEF IInv
<1>2. QED
  BY <1>1, LockInvariant, PTL

(* Each counter counts exactly the threads inside, for any number of them. *)
THEOREM LockCountersExact == Spec => []CountersExact
<1>1. IInv => CountersExact
  BY DEF IInv
<1>2. QED
  BY <1>1, LockInvariant, PTL

(* end_read broadcasts on the last reader only, and that is enough: nobody  *)
(* is left in pthread_cond_wait with nothing to wait for.                   *)
THEOREM LockNoLostWakeup == Spec => []NoLostWakeup
<1>1. IInv => NoLostWakeup
  BY DEF IInv
<1>2. QED
  BY <1>1, LockInvariant, PTL

(* A step that counts nobody in or out is a stutter of the abstract lock. *)
LEMMA QuietStutters ==
  ASSUME IInv, NEW t \in Threads,
         \/ \E m \in Modes : Call(t, m)
         \/ Acquire(t) \/ Wait(t) \/ Pass(t) \/ Done(t) \/ SpuriousWakeup(t) \/ Leave(t)
  PROVE  UNCHANGED Abstract!vars
<1>1. /\ \A u \in Threads : (u \in Readers)' <=> u \in Readers
      /\ \A u \in Threads : (u \in Writers)' <=> u \in Writers
  BY DEF IInv, TypeOK, Goto, Readers, Writers, Counted,
         Call, Acquire, Wait, Pass, Done, SpuriousWakeup, Leave
<1>2. Readers' = Readers /\ Writers' = Writers
  BY <1>1 DEF Readers, Writers, Counted
<1>3. QED
  BY <1>2 DEF Abstract!vars

(* The increment is where a thread enters the abstract lock. *)
LEMMA CountEnters ==
  ASSUME IInv, NEW t \in Threads, Count(t)
  PROVE  Abstract!EnterRead(t) \/ Abstract!EnterWrite(t)
<1> USE DEF IInv, TypeOK, Goto
<1>1. Writers = {} /\ (mode[t] = "w" => Readers = {})
  BY CounterIsEmptiness DEF Count, TestStillHolds, Blocked
<1>2. CASE mode[t] = "r"
  <2>1. t \notin Readers /\ Readers' = Readers \cup {t} /\ Writers' = Writers
    BY <1>2 DEF Count, Readers, Writers, Counted
  <2>2. QED
    BY <1>1, <2>1 DEF Abstract!EnterRead
<1>3. CASE mode[t] = "w"
  <2>1. Writers' = Writers \cup {t} /\ Readers' = Readers
    BY <1>3 DEF Count, Readers, Writers, Counted
  <2>2. QED
    BY <1>1, <1>3, <2>1 DEF Abstract!EnterWrite
<1>4. QED
  BY <1>2, <1>3 DEF Modes

(* The decrement is where it leaves. *)
LEMMA UncountLeaves ==
  ASSUME IInv, NEW t \in Threads, Uncount(t)
  PROVE  Abstract!LeaveRead(t) \/ Abstract!LeaveWrite(t)
<1> USE DEF IInv, TypeOK, Goto
<1>1. CASE mode[t] = "r"
  <2>1. t \in Readers /\ Readers' = Readers \ {t} /\ Writers' = Writers
    BY <1>1 DEF Uncount, Readers, Writers, Counted
  <2>2. QED
    BY <2>1 DEF Abstract!LeaveRead
<1>2. CASE mode[t] = "w"
  <2>1. t \in Writers /\ Writers' = Writers \ {t} /\ Readers' = Readers
    BY <1>2 DEF Uncount, Readers, Writers, Counted
  <2>2. QED
    BY <2>1 DEF Abstract!LeaveWrite
<1>3. QED
  BY <1>1, <1>2 DEF Modes

(* The code with its mutex, counters and condition variable implements the  *)
(* lock that threads enter and leave in one step.                           *)
THEOREM LockImplements == Spec => Implements
<1>1. Init => Abstract!Init
  BY DEF Init, Abstract!Init, Readers, Writers, Counted
<1>2. IInv /\ [Next]_vars => [Abstract!Next]_(Abstract!vars)
  <2> SUFFICES ASSUME IInv, [Next]_vars
               PROVE  [Abstract!Next]_(Abstract!vars)
    OBVIOUS
  <2>1. CASE UNCHANGED vars
    BY <2>1 DEF vars, Abstract!vars, Readers, Writers, Counted
  <2>2. ASSUME NEW t \in Threads,
               (\E m \in Modes : Call(t, m)) \/ Step(t) \/ SpuriousWakeup(t)
        PROVE  [Abstract!Next]_(Abstract!vars)
    BY <2>2, QuietStutters, CountEnters, UncountLeaves DEF Step, Abstract!Next
  <2>3. QED
    BY <2>1, <2>2 DEF Next
<1>3. QED
  BY <1>1, <1>2, LockInvariant, PTL DEF Spec, Implements, Abstract!Spec
---------------------------------------------------------------------------
(* Requests, updates and STATS leave the lock to its own steps, so that all *)
(* that is proved of the lock holds of it here.                            *)
THEOREM StatsUsesLock == StatsSpec => Spec
<1>1. StatsInit => Init
  BY DEF StatsInit
<1>2. [StatsNext]_allVars => [Next]_vars
  <2> SUFFICES ASSUME [StatsNext]_allVars PROVE [Next]_vars
    OBVIOUS
  <2>1. CASE UNCHANGED allVars
    BY <2>1 DEF allVars
  <2>2. ASSUME NEW t \in Threads, Begin(t) \/ UseTable(t) \/ EndTable(t) \/ WakesUp(t)
        PROVE  Next
    BY <2>2 DEF Begin, UseTable, EndTable, WakesUp, Next, Step
  <2>3. ASSUME NEW t \in Threads, ReceiveStats(t) \/ StatsStep(t)
        PROVE  UNCHANGED vars
    BY <2>3 DEF ReceiveStats, StatsStep, Update, LoadOperations, StoreOperations, AddTime,
                CopyOperations, CopyTime, Send
  <2>4. QED
    BY <2>1, <2>2, <2>3 DEF StatsNext, ThreadStep
<1>3. QED
  BY <1>1, <1>2, PTL DEF StatsSpec, Spec

(* The threads at some stages are finitely many. *)
LEMMA AtFinite ==
  ASSUME NEW S
  PROVE  IsFiniteSet(At(S)) /\ Cardinality(At(S)) \in Nat
<1>1. At(S) \in SUBSET Threads
  BY DEF At
<1>2. IsFiniteSet(At(S))
  BY <1>1, FS_Subset, ThreadsAssumption
<1>3. QED
  BY <1>2, FS_CardinalityType

(* A thread that moves into some stages is one more there, *)
LEMMA MoveInto ==
  ASSUME NEW S, NEW t \in Threads, NEW to \in S, stage \in [Threads -> Stages],
         stage[t] \notin S, stage' = [stage EXCEPT ![t] = to]
  PROVE  Cardinality(At(S))' = Cardinality(At(S)) + 1
<1>1. At(S)' = At(S) \cup {t} /\ t \notin At(S)
  BY DEF At
<1>2. QED
  BY <1>1, AtFinite, FS_AddElement

(* one that moves out of them is one less, *)
LEMMA MoveOut ==
  ASSUME NEW S, NEW t \in Threads, NEW to, to \notin S, stage \in [Threads -> Stages],
         stage[t] \in S, stage' = [stage EXCEPT ![t] = to]
  PROVE  Cardinality(At(S))' = Cardinality(At(S)) - 1
<1>1. At(S)' = At(S) \ {t} /\ t \in At(S)
  BY DEF At
<1>2. QED
  BY <1>1, AtFinite, FS_RemoveElement

(* and one that stays in them or outside changes nothing. *)
LEMMA MoveAside ==
  ASSUME NEW S, NEW t \in Threads, NEW to, stage \in [Threads -> Stages],
         stage[t] \in S <=> to \in S, stage' = [stage EXCEPT ![t] = to]
  PROVE  Cardinality(At(S))' = Cardinality(At(S))
<1>1. At(S)' = At(S)
  BY DEF At
<1>2. QED
  BY <1>1

(* The counters are never behind the answers, and total_time is at most one *)
(* request behind n_operations: only the holder of m_stats is in between.   *)
LEMMA CountersClose ==
  ASSUME StatsTypeOK, StatsMutexHeld, EveryOperationCounted
  PROVE  /\ answered <= n_operations /\ answered <= total_time
         /\ n_operations <= total_time + 1
<1> DEFINE TS == {"time", "send"}
           S == {"send"}
<1>1. /\ IsFiniteSet(At(TS)) /\ Cardinality(At(TS)) \in Nat
      /\ IsFiniteSet(At(S)) /\ Cardinality(At(S)) \in Nat
  BY AtFinite
<1>2. At(TS) \in SUBSET (At(S) \cup {m_stats})
  BY DEF At, StatsMutexHeld
<1>3. /\ IsFiniteSet(At(S) \cup {m_stats})
      /\ Cardinality(At(S) \cup {m_stats}) <= Cardinality(At(S)) + 1
  <2>1. /\ IsFiniteSet(At(S) \cup {m_stats})
        /\ Cardinality(At(S) \cup {m_stats}) = IF m_stats \in At(S) THEN Cardinality(At(S))
                                                                ELSE Cardinality(At(S)) + 1
    BY <1>1, FS_AddElement
  <2>2. QED
    BY <1>1, <2>1
<1>4. Cardinality(At(TS)) <= Cardinality(At(S) \cup {m_stats})
  BY <1>2, <1>3, FS_Subset
<1>5. Cardinality(At(S) \cup {m_stats}) \in Nat
  BY <1>3, FS_CardinalityType
<1>6. QED
  BY <1>1, <1>3, <1>4, <1>5 DEF StatsTypeOK, EveryOperationCounted

LEMMA InitStatsIInv == StatsInit => StatsIInv
<1> SUFFICES ASSUME StatsInit PROVE StatsIInv
  OBVIOUS
<1>1. At({"time", "send"}) = {} /\ At({"send"}) = {}
  BY DEF At, StatsInit
<1>2. EveryOperationCounted
  BY <1>1, FS_EmptySet DEF EveryOperationCounted, StatsInit
<1>3. TypeOK
  BY InitIInv DEF StatsInit, IInv
<1>4. StatsTypeOK
  BY <1>3 DEF StatsInit, StatsTypeOK, Stages
<1>5. StatsMutexHeld /\ LoadIsCurrent /\ ReportIsPast /\ ReportCoversAnswered /\ ReportLacksOne
  BY ThreadsAssumption DEF StatsInit, StatsMutexHeld, LoadIsCurrent, ReportIsPast,
                           ReportCoversAnswered, ReportLacksOne
<1>6. QED
  BY <1>2, <1>4, <1>5 DEF StatsIInv

(* The lock, the table and a request that arrives touch no counter. *)
LEMMA TableKeepsStats ==
  ASSUME StatsIInv, TypeOK', UNCHANGED statsVars
  PROVE  StatsIInv'
<1>1. UNCHANGED <<At({"time", "send"}), At({"send"})>>
  BY DEF At, statsVars
<1>2. QED
  BY <1>1 DEF StatsIInv, statsVars, countVars, StatsTypeOK, StatsMutexHeld, LoadIsCurrent,
              EveryOperationCounted, ReportIsPast, ReportCoversAnswered, ReportLacksOne

(* A request that leaves the lock will be counted if it succeeded. *)
LEMMA EndTableKeepsStats ==
  ASSUME StatsIInv, TypeOK', NEW t \in Threads, EndTable(t)
  PROVE  StatsIInv'
<1> USE DEF StatsIInv, EndTable, countVars
<1>1. PICK to \in {"update", "other"} : Move(t, "none", to)
  OBVIOUS
<1>2. StatsTypeOK'
  BY <1>1 DEF StatsTypeOK, Stages, Move
<1>3. UNCHANGED <<Cardinality(At({"time", "send"})), Cardinality(At({"send"}))>>
  BY <1>1, MoveAside DEF Move, StatsTypeOK
<1>4. EveryOperationCounted'
  BY <1>3 DEF EveryOperationCounted
<1>5. StatsMutexHeld' /\ LoadIsCurrent'
  BY <1>1 DEF StatsMutexHeld, LoadIsCurrent, Move, StatsTypeOK
<1>6. ReportIsPast' /\ ReportCoversAnswered' /\ ReportLacksOne'
  BY <1>1 DEF ReportIsPast, ReportCoversAnswered, ReportLacksOne, Move, StatsTypeOK
<1>7. QED
  BY <1>2, <1>4, <1>5, <1>6

(* The three steps of update_operations. *)
LEMMA UpdateKeepsStats ==
  ASSUME StatsIInv, NEW t \in Threads, Update(t)
  PROVE  StatsIInv'
<1> USE DEF StatsIInv, Move, StatsTypeOK
<1>1. TypeOK'
  BY DEF Update, LoadOperations, StoreOperations, AddTime, vars, TypeOK
<1>2. CASE LoadOperations(t)
  <2>1. StatsTypeOK'
    BY <1>1, <1>2 DEF LoadOperations, Stages
  <2>2. UNCHANGED <<Cardinality(At({"time", "send"})), Cardinality(At({"send"}))>>
    BY <1>2, MoveAside DEF LoadOperations
  <2>3. EveryOperationCounted'
    BY <1>2, <2>2 DEF EveryOperationCounted, LoadOperations
  <2>4. StatsMutexHeld' /\ LoadIsCurrent'
    BY <1>2, ThreadsAssumption DEF StatsMutexHeld, LoadIsCurrent, LoadOperations
  <2>5. ReportIsPast' /\ ReportCoversAnswered' /\ ReportLacksOne'
    BY <1>2 DEF ReportIsPast, ReportCoversAnswered, ReportLacksOne, LoadOperations
  <2>6. QED
    BY <2>1, <2>3, <2>4, <2>5
<1>3. CASE StoreOperations(t)
  <2>1. StatsTypeOK' /\ n_operations' = n_operations + 1
    BY <1>1, <1>3 DEF StoreOperations, Stages, LoadIsCurrent
  <2>2. /\ Cardinality(At({"time", "send"}))' = Cardinality(At({"time", "send"})) + 1
        /\ Cardinality(At({"send"}))' = Cardinality(At({"send"}))
    BY <1>3, MoveInto, MoveAside DEF StoreOperations
  <2>3. EveryOperationCounted'
    BY <1>3, <2>1, <2>2, AtFinite DEF EveryOperationCounted, StoreOperations
  <2>4. StatsMutexHeld' /\ LoadIsCurrent'
    BY <1>3 DEF StatsMutexHeld, LoadIsCurrent, StoreOperations
  <2>5. ReportIsPast' /\ ReportCoversAnswered' /\ ReportLacksOne'
    BY <1>3, <2>1 DEF ReportIsPast, ReportCoversAnswered, ReportLacksOne, StoreOperations
  <2>6. QED
    BY <2>1, <2>3, <2>4, <2>5
<1>4. CASE AddTime(t)
  <2>1. StatsTypeOK'
    BY <1>1, <1>4 DEF AddTime, Stages
  <2>2. /\ Cardinality(At({"time", "send"}))' = Cardinality(At({"time", "send"}))
        /\ Cardinality(At({"send"}))' = Cardinality(At({"send"})) + 1
    BY <1>4, MoveInto, MoveAside DEF AddTime
  <2>3. EveryOperationCounted'
    BY <1>4, <2>2, AtFinite DEF EveryOperationCounted, AddTime
  <2>4. StatsMutexHeld' /\ LoadIsCurrent'
    BY <1>4, ThreadsAssumption DEF StatsMutexHeld, LoadIsCurrent, AddTime
  <2>5. ReportIsPast' /\ ReportCoversAnswered' /\ ReportLacksOne'
    BY <1>4 DEF ReportIsPast, ReportCoversAnswered, ReportLacksOne, AddTime
  <2>6. QED
    BY <2>1, <2>3, <2>4, <2>5
<1>5. QED
  BY <1>2, <1>3, <1>4 DEF Update

(* STATS takes no mutex; what it copies is close enough at each moment. *)
LEMMA ReportKeepsStats ==
  ASSUME StatsIInv, NEW t \in Threads,
         ReceiveStats(t) \/ CopyOperations(t) \/ CopyTime(t)
  PROVE  StatsIInv'
<1> USE DEF StatsIInv, Move, StatsTypeOK, ReceiveStats, CopyOperations, CopyTime, countVars
<1>1. TypeOK'
  BY DEF vars, TypeOK
<1>2. StatsTypeOK'
  BY <1>1 DEF Stages
<1>3. UNCHANGED <<Cardinality(At({"time", "send"})), Cardinality(At({"send"}))>>
  <2>1. PICK to \in {"first", "second", "other"} :
           stage[t] \in {"none", "first", "second"} /\ stage' = [stage EXCEPT ![t] = to]
    OBVIOUS
  <2>2. QED
    BY <2>1, MoveAside
<1>4. EveryOperationCounted'
  BY <1>3 DEF EveryOperationCounted
<1>5. StatsMutexHeld' /\ LoadIsCurrent'
  BY DEF StatsMutexHeld, LoadIsCurrent
<1>6. /\ answered <= n_operations /\ answered <= total_time
      /\ n_operations <= total_time + 1
  BY CountersClose
<1>7. ReportIsPast' /\ ReportCoversAnswered' /\ ReportLacksOne'
  BY <1>6 DEF ReportIsPast, ReportCoversAnswered, ReportLacksOne
<1>8. QED
  BY <1>2, <1>4, <1>5, <1>7

(* The answer. *)
LEMMA SendKeepsStats ==
  ASSUME StatsIInv, NEW t \in Threads, Send(t)
  PROVE  StatsIInv'
<1> USE DEF StatsIInv, Move, StatsTypeOK, Send, countVars
<1>1. TypeOK'
  BY DEF vars, TypeOK
<1>2. StatsTypeOK'
  BY <1>1 DEF Stages
<1>3. EveryOperationCounted'
  <2>1. CASE stage[t] = "send"
    <3>1. /\ Cardinality(At({"time", "send"}))' = Cardinality(At({"time", "send"})) - 1
          /\ Cardinality(At({"send"}))' = Cardinality(At({"send"})) - 1
          /\ answered' = answered + 1
      BY <2>1, MoveOut
    <3>2. QED
      BY <3>1, AtFinite DEF EveryOperationCounted
  <2>2. CASE stage[t] = "other"
    <3>1. /\ UNCHANGED <<Cardinality(At({"time", "send"})), Cardinality(At({"send"}))>>
          /\ answered' = answered
      BY <2>2, MoveAside
    <3>2. QED
      BY <3>1 DEF EveryOperationCounted
  <2>3. QED
    BY <2>1, <2>2
<1>4. StatsMutexHeld' /\ LoadIsCurrent'
  BY DEF StatsMutexHeld, LoadIsCurrent
<1>5. ReportIsPast' /\ ReportCoversAnswered' /\ ReportLacksOne'
  BY DEF ReportIsPast, ReportCoversAnswered, ReportLacksOne
<1>6. QED
  BY <1>2, <1>3, <1>4, <1>5

(* The invariant holds in every state. *)
THEOREM StatsInvariant == StatsSpec => []StatsIInv
<1>1. Spec => []TypeOK
  BY LockTypeOK
<1>2. StatsIInv /\ TypeOK' /\ [StatsNext]_allVars => StatsIInv'
  <2> SUFFICES ASSUME StatsIInv, TypeOK', [StatsNext]_allVars PROVE StatsIInv'
    OBVIOUS
  <2>1. CASE UNCHANGED allVars
    BY <2>1, TableKeepsStats DEF allVars
  <2>2. ASSUME NEW t \in Threads, Begin(t) \/ UseTable(t) \/ WakesUp(t)
        PROVE  StatsIInv'
    BY <2>2, TableKeepsStats DEF Begin, UseTable, WakesUp
  <2>3. QED
    BY <2>1, <2>2, EndTableKeepsStats, UpdateKeepsStats, ReportKeepsStats, SendKeepsStats
       DEF StatsNext, ThreadStep, StatsStep
<1>3. QED
  BY <1>1, <1>2, InitStatsIInv, StatsUsesLock, PTL DEF StatsSpec

(* The statistics keep their types, the counters of the lock included. *)
THEOREM StatsTypes == StatsSpec => []StatsTypeOK
<1>1. StatsIInv => StatsTypeOK
  BY DEF StatsIInv
<1>2. QED
  BY <1>1, StatsInvariant, PTL

(* No update is lost, whatever the number of threads that make them. *)
THEOREM StatsCountEverything == StatsSpec => []EveryOperationCounted
<1>1. StatsIInv => EveryOperationCounted
  BY DEF StatsIInv
<1>2. QED
  BY <1>1, StatsInvariant, PTL

(* A report, though made without the mutex, covers all that was answered    *)
(* before it was asked for, ...                                             *)
THEOREM StatsReportsCover == StatsSpec => []ReportCoversAnswered
<1>1. StatsIInv => ReportCoversAnswered
  BY DEF StatsIInv
<1>2. QED
  BY <1>1, StatsInvariant, PTL

(* ... and its two fields are at most one request out of step.              *)
THEOREM StatsReports == StatsSpec => []ReportLacksOne
<1>1. StatsIInv => ReportLacksOne
  BY DEF StatsIInv
<1>2. QED
  BY <1>1, StatsInvariant, PTL

(* The requests of a server exclude each other as the lock promises. *)
THEOREM StatsExclusion == StatsSpec => [](Exclusion /\ CountersExact /\ NoLostWakeup)
  BY StatsUsesLock, LockExclusion, LockCountersExact, LockNoLostWakeup, PTL
===========================================================================

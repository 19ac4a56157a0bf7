------------------------------ MODULE RWLock ------------------------------
(***************************************************************************)
(* The readers/writer lock of the server: two counters, one mutex and one  *)
(* condition variable (source/server_skeleton.c, lines 24 to 63).  Every   *)
(* request a worker thread serves runs between start_read and end_read or  *)
(* between start_write and end_write.                                      *)
(*                                                                         *)
(* One action is one access of the code to shared state: taking the mutex, *)
(* testing the loop condition, changing a counter, broadcasting.           *)
(* Definitions named Slip... are mistakes the properties must notice.      *)
(***************************************************************************)
EXTENDS Integers, FiniteSets

CONSTANTS Threads,   \* the worker threads of one server
          NoThread   \* the value of "mutex" when it is free

ASSUME ThreadsAssumption == /\ IsFiniteSet(Threads)
                            /\ NoThread \notin Threads

VARIABLES
    n_readers,  \* int n_readers
    n_writers,  \* int n_writers
    mutex,      \* the thread that holds the mutex
    mode,       \* "r" or "w": which pair of functions the thread is calling
    pc          \* where the thread is in that pair of functions

vars == <<n_readers, n_writers, mutex, mode, pc>>

Modes == {"r", "w"}

PCs == { "idle",    \* outside
         "enter",   \* in start_*, waiting for the mutex (again after a wake-up)
         "test",    \* in start_*, holds the mutex, about to test the loop condition
         "wait",    \* in pthread_cond_wait, in the wait set of "cond"
         "count",   \* in start_*, holds the mutex, about to increment
         "inside",  \* between start_* and end_*: uses the table
         "exit",    \* in end_*, waiting for the mutex
         "uncount", \* in end_*, holds the mutex, about to decrement
         "leave" }  \* in end_*, holds the mutex, about to broadcast and unlock

Init == /\ n_readers = 0
        /\ n_writers = 0
        /\ mutex = NoThread
        /\ mode = [t \in Threads |-> "r"]
        /\ pc = [t \in Threads |-> "idle"]

(* start_write that looks at n_writers only. *)
SlipBlocked(t) == n_writers > 0

(* The condition of the while loop of start_read or start_write. *)
Blocked(t) == \/ n_writers > 0
              \/ mode[t] = "w" /\ n_readers > 0

(* end_write that forgets to broadcast. *)
SlipBroadcasts(t) == mode[t] = "r" /\ n_readers = 0

(* end_write always broadcasts, end_read only when the last reader leaves. *)
Broadcasts(t) == mode[t] = "w" \/ n_readers = 0

Goto(t, from, to) == /\ pc[t] = from
                     /\ pc' = [pc EXCEPT ![t] = to]

(* The worker calls start_read (m = "r") or start_write (m = "w"). *)
Call(t, m) == /\ Goto(t, "idle", "enter")
              /\ mode' = [mode EXCEPT ![t] = m]
              /\ UNCHANGED <<n_readers, n_writers, mutex>>

(* pthread_mutex_lock, first in start_* and end_* and last in pthread_cond_wait. *)
Acquire(t) == /\ mutex = NoThread
              /\ mutex' = t
              /\ Goto(t, "enter", "test") \/ Goto(t, "exit", "uncount")
              /\ UNCHANGED <<n_readers, n_writers, mode>>

(* The loop condition holds: pthread_cond_wait unlocks and waits in one step. *)
Wait(t) == /\ Blocked(t)
           /\ Goto(t, "test", "wait")
           /\ mutex' = NoThread
           /\ UNCHANGED <<n_readers, n_writers, mode>>

Pass(t) == /\ ~ Blocked(t)
           /\ Goto(t, "test", "count")
           /\ UNCHANGED <<n_readers, n_writers, mutex, mode>>

(* start_write that leaves n_writers alone. *)
SlipCount(t) == /\ Goto(t, "count", "inside")
                /\ n_readers' = IF mode[t] = "r" THEN n_readers + 1 ELSE n_readers
                /\ mutex' = NoThread
                /\ UNCHANGED <<n_writers, mode>>

(* The counter is incremented and the mutex unlocked. *)
Count(t) == /\ Goto(t, "count", "inside")
            /\ n_readers' = IF mode[t] = "r" THEN n_readers + 1 ELSE n_readers
            /\ n_writers' = IF mode[t] = "w" THEN n_writers + 1 ELSE n_writers
            /\ mutex' = NoThread
            /\ UNCHANGED mode

(* The worker is done with the table and calls end_read or end_write. *)
Done(t) == /\ Goto(t, "inside", "exit")
           /\ UNCHANGED <<n_readers, n_writers, mutex, mode>>

(* end_write that decrements the readers. *)
SlipUncount(t) == /\ Goto(t, "uncount", "leave")
                  /\ n_readers' = n_readers - 1
                  /\ UNCHANGED <<n_writers, mutex, mode>>

Uncount(t) == /\ Goto(t, "uncount", "leave")
              /\ n_readers' = IF mode[t] = "r" THEN n_readers - 1 ELSE n_readers
              /\ n_writers' = IF mode[t] = "w" THEN n_writers - 1 ELSE n_writers
              /\ UNCHANGED <<mutex, mode>>

(* pthread_cond_broadcast, when the code calls it, and pthread_mutex_unlock: *)
(* every thread of the wait set then competes for the mutex.                 *)
Leave(t) == /\ pc[t] = "leave"
            /\ mutex' = NoThread
            /\ pc' = [u \in Threads |->
                        IF u = t THEN "idle"
                        ELSE IF pc[u] = "wait" /\ Broadcasts(t) THEN "enter"
                        ELSE pc[u]]
            /\ UNCHANGED <<n_readers, n_writers, mode>>

(* pthread_cond_wait may return with no broadcast. *)
SpuriousWakeup(t) == /\ Goto(t, "wait", "enter")
                     /\ UNCHANGED <<n_readers, n_writers, mutex, mode>>

(* The steps of a thread between its call and its return. *)
Step(t) == \/ Acquire(t) \/ Wait(t) \/ Pass(t) \/ Count(t)
           \/ Done(t) \/ Uncount(t) \/ Leave(t)

Next == \E t \in Threads : \/ \E m \in Modes : Call(t, m)
                           \/ Step(t)
                           \/ SpuriousWakeup(t)

Spec == Init /\ [][Next]_vars

(***************************************************************************)
(* A thread that can take a step takes it, the worker leaves the table, and *)
(* a thread that asks for a mutex that is released again and again gets it. *)
(* No fairness on Call (a client may never send a request) and none on      *)
(* SpuriousWakeup.                                                          *)
(***************************************************************************)
Fairness == \A t \in Threads : WF_vars(Step(t)) /\ SF_vars(Acquire(t))
---------------------------------------------------------------------------
(* The shapes of the variables; the counters never go below zero. *)
TypeOK == /\ n_readers \in Nat
          /\ n_writers \in Nat
          /\ mutex \in Threads \cup {NoThread}
          /\ mode \in [Threads -> Modes]
          /\ pc \in [Threads -> PCs]

(* The threads the counters stand for: counted in and not yet counted out. *)
Counted(m) == {t \in Threads : mode[t] = m /\ pc[t] \in {"inside", "exit", "uncount"}}
Readers == Counted("r")
Writers == Counted("w")

(* Two threads are never inside together unless both only read: this is what *)
(* makes table_put and table_remove safe against the reads of other workers. *)
Exclusion == \A t, u \in Threads :
                t # u /\ t \in Writers => u \notin Readers \cup Writers

(* Each counter is the number of threads that passed its increment and not  *)
(* its decrement, so that "== 0" and "> 0" in the code mean what they say.  *)
CountersExact == /\ n_readers = Cardinality(Readers)
                 /\ n_writers = Cardinality(Writers)

(* No wake-up is lost: a thread sits in pthread_cond_wait only while its    *)
(* loop condition still holds or while the broadcast that will wake it is   *)
(* about to be made (end_read broadcasts on the last reader only).          *)
NoLostWakeup == \A t \in Threads :
    pc[t] = "wait" => \/ Blocked(t)
                      \/ \E u \in Threads : pc[u] = "leave" /\ Broadcasts(u)

(* The threads that are between taking the mutex and releasing it. *)
MutexHeld == \A t \in Threads :
    mutex = t <=> pc[t] \in {"test", "count", "uncount", "leave"}

(* Between its test and its increment a thread keeps the mutex, so that no  *)
(* other thread can make the condition it tested stale.                     *)
TestStillHolds == \A t \in Threads : pc[t] = "count" => ~ Blocked(t)

(* The strengthening of the properties above that every step preserves. *)
IInv == /\ TypeOK
        /\ MutexHeld
        /\ TestStillHolds
        /\ Exclusion
        /\ CountersExact
        /\ NoLostWakeup

(* The lock implements the promise of RWLockSpec. *)
Abstract == INSTANCE RWLockSpec WITH readers <- Readers, writers <- Writers
Implements == Abstract!Spec

(* Whoever calls start_read or start_write gets in. *)
EveryCallEnters == \A t \in Threads : pc[t] = "enter" ~> pc[t] = "inside"
===========================================================================

---------------------------- MODULE RWLockSpec ----------------------------
(***************************************************************************)
(* What a caller of start_read/end_read and start_write/end_write is       *)
(* promised: a set of readers and a set of writers that the threads enter  *)
(* and leave in one step, any number of readers or one single writer.      *)
(***************************************************************************)

CONSTANT Threads

VARIABLES readers,  \* threads between start_read and end_read
          writers   \* threads between start_write and end_write

vars == <<readers, writers>>

Init == /\ readers = {}
        /\ writers = {}

EnterRead(t) == /\ writers = {}
                /\ t \notin readers
                /\ readers' = readers \cup {t}
                /\ UNCHANGED writers

EnterWrite(t) == /\ readers = {}
                 /\ writers = {}
                 /\ writers' = {t}
                 /\ UNCHANGED readers

LeaveRead(t) == /\ t \in readers
                /\ readers' = readers \ {t}
                /\ UNCHANGED writers

LeaveWrite(t) == /\ t \in writers
                 /\ writers' = writers \ {t}
                 /\ UNCHANGED readers

Next == \E t \in Threads : EnterRead(t) \/ EnterWrite(t) \/ LeaveRead(t) \/ LeaveWrite(t)

Spec == Init /\ [][Next]_vars
===========================================================================

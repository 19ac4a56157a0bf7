-------------------------------- MODULE Rpc --------------------------------
(***************************************************************************)
(* What a connection promises to the code above it: calls are made one     *)
(* after the other; a call that returns a reply returns its own, and its   *)
(* request was handled once; a call that returns an error may have been    *)
(* handled once or not at all.                                             *)
(***************************************************************************)
EXTENDS Integers

VARIABLES made,     \* calls made so far; the call in progress is the last
          handled,  \* the number of the last call that was handled
          result    \* what the last call has returned

vars == <<made, handled, result>>

Pending == <<"pending">>
Error == <<"error">>
ReplyTo(n) == <<"reply", n>>

Init == made = 0 /\ handled = 0 /\ result = Error

Call == /\ result # Pending
        /\ made' = made + 1
        /\ result' = Pending
        /\ UNCHANGED handled

Handle == /\ handled < made
          /\ handled' = made
          /\ UNCHANGED <<made, result>>

Return == /\ result = Pending
          /\ handled = made
          /\ result' = ReplyTo(made)
          /\ UNCHANGED <<made, handled>>

Fail == /\ result = Pending
        /\ result' = Error
        /\ UNCHANGED <<made, handled>>

Next == Call \/ Handle \/ Return \/ Fail

Spec == Init /\ [][Next]_vars
===========================================================================

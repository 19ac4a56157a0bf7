--------------------------- MODULE MCClientView ---------------------------
(* TLC instances of ClientView: the .cfg files give every constant. *)
EXTENDS ClientView
===========================================================================

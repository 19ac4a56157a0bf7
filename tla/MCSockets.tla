----------------------------- MODULE MCSockets -----------------------------
(* TLC instances of Sockets: the .cfg files give every constant.  No         *)
(* symmetry: EndedIsReleased is a liveness property.                         *)
EXTENDS Sockets
===========================================================================

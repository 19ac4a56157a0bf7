----------------------------- MODULE MCFraming -----------------------------
(* TLC instances of Framing: lengths of up to three bytes fit two bits.      *)
EXTENDS Framing
===========================================================================

-------------------------- MODULE MCChainReconfig --------------------------
(* TLC instances of ChainReconfig: a few servers, two puts, few crashes. *)
EXTENDS ChainReconfig, TLC

Perms == Permutations(Puts)
===========================================================================

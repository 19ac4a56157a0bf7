------------------------------ MODULE MCServer ------------------------------
(* TLC instances of Server: CharSum is given here because a .cfg cannot.     *)
EXTENDS Server, TLC

(* Keys of ASCII characters: with two lists the first three share one and   *)
(* the fourth is in the other, and the order of the keys is not that of     *)
(* their sums.                                                              *)
AsciiSum == [k \in Keys |-> CASE k = 1 -> 195 [] k = 2 -> 97 [] k = 3 -> 99 [] OTHER -> 98]

(* Key 1 is spelled with a character outside ASCII, whose bytes are negative. *)
Utf8Sum == [k \in Keys |-> IF k = 1 THEN -61 - 87 ELSE 96 + k]

Perms == Permutations(Threads) \cup Permutations(Vals)
===========================================================================

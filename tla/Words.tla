------------------------------- MODULE Words -------------------------------
(***************************************************************************)
(* Signed machine words.  The shell evaluates $(( )) in a word of 64 bits  *)
(* and a result that does not fit wraps around; no error is reported.      *)
(***************************************************************************)
EXTENDS Integers

CONSTANT HalfWord   \* 2^63 in the shell; one word holds -HalfWord .. HalfWord-1

ASSUME HalfWordAssumption == HalfWord \in Nat \ {0}

Word == -HalfWord .. HalfWord - 1

(* The word that holds the low bits of n. *)
Wrap(n) == ((n + HalfWord) % (2 * HalfWord)) - HalfWord

============================================================================

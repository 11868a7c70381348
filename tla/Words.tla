-------------------------------- MODULE Words --------------------------------
(* The u64 weights the contracts add up, and sums of them. *)
EXTENDS Naturals

CONSTANT U64Max   \* the largest u64, scaled down

ASSUME U64MaxAssumption == U64Max \in Nat

(* checked_add traps on any other sum. *)
FitsU64(n) == n <= U64Max

(* f[1] + ... + f[n] *)
SumTo(f, n) ==
  LET s[i \in 0..n] == IF i = 0 THEN 0 ELSE s[i - 1] + f[i]
  IN  s[n]
=============================================================================

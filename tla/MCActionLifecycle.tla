------------------------- MODULE MCActionLifecycle -------------------------
(* Small instances of ActionLifecycle for TLC. *)
EXTENDS ActionLifecycle, TLC

CONSTANTS t1, t2, c1, c2

MCSymmetry == Permutations({t1, t2}) \cup Permutations({c1, c2})
=============================================================================

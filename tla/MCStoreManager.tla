--------------------------- MODULE MCStoreManager ---------------------------
(* Small instances of StoreManager for TLC. *)
EXTENDS StoreManager, TLC

CONSTANTS A, B, C, r1, w1, s1, s2, p1

MCUserIdIn == [s \in Stores |-> IF s = B THEN 2 ELSE 1]
LocalOrRemote == {<<A>>, <<C>>}

SyncSymmetry == Permutations({s1, s2})
=============================================================================

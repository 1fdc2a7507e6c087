----------------------- MODULE MCStorageManagerLock -----------------------
(* Small instances of StorageManagerLock for TLC. *)
EXTENDS StorageManagerLock

CONSTANTS r1, r2, w1, w2, s1, s2, p1, p2
=============================================================================

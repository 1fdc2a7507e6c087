------------------------------ MODULE OneStore ------------------------------
(***************************************************************************)
(* What WalletStorageManager promises its callers, however many stores it  *)
(* manages: one store, whose records change only by what calls record.     *)
(* Which of the stores is the active one cannot be told from the records.  *)
(***************************************************************************)
CONSTANT Calls      \* calls that record something

VARIABLE records    \* what calls have recorded for the wallet's user

Init == records = {}

Record(c) == records' = records \cup {c}

Next == \E c \in Calls : Record(c)

Spec == Init /\ [][Next]_records
=============================================================================

--------------------------- MODULE MCWalletRecords ---------------------------
(* Small instances of WalletRecords for TLC. *)
EXTENDS WalletRecords

\* Alice's storage manager also runs the Monitor's tasks; Bob has one of his own.
MCUsers == {"alice", "bob"}
MCManagerOf == [u \in MCUsers |-> u]
MCUserOf == [a1 |-> "alice", a2 |-> "alice", b1 |-> "bob", old |-> "alice"]
MCCalls == {"a1", "a2", "b1"}

\* Alice keeps output 0 as change, or in a basket first and as change then; Bob in a basket.
Both == [v \in {0, 1} |-> IF v = 0 THEN "payment" ELSE "insertion"]
First == [v \in {0, 1} |-> IF v = 0 THEN "insertion" ELSE "no"]
MCWants == [c \in MCCalls |-> IF c = "b1" THEN {First} ELSE {First, Both}]
=============================================================================

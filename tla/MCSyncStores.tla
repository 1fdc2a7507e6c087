---------------------------- MODULE MCSyncStores ----------------------------
(* Small instances of SyncStores for TLC. *)
EXTENDS SyncStores

\* One row of each entity; one transaction more, that a first store does not begin with.
MCKindOf ==
    [p1 |-> "provenTx", b1 |-> "outputBasket", g1 |-> "outputTag", l1 |-> "txLabel",
     t1 |-> "transaction", t2 |-> "transaction", o1 |-> "output", lm1 |-> "txLabelMap",
     gm1 |-> "outputTagMap", c1 |-> "certificate", cf1 |-> "certificateField",
     cm1 |-> "commission", q1 |-> "provenTxReq"]
MCRows == DOMAIN MCKindOf
MCFirstRows == MCRows \ {"t2"}

NoRefs == [f \in {} |-> None]
MCRefs ==
    [p1 |-> NoRefs, b1 |-> NoRefs, g1 |-> NoRefs, l1 |-> NoRefs, c1 |-> NoRefs,
     t1 |-> [provenTxId |-> None], t2 |-> [provenTxId |-> None],
     o1 |-> [transactionId |-> "t1", basketId |-> "b1", spentBy |-> None],
     lm1 |-> [transactionId |-> "t1", txLabelId |-> "l1"],
     gm1 |-> [outputId |-> "o1", outputTagId |-> "g1"],
     cf1 |-> [certificateId |-> "c1"],
     cm1 |-> [transactionId |-> "t1"],
     q1 |-> [provenTxId |-> None, notify |-> "t1"]]

\* Store B holds a row of every entity, of other users.
MCFirstId == [s \in Stores |-> [k \in Kinds |-> IF s = First THEN 1 ELSE 2]]
=============================================================================

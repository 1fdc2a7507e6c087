---------------------------- MODULE WalletRecords ----------------------------
(***************************************************************************)
(* The records a store keeps of a transaction that its users internalize:  *)
(* internalizeAction step by step, the proof the Monitor finds, the        *)
(* spending of what was stored, relinquishOutput, the purge of old records *)
(* and what listOutputs and listActions answer.                            *)
(*                                                                         *)
(* There is one incoming transaction.  Its transactions row of a user is   *)
(* named by the call that inserts it, an output by its row and vout.       *)
(* Calls through one WalletStorageManager exclude each other and the       *)
(* Monitor's tasks; calls through several managers of one store do not.    *)
(***************************************************************************)
EXTENDS Naturals, FiniteSets, FiniteSetsExt

CONSTANTS
    Users,
    ManagerOf,      \* the manager of each user
    MonitorManager, \* the manager the Monitor's tasks run with
    Calls,          \* the calls of internalizeAction
    OldRow,         \* a completed row, synced from an older store, or a failed action
    UserOf,         \* whose call, or row, it is
    Vouts,
    Wants,          \* what a call may ask: of each vout "no", "payment" or "insertion"
    None,
    Spenders,       \* bound: the users that create an action
    MaxEvents,      \* bound: calls that are cut off, and calls of relinquishOutput
    MaxPurges       \* bound: runs of the purge

Rows == Calls \cup {OldRow}
Outputs == Rows \X Vouts

ASSUME CallsAssumption ==
    /\ OldRow \notin Calls
    /\ UserOf \in [Rows -> Users]
    /\ Vouts \subseteq Nat /\ Vouts # {}
    /\ \A c \in Calls : Wants[c] \subseteq [Vouts -> {"no", "payment", "insertion"}]
    /\ \A c \in Calls : None \notin Wants[c]
    /\ None \notin Rows \cup Outputs
    /\ Spenders \subseteq Users
    /\ MaxEvents \in Nat /\ MaxPurges \in Nat

VARIABLES
    txs,        \* transactions: status ("none": no row), provenTxId is set
    outs,       \* outputs: basket ("none": no row), change, spendable, tagged
    labelled,   \* rows in tx_labels_map
    req,        \* the proven_tx_reqs row: status ("none": no row), notify
    proof,      \* there is a proven_txs row
    call,       \* each call: stage, want, row, baskets found, outputs left to store
    spend,      \* each user's spending action: status, the change output it holds
    purge,      \* TaskPurge: stage, the transaction proves a utxo, the rows to delete
    count,      \* of what the bounds limit
    \* History, read by no action.
    expected,   \* the basket that the latest change of each output left it in, if known
    unpursued   \* rows that a call cut off, or the purge, left without a req

records == <<txs, outs, labelled>>
vars == <<records, req, proof, call, spend, purge, count, expected, unpursued>>

NoTx == [status |-> "none", proven |-> FALSE]
NoOut == [basket |-> "none", change |-> FALSE, spendable |-> FALSE, tagged |-> FALSE]
NoReq == [status |-> "none", notify |-> {}]
NoCall == [stage |-> "idle", want |-> None, row |-> None, found |-> None, left |-> {}]
NoSpend == [status |-> "none", out |-> None]
NoPurge == [stage |-> "idle", needed |-> FALSE, rows |-> {}]

Stored(o) == outs[o].basket # "none"
RowsOf(u) == {r \in Rows : UserOf[r] = u /\ txs[r].status # "none"}

Change == [basket |-> "default", change |-> TRUE, spendable |-> TRUE, tagged |-> FALSE]
Custom == [basket |-> "custom", change |-> FALSE, spendable |-> TRUE, tagged |-> FALSE]

OldOutput == <<OldRow, Min(Vouts)>>

Init ==
    /\ \E old \in {"none", "completed", "failed"} :
         /\ txs = [r \in Rows |->
                     IF r = OldRow /\ old # "none"
                     THEN [status |-> old, proven |-> old = "completed"]
                     ELSE NoTx]
         /\ outs = [o \in Outputs |-> IF o = OldOutput /\ old # "none" THEN Change ELSE NoOut]
         /\ proof = (old = "completed")
         /\ req = IF old = "failed" THEN [status |-> "invalid", notify |-> {OldRow}] ELSE NoReq
    /\ labelled = {}
    /\ call = [c \in Calls |-> NoCall]
    /\ spend = [u \in Users |-> NoSpend]
    /\ purge = NoPurge
    /\ count = [events |-> 0, purges |-> 0]
    /\ expected = [o \in Outputs |-> "any"]
    /\ unpursued = {}
-----------------------------------------------------------------------------
(* The lock of a manager.                                                  *)

Running(c) == call[c].stage \notin {"idle", "returned", "threw"}

\* Mutant: calls of one manager run side by side.
FreeOfTasks(m) == m = MonitorManager => purge.stage = "idle"

\* Mutant: the purge does not hold the lock.
FreeOfCalls(m) == \A c \in Calls : ManagerOf[UserOf[c]] = m => ~Running(c)

\* No call, and no task, runs with the manager.
Free(m) ==
    /\ \A c \in Calls : ManagerOf[UserOf[c]] = m => ~Running(c)
    /\ m = MonitorManager => purge.stage = "idle"
-----------------------------------------------------------------------------
(* internalizeAction.                                                      *)

Goto(c, stage) == call' = [call EXCEPT ![c].stage = stage]
CallOnly == UNCHANGED <<records, req, proof, spend, purge, count, expected, unpursued>>

Asked(c) == {v \in Vouts : call[c].want[v] # "no"}

Begin(c) ==
    /\ call[c].stage = "idle"
    /\ Free(ManagerOf[UserOf[c]])
    /\ \E w \in Wants[c] :
         /\ call' = [call EXCEPT ![c].stage = "setup", ![c].want = w]
         /\ expected' = [o \in Outputs |-> IF UserOf[o[1]] = UserOf[c] /\ w[o[2]] # "no"
                                           THEN "any" ELSE expected[o]]
    /\ UNCHANGED <<records, req, proof, spend, purge, count, unpursued>>

\* verifyOneOrNone: a user has one row of the transaction.
SetupThrows(c) ==
    /\ call[c].stage = "setup"
    /\ \/ Cardinality(RowsOf(UserOf[c])) > 1
       \/ \E r \in RowsOf(UserOf[c]) : txs[r].status \notin {"completed", "unproven", "nosend"}
    /\ Goto(c, "threw")
    /\ CallOnly

\* asyncSetup of a transaction the user has: the baskets of its outputs are read.
SetupMerge(c) ==
    /\ call[c].stage = "setup"
    /\ \E r \in RowsOf(UserOf[c]) :
         /\ RowsOf(UserOf[c]) = {r}
         /\ txs[r].status \in {"completed", "unproven", "nosend"}
         /\ LET found == [v \in Vouts |-> outs[<<r, v>>].basket]
                Ignored(v) == call[c].want[v] = "payment" /\ found[v] = "default"
            IN  call' = [call EXCEPT ![c].stage = "label", ![c].row = r, ![c].found = found,
                                     ![c].left = {v \in Asked(c) : ~Ignored(v)}]
    /\ CallOnly

SetupNew(c) ==
    /\ call[c].stage = "setup"
    /\ RowsOf(UserOf[c]) = {}
    /\ call' = [call EXCEPT ![c].stage = "find", ![c].row = c, ![c].left = Asked(c),
                            ![c].found = [v \in Vouts |-> "none"]]
    /\ CallOnly

\* findOrInsertTransaction: the find, and the insert.
FindTransaction(c) ==
    /\ call[c].stage = "find"
    /\ Goto(c, IF RowsOf(UserOf[c]) = {} THEN "insert" ELSE "threw")
    /\ CallOnly

InsertTransaction(c) ==
    /\ call[c].stage = "insert"
    /\ txs' = [txs EXCEPT ![c] = [status |-> "unproven", proven |-> FALSE]]
    /\ Goto(c, "req")
    /\ UNCHANGED <<outs, labelled, req, proof, spend, purge, count, expected, unpursued>>

\* Mutant: a transaction that another user has is taken to be known.
ReqOfNewTxid(c) ==
    IF \E r \in Rows \ {c} : txs[r].status # "none"
    THEN req ELSE [status |-> "unmined", notify |-> {c}]

\* getProvenOrReq: a proof or a req that is there is left as it is.
Req(c) ==
    IF proof \/ req.status # "none" THEN req ELSE [status |-> "unmined", notify |-> {c}]

\* Its reads and the insert, which a unique txid protects, may count as one.
GetProvenOrReq(c) ==
    /\ call[c].stage = "req"
    /\ req' = Req(c)
    /\ Goto(c, "label")
    /\ UNCHANGED <<records, proof, spend, purge, count, expected, unpursued>>

AfterStore(c, left) == IF left = {} THEN "return" ELSE "store"

AddLabels(c) ==
    /\ call[c].stage = "label"
    /\ labelled' = labelled \cup {call[c].row}
    /\ Goto(c, AfterStore(c, call[c].left))
    /\ UNCHANGED <<txs, outs, req, proof, spend, purge, count, expected, unpursued>>

\* Payments come before insertions.
NextToStore(c) ==
    LET payments == {v \in call[c].left : call[c].want[v] = "payment"}
    IN  Min(IF payments # {} THEN payments ELSE call[c].left)

\* Mutant: storing an output again makes it a new one.
MergedAnew(o, basket, change) == IF change THEN Change ELSE Custom

\* Mutant: only the basket is changed.
MergedKeepsChange(o, basket, change) == [outs[o] EXCEPT !.basket = basket]

\* mergeWalletPaymentForOutput and mergeBasketInsertionForOutput.
Merged(o, basket, change) == [outs[o] EXCEPT !.basket = basket, !.change = change]

\* The four ways an output is stored; insertOutput throws if the row is there by now.
StoreOutput(c) ==
    /\ call[c].stage = "store"
    /\ LET v == NextToStore(c)
           o == <<call[c].row, v>>
           payment == call[c].want[v] = "payment"
           left == call[c].left \ {v}
       IN  \/ /\ call[c].found[v] = "none"
              /\ ~Stored(o)
              /\ outs' = [outs EXCEPT ![o] = IF payment THEN Change ELSE Custom]
              /\ call' = [call EXCEPT ![c].left = left,
                            ![c].stage = IF payment THEN AfterStore(c, left) ELSE "tag"]
           \/ /\ call[c].found[v] = "none"
              /\ Stored(o)
              /\ Goto(c, "threw")
              /\ UNCHANGED outs
           \/ /\ call[c].found[v] # "none"
              /\ outs' = IF Stored(o)
                         THEN [outs EXCEPT ![o] = IF payment THEN Merged(o, "default", TRUE)
                                                  ELSE Merged(o, "custom", FALSE)]
                         ELSE outs
              /\ call' = [call EXCEPT ![c].left = left, ![c].stage = AfterStore(c, left)]
    /\ UNCHANGED <<txs, labelled, req, proof, spend, purge, count, expected, unpursued>>

\* addBasketTags, of a new insertion only.
TagOutput(c) ==
    /\ call[c].stage = "tag"
    /\ outs' = [o \in Outputs |->
                  IF /\ o[1] = call[c].row /\ o[2] \in Asked(c) \ call[c].left
                     /\ call[c].found[o[2]] = "none" /\ call[c].want[o[2]] = "insertion"
                  THEN [outs[o] EXCEPT !.tagged = TRUE]
                  ELSE outs[o]]
    /\ Goto(c, AfterStore(c, call[c].left))
    /\ UNCHANGED <<txs, labelled, req, proof, spend, purge, count, expected, unpursued>>

Delivered(c, o) ==
    IF expected[o] = "mixed" THEN "any"
    ELSE IF call[c].want[o[2]] = "payment" THEN "default"
    ELSE IF call[c].found[o[2]] = "none" THEN "tagged" ELSE "custom"

Return(c) ==
    /\ call[c].stage = "return"
    /\ Goto(c, "returned")
    /\ expected' = [o \in Outputs |->
                      IF o[1] = call[c].row /\ o[2] \in Asked(c)
                      THEN Delivered(c, o) ELSE expected[o]]
    /\ UNCHANGED <<records, req, proof, spend, purge, count, unpursued>>

\* The process ends or the database fails: what the call wrote stays.
CutOff(c) ==
    /\ Running(c)
    /\ count.events < MaxEvents
    /\ count' = [count EXCEPT !.events = @ + 1]
    /\ Goto(c, "threw")
    /\ unpursued' = IF call[c].stage = "req" THEN unpursued \cup {c} ELSE unpursued
    /\ UNCHANGED <<records, req, proof, spend, purge, expected>>
-----------------------------------------------------------------------------
(* What else is done to the records.                                       *)

\* allocateChangeInput, for a new action.
AllocateChangeInput(u, o) ==
    /\ Free(ManagerOf[u])
    /\ u \in Spenders /\ spend[u].status = "none"
    /\ UserOf[o[1]] = u
    /\ outs[o].spendable /\ outs[o].basket = "default"
    /\ txs[o[1]].status \in {"completed", "unproven"}
    /\ outs' = [outs EXCEPT ![o].spendable = FALSE]
    /\ spend' = [spend EXCEPT ![u] = [status |-> "unsigned", out |-> o]]
    /\ UNCHANGED <<txs, labelled, req, proof, call, purge, count, expected, unpursued>>

\* The action is sent to the network, and proven.
SpendIsSent(u) ==
    /\ Free(ManagerOf[u])
    /\ spend[u].status = "unsigned"
    /\ spend' = [spend EXCEPT ![u].status = "unproven"]
    /\ UNCHANGED <<records, req, proof, call, purge, count, expected, unpursued>>

SpendIsProven(u) ==
    /\ Free(MonitorManager)
    /\ spend[u].status = "unproven"
    /\ spend' = [spend EXCEPT ![u].status = "proven"]
    /\ UNCHANGED <<records, req, proof, call, purge, count, expected, unpursued>>

\* updateTransactionStatus to failed: its inputs, those still there, are released.
Release(o) == IF Stored(o) THEN [outs EXCEPT ![o].spendable = TRUE] ELSE outs

AbortSpend(u) ==
    /\ Free(ManagerOf[u])
    /\ spend[u].status = "unsigned"
    /\ outs' = Release(spend[u].out)
    /\ spend' = [spend EXCEPT ![u].status = "failed"]
    /\ UNCHANGED <<txs, labelled, req, proof, call, purge, count, expected, unpursued>>

\* relinquishOutput finds the output by txid and vout among all users' outputs.
RelinquishOutput(o) ==
    /\ \E u \in Users : Free(ManagerOf[u])
    /\ {p \in Outputs : p[2] = o[2] /\ Stored(p)} = {o}
    /\ count.events < MaxEvents
    /\ count' = [count EXCEPT !.events = @ + 1]
    /\ outs' = [outs EXCEPT ![o].basket = "null"]
    /\ expected' = [expected EXCEPT ![o] =
                      IF \E c \in Calls : UserOf[c] = UserOf[o[1]] /\ Running(c)
                      THEN "mixed" ELSE "null"]
    /\ UNCHANGED <<txs, labelled, req, proof, call, spend, purge, unpursued>>

\* updateProvenTxReqWithNewProvenTx: the rows to notify get the proof; they stay unproven,
\* since updateTransactionStatus throws when the proof is set.
ProveReq ==
    /\ Free(MonitorManager)
    /\ req.status = "unmined"
    /\ proof' = TRUE
    /\ req' = [req EXCEPT !.status = "completed"]
    /\ txs' = [r \in Rows |-> IF r \in req.notify /\ txs[r].status # "none"
                              THEN [txs[r] EXCEPT !.proven = TRUE] ELSE txs[r]]
    /\ UNCHANGED <<outs, labelled, call, spend, purge, count, expected, unpursued>>

\* TaskCheckForProofs gives the req up after too many attempts.
GiveUpReq ==
    /\ Free(MonitorManager)
    /\ req.status = "unmined"
    /\ req' = [req EXCEPT !.status = "invalid"]
    /\ UNCHANGED <<records, proof, call, spend, purge, count, expected, unpursued>>
-----------------------------------------------------------------------------
(* purgeData.  Every record that may be purged is old enough.              *)

PurgeOnly == UNCHANGED <<req, proof, call, count, expected, unpursued>>

FailedRows == {r \in Rows : txs[r].status = "failed"}

PurgeBegin ==
    /\ Free(MonitorManager) /\ purge.stage = "idle"
    /\ count.purges < MaxPurges
    /\ count' = [count EXCEPT !.purges = @ + 1]

\* purgeCompleted, when asked for: a completed req that is notified.  The columns that are
\* blanked, inputBEEF and rawTx of proven transactions, are not in the model.
PurgeCompleted ==
    /\ PurgeBegin
    /\ purge' = [NoPurge EXCEPT !.stage = "failed"]
    /\ req.status = "completed"
    /\ req' = NoReq
    /\ UNCHANGED <<records, proof, call, spend, expected, unpursued>>

\* purgeFailed: the failed actions and the req that was given up.  What is selected cannot
\* change before it is deleted.
PurgeFailed ==
    /\ \/ PurgeBegin
       \/ purge.stage = "failed" /\ UNCHANGED count
    /\ purge' = [NoPurge EXCEPT !.stage = "utxos"]
    /\ spend' = [u \in Users |-> IF spend[u].status = "failed" THEN NoSpend ELSE spend[u]]
    /\ req' = IF req.status = "invalid" THEN NoReq ELSE req
    /\ unpursued' = IF req.status = "invalid" THEN {r \in Rows : txs[r].status # "none"}
                     ELSE unpursued
    /\ txs' = [r \in Rows |-> IF r \in FailedRows THEN NoTx ELSE txs[r]]
    /\ outs' = [o \in Outputs |-> IF o[1] \in FailedRows THEN NoOut ELSE outs[o]]
    /\ labelled' = labelled \ FailedRows
    /\ expected' = [o \in Outputs |-> IF o[1] \in FailedRows THEN "any" ELSE expected[o]]
    /\ UNCHANGED <<proof, call>>

\* The outputs whose transactions must stay, and the transactions that prove them.
Utxos == {o \in Outputs : /\ Stored(o) /\ outs[o].spendable
                          /\ txs[o[1]].status \in {"sending", "unproven", "completed", "nosend"}}

\* getBeefForTransaction has no service to ask and throws without proof and req.  The
\* change of an action that is sent, if it is not spent, needs its input's transaction
\* until it is proven itself.
PurgeUtxos ==
    /\ purge.stage = "utxos"
    /\ \/ /\ Utxos # {} /\ ~proof /\ req.status = "none"
          /\ purge' = NoPurge
       \/ /\ Utxos = {} \/ proof \/ req.status # "none"
          /\ \E change \in SUBSET {u \in Users : spend[u].status = "unproven"} :
               purge' = [purge EXCEPT !.stage = "select",
                                      !.needed = Utxos # {} \/ change # {}]
    /\ PurgeOnly /\ UNCHANGED <<records, spend>>

\* Completed transactions without a spendable output.
SpentRows == {r \in Rows : /\ txs[r].status = "completed"
                           /\ \A v \in Vouts : ~outs[<<r, v>>].spendable}

PurgeSelect ==
    /\ purge.stage = "select"
    /\ LET rows == IF purge.needed THEN {} ELSE SpentRows
       IN  purge' = [purge EXCEPT !.rows = rows,
                                  !.stage = IF rows = {} THEN "orphans" ELSE "delete"]
    /\ PurgeOnly /\ UNCHANGED <<records, spend>>

\* deleteTransactions: tags and outputs, and then labels and transactions.
PurgeOutputs ==
    /\ purge.stage = "delete"
    /\ outs' = [o \in Outputs |-> IF o[1] \in purge.rows THEN NoOut ELSE outs[o]]
    /\ expected' = [o \in Outputs |-> IF o[1] \in purge.rows THEN "any" ELSE expected[o]]
    /\ purge' = [purge EXCEPT !.stage = "transactions"]
    /\ UNCHANGED <<txs, labelled, req, proof, call, spend, count, unpursued>>

PurgeTransactions ==
    /\ purge.stage = "transactions"
    /\ txs' = [r \in Rows |-> IF r \in purge.rows THEN NoTx ELSE txs[r]]
    /\ labelled' = labelled \ purge.rows
    /\ purge' = [purge EXCEPT !.stage = "orphans"]
    /\ PurgeOnly /\ UNCHANGED <<outs, spend>>

\* No transaction and no req refers to the proof.
OrphanProof == req.status = "none" /\ \A r \in Rows : txs[r].status = "none"

PurgeOrphans ==
    /\ purge.stage = "orphans"
    /\ proof' = (proof /\ ~OrphanProof)
    /\ purge' = NoPurge
    /\ UNCHANGED <<records, req, call, spend, count, expected, unpursued>>

Next ==
    \/ \E c \in Calls :
         \/ Begin(c) \/ SetupThrows(c) \/ SetupMerge(c) \/ SetupNew(c) \/ FindTransaction(c)
         \/ InsertTransaction(c) \/ GetProvenOrReq(c) \/ AddLabels(c) \/ StoreOutput(c)
         \/ TagOutput(c) \/ Return(c) \/ CutOff(c)
    \/ \E u \in Users :
         \/ SpendIsSent(u) \/ SpendIsProven(u) \/ AbortSpend(u)
         \/ \E o \in Outputs : AllocateChangeInput(u, o)
    \/ \E o \in Outputs : RelinquishOutput(o)
    \/ ProveReq \/ GiveUpReq
    \/ PurgeCompleted \/ PurgeFailed \/ PurgeUtxos \/ PurgeSelect \/ PurgeOutputs
    \/ PurgeTransactions \/ PurgeOrphans

Spec == Init /\ [][Next]_vars
-----------------------------------------------------------------------------
(* What is listed.                                                         *)

TxStatusOk == {"completed", "unproven", "nosend"}

\* listOutputs of a basket.
ListOutputs(u, basket) ==
    {o \in Outputs : /\ UserOf[o[1]] = u
                     /\ outs[o].basket = basket /\ outs[o].spendable
                     /\ txs[o[1]].status \in TxStatusOk}

\* listOutputs of a basket and a tag.
ListTagged(u, basket) == {o \in ListOutputs(u, basket) : outs[o].tagged}

\* listActions of a label.
ListActions(u) ==
    {r \in labelled : /\ UserOf[r] = u
                      /\ txs[r].status \in TxStatusOk \cup {"unprocessed", "sending", "unsigned",
                                                            "nonfinal"}}
-----------------------------------------------------------------------------
(* Properties.                                                             *)

Baskets == {"none", "default", "custom", "null"}
TxType == [status : {"none", "unproven", "completed", "failed"}, proven : BOOLEAN]
OutType == [basket : Baskets, change : BOOLEAN, spendable : BOOLEAN, tagged : BOOLEAN]
ReqType == [status : {"none", "unmined", "completed", "invalid"}, notify : SUBSET Rows]
CallType ==
    [stage : {"idle", "setup", "find", "insert", "req", "label", "store", "tag", "return",
              "returned", "threw"},
     want : [Vouts -> {"no", "payment", "insertion"}] \cup {None},
     row : Rows \cup {None},
     found : [Vouts -> Baskets] \cup {None},
     left : SUBSET Vouts]
PurgeType ==
    [stage : {"idle", "failed", "utxos", "select", "delete", "transactions", "orphans"},
     needed : BOOLEAN, rows : SUBSET Rows]

TypeOK ==
    /\ txs \in [Rows -> TxType]
    /\ outs \in [Outputs -> OutType]
    /\ labelled \subseteq Rows
    /\ req \in ReqType
    /\ proof \in BOOLEAN
    /\ call \in [Calls -> CallType]
    /\ spend \in [Users -> [status : {"none", "unsigned", "unproven", "proven", "failed"},
                            out : Outputs \cup {None}]]
    /\ purge \in PurgeType
    /\ count \in [events : 0 .. MaxEvents, purges : 0 .. MaxPurges]
    /\ expected \in [Outputs -> Baskets \cup {"any", "mixed", "tagged"}]
    /\ unpursued \subseteq Rows

\* An action that has not failed spends the output.
Held(o) == \E u \in Users : spend[u].out = o /\ spend[u].status # "failed"

\* No call of the row's user runs while it is purged: they share a manager, or the row is
\* not one that a purge takes.  Of a row of another user the purge reads what is spendable,
\* and deletes its outputs later: a call may store or spend one in between.
PurgedAlone(r) == r = OldRow => ManagerOf[UserOf[r]] = MonitorManager

\* What internalizeAction has stored is found again where it was asked to be: a payment as
\* change in the default basket, an insertion in its basket and by its tag, the transaction
\* by its label.  Neither a later call of another purpose, nor another user's, a proof, a
\* purge of the user's own manager, or an action that was given up changes that.
ReturnedIsListed ==
    \A o \in {p \in Outputs : PurgedAlone(p[1])} :
      LET user == UserOf[o[1]]
          Listed(basket) == o \in ListOutputs(user, basket) \/ Held(o)
      IN  /\ expected[o] = "default" => Listed("default") /\ outs[o].change
          /\ expected[o] \in {"custom", "tagged"} => Listed("custom") /\ ~outs[o].change
          /\ expected[o] = "tagged" => o \in ListTagged(user, "custom") \/ Held(o)
          /\ expected[o] \in {"default", "custom", "tagged"} => o[1] \in ListActions(user)
          /\ expected[o] = "null" => outs[o].basket = "null"

\* A stored output may be spent exactly when no action spends it: internalizing it again
\* does not free it, and an action that fails does.
SpendableIffFree ==
    \A o \in Outputs : PurgedAlone(o[1]) /\ Stored(o) => (outs[o].spendable <=> ~Held(o))

\* Every output that is listed has a transaction whose proof is known or that has a req,
\* one that was given up included, unless the call that stored it was cut off before its
\* req, or the req was purged.
ListedIsKnown ==
    \A u \in Users, basket \in {"default", "custom"} :
      \A o \in ListOutputs(u, basket) : o[1] \in unpursued \/ proof \/ req.status # "none"

\* A user has one transactions row of a txid, though no unique key says so.
OneRow == \A u \in Users : Cardinality(RowsOf(u)) <= 1

\* The purge deletes no output of its manager's users but those of failed actions and those that an action
\* spends.  That action may be unsigned still: its input is purged from under it
\* (TaskPurge.ts: "unspent outputs").
PurgedIsHeld ==
    [][\A o \in Outputs : /\ PurgedAlone(o[1])
                          /\ Stored(o) /\ outs'[o].basket = "none"
                          /\ txs[o[1]].status # "failed"
                          => Held(o)]_vars
=============================================================================

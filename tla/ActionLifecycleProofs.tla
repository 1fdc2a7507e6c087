------------------------ MODULE ActionLifecycleProofs ------------------------
(***************************************************************************)
(* Proofs about the storage's action records, for any number of actions    *)
(* and coins, any limits on attempts, with the manager's locks or without  *)
(* them, and with any number of restarts: types, that the inputs of an     *)
(* action are held, and what is true of the rows that are read, kept in    *)
(* memory and written back later.                                          *)
(***************************************************************************)
EXTENDS ActionLifecycle, TLAPS

USE DEF db, world, creating, posting, monitor, history

\* Reading rows, and writing one back, yields rows.
LEMMA RowTypes ==
    /\ NoReq \in Req
    /\ req \in [Txs -> Req] => \A S : Rows(S) \in [Txs -> Req]
    /\ \A r, s \in Req : UpdateDynamics(r, s) \in Req
    /\ \A r \in Req : ProvenRow(r) \in Req
  BY DEF NoReq, Req, ReqStatus, Rows, UpdateDynamics, ProvenRow

\* A row stays a row when one of its fields is written.
LEMMA FieldTypes ==
    ASSUME NEW r \in Req
    PROVE  /\ r.status \in ReqStatus /\ r.attempts \in Nat /\ r.proven \in BOOLEAN /\ r.batch \in SUBSET Txs
           /\ \A s \in ReqStatus : [r EXCEPT !.status = s] \in Req
           /\ \A B \in SUBSET Txs : [r EXCEPT !.batch = B] \in Req
           /\ [r EXCEPT !.attempts = @ + 1] \in Req
           /\ \A s \in ReqStatus, n \in Nat : [r EXCEPT !.status = s, !.attempts = n] \in Req
           /\ \A s \in ReqStatus, B \in SUBSET Txs : [r EXCEPT !.status = s, !.batch = B] \in Req
<1>1. r.status \in ReqStatus /\ r.attempts \in Nat /\ r.proven \in BOOLEAN /\ r.batch \in SUBSET Txs
  BY DEF Req
<1>2. ASSUME NEW s \in ReqStatus PROVE [r EXCEPT !.status = s] \in Req
  BY DEF Req
<1>3. ASSUME NEW B \in SUBSET Txs PROVE [r EXCEPT !.batch = B] \in Req
  BY DEF Req
<1>4. [r EXCEPT !.attempts = @ + 1] \in Req
  BY DEF Req
<1>5. ASSUME NEW s \in ReqStatus, NEW n \in Nat PROVE [r EXCEPT !.status = s, !.attempts = n] \in Req
  BY DEF Req
<1>6. ASSUME NEW s \in ReqStatus, NEW B \in SUBSET Txs PROVE [r EXCEPT !.status = s, !.batch = B] \in Req
  BY DEF Req
<1> QED
  BY <1>1, <1>2, <1>3, <1>4, <1>5, <1>6

LEMMA IdleTypes ==
    ASSUME TypeOK, NEW p \in Callers, Idle(p)
    PROVE  /\ mode' \in {"nosend", "delayed", "now"}
           /\ group' \in SUBSET Txs
           /\ stage' \in [Callers -> {"idle", "commit", "share", "ready", "check", "net", "write", "invalid"}]
           /\ left' \in [Callers -> SUBSET Txs]
           /\ seen' \in [Callers -> [Txs -> Req]]
           /\ accepted' \in [Callers -> SUBSET Txs]
           /\ cur' \in [Callers -> Txs \cup {None}]
  BY RowTypes DEF TypeOK, Idle

LEMMA CreateTypes ==
    ASSUME TypeOK, NEW t \in Txs, Create(t) PROVE TypeOK'
<1>1. ASSUME NEW X \in SUBSET (Outputs \ {t}), NEW C \in SUBSET (Outputs \ {t}), NEW isNoSend \in BOOLEAN,
             CreateBegin(t, X, C, isNoSend)
      PROVE TypeOK'
  BY <1>1 DEF CreateBegin, TypeOK, TxStatus
<1>2. ASSUME NEW o \in Outputs, AllocateNoSendChange(t, o) PROVE TypeOK'
  BY <1>2 DEF AllocateNoSendChange, Lock, TypeOK
<1>3. ASSUME NEW o \in Outputs, Allocate(t, o) PROVE TypeOK'
  BY <1>3 DEF Allocate, Lock, TypeOK
<1>4. ASSUME NEW o \in Outputs, Release(t, o) PROVE TypeOK'
  BY <1>4 DEF Release, TypeOK
<1>5. ASSUME NEW o \in Outputs, MarkNamed(t, o) PROVE TypeOK'
  BY <1>5 DEF MarkNamed, Lock, TypeOK
<1>6. CASE Funded(t)
  BY <1>6 DEF Funded, TypeOK
<1>7. CASE CreateReturn(t)
  BY <1>7 DEF CreateReturn, TypeOK
<1>8. CASE CreateThrow(t)
  BY <1>8 DEF CreateThrow, TypeOK
<1> QED
  BY <1>1, <1>2, <1>3, <1>4, <1>5, <1>6, <1>7, <1>8 DEF Create

LEMMA ProcessTypes ==
    ASSUME TypeOK, Process PROVE TypeOK'
<1>1. ASSUME NEW t \in Txs, NEW m \in Modes, NEW S \in SUBSET (Committed \ {t}), ProcessBegin(t, m, S)
      PROVE TypeOK'
  BY <1>1, ConstantsAssumption DEF ProcessBegin, Committed, Callers, TypeOK
<1>2. ASSUME NEW t \in Txs, Commit(t) PROVE TypeOK'
  <2>1. CommitReqStatus[mode] \in ReqStatus /\ CommitTxStatus[mode] \in TxStatus
    BY DEF CommitReqStatus, CommitTxStatus, ReqStatus, TxStatus, TypeOK
  <2>2. req' \in [Txs -> Req] /\ txStatus' \in [Txs -> TxStatus]
    BY <1>2, <2>1 DEF Commit, TypeOK, NoReq, Req
  <2>3. CASE left["client"] = {}
    BY <1>2, <2>2, <2>3, IdleTypes DEF Commit, TypeOK, Callers, Outputs
  <2>4. CASE left["client"] # {}
    BY <1>2, <2>2, <2>4 DEF Commit, TypeOK, Callers, Outputs
  <2> QED
    BY <2>3, <2>4
<1>3. ASSUME NEW m \in Modes, NEW S \in SUBSET Committed, SendWith(m, S) PROVE TypeOK'
  BY <1>3, ConstantsAssumption DEF SendWith, Committed, Callers, TypeOK
<1>4. CASE ShareRead
  BY <1>4, RowTypes DEF ShareRead, ReadyToSend, Callers, TypeOK
<1>5. CASE ShareReturn
  BY <1>5, IdleTypes DEF ShareReturn, Callers, TypeOK
<1>6. CASE ShareDelayed
  <2>1. req' \in [Txs -> Req] /\ txStatus' \in [Txs -> TxStatus]
    <3>1. \A t \in Txs : [req[t] EXCEPT !.status = "unsent", !.batch = group] \in Req /\ req[t] \in Req
      BY FieldTypes DEF ReqStatus, TypeOK
    <3> QED
      BY <1>6, <3>1 DEF ShareDelayed, TxStatus, TypeOK
  <2> QED
    BY <1>6, <2>1, IdleTypes DEF ShareDelayed, Callers, TypeOK, history
<1>7. CASE ShareNow
  <2> DEFINE batched(row, t) ==
        IF t \in left["client"] /\ group # {} THEN [row EXCEPT !.batch = group] ELSE row
  <2>0. /\ \A t \in Txs : batched(req[t], t) \in Req /\ batched(seen["client"][t], t) \in Req
        /\ req' = [t \in Txs |-> batched(req[t], t)]
        /\ seen' = [seen EXCEPT !["client"] = [t \in Txs |-> batched(seen["client"][t], t)]]
    BY <1>7, FieldTypes DEF ShareNow, Callers, TypeOK
  <2> HIDE DEF batched
  <2>1. req' \in [Txs -> Req]
    BY <2>0
  <2>2. seen' \in [Callers -> [Txs -> Req]]
    BY <2>0 DEF TypeOK
  <2> QED
    BY <1>7, <2>1, <2>2 DEF ShareNow, Callers, TypeOK
<1> QED
  BY <1>1, <1>2, <1>3, <1>4, <1>5, <1>6, <1>7 DEF Process

LEMMA PostTypes ==
    ASSUME TypeOK, NEW p \in Callers, Post(p) PROVE TypeOK'
<1>1. CASE PostInvalid(p)
  BY <1>1 DEF PostInvalid, TypeOK
<1>2. CASE PostSend(p)
  BY <1>2 DEF PostSend, TypeOK
<1>3. ASSUME NEW A \in SUBSET Txs, NEW R \in SUBSET left[p], NetReply(p, A, R) PROVE TypeOK'
  <2>1. net' \in [Txs -> {"unseen", "seen", "mined"}]
    BY <1>3 DEF NetReply, NetAccepts, TypeOK
  <2>2. seen' \in [Callers -> [Txs -> Req]]
    <3> DEFINE counted(t) == IF t \in left[p] THEN [seen[p][t] EXCEPT !.attempts = @ + 1] ELSE seen[p][t]
    <3>1. \A t \in Txs : seen[p][t] \in Req
      BY DEF TypeOK
    <3>2. \A t \in Txs : counted(t) \in Req
      BY <3>1, FieldTypes
    <3>3. seen' = [seen EXCEPT ![p] = [t \in Txs |-> counted(t)]]
      BY <1>3 DEF NetReply
    <3> HIDE DEF counted
    <3> QED
      BY <3>2, <3>3 DEF TypeOK
  <2> QED
    BY <1>3, <2>1, <2>2 DEF NetReply, TypeOK
<1>4. ASSUME NEW A \in SUBSET Txs, NetThrow(p, A) PROVE TypeOK'
  <2>1. net' \in [Txs -> {"unseen", "seen", "mined"}]
    BY <1>4 DEF NetThrow, NetAccepts, TypeOK
  <2> QED
    BY <1>4, <2>1, IdleTypes, RowTypes DEF NetThrow, Throw, TypeOK
<1>5. ASSUME NEW t \in Txs, WriteReq(p, t) PROVE TypeOK'
  <2>1. [seen[p][t] EXCEPT !.status = PostedStatus(p, t)] \in Req
    <3>1. seen[p][t] \in Req
      BY DEF TypeOK
    <3>2. PostedStatus(p, t) \in ReqStatus
      BY <3>1, FieldTypes DEF PostedStatus, ReqStatus
    <3> QED
      BY <3>1, <3>2, FieldTypes
  <2>2. req' \in [Txs -> Req]
    BY <1>5, <2>1, RowTypes DEF WriteReq, TypeOK
  <2> QED
    BY <1>5, <2>2, RowTypes DEF WriteReq, TypeOK
<1>6. ASSUME NEW t \in Txs, WriteTx(p, t) PROVE TypeOK'
  BY <1>6 DEF WriteTx, TxStatus, TypeOK
<1>9. ASSUME NEW t \in Txs, WriteTxThrow(p, t) PROVE TypeOK'
  BY <1>9, IdleTypes, RowTypes DEF WriteTxThrow, Throw, TypeOK
<1>7. ASSUME NEW t \in Txs, WriteInvalid(p, t) PROVE TypeOK'
  <2>1. [seen[p][t] EXCEPT !.status = "invalid"] \in Req
    <3>1. seen[p][t] \in Req /\ "invalid" \in ReqStatus
      BY DEF ReqStatus, TypeOK
    <3> QED
      BY <3>1, FieldTypes
  <2>2. req' \in [Txs -> Req]
    BY <1>7, <2>1, RowTypes DEF WriteInvalid, TypeOK
  <2> QED
    BY <1>7, <2>2, RowTypes DEF WriteInvalid, TypeOK
<1>8. CASE PostReturn(p)
  BY <1>8, IdleTypes DEF PostReturn, TypeOK
<1> QED
  BY <1>1, <1>2, <1>3, <1>4, <1>5, <1>6, <1>7, <1>8, <1>9 DEF Post

LEMMA TaskTypes ==
    ASSUME TypeOK, Tasks PROVE TypeOK'
<1>1. CASE SendWaiting
  BY <1>1, RowTypes DEF SendWaiting, ReadReqs, TypeOK
<1>2. CASE SendLocked
  BY <1>2, IdleTypes DEF SendLocked, Callers, TypeOK
<1>3. CASE CheckForProofs
  BY <1>3, RowTypes DEF CheckForProofs, ReadReqs, TypeOK
<1>4. CASE FailAbandoned
  BY <1>4 DEF FailAbandoned, Abandoned, TypeOK
<1>5. CASE TaskReturn
  BY <1>5 DEF TaskReturn, TypeOK
<1>6. ASSUME NEW t \in Txs, SendNext(t) PROVE TypeOK'
  <2>1. SendBatch(t) \subseteq Txs
    BY DEF SendBatch
  <2>2. IF mSeen[t].batch = {} THEN [Rows({}) EXCEPT ![t] = mSeen[t]] \in [Txs -> Req]
        ELSE Rows(SendBatch(t)) \in [Txs -> Req]
    BY RowTypes DEF TypeOK
  <2> QED
    BY <1>6, <2>1, <2>2, RowTypes DEF SendNext, Consume, Callers, TypeOK
<1>7. ASSUME NEW t \in Txs, AlreadyProven(t) PROVE TypeOK'
  <2>1. [mSeen[t] EXCEPT !.status = "completed"] \in Req
    BY FieldTypes DEF ReqStatus, TypeOK
  <2>2. req' \in [Txs -> Req]
    BY <1>7, <2>1, RowTypes DEF AlreadyProven, TypeOK
  <2> QED
    BY <1>7, <2>2, RowTypes DEF AlreadyProven, ProofNext, Consume, TypeOK
<1>8. ASSUME NEW t \in Txs, ProofAttemptsExceeded(t) PROVE TypeOK'
  <2>1. [mSeen[t] EXCEPT !.status = "invalid"] \in Req
    BY FieldTypes DEF ReqStatus, TypeOK
  <2>2. req' \in [Txs -> Req]
    BY <1>8, <2>1, RowTypes DEF ProofAttemptsExceeded, TypeOK
  <2> QED
    BY <1>8, <2>2, RowTypes DEF ProofAttemptsExceeded, ProofNext, Consume, TypeOK
<1>9. ASSUME NEW t \in Txs, NEW status \in ProofStatus \cup {"invalid"}, NEW counted \in 0..2, NoProof(t, status, counted)
      PROVE TypeOK'
  <2> DEFINE row == [mSeen[t] EXCEPT !.status = status, !.attempts = mSeen[t].attempts + counted]
  <2>1. req' = [req EXCEPT ![t] = UpdateDynamics(@, row)]
    BY <1>9 DEF NoProof
  <2>2. mSeen[t] \in Req
    BY DEF TypeOK
  <2>3. mSeen[t].attempts \in Nat
    BY <2>2, FieldTypes
  <2>4. mSeen[t].attempts + counted \in Nat
    BY <2>3
  <2>5. status \in ReqStatus
    BY DEF ProofStatus, ReqStatus
  <2>6. row \in Req
    BY <2>2, <2>4, <2>5, FieldTypes
  <2> HIDE DEF row
  <2>7. req' \in [Txs -> Req]
    BY <2>1, <2>6, RowTypes DEF TypeOK
  <2> QED
    BY <1>9, <2>7, RowTypes DEF NoProof, ProofNext, MayProve, Consume, TypeOK
<1>10. ASSUME NEW t \in Txs, ProofFound(t) PROVE TypeOK'
  <2>1. ProvenRow(req[t]) \in Req
    BY RowTypes DEF TypeOK
  <2>2. CASE req[t].proven
    BY <1>10, <2>2, RowTypes DEF ProofFound, TypeOK
  <2>3. CASE ~req[t].proven
    BY <1>10, <2>1, <2>3, RowTypes DEF ProofFound, TypeOK
  <2> QED
    BY <2>2, <2>3
<1>11. ASSUME NEW t \in Txs, Notify(t) PROVE TypeOK'
  <2>1. req' \in [Txs -> Req] /\ txStatus' \in [Txs -> TxStatus]
    BY <1>11, RowTypes DEF Notify, TxStatus, TypeOK
  <2> QED
    BY <1>11, <2>1, RowTypes DEF Notify, TypeOK
<1>12. ASSUME NEW t \in Txs, FailOne(t) PROVE TypeOK'
  BY <1>12 DEF FailOne, Fail, TxStatus, TypeOK
<1>13. ASSUME NEW t \in Txs, FailOneThrow(t) PROVE TypeOK'
  BY <1>13, IdleTypes, RowTypes DEF FailOneThrow, Throw, Callers, TypeOK
<1> QED
  BY <1>1, <1>2, <1>3, <1>4, <1>5, <1>6, <1>7, <1>8, <1>9, <1>10, <1>11, <1>12, <1>13 DEF Tasks

\* The initial state is well typed.
LEMMA InitTypes == Init => TypeOK
  BY RowTypes, ConstantsAssumption DEF Init, TypeOK, TxStatus, Callers

\* Every step keeps the types.
LEMMA NextTypes == TypeOK /\ [Next]_vars => TypeOK'
<1> SUFFICES ASSUME TypeOK, [Next]_vars PROVE TypeOK'
  OBVIOUS
<1>1. ASSUME NEW t \in Txs, Abort(t) PROVE TypeOK'
  <2>1. req' \in [Txs -> Req]
    BY <1>1, FieldTypes DEF Abort, ReqStatus, TypeOK
  <2> QED
    BY <1>1, <2>1 DEF Abort, Fail, TxStatus, TypeOK
<1>2. ASSUME NEW t \in Txs, NEW A \in SUBSET Txs, Broadcast(t, A) PROVE TypeOK'
  BY <1>2 DEF Broadcast, NetAccepts, TypeOK
<1>3. ASSUME NEW t \in Txs, Mine(t) PROVE TypeOK'
  BY <1>3 DEF Mine, TypeOK
<1>4. CASE Crash
  BY <1>4, RowTypes DEF Crash, TypeOK
<1>5. CASE UNCHANGED vars
  BY <1>5 DEF vars, TypeOK
<1> QED
  BY <1>1, <1>2, <1>3, <1>4, <1>5, CreateTypes, ProcessTypes, PostTypes, TaskTypes DEF Next, World

\* Every variable keeps its type.
THEOREM TypeCorrect == Spec => []TypeOK
<1> QED
  BY InitTypes, NextTypes, PTL DEF Spec
-----------------------------------------------------------------------------
(***************************************************************************)
(* The inputs of an action are held.  Untouched says that nobody but its   *)
(* own createAction call deals with an action that is being created; the   *)
(* properties of the coins are inductive relative to it.                   *)
(***************************************************************************)

\* createAction has returned, or thrown, or was cut off by a restart.
Started(t) == call[t] \notin {"none", "fund", "mark"}

\* An action that is being created is 'unsigned', has no req, and is in the hands
\* of no other call and no task.
Untouched ==
    \A t \in Txs :
        /\ call[t] = "none" <=> txStatus[t] = "absent"
        /\ call[t] = "none" => ins[t] = {}
        /\ Creating(t) => txStatus[t] = "unsigned"
        /\ HasReq(t) \/ t \in revived \/ t \in mLeft \/ notify = t => Started(t)
        /\ \A p \in Callers : t \in left[p] \/ cur[p] = t => Started(t)

\* Creating an action touches no other one.
LEMMA UntouchedCreate ==
    ASSUME TypeOK, Untouched, NEW t \in Txs, Create(t) PROVE Untouched'
<1>1. ASSUME NEW X \in SUBSET (Outputs \ {t}), NEW C \in SUBSET (Outputs \ {t}), NEW isNoSend \in BOOLEAN,
             CreateBegin(t, X, C, isNoSend)
      PROVE Untouched'
  BY <1>1 DEF CreateBegin, TypeOK, Untouched, Started, Creating, HasReq
<1>2. ASSUME NEW o \in Outputs, AllocateNoSendChange(t, o) PROVE Untouched'
  BY <1>2 DEF AllocateNoSendChange, Lock, TypeOK, Untouched, Started, Creating, HasReq
<1>3. ASSUME NEW o \in Outputs, Allocate(t, o) PROVE Untouched'
  BY <1>3 DEF Allocate, Lock, TypeOK, Untouched, Started, Creating, HasReq
<1>4. ASSUME NEW o \in Outputs, Release(t, o) PROVE Untouched'
  BY <1>4 DEF Release, TypeOK, Untouched, Started, Creating, HasReq
<1>5. ASSUME NEW o \in Outputs, MarkNamed(t, o) PROVE Untouched'
  BY <1>5 DEF MarkNamed, Lock, TypeOK, Untouched, Started, Creating, HasReq
<1>6. CASE Funded(t)
  BY <1>6 DEF Funded, TypeOK, Untouched, Started, Creating, HasReq
<1>7. CASE CreateReturn(t)
  BY <1>7 DEF CreateReturn, TypeOK, Untouched, Started, Creating, HasReq
<1>8. CASE CreateThrow(t)
  BY <1>8 DEF CreateThrow, TypeOK, Untouched, Started, Creating, HasReq
<1> QED
  BY <1>1, <1>2, <1>3, <1>4, <1>5, <1>6, <1>7, <1>8 DEF Create

\* processAction deals with actions that createAction has returned.
LEMMA UntouchedProcess ==
    ASSUME TypeOK, Untouched, Process PROVE Untouched'
<1>1. ASSUME NEW t \in Txs, NEW m \in Modes, NEW S \in SUBSET (Committed \ {t}), ProcessBegin(t, m, S)
      PROVE Untouched'
  BY <1>1 DEF ProcessBegin, Committed, Callers, TypeOK, Untouched, Started, Creating, HasReq
<1>2. ASSUME NEW t \in Txs, Commit(t) PROVE Untouched'
  BY <1>2, ConstantsAssumption DEF Commit, CommitTxStatus, Idle, Callers, TypeOK, Untouched, Started, Creating, HasReq
<1>3. ASSUME NEW m \in Modes, NEW S \in SUBSET Committed, SendWith(m, S) PROVE Untouched'
  BY <1>3 DEF SendWith, Committed, Callers, TypeOK, Untouched, Started, Creating, HasReq
<1>4. CASE ShareRead
  BY <1>4 DEF ShareRead, ReadyToSend, Callers, TypeOK, Untouched, Started, Creating, HasReq
<1>5. CASE ShareReturn
  BY <1>5, ConstantsAssumption DEF ShareReturn, Idle, Callers, TypeOK, Untouched, Started, Creating, HasReq
<1>6. CASE ShareDelayed
  <2>1. \A t \in left["client"] : Started(t) /\ call[t] # "none" /\ ~Creating(t)
    BY DEF TypeOK, Untouched, Callers, Started, Creating
  <2>2. /\ \A t \in Txs \ left["client"] : req'[t] = req[t] /\ txStatus'[t] = txStatus[t]
        /\ \A t \in left["client"] : txStatus'[t] = "sending"
        /\ revived' \subseteq revived \cup left["client"]
    BY <1>6 DEF ShareDelayed, TypeOK, Callers
  <2>3. \A t \in Txs, p \in Callers : (t \in left'[p] => t \in left[p]) /\ (cur'[p] = t => cur[p] = t)
    BY <1>6, ConstantsAssumption DEF ShareDelayed, Idle, TypeOK
  <2>4. UNCHANGED <<call, ins, mLeft, notify>>
    BY <1>6 DEF ShareDelayed
  <2> QED
    BY <2>1, <2>2, <2>3, <2>4 DEF Untouched, Started, Creating, HasReq
<1>7. CASE ShareNow
  BY <1>7 DEF ShareNow, Callers, TypeOK, Untouched, Started, Creating, HasReq
<1> QED
  BY <1>1, <1>2, <1>3, <1>4, <1>5, <1>6, <1>7 DEF Process

\* So does a post.
LEMMA UntouchedPost ==
    ASSUME TypeOK, Untouched, NEW p \in Callers, Post(p) PROVE Untouched'
<1>1. CASE PostInvalid(p)
  BY <1>1 DEF PostInvalid, TypeOK, Untouched, Started, Creating, HasReq
<1>2. CASE PostSend(p)
  BY <1>2 DEF PostSend, TypeOK, Untouched, Started, Creating, HasReq
<1>3. ASSUME NEW A \in SUBSET Txs, NEW R \in SUBSET left[p], NetReply(p, A, R) PROVE Untouched'
  BY <1>3 DEF NetReply, TypeOK, Untouched, Started, Creating, HasReq
<1>4. ASSUME NEW A \in SUBSET Txs, NetThrow(p, A) PROVE Untouched'
  BY <1>4, ConstantsAssumption DEF NetThrow, Throw, Idle, TypeOK, Untouched, Started, Creating, HasReq
<1>5. ASSUME NEW t \in Txs, WriteReq(p, t) PROVE Untouched'
  BY <1>5, ConstantsAssumption DEF WriteReq, Callers, TypeOK, Untouched, Started, Creating, HasReq
<1>6. ASSUME NEW t \in Txs, WriteTx(p, t) PROVE Untouched'
  BY <1>6, ConstantsAssumption DEF WriteTx, Callers, TypeOK, Untouched, Started, Creating, HasReq
<1>7. ASSUME NEW t \in Txs, WriteTxThrow(p, t) PROVE Untouched'
  BY <1>7, ConstantsAssumption DEF WriteTxThrow, Throw, Idle, TypeOK, Untouched, Started, Creating, HasReq
<1>8. ASSUME NEW t \in Txs, WriteInvalid(p, t) PROVE Untouched'
  BY <1>8 DEF WriteInvalid, TypeOK, Untouched, Started, Creating, HasReq
<1>9. CASE PostReturn(p)
  BY <1>9, ConstantsAssumption DEF PostReturn, Idle, TypeOK, Untouched, Started, Creating, HasReq
<1> QED
  BY <1>1, <1>2, <1>3, <1>4, <1>5, <1>6, <1>7, <1>8, <1>9 DEF Post

\* The tasks list actions that have a req, or that FailAbandoned finds left alone.
LEMMA UntouchedTasks ==
    ASSUME TypeOK, Untouched, Tasks PROVE Untouched'
<1>1. CASE SendWaiting
  BY <1>1 DEF SendWaiting, ReadReqs, TypeOK, Untouched, Started, Creating, HasReq
<1>2. CASE SendLocked
  <2>1. CASE left["monitor"] = {}
    BY <1>2, <2>1, ConstantsAssumption DEF SendLocked, Idle, Callers, TypeOK, Untouched, Started, Creating, HasReq
  <2>2. CASE left["monitor"] # {}
    BY <1>2, <2>2 DEF SendLocked, Untouched, Started, Creating, HasReq
  <2> QED
    BY <2>1, <2>2
<1>3. CASE CheckForProofs
  BY <1>3 DEF CheckForProofs, ReadReqs, ProofStatus, TypeOK, Untouched, Started, Creating, HasReq
<1>4. CASE FailAbandoned
  BY <1>4 DEF FailAbandoned, Abandoned, TypeOK, Untouched, Started, Creating, HasReq
<1>5. CASE TaskReturn
  BY <1>5 DEF TaskReturn, TypeOK, Untouched, Started, Creating, HasReq
<1>6. ASSUME NEW t \in Txs, SendNext(t) PROVE Untouched'
  BY <1>6 DEF SendNext, SendBatch, Consume, Callers, TypeOK, Untouched, Started, Creating, HasReq
<1>7. ASSUME NEW t \in Txs, AlreadyProven(t) PROVE Untouched'
  BY <1>7 DEF AlreadyProven, ProofNext, MayProve, Consume, TypeOK, Untouched, Started, Creating, HasReq
<1>8. ASSUME NEW t \in Txs, ProofAttemptsExceeded(t) PROVE Untouched'
  BY <1>8 DEF ProofAttemptsExceeded, ProofNext, MayProve, Consume, TypeOK, Untouched, Started, Creating, HasReq
<1>9. ASSUME NEW t \in Txs, NEW status \in ProofStatus \cup {"invalid"}, NEW counted \in 0..2, NoProof(t, status, counted)
      PROVE Untouched'
  BY <1>9 DEF NoProof, ProofNext, MayProve, Consume, TypeOK, Untouched, Started, Creating, HasReq
<1>10. ASSUME NEW t \in Txs, ProofFound(t) PROVE Untouched'
  BY <1>10 DEF ProofFound, MayProve, TypeOK, Untouched, Started, Creating, HasReq
<1>11. ASSUME NEW t \in Txs, Notify(t) PROVE Untouched'
  BY <1>11, ConstantsAssumption DEF Notify, StatusRefused, TypeOK, Untouched, Started, Creating, HasReq
<1>12. ASSUME NEW t \in Txs, FailOne(t) PROVE Untouched'
  BY <1>12 DEF FailOne, Fail, TypeOK, Untouched, Started, Creating, HasReq
<1>13. ASSUME NEW t \in Txs, FailOneThrow(t) PROVE Untouched'
  BY <1>13, ConstantsAssumption DEF FailOneThrow, Throw, Idle, TypeOK, Untouched, Started, Creating, HasReq
<1> QED
  BY <1>1, <1>2, <1>3, <1>4, <1>5, <1>6, <1>7, <1>8, <1>9, <1>10, <1>11, <1>12, <1>13 DEF Tasks

LEMMA UntouchedInit == Init => Untouched
<1> SUFFICES ASSUME Init, NEW t \in Txs
             PROVE  /\ call[t] = "none" /\ txStatus[t] = "absent" /\ ins[t] = {}
                    /\ req[t].status = "absent" /\ t \notin revived /\ t \notin mLeft /\ notify # t
                    /\ \A p \in Callers : t \notin left[p] /\ cur[p] # t
  BY DEF Untouched, Started, Creating, HasReq
<1> QED
  BY ConstantsAssumption DEF Init, NoReq, Callers

\* Every step leaves the actions that are being created untouched.
LEMMA UntouchedNext == TypeOK /\ Untouched /\ [Next]_vars => Untouched'
<1> SUFFICES ASSUME TypeOK, Untouched, [Next]_vars PROVE Untouched'
  OBVIOUS
<1>1. ASSUME NEW t \in Txs, Abort(t) PROVE Untouched'
  BY <1>1 DEF Abort, Fail, TypeOK, Untouched, Started, Creating, HasReq
<1>2. ASSUME NEW t \in Txs, NEW A \in SUBSET Txs, Broadcast(t, A) PROVE Untouched'
  BY <1>2 DEF Broadcast, Untouched, Started, Creating, HasReq
<1>3. ASSUME NEW t \in Txs, Mine(t) PROVE Untouched'
  BY <1>3 DEF Mine, Untouched, Started, Creating, HasReq
<1>4. CASE Crash
  BY <1>4, ConstantsAssumption DEF Crash, TypeOK, Untouched, Started, Creating, HasReq
<1>5. CASE UNCHANGED vars
  BY <1>5 DEF vars, Untouched, Started, Creating, HasReq
<1> QED
  BY <1>1, <1>2, <1>3, <1>4, <1>5, UntouchedCreate, UntouchedProcess, UntouchedPost, UntouchedTasks
  DEF Next, World
-----------------------------------------------------------------------------
(* The coins.                                                              *)

coins == <<txStatus, spendable, spentBy, ins, history>>

\* The steps that change anything the properties of the coins are about.
CoinStep ==
    \/ \E t \in Txs : \E o \in Outputs :
          AllocateNoSendChange(t, o) \/ Allocate(t, o) \/ Release(t, o) \/ MarkNamed(t, o)
    \/ \E t \in Txs : \E X, C \in SUBSET (Outputs \ {t}), isNoSend \in BOOLEAN :
          CreateBegin(t, X, C, isNoSend)
    \/ \E t \in Txs : Commit(t) \/ Abort(t) \/ FailOne(t)
    \/ \E t \in Txs, p \in Callers : WriteTx(p, t)
    \/ ShareDelayed

LEMMA CoinSteps ==
    ASSUME TypeOK, [Next]_vars
    PROVE  UNCHANGED coins \/ CoinStep
<1>1. ASSUME NEW t \in Txs, Create(t) PROVE UNCHANGED coins \/ CoinStep
  <2>1. ASSUME Funded(t) \/ CreateReturn(t) \/ CreateThrow(t) PROVE UNCHANGED coins
    BY <2>1 DEF coins, Funded, CreateReturn, CreateThrow
  <2> QED
    BY <1>1, <2>1 DEF Create, CoinStep
<1>2. ASSUME Process PROVE UNCHANGED coins \/ CoinStep
  <2>1. ASSUME NEW t \in Txs, NEW m \in Modes, NEW S, ProcessBegin(t, m, S) PROVE UNCHANGED coins
    BY <2>1 DEF coins, ProcessBegin
  <2>2. ASSUME NEW m \in Modes, NEW S, SendWith(m, S) PROVE UNCHANGED coins
    BY <2>2 DEF coins, SendWith
  <2>3. ASSUME ShareRead \/ ShareReturn \/ ShareNow PROVE UNCHANGED coins
    BY <2>3 DEF coins, ShareRead, ShareReturn, ShareNow
  <2> QED
    BY <1>2, <2>1, <2>2, <2>3 DEF Process, CoinStep
<1>3. ASSUME NEW p \in Callers, Post(p) PROVE UNCHANGED coins \/ CoinStep
  <2>1. ASSUME PostInvalid(p) \/ PostSend(p) \/ PostReturn(p) PROVE UNCHANGED coins
    BY <2>1 DEF coins, PostInvalid, PostSend, PostReturn
  <2>2. ASSUME NEW A, NEW R, NetReply(p, A, R) \/ NetThrow(p, A) PROVE UNCHANGED coins
    BY <2>2 DEF coins, NetReply, NetThrow
  <2>3. ASSUME NEW t \in Txs, WriteReq(p, t) \/ WriteTxThrow(p, t) \/ WriteInvalid(p, t)
        PROVE UNCHANGED coins
    BY <2>3 DEF coins, WriteReq, WriteTxThrow, WriteInvalid
  <2> QED
    BY <1>3, <2>1, <2>2, <2>3 DEF Post, CoinStep
<1>4. ASSUME Tasks PROVE UNCHANGED coins \/ CoinStep
  <2>1. ASSUME SendWaiting \/ SendLocked \/ CheckForProofs \/ FailAbandoned \/ TaskReturn
        PROVE UNCHANGED coins
    BY <2>1 DEF coins, SendWaiting, SendLocked, CheckForProofs, FailAbandoned, TaskReturn, ReadReqs
  <2>2. ASSUME NEW t \in Txs, NEW status, NEW counted,
               \/ SendNext(t) \/ AlreadyProven(t) \/ ProofAttemptsExceeded(t)
               \/ NoProof(t, status, counted) \/ ProofFound(t) \/ FailOneThrow(t)
        PROVE UNCHANGED coins
    BY <2>2 DEF coins, SendNext, AlreadyProven, ProofAttemptsExceeded, NoProof, ProofFound, FailOneThrow
  <2>3. ASSUME NEW t \in Txs, Notify(t) PROVE UNCHANGED coins
    BY <2>3 DEF coins, Notify, StatusRefused, TypeOK
  <2> QED
    BY <1>4, <2>1, <2>2, <2>3 DEF Tasks, CoinStep
<1>5. ASSUME World PROVE UNCHANGED coins
  BY <1>5 DEF coins, World, Broadcast, Mine, Crash
<1>6. ASSUME UNCHANGED vars PROVE UNCHANGED coins
  BY <1>6 DEF coins, vars
<1>7. ASSUME NEW t \in Txs, Abort(t) PROVE CoinStep
  BY <1>7 DEF CoinStep
<1> QED
  BY <1>1, <1>2, <1>3, <1>4, <1>5, <1>6, <1>7 DEF Next

\* An action that locks an output is not failed, because it is being created.
LEMMA FailedHoldsNothingNext ==
    TypeOK /\ Untouched /\ FailedHoldsNothing /\ [Next]_vars => FailedHoldsNothing'
<1> SUFFICES ASSUME TypeOK, Untouched, FailedHoldsNothing, [Next]_vars PROVE FailedHoldsNothing'
  OBVIOUS
<1>1. CASE UNCHANGED coins
  BY <1>1 DEF coins, FailedHoldsNothing
<1>2. ASSUME NEW t \in Txs, NEW o \in Outputs,
             AllocateNoSendChange(t, o) \/ Allocate(t, o) \/ MarkNamed(t, o)
      PROVE FailedHoldsNothing'
  <2>1. Lock(t, o) /\ txStatus' = txStatus /\ txStatus[t] # "failed"
    BY <1>2 DEF AllocateNoSendChange, Allocate, MarkNamed, Untouched, Creating
  <2> QED
    BY <2>1 DEF Lock, TypeOK, FailedHoldsNothing
<1>3. ASSUME NEW t \in Txs, NEW o \in Outputs, Release(t, o) PROVE FailedHoldsNothing'
  BY <1>3, ConstantsAssumption DEF Release, TypeOK, FailedHoldsNothing
<1>4. ASSUME NEW t \in Txs, NEW X, NEW C, NEW isNoSend, CreateBegin(t, X, C, isNoSend) PROVE FailedHoldsNothing'
  BY <1>4 DEF CreateBegin, TypeOK, FailedHoldsNothing
<1>5. ASSUME NEW t \in Txs, Commit(t) PROVE FailedHoldsNothing'
  BY <1>5 DEF Commit, CommitTxStatus, TypeOK, FailedHoldsNothing
<1>6. ASSUME NEW t \in Txs, Abort(t) \/ FailOne(t) PROVE FailedHoldsNothing'
  <2>1. Fail(t)
    BY <1>6 DEF Abort, FailOne
  <2> QED
    BY <2>1, ConstantsAssumption DEF Fail, TypeOK, FailedHoldsNothing
<1>7. ASSUME NEW t \in Txs, NEW p \in Callers, WriteTx(p, t) PROVE FailedHoldsNothing'
  BY <1>7 DEF WriteTx, TypeOK, FailedHoldsNothing
<1>8. CASE ShareDelayed
  BY <1>8 DEF ShareDelayed, TypeOK, FailedHoldsNothing
<1> QED
  BY <1>1, <1>2, <1>3, <1>4, <1>5, <1>6, <1>7, <1>8, CoinSteps DEF CoinStep

\* One live action at most holds an output that nobody has overwritten, and what
\* an action being created releases is its own.
LEMMA InputsHeldNext ==
    TypeOK /\ Untouched /\ InputsHeld /\ [Next]_vars => InputsHeld'
<1> SUFFICES ASSUME TypeOK, Untouched, InputsHeld, [Next]_vars PROVE InputsHeld'
  OBVIOUS
<1>1. CASE UNCHANGED coins
  BY <1>1 DEF coins, InputsHeld, Live
<1>2. ASSUME NEW t \in Txs, NEW o \in Outputs,
             AllocateNoSendChange(t, o) \/ Allocate(t, o) \/ MarkNamed(t, o)
      PROVE InputsHeld'
  <2>1. /\ Lock(t, o) /\ ins' = [ins EXCEPT ![t] = @ \cup {o}]
        /\ UNCHANGED <<txStatus, revived, reopened>>
    BY <1>2 DEF AllocateNoSendChange, Allocate, MarkNamed
  <2> QED
    BY <2>1, ConstantsAssumption DEF Lock, TypeOK, InputsHeld, Live
<1>3. ASSUME NEW t \in Txs, NEW o \in Outputs, Release(t, o) PROVE InputsHeld'
  <2>1. Live(t) /\ t \notin revived
    BY <1>3 DEF Release, Untouched, Started, Creating, Live
  <2> QED
    BY <1>3, <2>1 DEF Release, TypeOK, InputsHeld, Live
<1>4. ASSUME NEW t \in Txs, NEW X, NEW C, NEW isNoSend, CreateBegin(t, X, C, isNoSend) PROVE InputsHeld'
  BY <1>4 DEF CreateBegin, Untouched, TypeOK, InputsHeld, Live
<1>5. ASSUME NEW t \in Txs, Commit(t) PROVE InputsHeld'
  <2>1. txStatus[t] # "absent"
    BY <1>5 DEF Commit, Callers, Untouched, Started
  <2> QED
    BY <1>5, <2>1, ConstantsAssumption DEF Commit, TypeOK, InputsHeld, Live
<1>6. ASSUME NEW t \in Txs, Abort(t) \/ FailOne(t) PROVE InputsHeld'
  <2>1. Fail(t) /\ UNCHANGED <<ins, history>>
    BY <1>6 DEF Abort, FailOne
  <2> QED
    BY <2>1 DEF Fail, TypeOK, InputsHeld, Live
<1>7. ASSUME NEW t \in Txs, NEW p \in Callers, WriteTx(p, t) PROVE InputsHeld'
  <2>1. Live(t)
    BY <1>7 DEF WriteTx, StatusRefused, Callers, Untouched, Started, Live
  <2> QED
    BY <1>7, <2>1 DEF WriteTx, TypeOK, InputsHeld, Live
<1>8. CASE ShareDelayed
  <2>1. \A t \in left["client"] : txStatus[t] # "absent"
    BY DEF TypeOK, Callers, Untouched, Started
  <2> QED
    BY <1>8, <2>1 DEF ShareDelayed, TypeOK, InputsHeld, Live
<1> QED
  BY <1>1, <1>2, <1>3, <1>4, <1>5, <1>6, <1>7, <1>8, CoinSteps DEF CoinStep

\* A failed action holds no output, in the manager's hands or not.
THEOREM FailedReleased == Spec => []FailedHoldsNothing
<1>1. Init => FailedHoldsNothing
  BY ConstantsAssumption DEF Init, FailedHoldsNothing
<1> QED
  BY <1>1, TypeCorrect, UntouchedInit, UntouchedNext, FailedHoldsNothingNext, PTL DEF Spec

\* The inputs of a live action are held by it.
THEOREM LiveHoldsInputs == Spec => []InputsHeld
<1>1. Init => InputsHeld
  BY DEF Init, InputsHeld
<1> QED
  BY <1>1, TypeCorrect, UntouchedInit, UntouchedNext, InputsHeldNext, PTL DEF Spec
-----------------------------------------------------------------------------
(* What is offered for spending.                                           *)

\* The steps that change an output keep its two columns together.
LEMMA SpendableIsFreeNext ==
    TypeOK /\ SpendableIsFree /\ [Next]_vars => SpendableIsFree'
<1> SUFFICES ASSUME TypeOK, SpendableIsFree, [Next]_vars PROVE SpendableIsFree'
  OBVIOUS
<1>1. CASE UNCHANGED <<spendable, spentBy, reopened>>
  BY <1>1 DEF SpendableIsFree
<1>2. ASSUME NEW t \in Txs, NEW o \in Outputs,
             AllocateNoSendChange(t, o) \/ Allocate(t, o) \/ MarkNamed(t, o)
      PROVE SpendableIsFree'
  BY <1>2 DEF AllocateNoSendChange, Allocate, MarkNamed, Lock, TypeOK, SpendableIsFree
<1>3. ASSUME NEW t \in Txs, NEW o \in Outputs, Release(t, o) PROVE SpendableIsFree'
  <2>1. CASE o \in noSendChange[t]
    BY <1>1, <1>3, <2>1 DEF Release
  <2>2. CASE o \notin noSendChange[t]
    BY <1>3, <2>2 DEF Release, TypeOK, SpendableIsFree
  <2> QED
    BY <2>1, <2>2
<1>4. ASSUME NEW t \in Txs, Commit(t) PROVE SpendableIsFree'
  BY <1>4 DEF Commit, TypeOK, SpendableIsFree
<1>5. ASSUME NEW t \in Txs, Abort(t) \/ FailOne(t) PROVE SpendableIsFree'
  <2>1. Fail(t) /\ reopened' = reopened
    BY <1>5 DEF Abort, FailOne
  <2> QED
    BY <2>1 DEF Fail, TypeOK, SpendableIsFree
<1>6. ASSUME NEW t \in Txs, NEW X, NEW C, NEW isNoSend, NEW p,
             CreateBegin(t, X, C, isNoSend) \/ WriteTx(p, t) \/ ShareDelayed
      PROVE UNCHANGED <<spendable, spentBy, reopened>>
  BY <1>6 DEF CreateBegin, WriteTx, ShareDelayed
<1>7. CASE UNCHANGED coins
  BY <1>1, <1>7 DEF coins
<1>8. CASE ShareDelayed
  BY <1>1, <1>8 DEF ShareDelayed
<1> QED
  BY <1>1, <1>2, <1>3, <1>4, <1>5, <1>6, <1>7, <1>8, CoinSteps DEF CoinStep

\* One createAction call is under way.  It has no noSendChange; what it was told to
\* spend is free, or held by it already, or was offered again by a second commit.
Alone ==
    /\ \A t, u \in Txs : Creating(t) /\ Creating(u) => t = u
    /\ \A t \in Txs : Creating(t) =>
          /\ noSendChange[t] = {}
          /\ \A o \in named[t] \ reopened : spentBy[o] \in {None, t}
    /\ overwritten \subseteq reopened

\* With the manager's locks, and where no action is noSend.
LEMMA AloneNext ==
    ASSUME Managed, "nosend" \notin Modes, TypeOK, SpendableIsFree, Alone, [Next]_vars
    PROVE  Alone'
<1>1. ASSUME NEW t \in Txs, Create(t) PROVE Alone'
  <2>1. ASSUME NEW X \in SUBSET (Outputs \ {t}), NEW C \in SUBSET (Outputs \ {t}), NEW isNoSend \in BOOLEAN,
               CreateBegin(t, X, C, isNoSend)
        PROVE Alone'
    <3>1. /\ \A u \in Txs : ~Creating(u)
          /\ C = {}
          /\ \A o \in X : spendable[o]
      BY <2>1 DEF CreateBegin, ClientMayStart, ClientBusy, ValidInputs
    <3>2. \A o \in X \ reopened : spentBy[o] = None
      BY <3>1 DEF SpendableIsFree
    <3> QED
      BY <2>1, <3>1, <3>2 DEF CreateBegin, TypeOK, Alone, Creating
  <2>2. ASSUME NEW o \in Outputs, AllocateNoSendChange(t, o) PROVE FALSE
    BY <2>2 DEF AllocateNoSendChange, Alone, Creating
  <2>3. ASSUME NEW o \in Outputs, Allocate(t, o) PROVE Alone'
    <3>1. Creating(t) /\ (o \in reopened \/ spentBy[o] = None)
      BY <2>3 DEF Allocate, Allocatable, SpendableIsFree, Creating
    <3>2. /\ overwritten' \subseteq overwritten \cup reopened
          /\ \A x \in Outputs \ {o} : spentBy'[x] = spentBy[x]
          /\ spentBy'[o] = t
          /\ UNCHANGED <<call, named, noSendChange, reopened>>
      BY <2>3, <3>1 DEF Allocate, Lock, TypeOK
    <3> QED
      BY <3>1, <3>2 DEF TypeOK, Alone, Creating
  <2>4. ASSUME NEW o \in Outputs, Release(t, o) PROVE Alone'
    BY <2>4 DEF Release, TypeOK, Alone, Creating
  <2>5. ASSUME NEW o \in Outputs, MarkNamed(t, o) PROVE Alone'
    <3>1. Creating(t) /\ (o \in reopened \/ spentBy[o] \in {None, t})
      BY <2>5 DEF MarkNamed, Alone, Creating
    <3>2. /\ overwritten' \subseteq overwritten \cup reopened
          /\ \A x \in Outputs \ {o} : spentBy'[x] = spentBy[x]
          /\ spentBy'[o] = t
          /\ \A u \in Txs : named'[u] \subseteq named[u]
          /\ UNCHANGED <<call, noSendChange, reopened>>
      BY <2>5, <3>1 DEF MarkNamed, Lock, TypeOK
    <3> QED
      BY <3>1, <3>2 DEF TypeOK, Alone, Creating
  <2>6. ASSUME Funded(t) \/ CreateReturn(t) \/ CreateThrow(t) PROVE Alone'
    <3>1. /\ \A u \in Txs : /\ Creating(u)' => Creating(u)
                          /\ named'[u] \subseteq named[u]
                          /\ noSendChange'[u] \subseteq noSendChange[u]
          /\ UNCHANGED <<spentBy, history>>
      BY <2>6 DEF Funded, CreateReturn, CreateThrow, TypeOK, Creating
    <3> QED
      BY <3>1 DEF Alone
  <2> QED
    BY <1>1, <2>1, <2>2, <2>3, <2>4, <2>5, <2>6 DEF Create
<1>2. ASSUME NEW t \in Txs, Abort(t) \/ FailOne(t) PROVE Alone'
  <2>1. Fail(t) /\ UNCHANGED <<creating, history>>
    BY <1>2 DEF Abort, FailOne
  <2> QED
    BY <2>1 DEF Fail, TypeOK, Alone, Creating
<1>3. ASSUME NEW t \in Txs, Commit(t) PROVE Alone'
  BY <1>3 DEF Commit, Alone, Creating
<1>4. CASE Crash
  BY <1>4 DEF Crash, TypeOK, Alone, Creating
<1>5. CASE UNCHANGED <<spentBy, call, named, noSendChange, overwritten, reopened>>
  BY <1>5 DEF Alone, Creating
<1>6. CASE ShareDelayed
  BY <1>5, <1>6 DEF ShareDelayed
<1>7. ASSUME NEW t \in Txs, NEW p \in Callers, WriteTx(p, t) PROVE Alone'
  BY <1>5, <1>7 DEF WriteTx
<1>8. ASSUME UNCHANGED <<coins, creating>> PROVE Alone'
  BY <1>5, <1>8 DEF coins
<1>9. \/ \E t \in Txs : Create(t)
      \/ Crash
      \/ UNCHANGED creating
  <2>1. ASSUME Process PROVE UNCHANGED creating
    BY <2>1 DEF Process, ProcessBegin, Commit, SendWith, ShareRead, ShareReturn, ShareDelayed, ShareNow
  <2>2. ASSUME NEW p \in Callers, Post(p) PROVE UNCHANGED creating
    BY <2>2 DEF Post, PostInvalid, PostSend, NetReply, NetThrow, WriteReq, WriteTx, WriteTxThrow, WriteInvalid,
                PostReturn
  <2>3. ASSUME Tasks PROVE UNCHANGED creating
    <3>1. ASSUME SendWaiting \/ CheckForProofs \/ SendLocked \/ FailAbandoned \/ TaskReturn
          PROVE UNCHANGED creating
      BY <3>1 DEF SendWaiting, CheckForProofs, ReadReqs, SendLocked, FailAbandoned, TaskReturn
    <3>2. ASSUME NEW t \in Txs, NEW status, NEW counted,
                 \/ SendNext(t) \/ AlreadyProven(t) \/ ProofAttemptsExceeded(t) \/ NoProof(t, status, counted)
                 \/ ProofFound(t) \/ Notify(t) \/ FailOne(t) \/ FailOneThrow(t)
          PROVE UNCHANGED creating
      BY <3>2 DEF SendNext, AlreadyProven, ProofAttemptsExceeded, NoProof, ProofFound, Notify, FailOne, FailOneThrow
    <3> QED
      BY <2>3, <3>1, <3>2 DEF Tasks
  <2>4. ASSUME NEW t \in Txs, NEW A, Broadcast(t, A) \/ Mine(t) \/ Abort(t) PROVE UNCHANGED creating
    BY <2>4 DEF Broadcast, Mine, Abort
  <2>5. ASSUME UNCHANGED vars PROVE UNCHANGED creating
    BY <2>5 DEF vars
  <2> QED
    BY <2>1, <2>2, <2>3, <2>4, <2>5 DEF Next, World
<1> QED
  <2>1. CASE UNCHANGED creating
    <3>1. UNCHANGED coins \/ CoinStep
      BY CoinSteps
    <3>2. CASE CoinStep
      BY <1>1, <1>2, <1>3, <1>6, <1>7, <3>2 DEF CoinStep, Create
    <3> QED
      BY <1>8, <2>1, <3>1, <3>2
  <2> QED
    BY <1>1, <1>4, <1>9, <2>1

\* What is offered for spending has no recorded spender, with the manager's locks or
\* without them.
THEOREM OfferedIsFree == Spec => []SpendableIsFree
<1>1. Init => SpendableIsFree
  BY DEF Init, SpendableIsFree
<1> QED
  BY <1>1, TypeCorrect, SpendableIsFreeNext, PTL DEF Spec

\* With the manager's locks, where no action is noSend, none takes another one's input.
THEOREM NothingTaken == ASSUME Managed PROVE Spec => []NoOverwrite
<1>1. CASE "nosend" \in Modes
  <2>1. TypeOK => NoOverwrite
    BY <1>1 DEF NoOverwrite
  <2> QED
    BY <2>1, TypeCorrect, PTL
<1>2. CASE "nosend" \notin Modes
  <2>1. Init => Alone
    BY <1>2 DEF Init, Alone, Creating
  <2>2. TypeOK /\ SpendableIsFree /\ Alone /\ [Next]_vars => Alone'
    BY <1>2, AloneNext
  <2>3. Alone => NoOverwrite
    BY DEF Alone, NoOverwrite
  <2> QED
    BY <2>1, <2>2, <2>3, TypeCorrect, OfferedIsFree, PTL DEF Spec
<1> QED
  BY <1>1, <1>2
-----------------------------------------------------------------------------
(***************************************************************************)
(* The rows that are read and written back.  Known says that they were     *)
(* read from reqs that exist, so that only a commit gives an action its    *)
(* outpoint and no coin is lost; ClaimsTrue that they make no claim that   *)
(* the network has not confirmed.  With the manager's locks, Exclusive,    *)
(* Statuses and ProofsKept say that what was read is still so when it is   *)
(* written, so that nothing that was sent or proven is undone.             *)
(***************************************************************************)

\* Rows that will be written back, and the reqs they will be written to, exist.
Known ==
    /\ \A p \in Callers : \A t \in left[p] :
          /\ HasReq(t) \/ (stage[p] = "commit" /\ cur[p] = t)
          /\ stage[p] \notin {"commit", "share"} => seen[p][t].status # "absent"
    /\ stage["monitor"] # "idle" => task = "send"
    /\ task \in {"send", "proof"} => \A t \in mLeft : HasReq(t) /\ mSeen[t].status # "absent"
    /\ notify # None =>
          /\ task = "proof" /\ notify \notin mLeft
          /\ HasReq(notify) /\ mSeen[notify].status # "absent"
-----------------------------------------------------------------------------
(* The rows.                                                               *)

rows == <<req, stage, left, seen, cur, task, mLeft, mSeen, notify>>

\* No action is given a req but by the commit of its transaction, and none loses it.
ReqsKept == \A t \in Txs : /\ HasReq(t) => HasReq(t)'
                           /\ HasReq(t)' => HasReq(t) \/ Commit(t)

\* Knowing this of a step, only what the step does to the rows in memory is left.
LEMMA KnownProcess ==
    ASSUME TypeOK, Known, Process PROVE Known' /\ ReqsKept
<1>1. ASSUME NEW t \in Txs, NEW m \in Modes, NEW S \in SUBSET (Committed \ {t}), ProcessBegin(t, m, S)
      PROVE Known' /\ ReqsKept
  BY <1>1 DEF ProcessBegin, Committed, Callers, TypeOK, Known, ReqsKept, HasReq
<1>2. ASSUME NEW t \in Txs, Commit(t) PROVE Known' /\ ReqsKept
  <2>1. /\ HasReq(t)'
        /\ \A u \in Txs \ {t} : req'[u] = req[u]
        /\ HasReq(t) => req'[t] = req[t]
    BY <1>2 DEF Commit, CommitReqStatus, NoReq, HasReq, TypeOK
  <2>2. ReqsKept
    BY <1>2, <2>1 DEF ReqsKept, HasReq
  <2>3. (\A u \in Txs : HasReq(u) => HasReq(u)') /\ UNCHANGED monitor
    BY <1>2, <2>2 DEF ReqsKept, Commit
  <2>4. CASE left["client"] = {}
    <3>1. Idle("client")
      BY <1>2, <2>4 DEF Commit
    <3> QED
      BY <2>2, <2>3, <3>1 DEF Idle, Callers, TypeOK, Known
  <2>5. CASE left["client"] # {}
    <3>1. /\ stage' = [stage EXCEPT !["client"] = "share"]
          /\ cur' = [cur EXCEPT !["client"] = None]
          /\ UNCHANGED <<left, seen>>
      BY <1>2, <2>5 DEF Commit
    <3>2. \A u \in left["client"] : HasReq(u)'
      BY <1>2, <2>1, <2>3 DEF Commit, Callers, TypeOK, Known
    <3> QED
      BY <2>2, <2>3, <3>1, <3>2 DEF Callers, TypeOK, Known
  <2> QED
    BY <2>4, <2>5
<1>3. ASSUME NEW m \in Modes, NEW S \in SUBSET Committed, SendWith(m, S) PROVE Known' /\ ReqsKept
  BY <1>3 DEF SendWith, Committed, Callers, TypeOK, Known, ReqsKept, HasReq
<1>4. CASE ShareRead
  BY <1>4 DEF ShareRead, ReadyToSend, ReadyToSendStatus, Rows, Callers, TypeOK, Known, ReqsKept, HasReq
<1>5. CASE ShareReturn
  BY <1>5, ConstantsAssumption DEF ShareReturn, Idle, Callers, TypeOK, Known, ReqsKept, HasReq
<1>6. CASE ShareDelayed
  <2>0. left["client"] \in SUBSET Txs /\ stage["client"] = "ready"
    BY <1>6 DEF ShareDelayed, Callers, TypeOK
  <2>1. /\ \A t \in left["client"] : HasReq(t) /\ req'[t].status = "unsent"
        /\ \A t \in Txs \ left["client"] : req'[t] = req[t]
        /\ Idle("client") /\ UNCHANGED monitor
    <3>1. \A t \in left["client"] : HasReq(t)
      BY <2>0 DEF Callers, Known
    <3>2. \A t \in left["client"] : req'[t] = [req[t] EXCEPT !.status = "unsent", !.batch = group]
      BY <1>6, <2>0 DEF ShareDelayed
    <3>3. ASSUME NEW t \in left["client"] PROVE req'[t].status = "unsent"
      <4>1. req[t] \in Req
        BY <2>0 DEF TypeOK
      <4> QED
        BY <3>2, <4>1 DEF Req
    <3>4. \A t \in Txs \ left["client"] : req'[t] = req[t]
      BY <1>6, <2>0 DEF ShareDelayed
    <3>5. Idle("client") /\ UNCHANGED monitor
      BY <1>6 DEF ShareDelayed
    <3> QED
      BY <3>1, <3>3, <3>4, <3>5
  <2>2. ReqsKept
    BY <2>1 DEF ReqsKept, HasReq
  <2> QED
    BY <2>1, <2>2 DEF Idle, Callers, TypeOK, Known, ReqsKept
<1>7. CASE ShareNow
  <2>1. \A t \in Txs : req'[t].status = req[t].status /\ seen'["client"][t].status = seen["client"][t].status
    BY <1>7 DEF ShareNow, Callers, TypeOK, Req
  <2>2. seen'["monitor"] = seen["monitor"]
    BY <1>7 DEF ShareNow, Callers, TypeOK
  <2> QED
    BY <1>7, <2>1, <2>2 DEF ShareNow, Callers, TypeOK, Known, ReqsKept, HasReq
<1> QED
  BY <1>1, <1>2, <1>3, <1>4, <1>5, <1>6, <1>7 DEF Process

\* A posted row is written back with the status of a req.
LEMMA KnownPost ==
    ASSUME TypeOK, Known, NEW p \in Callers, Post(p) PROVE Known' /\ ReqsKept
<1>1. CASE PostInvalid(p)
  BY <1>1 DEF PostInvalid, TypeOK, Known, ReqsKept, HasReq
<1>2. CASE PostSend(p)
  BY <1>2 DEF PostSend, TypeOK, Known, ReqsKept, HasReq
<1>3. ASSUME NEW A \in SUBSET Txs, NEW R \in SUBSET left[p], NetReply(p, A, R) PROVE Known' /\ ReqsKept
  <2>1. \A q \in Callers, t \in Txs : seen'[q][t].status = seen[q][t].status
    BY <1>3 DEF NetReply, TypeOK, Req
  <2> QED
    BY <1>3, <2>1 DEF NetReply, TypeOK, Known, ReqsKept, HasReq
<1>4. ASSUME Throw(p), req' = req, p = "monitor" => notify = None PROVE Known' /\ ReqsKept
  BY <1>4, ConstantsAssumption DEF Throw, Idle, Callers, TypeOK, Known, ReqsKept, HasReq
<1>5. ASSUME NEW A \in SUBSET Txs, NetThrow(p, A) PROVE Known' /\ ReqsKept
  BY <1>4, <1>5 DEF NetThrow, Known
<1>6. ASSUME NEW t \in Txs, WriteReq(p, t) PROVE Known' /\ ReqsKept
  <2>1. req'[t].status # "absent" /\ \A u \in Txs \ {t} : req'[u] = req[u]
    BY <1>6 DEF WriteReq, PostedStatus, UpdateDynamics, TypeOK, Known
  <2>2. HasReq(t)
    BY <1>6 DEF WriteReq, Known
  <2>3. ReqsKept
    BY <2>1, <2>2 DEF ReqsKept, HasReq
  <2> QED
    BY <1>6, <2>3, ConstantsAssumption DEF WriteReq, Callers, TypeOK, Known, ReqsKept
<1>7. ASSUME NEW t \in Txs, WriteTx(p, t) PROVE Known' /\ ReqsKept
  BY <1>7, ConstantsAssumption DEF WriteTx, Callers, TypeOK, Known, ReqsKept, HasReq
<1>8. ASSUME NEW t \in Txs, WriteTxThrow(p, t) PROVE Known' /\ ReqsKept
  BY <1>4, <1>8 DEF WriteTxThrow, Known
<1>9. ASSUME NEW t \in Txs, WriteInvalid(p, t) PROVE Known' /\ ReqsKept
  <2>1. req'[t].status # "absent" /\ \A u \in Txs \ {t} : req'[u] = req[u]
    BY <1>9 DEF WriteInvalid, UpdateDynamics, TypeOK
  <2>2. HasReq(t)
    BY <1>9 DEF WriteInvalid, Known
  <2>3. ReqsKept
    BY <2>1, <2>2 DEF ReqsKept, HasReq
  <2> QED
    BY <1>9, <2>3, ConstantsAssumption DEF WriteInvalid, Callers, TypeOK, Known, ReqsKept
<1>10. CASE PostReturn(p)
  BY <1>10, ConstantsAssumption DEF PostReturn, Idle, Callers, TypeOK, Known, ReqsKept, HasReq
<1> QED
  BY <1>1, <1>2, <1>3, <1>5, <1>6, <1>7, <1>8, <1>9, <1>10 DEF Post

\* A task lists reqs that exist and writes them back with a status of theirs.
LEMMA KnownTasks ==
    ASSUME TypeOK, Known, Tasks PROVE Known' /\ ReqsKept
<1>1. ASSUME NEW name, NEW S \in SUBSET Committed, ReadReqs(name, S) PROVE Known' /\ ReqsKept
  BY <1>1 DEF ReadReqs, Rows, Committed, TypeOK, Known, ReqsKept, HasReq
<1>0. ASSUME SendWaiting \/ CheckForProofs PROVE Known' /\ ReqsKept
  BY <1>0, <1>1 DEF SendWaiting, CheckForProofs, ProofStatus, Committed, HasReq
<1>2. CASE SendLocked
  <2>1. CASE left["monitor"] = {}
    BY <1>2, <2>1, ConstantsAssumption DEF SendLocked, Idle, Callers, TypeOK, Known, ReqsKept, HasReq
  <2>2. CASE left["monitor"] # {}
    BY <1>2, <2>2 DEF SendLocked, Callers, TypeOK, Known, ReqsKept, HasReq
  <2> QED
    BY <2>1, <2>2
<1>3. CASE FailAbandoned
  BY <1>3 DEF FailAbandoned, TypeOK, Known, ReqsKept, HasReq
<1>4. CASE TaskReturn
  BY <1>4 DEF TaskReturn, TypeOK, Known, ReqsKept, HasReq
<1>5. ASSUME NEW t \in Txs, SendNext(t) PROVE Known' /\ ReqsKept
  <2>1. HasReq(t) /\ mSeen[t].status # "absent" /\ task = "send" /\ notify = None
    BY <1>5 DEF SendNext, Known
  <2>2. /\ stage' = [stage EXCEPT !["monitor"] = "ready"]
        /\ left' = [left EXCEPT !["monitor"] = SendBatch(t)]
        /\ mLeft' = mLeft \ {t} /\ mSeen' = [mSeen EXCEPT ![t] = NoReq]
        /\ UNCHANGED <<req, cur, task, notify>>
    BY <1>5 DEF SendNext, Consume
  <2>3. \A u \in SendBatch(t) : u \in Txs /\ HasReq(u)
    BY <2>1 DEF SendBatch, HasReq
  <2>4. seen'["client"] = seen["client"] /\ \A u \in SendBatch(t) : seen'["monitor"][u].status # "absent"
    <3>1. CASE mSeen[t].batch = {}
      BY <1>5, <2>1, <3>1 DEF SendNext, SendBatch, Rows, Callers, TypeOK
    <3>2. CASE mSeen[t].batch # {}
      BY <1>5, <2>3, <3>2 DEF SendNext, Rows, HasReq, Callers, TypeOK
    <3> QED
      BY <3>1, <3>2
  <2> QED
    BY <2>1, <2>2, <2>3, <2>4 DEF Callers, TypeOK, Known, ReqsKept, HasReq
<1>6. ASSUME NEW t \in Txs,
             \/ AlreadyProven(t)
             \/ ProofAttemptsExceeded(t)
             \/ \E status \in ProofStatus \cup {"invalid"}, counted \in 0..2 : NoProof(t, status, counted)
      PROVE Known' /\ ReqsKept
  <2>1. HasReq(t) /\ mSeen[t].status # "absent" /\ notify = None /\ ProofNext(t)
    BY <1>6 DEF AlreadyProven, ProofAttemptsExceeded, NoProof, ProofNext, MayProve, Known
  <2>2. req'[t].status # "absent" /\ \A u \in Txs \ {t} : req'[u] = req[u]
    <3>1. \E status \in ReqStatus \ {"absent"}, counted \in Nat :
            req' = [req EXCEPT ![t] = UpdateDynamics(@, [mSeen[t] EXCEPT !.status = status, !.attempts = counted])]
      <4>1. mSeen[t] \in Req
        BY DEF TypeOK
      <4>2. CASE AlreadyProven(t)
        <5>1. [mSeen[t] EXCEPT !.status = "completed"]
                = [mSeen[t] EXCEPT !.status = "completed", !.attempts = mSeen[t].attempts]
          BY <4>1 DEF Req
        <5> QED
          BY <4>1, <4>2, <5>1 DEF AlreadyProven, ReqStatus, Req
      <4>3. CASE ProofAttemptsExceeded(t)
        <5>1. [mSeen[t] EXCEPT !.status = "invalid"]
                = [mSeen[t] EXCEPT !.status = "invalid", !.attempts = mSeen[t].attempts]
          BY <4>1 DEF Req
        <5> QED
          BY <4>1, <4>3, <5>1 DEF ProofAttemptsExceeded, ReqStatus, Req
      <4>4. ASSUME NEW status, NEW counted \in 0..2, NoProof(t, status, counted)
            PROVE  \E s \in ReqStatus \ {"absent"}, c \in Nat :
                     req' = [req EXCEPT ![t] = UpdateDynamics(@, [mSeen[t] EXCEPT !.status = s, !.attempts = c])]
        <5>1. status \in ReqStatus \ {"absent"} /\ mSeen[t].attempts + counted \in Nat
          BY <2>1, <4>1, <4>4 DEF NoProof, ReqStatus, Req
        <5> QED
          BY <4>4, <5>1 DEF NoProof
      <4> QED
        BY <1>6, <4>2, <4>3, <4>4
    <3> QED
      BY <3>1 DEF UpdateDynamics, TypeOK, Req
  <2>3. ReqsKept
    BY <2>1, <2>2 DEF ReqsKept, HasReq
  <2>4. UNCHANGED <<posting, task, notify>>
    BY <1>6 DEF AlreadyProven, ProofAttemptsExceeded, NoProof
  <2> QED
    BY <2>1, <2>3, <2>4 DEF ProofNext, Consume, TypeOK, Known, ReqsKept
<1>7. ASSUME NEW t \in Txs, ProofFound(t) PROVE Known' /\ ReqsKept
  <2>1. HasReq(t) /\ task = "proof" /\ notify = None
    BY <1>7 DEF ProofFound, MayProve, Known
  <2>2. ProvenRow(req[t]).status = "completed"
    BY DEF ProvenRow, TypeOK, Req
  <2>3. req'[t].status # "absent" /\ \A u \in Txs \ {t} : req'[u] = req[u]
    BY <1>7, <2>1, <2>2 DEF ProofFound, TypeOK, HasReq
  <2>4. ReqsKept
    BY <2>1, <2>3 DEF ReqsKept, HasReq
  <2>5. /\ \A u \in Txs \ {t} : mSeen'[u] = mSeen[u]
        /\ notify' # None => notify' = t /\ mSeen'[t].status # "absent"
        /\ mLeft' = mLeft \ {t} /\ task' = task /\ UNCHANGED posting
    BY <1>7, <2>1, <2>2 DEF ProofFound, TypeOK
  <2> QED
    BY <2>1, <2>4, <2>5 DEF TypeOK, Known, ReqsKept
<1>8. ASSUME NEW t \in Txs, Notify(t) PROVE Known' /\ ReqsKept
  <2>1. notify # None /\ notify = t
    BY <1>8, ConstantsAssumption DEF Notify
  <2>2. HasReq(t) /\ mSeen[t].status # "absent" /\ task = "proof" /\ t \notin mLeft
    BY <2>1 DEF Known
  <2>3. req'[t].status # "absent" /\ \A u \in Txs \ {t} : req'[u] = req[u]
    BY <1>8, <2>2 DEF Notify, UpdateDynamics, TypeOK
  <2>4. ReqsKept
    BY <2>2, <2>3 DEF ReqsKept, HasReq
  <2> QED
    BY <1>8, <2>2, <2>4 DEF Notify, TypeOK, Known, ReqsKept
<1>9. ASSUME NEW t \in Txs, FailOne(t) PROVE Known' /\ ReqsKept
  BY <1>9 DEF FailOne, TypeOK, Known, ReqsKept, HasReq
<1>10. ASSUME NEW t \in Txs, FailOneThrow(t) PROVE Known' /\ ReqsKept
  BY <1>10, ConstantsAssumption DEF FailOneThrow, Throw, Idle, Callers, TypeOK, Known, ReqsKept, HasReq
<1> QED
  BY <1>0, <1>2, <1>3, <1>4, <1>5, <1>6, <1>7, <1>8, <1>9, <1>10 DEF Tasks

\* So it is with every step.
LEMMA KnownNext == TypeOK /\ Known /\ [Next]_vars => Known' /\ ReqsKept
<1> SUFFICES ASSUME TypeOK, Known, [Next]_vars PROVE Known' /\ ReqsKept
  OBVIOUS
<1>1. ASSUME NEW t \in Txs, Create(t) PROVE Known' /\ ReqsKept
  <2>1. UNCHANGED rows
    <3>1. ASSUME NEW X, NEW C, NEW isNoSend, CreateBegin(t, X, C, isNoSend) PROVE UNCHANGED rows
      BY <3>1 DEF CreateBegin, rows
    <3>2. ASSUME NEW o \in Outputs,
                 AllocateNoSendChange(t, o) \/ Allocate(t, o) \/ Release(t, o) \/ MarkNamed(t, o)
          PROVE UNCHANGED rows
      BY <3>2 DEF AllocateNoSendChange, Allocate, Release, MarkNamed, rows
    <3>3. ASSUME Funded(t) \/ CreateReturn(t) \/ CreateThrow(t) PROVE UNCHANGED rows
      BY <3>3 DEF Funded, CreateReturn, CreateThrow, rows
    <3> QED
      BY <1>1, <3>1, <3>2, <3>3 DEF Create
  <2> QED
    BY <2>1 DEF rows, Known, ReqsKept, HasReq
<1>2. ASSUME NEW t \in Txs, Abort(t) PROVE Known' /\ ReqsKept
  <2>1. ReqsKept
    BY <1>2 DEF Abort, TypeOK, Req, ReqsKept, HasReq
  <2> QED
    BY <1>2, <2>1 DEF Abort, Known, TypeOK, ReqsKept
<1>3. CASE World
  <2>1. CASE Crash
    BY <2>1 DEF Crash, Callers, Known, ReqsKept, HasReq
  <2>2. ASSUME NEW t \in Txs, NEW A, Broadcast(t, A) \/ Mine(t) PROVE Known' /\ ReqsKept
    BY <2>2 DEF Broadcast, Mine, Known, ReqsKept, HasReq
  <2> QED
    BY <1>3, <2>1, <2>2 DEF World
<1>4. CASE UNCHANGED vars
  BY <1>4 DEF vars, Known, ReqsKept, HasReq
<1> QED
  BY <1>1, <1>2, <1>3, <1>4, KnownProcess, KnownPost, KnownTasks DEF Next

\* At first no row has been read.
LEMMA KnownInit == Init => Known
  BY DEF Init, Callers, Known

\* An output becomes spendable when it gets its outpoint, and what takes it from
\* then on is live until it is failed.
LEMMA HeldByLiveNext ==
    TypeOK /\ Untouched /\ Known /\ HeldByLive /\ [Next]_vars => HeldByLive'
<1> SUFFICES ASSUME TypeOK, Untouched, Known, HeldByLive, [Next]_vars PROVE HeldByLive'
  OBVIOUS
<1>1. \A o \in Outputs : HasOutpoint(o)' => HasOutpoint(o) \/ \E t \in Txs : o = t /\ Commit(t)
  BY KnownNext DEF ReqsKept, HasOutpoint
<1>3. ASSUME NEW t \in Txs, Commit(t) PROVE HeldByLive'
  <2>1. /\ \A o \in Outputs : HasOutpoint(o)' => HasOutpoint(o) \/ o = t
        /\ spendable' = [spendable EXCEPT ![t] = TRUE] /\ spentBy' = spentBy
        /\ \A u \in Txs : Live(u) => Live(u)'
    <3>1. ReqsKept
      BY KnownNext
    <3>2. \A u \in Txs \ {t} : req'[u] = req[u]
      BY <1>3 DEF Commit, TypeOK
    <3> QED
      BY <1>3, <3>2 DEF Commit, CommitTxStatus, TypeOK, Live, HasOutpoint, HasReq
  <2> QED
    BY <2>1 DEF HeldByLive, TypeOK, Outputs
<1>2. ASSUME \A t \in Txs : ~Commit(t) PROVE HeldByLive'
  <2>0. \A o \in Outputs : HasOutpoint(o)' => HasOutpoint(o)
    BY <1>1, <1>2
  <2>1. CASE UNCHANGED coins
    BY <2>0, <2>1 DEF coins, HeldByLive, Live
  <2>2. ASSUME NEW t \in Txs, NEW o \in Outputs,
               AllocateNoSendChange(t, o) \/ Allocate(t, o) \/ MarkNamed(t, o)
        PROVE HeldByLive'
    <3>1. Lock(t, o) /\ txStatus' = txStatus /\ Live(t)
      BY <2>2 DEF AllocateNoSendChange, Allocate, MarkNamed, Untouched, Creating, Live
    <3> QED
      BY <2>0, <3>1 DEF Lock, TypeOK, HeldByLive, Live
  <2>3. ASSUME NEW t \in Txs, NEW o \in Outputs, Release(t, o) PROVE HeldByLive'
    <3>1. CASE o \in noSendChange[t]
      BY <2>0, <2>3, <3>1 DEF Release, HeldByLive, Live
    <3>2. CASE o \notin noSendChange[t]
      <4>1. /\ txStatus' = txStatus
            /\ spendable'[o] = TRUE
            /\ \A x \in Outputs \ {o} : spendable'[x] = spendable[x] /\ spentBy'[x] = spentBy[x]
        BY <2>3, <3>2 DEF Release, TypeOK
      <4> QED
        BY <2>0, <4>1 DEF HeldByLive, Live
    <3> QED
      BY <3>1, <3>2
  <2>4. ASSUME NEW t \in Txs, NEW X, NEW C, NEW isNoSend, CreateBegin(t, X, C, isNoSend) PROVE HeldByLive'
    BY <2>0, <2>4 DEF CreateBegin, TypeOK, HeldByLive, Live
  <2>5. ASSUME NEW t \in Txs, Abort(t) \/ FailOne(t) PROVE HeldByLive'
    <3>1. Fail(t)
      BY <2>5 DEF Abort, FailOne
    <3> QED
      BY <2>0, <3>1 DEF Fail, TypeOK, HeldByLive, Live
  <2>6. ASSUME NEW t \in Txs, NEW p \in Callers, WriteTx(p, t) PROVE HeldByLive'
    BY <2>0, <2>6 DEF WriteTx, TypeOK, HeldByLive, Live
  <2>7. CASE ShareDelayed
    BY <2>0, <2>7 DEF ShareDelayed, TypeOK, HeldByLive, Live
  <2> QED
    BY <1>2, <2>1, <2>2, <2>3, <2>4, <2>5, <2>6, <2>7, CoinSteps DEF CoinStep
<1> QED
  BY <1>2, <1>3

\* No coin is lost: what cannot be spent is held by a live action.
THEOREM NoCoinIsLost == Spec => []HeldByLive
<1>1. Init => HeldByLive
  <2> SUFFICES ASSUME Init PROVE HeldByLive
    OBVIOUS
  <2>1. \A t \in Txs : ~HasReq(t)
    BY DEF Init, HasReq, NoReq
  <2>2. \A o \in Coins : spendable[o]
    BY DEF Init, Outputs
  <2> QED
    BY <2>1, <2>2 DEF HeldByLive, HasOutpoint
<1>2. TypeOK /\ Known /\ [Next]_vars => Known'
  BY KnownNext
<1> QED
  BY <1>1, <1>2, TypeCorrect, UntouchedInit, UntouchedNext, KnownInit, HeldByLiveNext, PTL DEF Spec
-----------------------------------------------------------------------------
(* What the storage claims of the network.                                 *)

Taken(t) == net[t] # "unseen"

\* A claim that a transaction was accepted is made of the database, of every row in
\* memory and of every outcome that is still to be written, only when it is true.
ClaimsTrue ==
    /\ \A t \in Txs : txStatus[t] = "unproven" \/ req[t].status = "unmined" \/ mSeen[t].status = "unmined"
                        => Taken(t)
    /\ \A p \in Callers, t \in Txs :
          /\ seen[p][t].status = "unmined" \/ t \in accepted[p] => Taken(t)
          /\ cur[p] = t => stage[p] = "commit" \/ Taken(t)

\* The network forgets no transaction.
LEMMA TakenStays == ASSUME TypeOK, [Next]_vars PROVE \A t \in Txs : Taken(t) => Taken(t)'
<1>1. ASSUME NEW A, NetAccepts(A) PROVE \A t \in Txs : Taken(t) => Taken(t)'
  BY <1>1 DEF NetAccepts, Taken
<1>2. ASSUME NEW t \in Txs, Mine(t) PROVE \A u \in Txs : Taken(u) => Taken(u)'
  BY <1>2 DEF Mine, Taken, TypeOK
<1>3. CASE UNCHANGED net
  BY <1>3 DEF Taken
<1>4. ASSUME NEW t \in Txs, Create(t) \/ Abort(t) PROVE UNCHANGED net
  BY <1>4 DEF Create, CreateBegin, AllocateNoSendChange, Allocate, Release, MarkNamed, Funded, CreateReturn,
              CreateThrow, Abort
<1>5. CASE Process
  BY <1>3, <1>5 DEF Process, ProcessBegin, Commit, SendWith, ShareRead, ShareReturn, ShareDelayed, ShareNow
<1>6. ASSUME NEW p \in Callers, Post(p) PROVE UNCHANGED net \/ \E A : NetAccepts(A)
  BY <1>6 DEF Post, PostInvalid, PostSend, NetReply, NetThrow, WriteReq, WriteTx, WriteTxThrow, WriteInvalid,
              PostReturn
<1>7. CASE Tasks
  <2>1. ASSUME SendWaiting \/ CheckForProofs \/ SendLocked \/ FailAbandoned \/ TaskReturn PROVE UNCHANGED net
    BY <2>1 DEF SendWaiting, CheckForProofs, ReadReqs, SendLocked, FailAbandoned, TaskReturn
  <2>2. ASSUME NEW t \in Txs, NEW status, NEW counted,
               \/ SendNext(t) \/ AlreadyProven(t) \/ ProofAttemptsExceeded(t) \/ NoProof(t, status, counted)
               \/ ProofFound(t) \/ Notify(t) \/ FailOne(t) \/ FailOneThrow(t)
        PROVE UNCHANGED net
    BY <2>2 DEF SendNext, AlreadyProven, ProofAttemptsExceeded, NoProof, ProofFound, Notify, FailOne, FailOneThrow
  <2> QED
    BY <1>3, <1>7, <2>1, <2>2 DEF Tasks
<1>8. CASE World
  BY <1>1, <1>2, <1>3, <1>8 DEF World, Broadcast, Crash
<1>9. CASE UNCHANGED vars
  BY <1>3, <1>9 DEF vars
<1> QED
  BY <1>1, <1>3, <1>4, <1>5, <1>6, <1>7, <1>8, <1>9 DEF Next

\* Nothing that makes claims is left in the hands of a call that ends.
LEMMA ClaimsThrow ==
    ASSUME TypeOK, ClaimsTrue, NEW p \in Callers, Idle(p), \A t \in Txs : Taken(t) => Taken(t)',
           UNCHANGED <<txStatus, req>>, UNCHANGED mSeen \/ mSeen' = [t \in Txs |-> NoReq]
    PROVE  ClaimsTrue'
  BY ConstantsAssumption DEF Idle, NoReq, Callers, TypeOK, ClaimsTrue

\* processAction gives a transaction no status that makes a claim.
LEMMA ClaimsProcess ==
    ASSUME TypeOK, ClaimsTrue, Process, \A t \in Txs : Taken(t) => Taken(t)' PROVE ClaimsTrue'
<1>1. ASSUME NEW t \in Txs, NEW m \in Modes, NEW S, ProcessBegin(t, m, S) PROVE ClaimsTrue'
  BY <1>1 DEF ProcessBegin, Callers, TypeOK, ClaimsTrue
<1>2. ASSUME NEW t \in Txs, Commit(t) PROVE ClaimsTrue'
  <2>1. \A u \in Txs : /\ txStatus'[u] = "unproven" => txStatus[u] = "unproven"
                       /\ req'[u].status = "unmined" => req[u].status = "unmined"
    BY <1>2 DEF Commit, CommitReqStatus, CommitTxStatus, NoReq, TypeOK
  <2>2. \A u \in Txs, p \in Callers : /\ seen'[p][u].status = "unmined" => seen[p][u].status = "unmined"
                                      /\ u \in accepted'[p] => u \in accepted[p]
                                      /\ cur'[p] # u \/ (cur'[p] = cur[p] /\ stage'[p] = stage[p])
    BY <1>2, ConstantsAssumption DEF Commit, Idle, NoReq, Callers, TypeOK
  <2> QED
    BY <1>2, <2>1, <2>2 DEF Commit, ClaimsTrue
<1>3. ASSUME NEW m \in Modes, NEW S, SendWith(m, S) PROVE ClaimsTrue'
  BY <1>3 DEF SendWith, Callers, TypeOK, ClaimsTrue
<1>4. CASE ShareRead
  BY <1>4 DEF ShareRead, Rows, NoReq, Callers, TypeOK, ClaimsTrue
<1>5. CASE ShareReturn
  BY <1>5, ClaimsThrow DEF ShareReturn, Callers
<1>6. CASE ShareDelayed
  <2>1. \A u \in Txs : /\ txStatus'[u] = "unproven" => txStatus[u] = "unproven"
                       /\ req'[u].status = "unmined" => req[u].status = "unmined"
    <3>1. \A u \in Txs : IF u \in left["client"]
                        THEN req'[u] = [req[u] EXCEPT !.status = "unsent", !.batch = group] /\ txStatus'[u] = "sending"
                        ELSE req'[u] = req[u] /\ txStatus'[u] = txStatus[u]
      BY <1>6 DEF ShareDelayed
    <3>2. \A u \in Txs : req[u] \in Req
      BY DEF TypeOK
    <3> QED
      BY <3>1, <3>2 DEF Req
  <2>2. \A u \in Txs, p \in Callers : /\ seen'[p][u].status = "unmined" => seen[p][u].status = "unmined"
                                      /\ u \in accepted'[p] => u \in accepted[p]
                                      /\ cur'[p] # u \/ (cur'[p] = cur[p] /\ stage'[p] = stage[p])
    BY <1>6, ConstantsAssumption DEF ShareDelayed, Idle, NoReq, Callers, TypeOK
  <2> QED
    BY <1>6, <2>1, <2>2 DEF ShareDelayed, ClaimsTrue
<1>7. CASE ShareNow
  <2>1. \A t \in Txs : req'[t].status = req[t].status /\ \A p \in Callers : seen'[p][t].status = seen[p][t].status
    BY <1>7 DEF ShareNow, Callers, TypeOK, Req
  <2> QED
    BY <1>7, <2>1 DEF ShareNow, Callers, TypeOK, ClaimsTrue
<1> QED
  BY <1>1, <1>2, <1>3, <1>4, <1>5, <1>6, <1>7 DEF Process

\* A post claims what the network answered, and nothing of a row it gives up.
LEMMA ClaimsPost ==
    ASSUME TypeOK, ClaimsTrue, NEW p \in Callers, Post(p), \A t \in Txs : Taken(t) => Taken(t)'
    PROVE  ClaimsTrue'
<1>1. CASE PostInvalid(p) \/ PostSend(p)
  BY <1>1 DEF PostInvalid, PostSend, TypeOK, ClaimsTrue
<1>2. ASSUME NEW A, NEW R, NetReply(p, A, R) PROVE ClaimsTrue'
  <2>1. \A q \in Callers, t \in Txs : seen'[q][t].status = seen[q][t].status
    BY <1>2 DEF NetReply, TypeOK, Req
  <2>2. \A t \in R \cap Txs : Taken(t)'
    BY <1>2 DEF NetReply, NetAccepts, Taken
  <2> QED
    BY <1>2, <2>1, <2>2 DEF NetReply, TypeOK, ClaimsTrue
<1>3. ASSUME Throw(p), UNCHANGED <<txStatus, req>> PROVE ClaimsTrue'
  BY <1>3, ClaimsThrow DEF Throw
<1>4. ASSUME NEW A, NEW t, NetThrow(p, A) \/ WriteTxThrow(p, t) PROVE ClaimsTrue'
  BY <1>3, <1>4 DEF NetThrow, WriteTxThrow
<1>5. ASSUME NEW t \in Txs, WriteReq(p, t) PROVE ClaimsTrue'
  <2>1. req'[t].status = "unmined" => Taken(t)
    BY <1>5 DEF WriteReq, PostedStatus, UpdateDynamics, TypeOK, Req, ClaimsTrue
  <2>2. \A u \in Txs \ {t} : req'[u] = req[u]
    BY <1>5 DEF WriteReq, TypeOK
  <2>3. cur'[p] = t => Taken(t)
    BY <1>5, ConstantsAssumption DEF WriteReq, TypeOK, ClaimsTrue
  <2> QED
    BY <1>5, <2>1, <2>2, <2>3, ConstantsAssumption DEF WriteReq, NoReq, TypeOK, ClaimsTrue
<1>6. ASSUME NEW t \in Txs, WriteTx(p, t) PROVE ClaimsTrue'
  BY <1>6, ConstantsAssumption DEF WriteTx, TypeOK, ClaimsTrue
<1>7. ASSUME NEW t \in Txs, WriteInvalid(p, t) PROVE ClaimsTrue'
  <2>1. req'[t].status = "invalid" /\ \A u \in Txs \ {t} : req'[u] = req[u]
    BY <1>7 DEF WriteInvalid, UpdateDynamics, TypeOK, Req
  <2> QED
    BY <1>7, <2>1 DEF WriteInvalid, NoReq, TypeOK, ClaimsTrue
<1>8. CASE PostReturn(p)
  BY <1>8, ClaimsThrow DEF PostReturn
<1> QED
  BY <1>1, <1>2, <1>4, <1>5, <1>6, <1>7, <1>8 DEF Post

\* A task writes rows back with the claims they were listed with.
LEMMA ClaimsTasks ==
    ASSUME TypeOK, ClaimsTrue, Tasks, \A t \in Txs : Taken(t) => Taken(t)' PROVE ClaimsTrue'
<1>1. ASSUME NEW name, NEW S, ReadReqs(name, S) PROVE ClaimsTrue'
  BY <1>1 DEF ReadReqs, Rows, NoReq, ClaimsTrue
<1>2. ASSUME SendWaiting \/ CheckForProofs PROVE ClaimsTrue'
  BY <1>1, <1>2 DEF SendWaiting, CheckForProofs
<1>3. CASE SendLocked
  <2>1. CASE left["monitor"] = {}
    BY <1>3, <2>1, ClaimsThrow DEF SendLocked, Callers
  <2>2. CASE left["monitor"] # {}
    BY <1>3, <2>2 DEF SendLocked, Callers, TypeOK, ClaimsTrue
  <2> QED
    BY <2>1, <2>2
<1>4. CASE FailAbandoned \/ TaskReturn
  BY <1>4 DEF FailAbandoned, TaskReturn, ClaimsTrue
<1>5. ASSUME NEW t \in Txs, SendNext(t) PROVE ClaimsTrue'
  BY <1>5 DEF SendNext, Consume, Rows, NoReq, Callers, TypeOK, ClaimsTrue
<1>6. ASSUME NEW t \in Txs,
             \/ AlreadyProven(t)
             \/ ProofAttemptsExceeded(t)
             \/ \E status \in ProofStatus \cup {"invalid"}, counted \in 0..2 : NoProof(t, status, counted)
      PROVE ClaimsTrue'
  <2>1. ProofNext(t) /\ UNCHANGED <<txStatus, posting>>
    BY <1>6 DEF AlreadyProven, ProofAttemptsExceeded, NoProof
  <2>2. /\ req'[t].status \in {"completed", "invalid", mSeen[t].status}
        /\ \A u \in Txs \ {t} : req'[u] = req[u]
    BY <1>6, <2>1 DEF AlreadyProven, ProofAttemptsExceeded, NoProof, UpdateDynamics, TypeOK, Req
  <2> QED
    BY <2>1, <2>2 DEF ProofNext, Consume, NoReq, TypeOK, ClaimsTrue
<1>7. ASSUME NEW t \in Txs, ProofFound(t) PROVE ClaimsTrue'
  <2>1. ProvenRow(req[t]).status = "completed"
    BY DEF ProvenRow, TypeOK, Req
  <2>2. /\ req'[t].status = "unmined" => req[t].status = "unmined"
        /\ mSeen'[t].status # "unmined"
        /\ \A u \in Txs \ {t} : req'[u] = req[u] /\ mSeen'[u] = mSeen[u]
    BY <1>7, <2>1 DEF ProofFound, NoReq, TypeOK
  <2> QED
    BY <1>7, <2>2 DEF ProofFound, ClaimsTrue
<1>8. ASSUME NEW t \in Txs, Notify(t) PROVE ClaimsTrue'
  <2>1. /\ req'[t].status = mSeen[t].status /\ mSeen'[t].status # "unmined"
        /\ \A u \in Txs \ {t} : req'[u] = req[u] /\ mSeen'[u] = mSeen[u]
        /\ \A u \in Txs : txStatus'[u] = "unproven" => txStatus[u] = "unproven"
    BY <1>8 DEF Notify, UpdateDynamics, NoReq, TypeOK
  <2> QED
    BY <1>8, <2>1 DEF Notify, ClaimsTrue
<1>9. ASSUME NEW t \in Txs, FailOne(t) PROVE ClaimsTrue'
  BY <1>9 DEF FailOne, Fail, TypeOK, ClaimsTrue
<1>10. ASSUME NEW t \in Txs, FailOneThrow(t) PROVE ClaimsTrue'
  BY <1>10, ClaimsThrow DEF FailOneThrow, Throw, Callers
<1> QED
  BY <1>2, <1>3, <1>4, <1>5, <1>6, <1>7, <1>8, <1>9, <1>10 DEF Tasks

\* So it is with every step.
LEMMA ClaimsNext == TypeOK /\ ClaimsTrue /\ [Next]_vars => ClaimsTrue'
<1> SUFFICES ASSUME TypeOK, ClaimsTrue, [Next]_vars PROVE ClaimsTrue'
  OBVIOUS
<1>0. \A t \in Txs : Taken(t) => Taken(t)'
  BY TakenStays
<1>1. ASSUME NEW t \in Txs, Create(t) PROVE ClaimsTrue'
  <2>1. /\ UNCHANGED <<req, mSeen, posting>>
        /\ txStatus' \in {txStatus, [txStatus EXCEPT ![t] = "unsigned"]}
    BY <1>1 DEF Create, CreateBegin, AllocateNoSendChange, Allocate, Release, MarkNamed, Funded, CreateReturn,
                CreateThrow
  <2> QED
    BY <1>0, <2>1 DEF TypeOK, ClaimsTrue
<1>2. ASSUME NEW t \in Txs, Abort(t) PROVE ClaimsTrue'
  <2>1. \A u \in Txs : /\ req'[u].status = "unmined" => req[u].status = "unmined"
                       /\ txStatus'[u] = "unproven" => txStatus[u] = "unproven"
    BY <1>2 DEF Abort, Fail, TypeOK, Req
  <2> QED
    BY <1>0, <1>2, <2>1 DEF Abort, ClaimsTrue
<1>3. CASE World
  <2>1. CASE Crash
    BY <1>0, <2>1, ConstantsAssumption DEF Crash, NoReq, Callers, ClaimsTrue
  <2>2. ASSUME NEW t \in Txs, NEW A, Broadcast(t, A) \/ Mine(t) PROVE ClaimsTrue'
    BY <1>0, <2>2 DEF Broadcast, Mine, ClaimsTrue
  <2> QED
    BY <1>3, <2>1, <2>2 DEF World
<1>4. CASE UNCHANGED vars
  BY <1>4 DEF vars, ClaimsTrue, Taken
<1> QED
  BY <1>0, <1>1, <1>2, <1>3, <1>4, ClaimsProcess, ClaimsPost, ClaimsTasks DEF Next

\* A transaction that the storage calls accepted is known to the network, in the
\* manager's hands or not and whatever rows are written back late.
THEOREM ClaimsAreTrue == Spec => []SharedIsAccepted
<1>1. Init => ClaimsTrue
  BY ConstantsAssumption DEF Init, NoReq, Callers, ClaimsTrue
<1>2. ClaimsTrue => SharedIsAccepted
  BY DEF ClaimsTrue, SharedIsAccepted, Taken
<1> QED
  BY <1>1, <1>2, TypeCorrect, ClaimsNext, PTL DEF Spec
-----------------------------------------------------------------------------
(* With the manager's locks.                                               *)

\* The two locks exclude each other.
Exclusive == MonitorBusy => ~ClientBusy

LEMMA ExclusiveNext ==
    ASSUME Managed, TypeOK, Exclusive, [Next]_vars PROVE Exclusive'
<1>1. ASSUME NEW t \in Txs, Create(t) PROVE Exclusive'
  <2>1. ~MonitorBusy
    BY <1>1 DEF Create, CreateBegin, ClientMayStart, AllocateNoSendChange, Allocate, Release, MarkNamed, Funded,
                CreateReturn, CreateThrow, Creating, ClientBusy, Exclusive
  <2>2. UNCHANGED <<stage, task, notify>>
    BY <1>1 DEF Create, CreateBegin, AllocateNoSendChange, Allocate, Release, MarkNamed, Funded, CreateReturn,
                CreateThrow
  <2> QED
    BY <2>1, <2>2 DEF MonitorBusy, Exclusive
<1>2. CASE Process
  <2>1. ~MonitorBusy
    BY <1>2 DEF Process, ProcessBegin, SendWith, ClientMayStart, Commit, ShareRead, ShareReturn, ShareDelayed,
                ShareNow, ClientBusy, Exclusive
  <2>2. stage'["monitor"] = stage["monitor"]
    <3>1. ASSUME Idle("client") PROVE stage'["monitor"] = stage["monitor"]
      BY <3>1 DEF Idle, Callers, TypeOK
    <3>2. ASSUME NEW t \in Txs, Commit(t) PROVE stage'["monitor"] = stage["monitor"]
      BY <3>1, <3>2 DEF Commit, Callers, TypeOK
    <3>3. ASSUME NEW t \in Txs, NEW m, NEW S, ProcessBegin(t, m, S)
          PROVE stage'["monitor"] = stage["monitor"]
      BY <3>3 DEF ProcessBegin, Callers, TypeOK
    <3>4. ASSUME ShareRead \/ ShareReturn \/ ShareDelayed \/ ShareNow PROVE stage'["monitor"] = stage["monitor"]
      BY <3>1, <3>4 DEF ShareRead, ShareReturn, ShareDelayed, ShareNow, Callers, TypeOK
    <3>5. ASSUME NEW m \in Modes, NEW S, SendWith(m, S) PROVE stage'["monitor"] = stage["monitor"]
      BY <3>5 DEF SendWith, Callers, TypeOK
    <3> QED
      BY <1>2, <3>2, <3>3, <3>4, <3>5 DEF Process
  <2>3. UNCHANGED <<task, notify>>
    BY <1>2 DEF Process, ProcessBegin, SendWith, Commit, ShareRead, ShareReturn, ShareDelayed, ShareNow
  <2> QED
    BY <2>1, <2>2, <2>3 DEF MonitorBusy, Exclusive
<1>3. ASSUME Post("client") PROVE Exclusive'
  <2>1. ~MonitorBusy
    BY <1>3 DEF Post, PostInvalid, PostSend, NetReply, NetThrow, WriteReq, WriteTx, WriteTxThrow, WriteInvalid,
                PostReturn, ClientBusy, Exclusive
  <2>2. UNCHANGED <<task, notify>>
    BY <1>3 DEF Post, PostInvalid, PostSend, NetReply, NetThrow, WriteReq, WriteTx, WriteTxThrow, WriteInvalid,
                PostReturn, Throw
  <2>3. stage'["monitor"] = stage["monitor"]
    <3>1. ASSUME Idle("client") PROVE stage'["monitor"] = stage["monitor"]
      BY <3>1 DEF Idle, Callers, TypeOK
    <3> QED
      BY <1>3, <3>1 DEF Post, PostInvalid, PostSend, NetReply, NetThrow, WriteReq, WriteTx, WriteTxThrow,
                        WriteInvalid, PostReturn, Throw, Callers, TypeOK
  <2> QED
    BY <2>1, <2>2, <2>3 DEF MonitorBusy, Exclusive
<1>4. ASSUME Post("monitor") PROVE Exclusive'
  <2>1. MonitorBusy
    BY <1>4 DEF Post, PostInvalid, PostSend, NetReply, NetThrow, WriteReq, WriteTx, WriteTxThrow, WriteInvalid,
                PostReturn, MonitorBusy
  <2>2. UNCHANGED call
    BY <1>4 DEF Post, PostInvalid, PostSend, NetReply, NetThrow, WriteReq, WriteTx, WriteTxThrow, WriteInvalid,
                PostReturn
  <2>3. stage'["client"] = stage["client"]
    <3>1. ASSUME Idle("monitor") PROVE stage'["client"] = stage["client"]
      BY <3>1 DEF Idle, Callers, TypeOK
    <3> QED
      BY <1>4, <3>1 DEF Post, PostInvalid, PostSend, NetReply, NetThrow, WriteReq, WriteTx, WriteTxThrow,
                        WriteInvalid, PostReturn, Throw, Callers, TypeOK
  <2> QED
    BY <2>1, <2>2, <2>3 DEF ClientBusy, Creating, Exclusive
<1>5. CASE Tasks
  <2>1. UNCHANGED call /\ stage'["client"] = stage["client"]
    <3>1. ASSUME Idle("monitor") PROVE stage'["client"] = stage["client"]
      BY <3>1 DEF Idle, Callers, TypeOK
    <3>2. ASSUME SendWaiting \/ CheckForProofs \/ SendLocked \/ FailAbandoned \/ TaskReturn
          PROVE UNCHANGED call /\ stage'["client"] = stage["client"]
      <4>1. CASE SendLocked
        BY <3>1, <4>1 DEF SendLocked, Callers, TypeOK
      <4> QED
        BY <3>2, <4>1 DEF SendWaiting, CheckForProofs, ReadReqs, FailAbandoned, TaskReturn
    <3>3. ASSUME NEW t \in Txs, SendNext(t) \/ FailOneThrow(t) PROVE UNCHANGED call /\ stage'["client"] = stage["client"]
      BY <3>1, <3>3 DEF SendNext, FailOneThrow, Throw, Callers, TypeOK
    <3>4. ASSUME NEW t \in Txs, NEW status, NEW counted,
                 \/ AlreadyProven(t) \/ ProofAttemptsExceeded(t) \/ NoProof(t, status, counted)
                 \/ ProofFound(t) \/ Notify(t) \/ FailOne(t)
          PROVE UNCHANGED <<call, stage>>
      BY <3>4 DEF AlreadyProven, ProofAttemptsExceeded, NoProof, ProofFound, Notify, FailOne
    <3> QED
      BY <1>5, <3>2, <3>3, <3>4 DEF Tasks
  <2>2. ASSUME NEW t \in Txs, SendLocked \/ FailAbandoned \/ ProofFound(t) PROVE ~ClientBusy
    BY <2>2 DEF SendLocked, FailAbandoned, ProofFound, MayProve, MonitorMayStart
  <2>3. ASSUME SendLocked \/ FailAbandoned \/ \E t \in Txs : ProofFound(t) PROVE Exclusive'
    <3>1. ~ClientBusy
      BY <2>3 DEF SendLocked, FailAbandoned, ProofFound, MayProve, MonitorMayStart
    <3> QED
      BY <2>1, <3>1 DEF ClientBusy, Creating, Exclusive
  <2>4. ASSUME SendWaiting \/ CheckForProofs \/ TaskReturn PROVE MonitorBusy' => MonitorBusy
    BY <2>4 DEF SendWaiting, CheckForProofs, ReadReqs, TaskReturn, MonitorBusy
  <2>5. ASSUME NEW t \in Txs, NEW status, NEW counted,
               AlreadyProven(t) \/ ProofAttemptsExceeded(t) \/ NoProof(t, status, counted) \/ Notify(t) \/ FailOne(t)
        PROVE MonitorBusy' => MonitorBusy
    BY <2>5, ConstantsAssumption DEF AlreadyProven, ProofAttemptsExceeded, NoProof, Notify, FailOne, MonitorBusy
  <2>6. ASSUME NEW t \in Txs, SendNext(t) \/ FailOneThrow(t) PROVE MonitorBusy' => MonitorBusy
    BY <2>6 DEF SendNext, FailOneThrow, Throw, Idle, Callers, TypeOK, MonitorBusy
  <2> QED
    BY <1>5, <2>1, <2>3, <2>4, <2>5, <2>6 DEF Tasks, ClientBusy, Creating, Exclusive
<1>6. CASE World
  <2>1. CASE Crash
    BY <2>1 DEF Crash, Callers, MonitorBusy, Exclusive
  <2>2. ASSUME NEW t \in Txs, NEW A, Broadcast(t, A) \/ Mine(t) PROVE Exclusive'
    BY <2>2 DEF Broadcast, Mine, MonitorBusy, ClientBusy, Creating, Exclusive
  <2> QED
    BY <1>6, <2>1, <2>2 DEF World
<1>7. ASSUME NEW t \in Txs, Abort(t) PROVE Exclusive'
  BY <1>7 DEF Abort, MonitorBusy, ClientBusy, Creating, Exclusive
<1>8. CASE UNCHANGED vars
  BY <1>8 DEF vars, MonitorBusy, ClientBusy, Creating, Exclusive
<1> QED
  BY <1>1, <1>2, <1>3, <1>4, <1>5, <1>6, <1>7, <1>8 DEF Next, Callers

Unsent == {"unsigned", "unprocessed"}

\* What a commit or FailAbandoned read of a transaction is still so when it is written.
Statuses ==
    /\ stage["client"] = "commit" => \A t \in Txs : cur["client"] = t => txStatus[t] \in Unsent
    /\ task = "fail" => \A t \in mLeft : txStatus[t] \in Unsent
    /\ \A t \in Txs : HasReq(t) => txStatus[t] # "unsigned"

\* The steps that write a transaction's status, and when.
LEMMA StatusSteps ==
    ASSUME Managed, TypeOK, Untouched, Exclusive, [Next]_vars, NEW t \in Txs, txStatus'[t] # txStatus[t]
    PROVE  \/ txStatus[t] = "absent" /\ call[t] = "none" /\ ~ClientBusy /\ ~MonitorBusy
           \/ Commit(t)
           \/ Abort(t)
           \/ FailOne(t)
           \/ \E p \in Callers : WriteTx(p, t)
           \/ ShareDelayed /\ t \in left["client"]
<1>1. CoinStep
  BY CoinSteps DEF coins
<1>2. ASSUME NEW u \in Txs, NEW X, NEW C, NEW isNoSend, CreateBegin(u, X, C, isNoSend)
      PROVE txStatus[t] = "absent" /\ call[t] = "none" /\ ~ClientBusy /\ ~MonitorBusy
  BY <1>2 DEF CreateBegin, ClientMayStart, Untouched, TypeOK
<1>3. ASSUME NEW u \in Txs, NEW o,
             AllocateNoSendChange(u, o) \/ Allocate(u, o) \/ Release(u, o) \/ MarkNamed(u, o)
      PROVE FALSE
  BY <1>3 DEF AllocateNoSendChange, Allocate, Release, MarkNamed
<1>4. ASSUME NEW u \in Txs, Commit(u) \/ Abort(u) \/ FailOne(u) PROVE u = t
  BY <1>4 DEF Commit, Abort, FailOne, Fail, TypeOK
<1>5. ASSUME NEW u \in Txs, NEW p, WriteTx(p, u) PROVE u = t
  BY <1>5 DEF WriteTx, TypeOK
<1>6. ASSUME ShareDelayed PROVE t \in left["client"]
  BY <1>6 DEF ShareDelayed
<1> QED
  BY <1>1, <1>2, <1>3, <1>4, <1>5, <1>6 DEF CoinStep

\* A commit is begun by ProcessBegin, and goes on until it is made.
LEMMA Committing ==
    ASSUME TypeOK, [Next]_vars, stage'["client"] = "commit"
    PROVE  \/ \E t \in Txs : cur'["client"] = t /\ txStatus[t] \in Unsent /\ txStatus' = txStatus
           \/ stage["client"] = "commit" /\ cur'["client"] = cur["client"]
<1> DEFINE Same == stage["client"] = "commit" /\ cur'["client"] = cur["client"]
<1>0. ASSUME UNCHANGED posting PROVE Same
  BY <1>0
<1>1. ASSUME NEW p \in Callers, Idle(p) PROVE Same
  BY <1>1 DEF Idle, Callers, TypeOK
<1>2. ASSUME NEW t \in Txs, NEW m, NEW S, ProcessBegin(t, m, S)
      PROVE cur'["client"] = t /\ txStatus[t] \in Unsent /\ txStatus' = txStatus
  BY <1>2 DEF ProcessBegin, Unsent, Callers, TypeOK
<1>3. ASSUME NEW t \in Txs, Commit(t) PROVE Same
  BY <1>1, <1>3 DEF Commit, Callers, TypeOK
<1>4. CASE Process
  <2>1. CASE ShareRead \/ ShareReturn \/ ShareDelayed \/ ShareNow
    BY <1>1, <2>1 DEF ShareRead, ShareReturn, ShareDelayed, ShareNow, Callers, TypeOK
  <2>2. ASSUME NEW m, NEW S, SendWith(m, S) PROVE Same
    BY <2>2 DEF SendWith, Callers, TypeOK
  <2>3. ASSUME NEW t \in Txs, NEW m, NEW S, ProcessBegin(t, m, S)
        PROVE \E u \in Txs : cur'["client"] = u /\ txStatus[u] \in Unsent /\ txStatus' = txStatus
    BY <1>2, <2>3
  <2> QED
    BY <1>3, <1>4, <2>1, <2>2, <2>3 DEF Process
<1>5. ASSUME NEW p \in Callers, Post(p) PROVE Same
  <2>1. ASSUME NEW A, NEW t, NetThrow(p, A) \/ WriteTxThrow(p, t) \/ PostReturn(p) PROVE Same
    BY <1>1, <2>1 DEF NetThrow, WriteTxThrow, PostReturn, Throw
  <2>2. ASSUME NEW A, NEW R, PostInvalid(p) \/ PostSend(p) \/ NetReply(p, A, R) PROVE Same
    BY <2>2 DEF PostInvalid, PostSend, NetReply, Callers, TypeOK
  <2>3. ASSUME NEW t \in Txs, WriteReq(p, t) \/ WriteTx(p, t) PROVE Same
    BY <2>3 DEF WriteReq, WriteTx, Callers, TypeOK
  <2>4. ASSUME NEW t, WriteInvalid(p, t) PROVE Same
    BY <2>4 DEF WriteInvalid
  <2> QED
    BY <1>5, <2>1, <2>2, <2>3, <2>4 DEF Post
<1>6. CASE Tasks
  <2>1. CASE SendWaiting \/ CheckForProofs \/ SendLocked \/ FailAbandoned \/ TaskReturn
    <3>1. CASE SendWaiting \/ CheckForProofs \/ FailAbandoned \/ TaskReturn
      BY <1>0, <3>1 DEF SendWaiting, CheckForProofs, ReadReqs, FailAbandoned, TaskReturn
    <3>2. CASE SendLocked
      <4>1. CASE left["monitor"] = {}
        BY <1>1, <3>2, <4>1 DEF SendLocked, Callers
      <4>2. CASE left["monitor"] # {}
        BY <3>2, <4>2 DEF SendLocked, Callers, TypeOK
      <4> QED
        BY <4>1, <4>2
    <3> QED
      BY <2>1, <3>1, <3>2
  <2>2. ASSUME NEW t \in Txs, SendNext(t) \/ FailOneThrow(t) PROVE Same
    BY <1>1, <2>2 DEF SendNext, FailOneThrow, Throw, Callers, TypeOK
  <2>3. ASSUME NEW t \in Txs, NEW status, NEW counted,
               \/ AlreadyProven(t) \/ ProofAttemptsExceeded(t) \/ NoProof(t, status, counted)
               \/ ProofFound(t) \/ Notify(t) \/ FailOne(t)
        PROVE Same
    BY <1>0, <2>3 DEF AlreadyProven, ProofAttemptsExceeded, NoProof, ProofFound, Notify, FailOne
  <2> QED
    BY <1>6, <2>1, <2>2, <2>3 DEF Tasks
<1>7. ASSUME NEW t \in Txs, Create(t) \/ Abort(t) PROVE Same
  BY <1>0, <1>7 DEF Create, CreateBegin, AllocateNoSendChange, Allocate, Release, MarkNamed, Funded, CreateReturn,
                    CreateThrow, Abort
<1>8. ASSUME World PROVE Same
  BY <1>0, <1>8 DEF World, Broadcast, Mine, Crash, Callers
<1>9. ASSUME UNCHANGED vars PROVE Same
  BY <1>0, <1>9 DEF vars
<1> QED
  BY <1>4, <1>5, <1>6, <1>7, <1>8, <1>9 DEF Next

\* FailAbandoned goes through a list that it made under its own lock.
LEMMA Failing ==
    ASSUME TypeOK, [Next]_vars, task' = "fail"
    PROVE  \/ \A t \in mLeft' : txStatus[t] \in Unsent /\ txStatus'[t] = txStatus[t]
           \/ task = "fail" /\ mLeft' \subseteq mLeft
<1> DEFINE Same == task = "fail" /\ mLeft' \subseteq mLeft
<1>0. ASSUME UNCHANGED <<task, mLeft>> PROVE Same
  BY <1>0
<1>1. ASSUME NEW t \in Txs, Create(t) \/ Abort(t) PROVE Same
  BY <1>0, <1>1 DEF Create, CreateBegin, AllocateNoSendChange, Allocate, Release, MarkNamed, Funded, CreateReturn,
                    CreateThrow, Abort
<1>2. ASSUME Process PROVE Same
  BY <1>0, <1>2 DEF Process, ProcessBegin, Commit, SendWith, ShareRead, ShareReturn, ShareDelayed, ShareNow
<1>3. ASSUME NEW p \in Callers, Post(p) PROVE Same
  <2>1. ASSUME Throw(p) PROVE Same
    BY <1>0, <2>1 DEF Throw
  <2> QED
    BY <1>0, <1>3, <2>1 DEF Post, PostInvalid, PostSend, NetReply, NetThrow, WriteReq, WriteTx, WriteTxThrow,
                            WriteInvalid, PostReturn
<1>4. ASSUME FailAbandoned PROVE \A t \in mLeft' : txStatus[t] \in Unsent /\ txStatus'[t] = txStatus[t]
  BY <1>4 DEF FailAbandoned, Abandoned, Unsent
<1>5. ASSUME SendWaiting \/ CheckForProofs \/ TaskReturn PROVE FALSE
  BY <1>5 DEF SendWaiting, CheckForProofs, ReadReqs, TaskReturn
<1>6. ASSUME SendLocked PROVE Same
  BY <1>0, <1>6 DEF SendLocked
<1>7. ASSUME NEW t \in Txs, NEW status, NEW counted,
             \/ SendNext(t) \/ AlreadyProven(t) \/ ProofAttemptsExceeded(t) \/ NoProof(t, status, counted)
             \/ ProofFound(t) \/ FailOne(t)
      PROVE Same
  BY <1>7 DEF SendNext, AlreadyProven, ProofAttemptsExceeded, NoProof, ProofFound, FailOne, ProofNext, MayProve,
              Consume
<1>8. ASSUME NEW t \in Txs, Notify(t) \/ FailOneThrow(t) PROVE Same
  BY <1>0, <1>8 DEF Notify, FailOneThrow, Throw
<1>9. ASSUME World \/ UNCHANGED vars PROVE Same
  BY <1>0, <1>9 DEF World, Broadcast, Mine, Crash, vars
<1> QED
  BY <1>1, <1>2, <1>3, <1>4, <1>5, <1>6, <1>7, <1>8, <1>9 DEF Next, Tasks

LEMMA StatusesNext ==
    ASSUME Managed, TypeOK, Untouched, Known, Exclusive, Statuses, [Next]_vars
    PROVE  Statuses'
<1>1. ASSUME stage'["client"] = "commit", NEW t \in Txs, cur'["client"] = t PROVE txStatus'[t] \in Unsent
  <2>1. CASE stage["client"] = "commit" /\ cur'["client"] = cur["client"] /\ txStatus'[t] # txStatus[t]
    <3>1. ClientBusy /\ ~MonitorBusy
      BY <2>1 DEF ClientBusy, Exclusive
    <3>2. ~Abort(t) /\ ~FailOne(t) /\ ~ShareDelayed /\ \A p \in Callers : ~WriteTx(p, t)
      BY <2>1, <3>1 DEF Abort, ClientMayStart, FailOne, ShareDelayed, WriteTx, MonitorBusy, Callers
    <3>3. ~Commit(t)
      BY <1>1 DEF Commit, Idle, Callers, TypeOK
    <3> QED
      BY <2>1, <3>1, <3>2, <3>3, StatusSteps
  <2> QED
    BY <1>1, <2>1, Committing DEF Statuses
<1>2. ASSUME task' = "fail", NEW t \in mLeft' PROVE txStatus'[t] \in Unsent
  <2>1. CASE task = "fail" /\ mLeft' \subseteq mLeft /\ txStatus'[t] # txStatus[t]
    <3>0. t \in Txs /\ t \in mLeft
      BY <1>2, <2>1 DEF TypeOK
    <3>1. ~ClientBusy /\ MonitorBusy /\ stage["monitor"] = "idle" /\ txStatus[t] # "absent"
      BY <2>1, <3>0 DEF MonitorBusy, Exclusive, Known, Statuses, Unsent
    <3>2. ~Abort(t) /\ ~Commit(t) /\ ~ShareDelayed /\ \A p \in Callers : ~WriteTx(p, t)
      BY <3>1 DEF Abort, ClientMayStart, Commit, ShareDelayed, WriteTx, ClientBusy, Callers
    <3>3. ~FailOne(t)
      BY <1>2 DEF FailOne
    <3> QED
      BY <2>1, <3>0, <3>1, <3>2, <3>3, StatusSteps
  <2> QED
    BY <1>2, <2>1, Failing DEF Statuses
<1>3. ASSUME NEW t \in Txs, HasReq(t)' PROVE txStatus'[t] # "unsigned"
  <2>1. CASE Commit(t)
    BY <2>1 DEF Commit, CommitTxStatus, TypeOK
  <2>2. CASE HasReq(t) /\ ~Commit(t) /\ txStatus'[t] # txStatus[t]
    <3>1. call[t] # "none"
      BY <2>2 DEF Untouched, Started
    <3>2. ASSUME Abort(t) \/ FailOne(t) PROVE txStatus'[t] = "failed"
      BY <3>2 DEF Abort, FailOne, Fail, TypeOK
    <3>3. ASSUME NEW p \in Callers, WriteTx(p, t) PROVE txStatus'[t] = "unproven"
      BY <3>3 DEF WriteTx, TypeOK
    <3>4. ASSUME ShareDelayed, t \in left["client"] PROVE txStatus'[t] = "sending"
      BY <3>4 DEF ShareDelayed
    <3> QED
      BY <2>2, <3>1, <3>2, <3>3, <3>4, StatusSteps
  <2> QED
    BY <1>3, <2>1, <2>2, KnownNext DEF ReqsKept, Statuses
<1> QED
  BY <1>1, <1>2, <1>3 DEF Statuses

LEMMA ManagedInit == Init => Exclusive /\ Statuses
  BY DEF Init, NoReq, HasReq, Callers, MonitorBusy, Exclusive, Statuses

\* What is queued or sent is not signed, aborted or given up.
LEMMA SentNext ==
    ASSUME Managed, TypeOK, Untouched, Exclusive, Statuses, [Next]_vars, NEW t \in Txs,
           txStatus[t] \in {"sending", "unproven"}
    PROVE  txStatus'[t] \in {"sending", "unproven", "completed"}
<1>1. ~Commit(t) /\ ~Abort(t)
  BY DEF Commit, Abort, AbortableStatus, Statuses, Unsent
<1>2. ~FailOne(t)
  BY DEF FailOne, Statuses, Unsent
<1>3. ASSUME NEW p \in Callers, WriteTx(p, t) PROVE txStatus'[t] = "unproven"
  BY <1>3 DEF WriteTx, TypeOK
<1>4. ASSUME ShareDelayed, t \in left["client"] PROVE txStatus'[t] = "sending"
  BY <1>4 DEF ShareDelayed
<1> QED
  BY <1>1, <1>2, <1>3, <1>4, StatusSteps
-----------------------------------------------------------------------------
(* Proofs of inclusion, with the manager's locks.                          *)

Sound(r) == r.status = "completed" => r.proven

\* The calls that post hold rows whose reqs have no proof.
RowsKept ==
    /\ \A t \in Txs : Sound(req[t]) /\ Sound(mSeen[t]) /\ \A p \in Callers : Sound(seen[p][t])
    /\ \A p \in Callers : stage[p] \notin {"idle", "commit", "share"} =>
          \A t \in left[p] : ~req[t].proven /\ ~seen[p][t].proven

\* No row that will be written back is older than a proof it would undo.
ProofsKept ==
    /\ RowsKept
    /\ \A t \in Txs : req[t].proven =>
          req[t].status = "completed" \/ (req[t].status = "invalid" /\ txStatus[t] = "failed")
    /\ task \in {"send", "proof"} => \A t \in mLeft : ~req[t].proven /\ ~mSeen[t].proven
    /\ \A t \in Txs : notify = t => req[t].proven /\ mSeen[t].proven /\ mSeen[t].status = "completed"

\* Once a req has its proof it keeps it, and only an abort changes its status.
LEMMA ProvenRows ==
    ASSUME TypeOK, ProofsKept, [Next]_vars, NEW t \in Txs, req[t].proven
    PROVE  /\ req'[t].proven
           /\ req'[t].status \in {"completed", req[t].status} \/ Abort(t)
<1> DEFINE Kept == req'[t].proven /\ req'[t].status \in {"completed", req[t].status}
<1>0. ASSUME req'[t] = req[t] PROVE Kept
  BY <1>0
<1>1. ASSUME NEW u \in Txs, Create(u) PROVE Kept
  BY <1>0, <1>1 DEF Create, CreateBegin, AllocateNoSendChange, Allocate, Release, MarkNamed, Funded, CreateReturn,
                    CreateThrow
<1>2. ASSUME NEW u \in Txs, Abort(u) PROVE req'[t].proven /\ (Kept \/ Abort(t))
  <2>1. req[t] \in Req
    BY DEF TypeOK
  <2>2. req'[t] = req[t] \/ (u = t /\ req'[t] = [req[t] EXCEPT !.status = "invalid"])
    BY <1>2 DEF Abort, TypeOK
  <2> QED
    BY <1>2, <2>1, <2>2 DEF Req
<1>3. CASE Process
  <2>1. ASSUME NEW u \in Txs, Commit(u) PROVE req'[t] = req[t]
    <3>1. HasReq(t)
      BY DEF HasReq, ProofsKept
    <3> QED
      BY <2>1, <3>1 DEF Commit, TypeOK
  <2>2. ASSUME ShareDelayed PROVE req'[t] = req[t]
    <3>1. t \notin left["client"]
      BY <2>2 DEF ShareDelayed, Callers, ProofsKept, RowsKept
    <3> QED
      BY <2>2, <3>1 DEF ShareDelayed
  <2>3. ASSUME ShareNow PROVE Kept
    <3>1. req[t] \in Req /\ req'[t] \in {req[t], [req[t] EXCEPT !.batch = group]}
      BY <2>3 DEF ShareNow, TypeOK
    <3> QED
      BY <3>1 DEF Req
  <2> QED
    BY <1>0, <1>3, <2>1, <2>2, <2>3 DEF Process, ProcessBegin, SendWith, ShareRead, ShareReturn
<1>4. ASSUME NEW p \in Callers, Post(p) PROVE Kept
  <2>1. ASSUME NEW u \in Txs, WriteReq(p, u) \/ WriteInvalid(p, u) PROVE req'[t] = req[t]
    <3>1. stage[p] \in {"write", "invalid"} /\ u \in left[p]
      BY <2>1 DEF WriteReq, WriteInvalid
    <3>2. u # t
      BY <3>1 DEF ProofsKept, RowsKept
    <3> QED
      BY <2>1, <3>2 DEF WriteReq, WriteInvalid, TypeOK
  <2> QED
    BY <1>0, <1>4, <2>1 DEF Post, PostInvalid, PostSend, NetReply, NetThrow, WriteTx, WriteTxThrow, PostReturn
<1>5. CASE Tasks
  <2>1. ASSUME NEW u \in Txs, NEW status, NEW counted,
               AlreadyProven(u) \/ ProofAttemptsExceeded(u) \/ NoProof(u, status, counted)
        PROVE req'[t] = req[t]
    BY <2>1 DEF AlreadyProven, ProofAttemptsExceeded, NoProof, ProofNext, MayProve, TypeOK, ProofsKept, RowsKept
  <2>2. ASSUME NEW u \in Txs, ProofFound(u) PROVE req'[t] = req[t]
    BY <2>2 DEF ProofFound, TypeOK
  <2>3. ASSUME NEW u \in Txs, Notify(u) PROVE Kept
    <3>1. notify = u /\ (req'[t] = req[t] \/ (u = t /\ req'[t] = UpdateDynamics(req[t], mSeen[t])))
      BY <2>3 DEF Notify, TypeOK
    <3>2. u = t => mSeen[t].proven /\ mSeen[t].status = "completed"
      BY <3>1 DEF ProofsKept
    <3>3. u = t => /\ UpdateDynamics(req[t], mSeen[t]).proven
                   /\ UpdateDynamics(req[t], mSeen[t]).status = "completed"
      BY <3>2 DEF UpdateDynamics
    <3> QED
      BY <3>1, <3>3
  <2>4. ASSUME NEW u \in Txs,
               \/ SendWaiting \/ CheckForProofs \/ SendLocked \/ FailAbandoned \/ TaskReturn
               \/ SendNext(u) \/ FailOne(u) \/ FailOneThrow(u)
        PROVE req'[t] = req[t]
    BY <2>4 DEF SendWaiting, CheckForProofs, ReadReqs, SendLocked, FailAbandoned, TaskReturn, SendNext, FailOne,
                FailOneThrow
  <2> QED
    BY <1>0, <1>5, <2>1, <2>2, <2>3, <2>4 DEF Tasks
<1>6. CASE World \/ UNCHANGED vars
  BY <1>0, <1>6 DEF World, Broadcast, Mine, Crash, vars
<1> QED
  BY <1>1, <1>2, <1>3, <1>4, <1>5, <1>6 DEF Next

\* A proof comes to a req that has none, and only while no call or task holds its row.
LEMMA NewProof ==
    ASSUME Managed, TypeOK, Known, ProofsKept, [Next]_vars, NEW t \in Txs, ~req[t].proven, req'[t].proven
    PROVE  /\ ProofFound(t) /\ req' = [req EXCEPT ![t] = ProvenRow(req[t])] /\ notify' = t
           /\ stage["client"] = "idle" /\ stage["monitor"] = "idle" /\ notify = None
<1>1. ASSUME NEW u \in Txs, Create(u) \/ Abort(u) PROVE FALSE
  <2>1. ASSUME Create(u) PROVE req' = req
    BY <2>1 DEF Create, CreateBegin, AllocateNoSendChange, Allocate, Release, MarkNamed, Funded, CreateReturn,
                CreateThrow
  <2>2. ASSUME Abort(u) PROVE req'[t].proven = req[t].proven
    <3>1. req[t] \in Req /\ req'[t] \in {req[t], [req[t] EXCEPT !.status = "invalid"]}
      BY <2>2 DEF Abort, TypeOK
    <3> QED
      BY <3>1 DEF Req
  <2> QED
    BY <1>1, <2>1, <2>2
<1>2. ASSUME Process PROVE FALSE
  <2>1. ASSUME NEW u \in Txs, Commit(u) PROVE FALSE
    BY <2>1 DEF Commit, NoReq, TypeOK
  <2>2. ASSUME ShareDelayed \/ ShareNow PROVE FALSE
    <3>1. req[t] \in Req
      BY DEF TypeOK
    <3>2. req'[t] \in {req[t], [req[t] EXCEPT !.batch = group], [req[t] EXCEPT !.status = "unsent", !.batch = group]}
      BY <2>2 DEF ShareDelayed, ShareNow
    <3> QED
      BY <3>1, <3>2 DEF Req
  <2> QED
    BY <1>2, <2>1, <2>2 DEF Process, ProcessBegin, SendWith, ShareRead, ShareReturn
<1>3. ASSUME NEW p \in Callers, Post(p) PROVE FALSE
  <2>1. ASSUME NEW u \in Txs, WriteReq(p, u) \/ WriteInvalid(p, u) PROVE FALSE
    <3>0. stage[p] \in {"write", "invalid"} /\ u \in left[p]
      BY <2>1 DEF WriteReq, WriteInvalid
    <3>1. ~seen[p][u].proven /\ ~req[u].proven /\ seen[p][u] \in Req
      <4>1. seen[p][u] \in Req
        BY DEF TypeOK
      <4>2. ~seen[p][u].proven /\ ~req[u].proven
        BY <3>0 DEF ProofsKept, RowsKept
      <4> QED
        BY <4>1, <4>2
    <3>2. u = t
      BY <2>1 DEF WriteReq, WriteInvalid, TypeOK
    <3>3. req'[t] \in {UpdateDynamics(req[t], [seen[p][t] EXCEPT !.status = PostedStatus(p, t)]),
                       UpdateDynamics(req[t], [seen[p][t] EXCEPT !.status = "invalid"])}
      BY <2>1, <3>2 DEF WriteReq, WriteInvalid, TypeOK
    <3>4. ASSUME NEW status PROVE ~UpdateDynamics(req[t], [seen[p][t] EXCEPT !.status = status]).proven
      BY <3>1, <3>2 DEF UpdateDynamics, Req
    <3> QED
      BY <3>3, <3>4
  <2> QED
    BY <1>3, <2>1 DEF Post, PostInvalid, PostSend, NetReply, NetThrow, WriteTx, WriteTxThrow, PostReturn
<1>4. ASSUME Tasks
      PROVE ProofFound(t) /\ req' = [req EXCEPT ![t] = ProvenRow(req[t])] /\ notify' = t
  <2>1. ASSUME NEW u \in Txs, NEW status, NEW counted,
               AlreadyProven(u) \/ ProofAttemptsExceeded(u) \/ NoProof(u, status, counted)
        PROVE FALSE
    <3>1. ~mSeen[u].proven /\ mSeen[u] \in Req
      BY <2>1 DEF AlreadyProven, ProofAttemptsExceeded, NoProof, ProofNext, MayProve, TypeOK, ProofsKept, RowsKept
    <3>2. u = t
      BY <2>1 DEF AlreadyProven, ProofAttemptsExceeded, NoProof, TypeOK
    <3>3. ~AlreadyProven(u)
      BY <3>1 DEF AlreadyProven
    <3> QED
      BY <2>1, <3>1, <3>2, <3>3 DEF ProofAttemptsExceeded, NoProof, UpdateDynamics, TypeOK, Req
  <2>2. ASSUME NEW u \in Txs, ProofFound(u)
        PROVE u = t /\ req' = [req EXCEPT ![t] = ProvenRow(req[t])] /\ notify' = t
    BY <2>2 DEF ProofFound, TypeOK
  <2>3. ASSUME NEW u \in Txs, Notify(u) PROVE FALSE
    BY <2>3 DEF Notify, TypeOK, ProofsKept, RowsKept
  <2>4. ASSUME NEW u \in Txs,
               \/ SendWaiting \/ CheckForProofs \/ SendLocked \/ FailAbandoned \/ TaskReturn
               \/ SendNext(u) \/ FailOne(u) \/ FailOneThrow(u)
        PROVE FALSE
    BY <2>4 DEF SendWaiting, CheckForProofs, ReadReqs, SendLocked, FailAbandoned, TaskReturn, SendNext, FailOne,
                FailOneThrow
  <2> QED
    BY <1>4, <2>1, <2>2, <2>3, <2>4 DEF Tasks
<1>5. ASSUME World \/ UNCHANGED vars PROVE FALSE
  BY <1>5 DEF World, Broadcast, Mine, Crash, vars
<1>6. ASSUME ProofFound(t)
      PROVE stage["client"] = "idle" /\ stage["monitor"] = "idle" /\ notify = None
  BY <1>6 DEF ProofFound, MayProve, MonitorMayStart, ClientBusy, Known
<1> QED
  BY <1>1, <1>2, <1>3, <1>4, <1>5, <1>6 DEF Next

\* A row is read into memory while its req has no proof.
LEMMA KeptPost ==
    ASSUME Managed, TypeOK, Known, ProofsKept, NEW p \in Callers, Post(p), [Next]_vars
    PROVE  RowsKept'
<1> USE DEF Sound
<1>0. \A t \in Txs : req'[t].proven => req[t].proven
  <2>1. ASSUME NEW t \in Txs, ProofFound(t) PROVE stage[p] = "idle"
    BY <2>1 DEF ProofFound, MayProve, MonitorMayStart, ClientBusy, Known, Callers
  <2>2. stage[p] # "idle"
    BY DEF Post, PostInvalid, PostSend, NetReply, NetThrow, WriteReq, WriteTx, WriteTxThrow, WriteInvalid, PostReturn
  <2> QED
    BY <2>1, <2>2, NewProof
<1>1. RowsKept
  BY DEF ProofsKept
<1>2. ASSUME Idle(p), req' = req, UNCHANGED mSeen \/ mSeen' = [t \in Txs |-> NoReq] PROVE RowsKept'
  BY <1>1, <1>2 DEF Idle, NoReq, TypeOK, RowsKept
<1>3. CASE PostInvalid(p) \/ PostSend(p)
  <2>1. \A q \in Callers : stage'[q] \notin {"idle", "commit", "share"} => stage[q] \notin {"idle", "commit", "share"}
    BY <1>3 DEF PostInvalid, PostSend, TypeOK
  <2> QED
    BY <1>1, <1>3, <2>1 DEF PostInvalid, PostSend, RowsKept
<1>4. ASSUME NEW A, NEW R, NetReply(p, A, R) PROVE RowsKept'
  <2>1. \A q \in Callers, t \in Txs : /\ seen'[q][t].status = seen[q][t].status
                                      /\ seen'[q][t].proven = seen[q][t].proven
    BY <1>4 DEF NetReply, TypeOK, Req
  <2>2. \A q \in Callers : stage'[q] \notin {"idle", "commit", "share"} => stage[q] \notin {"idle", "commit", "share"}
    BY <1>4 DEF NetReply, TypeOK
  <2>3. UNCHANGED <<req, left, mSeen>> /\ \A q \in Callers : left[q] \subseteq Txs
    BY <1>4 DEF NetReply, TypeOK
  <2> QED
    BY <1>1, <2>1, <2>2, <2>3 DEF RowsKept
<1>5. ASSUME NEW t \in Txs, WriteReq(p, t) \/ WriteInvalid(p, t) PROVE RowsKept'
  <2>1. /\ UNCHANGED <<stage, mSeen>>
        /\ left' = [left EXCEPT ![p] = @ \ {t}]
        /\ seen' = [seen EXCEPT ![p][t] = NoReq]
        /\ \A u \in Txs \ {t} : req'[u] = req[u]
    BY <1>5 DEF WriteReq, WriteInvalid, TypeOK
  <2>2. Sound(req'[t])
    <3>1. CASE WriteReq(p, t)
      BY <1>1, <3>1 DEF WriteReq, UpdateDynamics, PostedStatus, TypeOK, Req, RowsKept
    <3>2. CASE WriteInvalid(p, t)
      BY <3>2 DEF WriteInvalid, UpdateDynamics, TypeOK, Req
    <3> QED
      BY <1>5, <3>1, <3>2
  <2>3. \A q \in Callers, u \in Txs : seen'[q][u] = seen[q][u] \/ seen'[q][u] = NoReq
    BY <2>1 DEF TypeOK
  <2>4. \A q \in Callers : left'[q] \subseteq left[q] /\ left[q] \subseteq Txs
    BY <2>1 DEF TypeOK
  <2>5. \A u \in Txs : Sound(req'[u]) /\ Sound(mSeen'[u]) /\ \A q \in Callers : Sound(seen'[q][u])
    BY <1>1, <2>1, <2>2, <2>3 DEF NoReq, RowsKept
  <2>6. ASSUME NEW q \in Callers, stage'[q] \notin {"idle", "commit", "share"}, NEW u \in left'[q]
        PROVE ~req'[u].proven /\ ~seen'[q][u].proven
    <3>1. u \in Txs /\ ~req[u].proven /\ ~seen[q][u].proven
      BY <1>1, <2>1, <2>4, <2>6 DEF RowsKept
    <3> QED
      BY <1>0, <2>3, <3>1 DEF NoReq
  <2> QED
    BY <2>5, <2>6 DEF RowsKept
<1>6. ASSUME NEW t \in Txs, WriteTx(p, t) PROVE RowsKept'
  BY <1>1, <1>6 DEF WriteTx, RowsKept
<1>7. ASSUME NEW A, NEW t, NetThrow(p, A) \/ WriteTxThrow(p, t) \/ PostReturn(p) PROVE RowsKept'
  BY <1>2, <1>7 DEF NetThrow, WriteTxThrow, PostReturn, Throw
<1> QED
  BY <1>3, <1>4, <1>5, <1>6, <1>7 DEF Post

\* processAction reads reqs without a proof; none gets one before the call returns.
LEMMA KeptProcess ==
    ASSUME Managed, TypeOK, Known, ProofsKept, Process, [Next]_vars
    PROVE  RowsKept'
<1> USE DEF Sound
<1>1. RowsKept
  BY DEF ProofsKept
<1>2. ASSUME NEW t \in Txs, NEW m, NEW S, ProcessBegin(t, m, S) PROVE RowsKept'
  BY <1>1, <1>2 DEF ProcessBegin, Callers, TypeOK, RowsKept
<1>3. ASSUME Idle("client"), \A t \in Txs : req'[t].proven = req[t].proven /\ Sound(req'[t]), UNCHANGED mSeen
      PROVE RowsKept'
  BY <1>1, <1>3 DEF Idle, NoReq, Callers, TypeOK, RowsKept
<1>4. ASSUME NEW t \in Txs, Commit(t) PROVE RowsKept'
  <2>1. ASSUME NEW u \in Txs PROVE req'[u].proven = req[u].proven /\ Sound(req'[u])
    <3>1. CASE HasReq(t) \/ u # t
      <4>1. req'[u] = req[u]
        BY <1>4, <3>1 DEF Commit, TypeOK
      <4> QED
        BY <1>1, <4>1 DEF RowsKept
    <3>2. CASE ~HasReq(t) /\ u = t
      <4>1. req'[u].proven = FALSE /\ req'[u].status # "completed"
        BY <1>4, <3>2 DEF Commit, CommitReqStatus, NoReq, TypeOK
      <4>2. req[u].proven = FALSE
        <5>1. req[u] \in Req /\ req[u].status = "absent"
          BY <3>2 DEF HasReq, TypeOK
        <5>2. ~req[u].proven
          BY <5>1 DEF ProofsKept
        <5> QED
          BY <5>1, <5>2 DEF Req
      <4> QED
        BY <4>1, <4>2
    <3> QED
      BY <3>1, <3>2
  <2>2. CASE left["client"] = {}
    BY <1>3, <1>4, <2>1, <2>2 DEF Commit
  <2>3. CASE left["client"] # {}
    <3>1. stage' = [stage EXCEPT !["client"] = "share"] /\ UNCHANGED <<left, seen, mSeen>>
      BY <1>4, <2>3 DEF Commit
    <3> QED
      BY <1>1, <2>1, <3>1 DEF Callers, TypeOK, RowsKept
  <2> QED
    BY <2>2, <2>3
<1>5. ASSUME NEW m, NEW S, SendWith(m, S) PROVE RowsKept'
  BY <1>1, <1>5 DEF SendWith, Callers, TypeOK, RowsKept
<1>6. CASE ShareRead
  BY <1>1, <1>6 DEF ShareRead, ReadyToSend, Rows, NoReq, Callers, TypeOK, RowsKept
<1>7. CASE ShareReturn
  BY <1>1, <1>3, <1>7 DEF ShareReturn, RowsKept
<1>8. CASE ShareDelayed
  <2>1. ASSUME NEW u \in Txs PROVE req'[u].proven = req[u].proven /\ Sound(req'[u])
    <3>1. req[u] \in Req /\ Sound(req[u])
      BY <1>1 DEF TypeOK, RowsKept
    <3>2. req'[u] = req[u] \/ req'[u] = [req[u] EXCEPT !.status = "unsent", !.batch = group]
      BY <1>8 DEF ShareDelayed
    <3> QED
      BY <3>1, <3>2 DEF Req
  <2> QED
    BY <1>3, <1>8, <2>1 DEF ShareDelayed
<1>9. CASE ShareNow
  <2>1. ASSUME NEW u \in Txs
        PROVE /\ req'[u].proven = req[u].proven /\ req'[u].status = req[u].status
              /\ \A q \in Callers : /\ seen'[q][u].proven = seen[q][u].proven
                                    /\ seen'[q][u].status = seen[q][u].status
    BY <1>9 DEF ShareNow, Callers, TypeOK, Req
  <2>2. /\ UNCHANGED <<left, mSeen>> /\ \A q \in Callers : left[q] \subseteq Txs
        /\ stage["client"] = "ready" /\ stage' = [stage EXCEPT !["client"] = "check"]
    BY <1>9 DEF ShareNow, Callers, TypeOK
  <2>3. \A q \in Callers : stage'[q] \notin {"idle", "commit", "share"} => stage[q] \notin {"idle", "commit", "share"}
    BY <2>2 DEF TypeOK
  <2> QED
    BY <1>1, <2>1, <2>2, <2>3 DEF RowsKept
<1> QED
  BY <1>2, <1>4, <1>5, <1>6, <1>7, <1>8, <1>9 DEF Process

\* A task lists reqs that have no proof, and proves one that no call holds.
LEMMA KeptTasks ==
    ASSUME Managed, TypeOK, Known, ProofsKept, Tasks, [Next]_vars
    PROVE  RowsKept'
<1> USE DEF Sound
<1>1. RowsKept
  BY DEF ProofsKept
<1>2. ASSUME NEW name, NEW S, ReadReqs(name, S) PROVE RowsKept'
  BY <1>1, <1>2 DEF ReadReqs, Rows, NoReq, RowsKept
<1>3. CASE SendWaiting \/ CheckForProofs
  BY <1>2, <1>3 DEF SendWaiting, CheckForProofs
<1>4. CASE SendLocked
  <2>1. CASE left["monitor"] = {}
    BY <1>1, <1>4, <2>1 DEF SendLocked, Idle, NoReq, Callers, TypeOK, RowsKept
  <2>2. CASE left["monitor"] # {}
    BY <1>1, <1>4, <2>2 DEF SendLocked, Callers, TypeOK, RowsKept
  <2> QED
    BY <2>1, <2>2
<1>5. CASE FailAbandoned \/ TaskReturn
  BY <1>1, <1>5 DEF FailAbandoned, TaskReturn, RowsKept
<1>6. ASSUME NEW t \in Txs, SendNext(t) PROVE RowsKept'
  <2>1. ~req[t].proven /\ ~mSeen[t].proven
    BY <1>6 DEF SendNext, ProofsKept
  <2>2. \A u \in SendBatch(t) : u \in Txs /\ ~req[u].proven
    BY <2>1 DEF SendBatch, ProofsKept
  <2>3. /\ stage' = [stage EXCEPT !["monitor"] = "ready"]
        /\ left' = [left EXCEPT !["monitor"] = SendBatch(t)]
        /\ mSeen' = [mSeen EXCEPT ![t] = NoReq]
        /\ req' = req
    BY <1>6 DEF SendNext, Consume
  <2>4. \A u \in Txs : /\ Sound(seen'["monitor"][u])
                       /\ u \in SendBatch(t) => ~seen'["monitor"][u].proven
    <3>1. CASE mSeen[t].batch = {}
      BY <1>1, <1>6, <2>1, <3>1 DEF SendNext, SendBatch, Rows, NoReq, Callers, TypeOK, RowsKept
    <3>2. CASE mSeen[t].batch # {}
      BY <1>1, <1>6, <2>2, <3>2 DEF SendNext, Rows, NoReq, Callers, TypeOK, RowsKept
    <3> QED
      BY <3>1, <3>2
  <2>5. seen'["client"] = seen["client"]
    BY <1>6 DEF SendNext, Callers, TypeOK
  <2> QED
    <3>1. \A u \in Txs : Sound(mSeen'[u]) /\ \A q \in Callers : Sound(seen'[q][u])
      BY <1>1, <2>3, <2>4, <2>5 DEF NoReq, Callers, TypeOK, RowsKept
    <3>2. left'["monitor"] = SendBatch(t) /\ left'["client"] = left["client"] /\ stage'["client"] = stage["client"]
      BY <2>3 DEF Callers, TypeOK
    <3>3. left["client"] \subseteq Txs
      BY DEF Callers, TypeOK
    <3> QED
      BY <1>1, <2>2, <2>3, <2>4, <2>5, <3>1, <3>2, <3>3 DEF Callers, RowsKept
<1>7. ASSUME NEW t \in Txs,
             \/ AlreadyProven(t)
             \/ ProofAttemptsExceeded(t)
             \/ \E status \in ProofStatus \cup {"invalid"}, counted \in 0..2 : NoProof(t, status, counted)
      PROVE RowsKept'
  <2>0. ProofNext(t)
    BY <1>7 DEF AlreadyProven, ProofAttemptsExceeded, NoProof
  <2>1. /\ ~mSeen[t].proven /\ ~req[t].proven /\ ProofNext(t)
        /\ UNCHANGED <<stage, left, seen>>
        /\ \A u \in Txs \ {t} : req'[u] = req[u]
    <3>1. ~mSeen[t].proven /\ ~req[t].proven
      BY <2>0 DEF ProofNext, MayProve, ProofsKept
    <3>2. UNCHANGED <<stage, left, seen>> /\ \A u \in Txs \ {t} : req'[u] = req[u]
      BY <1>7 DEF AlreadyProven, ProofAttemptsExceeded, NoProof, TypeOK
    <3> QED
      BY <2>0, <3>1, <3>2
  <2>2. mSeen[t].status # "completed"
    BY <1>1, <2>1 DEF RowsKept
  <2>3. Sound(req'[t]) /\ (req'[t].proven => req[t].proven)
    BY <1>7, <2>1, <2>2 DEF AlreadyProven, ProofAttemptsExceeded, NoProof, UpdateDynamics, ProofStatus, TypeOK, Req
  <2> QED
    BY <1>1, <2>1, <2>3 DEF ProofNext, Consume, NoReq, TypeOK, RowsKept
<1>8. ASSUME NEW t \in Txs, ProofFound(t) PROVE RowsKept'
  <2>1. ~ClientBusy /\ stage["monitor"] = "idle"
    BY <1>8 DEF ProofFound, MayProve, MonitorMayStart, Known
  <2>2. /\ ProvenRow(req[t]).proven
        /\ \A u \in Txs : /\ req'[u] \in {req[u], ProvenRow(req[t])}
                          /\ mSeen'[u] \in {mSeen[u], NoReq, ProvenRow(req[t])}
        /\ UNCHANGED <<stage, left, seen>>
    BY <1>8 DEF ProofFound, ProvenRow, TypeOK, Req
  <2> QED
    BY <1>1, <2>1, <2>2 DEF ClientBusy, NoReq, Callers, RowsKept
<1>9. ASSUME NEW t \in Txs, Notify(t) PROVE RowsKept'
  <2>1. /\ req[t].proven /\ mSeen[t].proven /\ mSeen[t].status = "completed"
    BY <1>9 DEF Notify, ProofsKept
  <2>2. /\ req'[t].proven = TRUE
        /\ \A u \in Txs \ {t} : req'[u] = req[u]
        /\ mSeen' = [mSeen EXCEPT ![t] = NoReq]
        /\ UNCHANGED <<stage, left, seen>>
    BY <1>9, <2>1 DEF Notify, UpdateDynamics, TypeOK
  <2> QED
    BY <1>1, <2>1, <2>2 DEF NoReq, TypeOK, RowsKept
<1>10. ASSUME NEW t \in Txs, FailOne(t) PROVE RowsKept'
  BY <1>1, <1>10 DEF FailOne, RowsKept
<1>11. ASSUME NEW t \in Txs, FailOneThrow(t) PROVE RowsKept'
  BY <1>1, <1>11 DEF FailOneThrow, Throw, Idle, NoReq, Callers, TypeOK, RowsKept
<1> QED
  BY <1>3, <1>4, <1>5, <1>6, <1>7, <1>8, <1>9, <1>10, <1>11 DEF Tasks

LEMMA RowsKeptNext ==
    ASSUME Managed, TypeOK, Known, ProofsKept, [Next]_vars PROVE RowsKept'
<1>0. RowsKept
  BY DEF ProofsKept
<1>1. ASSUME NEW t \in Txs, Create(t) PROVE RowsKept'
  BY <1>0, <1>1 DEF Create, CreateBegin, AllocateNoSendChange, Allocate, Release, MarkNamed, Funded, CreateReturn,
                    CreateThrow, RowsKept, Sound
<1>2. ASSUME NEW t \in Txs, Abort(t) PROVE RowsKept'
  <2>1. ASSUME NEW u \in Txs PROVE req'[u].proven = req[u].proven /\ Sound(req'[u])
    <3>1. req[u] \in Req /\ Sound(req[u])
      BY <1>0 DEF TypeOK, RowsKept
    <3>2. req'[u] = req[u] \/ req'[u] = [req[u] EXCEPT !.status = "invalid"]
      BY <1>2 DEF Abort, TypeOK
    <3> QED
      BY <3>1, <3>2 DEF Req, Sound
  <2>2. UNCHANGED <<stage, left, seen, mSeen>> /\ \A p \in Callers : left[p] \subseteq Txs
    BY <1>2 DEF Abort, TypeOK
  <2> QED
    BY <1>0, <2>1, <2>2 DEF RowsKept, Sound
<1>3. CASE World
  <2>1. CASE Crash
    BY <1>0, <2>1 DEF Crash, NoReq, RowsKept, Sound
  <2>2. ASSUME NEW t \in Txs, NEW A, Broadcast(t, A) \/ Mine(t) PROVE RowsKept'
    BY <1>0, <2>2 DEF Broadcast, Mine, RowsKept, Sound
  <2> QED
    BY <1>3, <2>1, <2>2 DEF World
<1>4. CASE UNCHANGED vars
  BY <1>0, <1>4 DEF vars, RowsKept, Sound
<1> QED
  BY <1>1, <1>2, <1>3, <1>4, KeptProcess, KeptPost, KeptTasks DEF Next

\* A listed row is not changed while it waits for its turn.
LEMMA TaskRows ==
    ASSUME TypeOK, Known, [Next]_vars, task' \in {"send", "proof"}, NEW t \in mLeft', ~SendWaiting, ~CheckForProofs
    PROVE  task = task' /\ t \in mLeft /\ mSeen'[t] = mSeen[t]
<1> DEFINE Same == task = task' /\ t \in mLeft /\ mSeen'[t] = mSeen[t]
<1>0. ASSUME UNCHANGED <<task, mLeft, mSeen>> PROVE Same
  BY <1>0
<1>1. ASSUME NEW u \in Txs, Create(u) \/ Abort(u) PROVE Same
  BY <1>0, <1>1 DEF Create, CreateBegin, AllocateNoSendChange, Allocate, Release, MarkNamed, Funded, CreateReturn,
                    CreateThrow, Abort
<1>2. ASSUME Process PROVE Same
  BY <1>0, <1>2 DEF Process, ProcessBegin, Commit, SendWith, ShareRead, ShareReturn, ShareDelayed, ShareNow
<1>3. ASSUME NEW p \in Callers, Post(p) PROVE Same
  <2>1. ASSUME Throw(p) PROVE Same
    BY <1>0, <2>1 DEF Throw
  <2> QED
    BY <1>0, <1>3, <2>1 DEF Post, PostInvalid, PostSend, NetReply, NetThrow, WriteReq, WriteTx, WriteTxThrow,
                            WriteInvalid, PostReturn
<1>4. ASSUME SendLocked PROVE Same
  BY <1>0, <1>4 DEF SendLocked
<1>5. ASSUME FailAbandoned \/ TaskReturn PROVE FALSE
  BY <1>5 DEF FailAbandoned, TaskReturn
<1>6. ASSUME NEW u \in Txs, NEW status, NEW counted,
             \/ SendNext(u) \/ AlreadyProven(u) \/ ProofAttemptsExceeded(u) \/ NoProof(u, status, counted)
      PROVE Same
  BY <1>6 DEF SendNext, AlreadyProven, ProofAttemptsExceeded, NoProof, ProofNext, Consume, TypeOK
<1>7. ASSUME NEW u \in Txs, ProofFound(u) PROVE Same
  BY <1>7 DEF ProofFound, TypeOK
<1>8. ASSUME NEW u \in Txs, Notify(u) PROVE Same
  BY <1>8, ConstantsAssumption DEF Notify, TypeOK, Known
<1>9. ASSUME NEW u \in Txs, FailOne(u) \/ FailOneThrow(u) PROVE FALSE
  BY <1>9 DEF FailOne, FailOneThrow, Throw
<1>10. ASSUME World PROVE Same
  BY <1>0, <1>10 DEF World, Broadcast, Mine, Crash
<1>11. ASSUME UNCHANGED vars PROVE Same
  BY <1>0, <1>11 DEF vars
<1> QED
  BY <1>1, <1>2, <1>3, <1>4, <1>5, <1>6, <1>7, <1>8, <1>9, <1>10, <1>11 DEF Next, Tasks

LEMMA NotifyRows ==
    ASSUME TypeOK, Known, [Next]_vars, NEW t \in Txs, notify' = t
    PROVE  \/ notify = t /\ mSeen'[t] = mSeen[t]
           \/ \E u \in Txs : ProofFound(u) /\ notify = None
<1> DEFINE Same == notify = t /\ mSeen'[t] = mSeen[t]
<1>0. ASSUME UNCHANGED <<notify, mSeen>> PROVE Same
  BY <1>0
<1>1. ASSUME NEW u \in Txs, Create(u) \/ Abort(u) PROVE Same
  BY <1>0, <1>1 DEF Create, CreateBegin, AllocateNoSendChange, Allocate, Release, MarkNamed, Funded, CreateReturn,
                    CreateThrow, Abort
<1>2. ASSUME Process PROVE Same
  BY <1>0, <1>2 DEF Process, ProcessBegin, Commit, SendWith, ShareRead, ShareReturn, ShareDelayed, ShareNow
<1>3. ASSUME NEW p \in Callers, Post(p) PROVE Same
  <2>1. ASSUME Throw(p), stage[p] # "idle" PROVE Same
    BY <1>0, <2>1, ConstantsAssumption DEF Throw, Known
  <2> QED
    BY <1>0, <1>3, <2>1 DEF Post, PostInvalid, PostSend, NetReply, NetThrow, WriteReq, WriteTx, WriteTxThrow,
                            WriteInvalid, PostReturn
<1>4. ASSUME SendWaiting \/ CheckForProofs PROVE FALSE
  BY <1>4, ConstantsAssumption DEF SendWaiting, CheckForProofs, ReadReqs, Known
<1>5. ASSUME SendLocked \/ FailAbandoned \/ TaskReturn PROVE Same
  BY <1>0, <1>5 DEF SendLocked, FailAbandoned, TaskReturn
<1>6. ASSUME NEW u \in Txs, NEW status, NEW counted,
             \/ SendNext(u) \/ AlreadyProven(u) \/ ProofAttemptsExceeded(u) \/ NoProof(u, status, counted)
             \/ FailOneThrow(u)
      PROVE FALSE
  BY <1>6, ConstantsAssumption DEF SendNext, AlreadyProven, ProofAttemptsExceeded, NoProof, ProofNext, MayProve,
                                   FailOneThrow, Throw, Known
<1>7. ASSUME NEW u \in Txs, ProofFound(u) PROVE notify = None
  BY <1>7 DEF ProofFound, MayProve
<1>8. ASSUME NEW u \in Txs, Notify(u) PROVE FALSE
  BY <1>8, ConstantsAssumption DEF Notify
<1>9. ASSUME NEW u \in Txs, FailOne(u) PROVE Same
  BY <1>0, <1>9 DEF FailOne
<1>10. ASSUME World PROVE Same
  BY <1>0, <1>10, ConstantsAssumption DEF World, Broadcast, Mine, Crash
<1>11. ASSUME UNCHANGED vars PROVE Same
  BY <1>0, <1>11 DEF vars
<1> QED
  BY <1>1, <1>2, <1>3, <1>4, <1>5, <1>6, <1>7, <1>8, <1>9, <1>10, <1>11 DEF Next, Tasks

LEMMA ProofsKeptNext ==
    ASSUME Managed, TypeOK, Untouched, Known, Exclusive, Statuses, ProofsKept, [Next]_vars
    PROVE  ProofsKept'
<1>1. RowsKept'
  BY RowsKeptNext
<1>2. ASSUME NEW t \in Txs, req'[t].proven
      PROVE  req'[t].status = "completed" \/ (req'[t].status = "invalid" /\ txStatus'[t] = "failed")
  <2>1. CASE ~req[t].proven
    <3>1. req'[t] = ProvenRow(req[t])
      BY <1>2, <2>1, NewProof DEF TypeOK
    <3> QED
      BY <3>1 DEF ProvenRow, TypeOK, Req
  <2>2. CASE req[t].proven /\ Abort(t)
    <3>1. HasReq(t)
      BY <2>2 DEF ProofsKept, HasReq
    <3> QED
      BY <2>2, <3>1 DEF Abort, Fail, TypeOK, Req
  <2>3. CASE req[t].proven /\ ~Abort(t) /\ txStatus'[t] = txStatus[t]
    BY <2>3, ProvenRows DEF ProofsKept
  <2>4. CASE req[t].proven /\ ~Abort(t) /\ txStatus'[t] # txStatus[t]
    <3>1. CASE txStatus[t] # "failed"
      BY <2>4, <3>1, ProvenRows DEF ProofsKept
    <3>2. CASE txStatus[t] = "failed"
      <4>1. ~Commit(t)
        BY <3>2 DEF Commit, Statuses, Unsent
      <4>2. \A p \in Callers : ~WriteTx(p, t)
        BY <3>2 DEF WriteTx, StatusRefused
      <4>3. ~(ShareDelayed /\ t \in left["client"])
        BY <2>4 DEF ShareDelayed, Callers, ProofsKept, RowsKept
      <4>4. FailOne(t) => txStatus'[t] = "failed"
        BY DEF FailOne, Fail, TypeOK
      <4> QED
        BY <2>4, <3>2, <4>1, <4>2, <4>3, <4>4, StatusSteps
    <3> QED
      BY <3>1, <3>2
  <2> QED
    BY <2>1, <2>2, <2>3, <2>4
<1>3. ASSUME task' \in {"send", "proof"}, NEW t \in mLeft' PROVE ~req'[t].proven /\ ~mSeen'[t].proven
  <2>1. CASE task = task' /\ t \in mLeft /\ mSeen'[t] = mSeen[t]
    <3>1. t \in Txs /\ ~req[t].proven /\ ~mSeen[t].proven
      BY <1>3, <2>1 DEF TypeOK, ProofsKept
    <3>2. ASSUME req'[t].proven PROVE FALSE
      <4>1. ProofFound(t)
        BY <3>1, <3>2, NewProof
      <4> QED
        BY <1>3, <4>1 DEF ProofFound
    <3> QED
      BY <2>1, <3>1, <3>2
  <2>2. CASE SendWaiting \/ CheckForProofs
    <3>1. t \in Txs /\ req[t].status \in {"unsent", "unmined", "nosend"} /\ req' = req /\ mSeen'[t] = req[t]
      BY <1>3, <2>2 DEF SendWaiting, CheckForProofs, ReadReqs, Rows, ProofStatus
    <3> QED
      BY <3>1 DEF ProofsKept
  <2>3. CASE ~(SendWaiting \/ CheckForProofs)
    BY <1>3, <2>1, <2>3, TaskRows
  <2> QED
    BY <2>2, <2>3
<1>4. ASSUME NEW t \in Txs, notify' = t PROVE req'[t].proven /\ mSeen'[t].proven /\ mSeen'[t].status = "completed"
  <2>1. CASE notify = t /\ mSeen'[t] = mSeen[t]
    BY <2>1, ProvenRows DEF ProofsKept
  <2>2. ASSUME NEW u \in Txs, ProofFound(u), notify = None
        PROVE u = t /\ req'[t].proven /\ mSeen'[t].proven /\ mSeen'[t].status = "completed"
    <3>1. u = t /\ req'[t] = ProvenRow(req[t]) /\ mSeen'[t] = ProvenRow(req[t])
      BY <1>4, <2>2, ConstantsAssumption DEF ProofFound, TypeOK
    <3> QED
      BY <3>1 DEF ProvenRow, TypeOK, Req
  <2> QED
    BY <1>4, <2>1, <2>2, NotifyRows
<1> QED
  BY <1>1, <1>2, <1>3, <1>4 DEF ProofsKept

LEMMA ProofsKeptInit == Init => ProofsKept
  BY ConstantsAssumption DEF Init, NoReq, Callers, ProofsKept, RowsKept, Sound

\* What the last invariants need, together.
ManagedInv == TypeOK /\ Untouched /\ Known /\ Exclusive /\ Statuses /\ ProofsKept

LEMMA ManagedCorrect == ASSUME Managed PROVE Spec => []ManagedInv
<1>1. Init => ManagedInv
  BY InitTypes, UntouchedInit, KnownInit, ManagedInit, ProofsKeptInit DEF ManagedInv
<1>2. ManagedInv /\ [Next]_vars => ManagedInv'
  BY NextTypes, UntouchedNext, KnownNext, ExclusiveNext, StatusesNext, ProofsKeptNext DEF ManagedInv
<1> QED
  BY <1>1, <1>2, PTL DEF Spec

\* With the manager's locks, an action that is queued or sent stays so until it is
\* completed, whatever was read before it was queued.
THEOREM SentStays == ASSUME Managed PROVE Spec => SentStaysSent
<1>1. ManagedInv /\ [Next]_vars
        => [\A t \in Txs : txStatus[t] \in {"sending", "unproven"} =>
              txStatus'[t] \in {"sending", "unproven", "completed"}]_vars
  BY SentNext DEF ManagedInv
<1> QED
  BY <1>1, ManagedCorrect, PTL DEF Spec, SentStaysSent

\* With the manager's locks, a req has its proof exactly when it is completed, or was
\* aborted: no row that was read before the proof is written over it.
THEOREM ProofsStay == ASSUME Managed PROVE Spec => []CompletedIffProven
<1>1. ManagedInv => CompletedIffProven
  BY DEF ManagedInv, ProofsKept, RowsKept, Sound, CompletedIffProven
<1> QED
  BY <1>1, ManagedCorrect, PTL

\* With the manager's locks, a completed req stays completed, unless restarts left its
\* transaction abortable.
THEOREM CompletedStays == ASSUME Managed PROVE Spec => CompletedIsFinal
<1>1. ASSUME ManagedInv, [Next]_vars, NEW t \in Txs, req[t].status = "completed",
             txProven[t] \/ txStatus[t] \notin {"nosend", "unprocessed"}
      PROVE  req'[t].status = "completed"
  <2>1. req[t].proven
    BY <1>1 DEF ManagedInv, ProofsKept, RowsKept, Sound
  <2>2. ~Abort(t)
    BY <1>1 DEF ManagedInv, Statuses, HasReq, Abort, AbortableStatus, StatusRefused
  <2> QED
    BY <1>1, <2>1, <2>2, ProvenRows DEF ManagedInv
<1>2. ManagedInv /\ [Next]_vars
        => [\A t \in Txs : req[t].status = "completed" /\ (txProven[t] \/ txStatus[t] \notin {"nosend", "unprocessed"}) =>
              req'[t].status = "completed"]_vars
  BY <1>1
<1> QED
  BY <1>2, ManagedCorrect, PTL DEF Spec, CompletedIsFinal
=============================================================================

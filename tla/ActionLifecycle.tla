-------------------------- MODULE ActionLifecycle --------------------------
(***************************************************************************)
(* The life of the wallet's outgoing actions in one StorageProvider: the   *)
(* storage records that createAction, processAction, abortAction and the   *)
(* Monitor's SendWaiting, CheckForProofs and FailAbandoned tasks read and  *)
(* write, one action per database transaction or awaited call.             *)
(*                                                                         *)
(* An action has one transactions row, one txid and at most one            *)
(* proven_tx_reqs row, all named by a member of Txs.  The member also      *)
(* names the transaction's own (change) output.  Amounts, scripts, fees    *)
(* and labels are left out.                                                *)
(***************************************************************************)
EXTENDS Naturals

CONSTANTS
    Txs,                \* outgoing actions
    Coins,              \* outputs of transactions that are already proven
    None,               \* no transaction
    Modes,              \* how applications ask for actions to be broadcast
    MaxSendAttempts,    \* posts before a req is invalid (10 in the code)
    MaxProofAttempts,   \* proof attempts before a req is invalid (144 or 2016)
    StaleProofAttempts, \* getProofAttemptsLimit (8): an old req is given up
    Managed,            \* TRUE: every call runs under WalletStorageManager's locks
    MaxCrashes          \* bound: restarts of the process

ASSUME ConstantsAssumption ==
    /\ Txs \cap Coins = {}
    /\ None \notin Txs
    /\ Modes \subseteq {"nosend", "delayed", "now"}
    /\ MaxSendAttempts \in Nat
    /\ MaxProofAttempts \in Nat
    /\ StaleProofAttempts \in Nat
    /\ Managed \in BOOLEAN
    /\ MaxCrashes \in Nat

Outputs == Coins \cup Txs
Callers == {"client", "monitor"}

TxStatus == {"absent", "unsigned", "unprocessed", "nosend", "sending",
             "unproven", "completed", "failed"}
ReqStatus == {"absent", "nosend", "unprocessed", "unsent", "unmined",
              "completed", "invalid"}

ReadyToSendStatus == {"unsent", "nosend", "unprocessed"}
KnownValidStatus == {"unsent", "unmined", "nosend", "completed"}
ProofStatus == {"unmined", "nosend"}

Req == [status: ReqStatus, attempts: Nat, proven: BOOLEAN, batch: SUBSET Txs]
NoReq == [status |-> "absent", attempts |-> 0, proven |-> FALSE, batch |-> {}]

VARIABLES
    \* The database.
    txStatus,   \* transactions.status
    txProven,   \* transactions.provenTxId is set
    spendable,  \* outputs.spendable
    spentBy,    \* outputs.spentBy
    req,        \* proven_tx_reqs
    \* The world.
    net,        \* what the network has done with the transaction
    crashes,    \* restarts so far
    \* Calls to createAction: where each is, and the inputs it deals with.
    call, named, noSendChange, ins,
    \* Calls to processAction (client) and SendWaiting's posts (monitor).
    stage, mode, group, left, seen, accepted, cur,
    \* The Monitor's current task and the req rows it has read.
    task, mLeft, mSeen, notify,
    \* History, read by no action.
    revived,    \* transactions that have left status 'failed'
    overwritten, \* outputs locked while another action held them
    reopened    \* outputs committed again after they were spent

db == <<txStatus, txProven, spendable, spentBy, req>>
creating == <<call, named, noSendChange, ins>>
posting == <<stage, mode, group, left, seen, accepted, cur>>
monitor == <<task, mLeft, mSeen, notify>>
history == <<revived, overwritten, reopened>>
world == <<net, crashes>>
vars == <<db, world, creating, posting, monitor, history>>
-----------------------------------------------------------------------------
Init ==
    /\ txStatus = [t \in Txs |-> "absent"]
    /\ txProven = [t \in Txs |-> FALSE]
    /\ spendable = [o \in Outputs |-> o \in Coins]
    /\ spentBy = [o \in Outputs |-> None]
    /\ req = [t \in Txs |-> NoReq]
    /\ net = [t \in Txs |-> "unseen"]
    /\ crashes = 0
    /\ call = [t \in Txs |-> "none"]
    /\ named = [t \in Txs |-> {}]
    /\ noSendChange = [t \in Txs |-> {}]
    /\ ins = [t \in Txs |-> {}]
    /\ stage = [p \in Callers |-> "idle"]
    /\ mode = "now"
    /\ group = {}
    /\ left = [p \in Callers |-> {}]
    /\ seen = [p \in Callers |-> [t \in Txs |-> NoReq]]
    /\ accepted = [p \in Callers |-> {}]
    /\ cur = [p \in Callers |-> None]
    /\ task = "idle"
    /\ mLeft = {}
    /\ mSeen = [t \in Txs |-> NoReq]
    /\ notify = None
    /\ revived = {}
    /\ overwritten = {}
    /\ reopened = {}
-----------------------------------------------------------------------------
(* Locks.  A client call runs under runAsWriter, a Monitor closure under   *)
(* runAsStorageProvider: with a manager they exclude each other.  The      *)
(* StorageServer calls the provider directly, with neither.                *)

Creating(t) == call[t] \in {"fund", "mark"}

ClientBusy == stage["client"] # "idle" \/ \E t \in Txs : Creating(t)

MonitorBusy ==
    \/ stage["monitor"] \notin {"idle", "ready"}
    \/ task = "fail"
    \/ notify # None

\* Mutant: writers do not exclude each other (_isSingleWriter is false).
ManyWriters == Managed => ~MonitorBusy

ClientMayStart == Managed => ~ClientBusy /\ ~MonitorBusy
MonitorMayStart == Managed => ~ClientBusy

(* Helpers. *)

Rows(S) == [t \in Txs |-> IF t \in S THEN req[t] ELSE NoReq]

HasReq(t) == req[t].status # "absent"

Committed == {t \in Txs : HasReq(t)}

(* The output has a txid: it can be named as an outpoint. *)
HasOutpoint(o) == o \in Coins \/ (o \in Txs /\ HasReq(o))

(* updateTransactionStatus throws. *)
StatusRefused(status, t, proven) ==
    \/ status # "completed" /\ txStatus[t] = "completed"
    \/ proven
    \/ status # "failed" /\ txStatus[t] = "failed"

\* Mutants: one of the two columns is not written.
FailKeepsSpendable(t) ==
    /\ txStatus' = [txStatus EXCEPT ![t] = "failed"]
    /\ spentBy' = [o \in Outputs |-> IF spentBy[o] = t THEN None ELSE spentBy[o]]
    /\ UNCHANGED spendable
FailKeepsSpentBy(t) ==
    /\ txStatus' = [txStatus EXCEPT ![t] = "failed"]
    /\ spendable' = [o \in Outputs |-> spentBy[o] = t \/ spendable[o]]
    /\ UNCHANGED spentBy

(* updateTransactionStatus('failed'): the inputs that t still holds return. *)
Fail(t) ==
    /\ txStatus' = [txStatus EXCEPT ![t] = "failed"]
    /\ spendable' = [o \in Outputs |-> spentBy[o] = t \/ spendable[o]]
    /\ spentBy' = [o \in Outputs |-> IF spentBy[o] = t THEN None ELSE spentBy[o]]

(* Output o becomes an input of t. *)
Lock(t, o) ==
    /\ spendable' = [spendable EXCEPT ![o] = FALSE]
    /\ spentBy' = [spentBy EXCEPT ![o] = t]
    /\ overwritten' = overwritten \cup {x \in {o} : spentBy[x] \notin {None, t}}

(* updateProvenTxReqDynamics: the in-memory row s over the stored row r.    *)
(* Falsy properties are not written.                                       *)
UpdateDynamics(r, s) ==
    [status   |-> s.status,
     attempts |-> IF s.attempts # 0 THEN s.attempts ELSE r.attempts,
     proven   |-> r.proven \/ s.proven,
     batch    |-> IF s.batch # {} THEN s.batch ELSE r.batch]

Parents(t) == ins[t] \cap Txs

KnownValid(t) == req[t].proven \/ req[t].status \in KnownValidStatus

(* The transactions of the aggregate beef of B: B and its ancestors.       *)
Beef(B) ==
    {t \in Txs : \A S \in SUBSET Txs :
        (B \subseteq S /\ \A u \in S : Parents(u) \subseteq S) => t \in S}
-----------------------------------------------------------------------------
(* createAction: validate, insert the transaction, lock change outputs one *)
(* at a time, insert the new outputs, then mark the inputs the caller      *)
(* named.  It is not one database transaction.                             *)

\* The rules for named inputs X and for the change C of earlier noSend actions.
ValidInputs(X, C, isNoSend) ==
    /\ isNoSend \/ \A o \in X : spendable[o]
    /\ isNoSend \/ C = {}
    /\ \A o \in C : spendable[o] /\ spentBy[o] = None

CreateBegin(t, X, C, isNoSend) ==
    /\ ClientMayStart
    /\ call[t] = "none"
    /\ isNoSend => "nosend" \in Modes
    /\ \A o \in X \cup C : HasOutpoint(o)
    /\ ValidInputs(X, C, isNoSend)
    /\ txStatus' = [txStatus EXCEPT ![t] = "unsigned"]
    /\ call' = [call EXCEPT ![t] = "fund"]
    /\ named' = [named EXCEPT ![t] = X]
    /\ noSendChange' = [noSendChange EXCEPT ![t] = C]
    /\ UNCHANGED <<txProven, spendable, spentBy, req, world, ins, posting, monitor, history>>

\* noSendChange is allocated first, without reading its row again.
AllocateNoSendChange(t, o) ==
    /\ call[t] = "fund"
    /\ o \in noSendChange[t] \ ins[t]
    /\ Lock(t, o)
    /\ ins' = [ins EXCEPT ![t] = @ \cup {o}]
    /\ UNCHANGED <<txStatus, txProven, req, world, call, named, noSendChange, posting, monitor, revived, reopened>>

\* The change output of a transaction the network is expected to know.
Allocatable(o) ==
    /\ spendable[o]
    /\ o \in Txs => txStatus[o] \in {"completed", "unproven", "sending"}

Allocate(t, o) ==
    /\ call[t] = "fund"
    /\ noSendChange[t] \subseteq ins[t]
    /\ Allocatable(o)
    /\ Lock(t, o)
    /\ ins' = [ins EXCEPT ![t] = @ \cup {o}]
    /\ UNCHANGED <<txStatus, txProven, req, world, call, named, noSendChange, posting, monitor, revived, reopened>>

\* Mutant: the released input stays in the transaction.
ReleaseKeepsInput(t, o) ==
    /\ call[t] = "fund"
    /\ o \in ins[t] \ noSendChange[t]
    /\ spendable' = [spendable EXCEPT ![o] = TRUE]
    /\ spentBy' = [spentBy EXCEPT ![o] = None]
    /\ UNCHANGED <<txStatus, txProven, req, world, call, named, noSendChange, ins, posting, monitor, history>>

\* The starvation loop of generateChangeSdk gives an allocated input back.
Release(t, o) ==
    /\ call[t] = "fund"
    /\ o \in ins[t]
    /\ ins' = [ins EXCEPT ![t] = @ \ {o}]
    /\ IF o \in noSendChange[t]
       THEN UNCHANGED <<spendable, spentBy>>
       ELSE /\ spendable' = [spendable EXCEPT ![o] = TRUE]
            /\ spentBy' = [spentBy EXCEPT ![o] = None]
    /\ UNCHANGED <<txStatus, txProven, req, world, call, named, noSendChange, posting, monitor, history>>

Funded(t) ==
    /\ call[t] = "fund"
    /\ call' = [call EXCEPT ![t] = "mark"]
    /\ noSendChange' = [noSendChange EXCEPT ![t] = {}]
    /\ UNCHANGED <<db, world, named, ins, posting, monitor, history>>

MarkNamed(t, o) ==
    /\ call[t] = "mark"
    /\ o \in named[t]
    /\ Lock(t, o)
    /\ named' = [named EXCEPT ![t] = @ \ {o}]
    /\ ins' = [ins EXCEPT ![t] = @ \cup {o}]
    /\ UNCHANGED <<txStatus, txProven, req, world, call, noSendChange, posting, monitor, revived, reopened>>

\* The caller learns the reference; the signer keeps the pending action in memory.
CreateReturn(t) ==
    /\ call[t] = "mark"
    /\ named[t] = {}
    /\ call' = [call EXCEPT ![t] = "pending"]
    /\ UNCHANGED <<db, world, named, noSendChange, ins, posting, monitor, history>>

\* Insufficient funds, or an input whose beef cannot be merged: what was locked
\* stays locked by a transaction whose reference nobody knows.
CreateThrow(t) ==
    /\ call[t] = "fund"
    /\ call' = [call EXCEPT ![t] = "dead"]
    /\ named' = [named EXCEPT ![t] = {}]
    /\ noSendChange' = [noSendChange EXCEPT ![t] = {}]
    /\ UNCHANGED <<db, world, ins, posting, monitor, history>>
-----------------------------------------------------------------------------
(* processAction.                                                          *)

Idle(p) ==
    /\ mode' = IF p = "client" THEN "now" ELSE mode
    /\ group' = IF p = "client" THEN {} ELSE group
    /\ stage' = [stage EXCEPT ![p] = "idle"]
    /\ left' = [left EXCEPT ![p] = {}]
    /\ seen' = [seen EXCEPT ![p] = [t \in Txs |-> NoReq]]
    /\ accepted' = [accepted EXCEPT ![p] = {}]
    /\ cur' = [cur EXCEPT ![p] = None]

\* validateCommitNewTxToStorageArgs: a pending action is signed, possibly again,
\* and its status read.  S is the sendWith option.
ProcessBegin(t, m, S) ==
    /\ ClientMayStart
    /\ stage["client"] = "idle"
    /\ call[t] = "pending"
    /\ txStatus[t] \in {"unsigned", "unprocessed"}
    /\ m = "nosend" => S = {}
    /\ stage' = [stage EXCEPT !["client"] = "commit"]
    /\ mode' = m
    /\ cur' = [cur EXCEPT !["client"] = t]
    /\ left' = [left EXCEPT !["client"] = S \cup (IF m = "nosend" THEN {} ELSE {t})]
    /\ UNCHANGED <<db, world, creating, group, seen, accepted, monitor, history>>

CommitReqStatus == [nosend |-> "nosend", delayed |-> "unsent", now |-> "unprocessed"]
CommitTxStatus == [nosend |-> "nosend", delayed |-> "unprocessed", now |-> "unprocessed"]

\* commitNewTxToStorage: one database transaction.  An existing req keeps its status.
Commit(t) ==
    /\ stage["client"] = "commit"
    /\ cur["client"] = t
    /\ req' = IF HasReq(t) THEN req
              ELSE [req EXCEPT ![t] = [NoReq EXCEPT !.status = CommitReqStatus[mode]]]
    /\ spendable' = [spendable EXCEPT ![t] = TRUE]
    /\ txStatus' = [txStatus EXCEPT ![t] = CommitTxStatus[mode]]
    /\ IF left["client"] = {}
       THEN Idle("client")
       ELSE /\ stage' = [stage EXCEPT !["client"] = "share"]
            /\ cur' = [cur EXCEPT !["client"] = None]
            /\ UNCHANGED <<mode, group, left, seen, accepted>>
    /\ revived' = revived \cup {u \in {t} : txStatus[u] = "failed"}
    /\ reopened' = reopened \cup {u \in {t} : spentBy[u] # None}
    /\ UNCHANGED <<txProven, spentBy, world, creating, monitor, overwritten>>

\* processAction without a new transaction: send earlier actions.
SendWith(m, S) ==
    /\ ClientMayStart
    /\ stage["client"] = "idle"
    /\ m # "nosend" /\ S # {}
    /\ stage' = [stage EXCEPT !["client"] = "share"]
    /\ mode' = m
    /\ left' = [left EXCEPT !["client"] = S]
    /\ UNCHANGED <<db, world, creating, group, seen, accepted, cur, monitor, history>>

\* Mutant: the status of the req is not read.
AnyReqReady(S) == {t \in S : HasReq(t)}

ReadyToSend(S) == {t \in S : ~req[t].proven /\ req[t].status \in ReadyToSendStatus}

\* shareReqsWithWorld reads the reqs and verifies their beef.
ShareRead ==
    /\ stage["client"] = "share"
    /\ LET ready == ReadyToSend(left["client"]) IN
       /\ ready # {}
       /\ left' = [left EXCEPT !["client"] = ready]
       /\ seen' = [seen EXCEPT !["client"] = Rows(ready)]
    /\ stage' = [stage EXCEPT !["client"] = "ready"]
    /\ group' = IF \E t, u \in left["client"] : t # u THEN left["client"] ELSE {}
    /\ UNCHANGED <<db, world, creating, mode, accepted, cur, monitor, history>>

\* No req is ready; or the beef does not verify, or no chain tracker answers.
ShareReturn ==
    /\ stage["client"] = "share"
    /\ Idle("client")
    /\ UNCHANGED <<db, world, creating, monitor, history>>

\* isDelayed: one database transaction queues the reqs for SendWaiting.  It
\* writes transactions.status without updateTransactionStatus.
ShareDelayed ==
    /\ stage["client"] = "ready"
    /\ mode = "delayed"
    /\ LET S == left["client"] IN
       /\ req' = [t \in Txs |-> IF t \in S
                                THEN [req[t] EXCEPT !.status = "unsent", !.batch = group]
                                ELSE req[t]]
       /\ txStatus' = [t \in Txs |-> IF t \in S THEN "sending" ELSE txStatus[t]]
       /\ revived' = revived \cup {t \in S : txStatus[t] = "failed"}
    /\ Idle("client")
    /\ UNCHANGED <<txProven, spendable, spentBy, world, creating, monitor, overwritten, reopened>>

\* Send now: the batch is recorded and the reqs go to attemptToPostReqsToNetwork.
ShareNow ==
    /\ stage["client"] = "ready"
    /\ mode = "now"
    /\ LET batched(row, t) ==
             IF t \in left["client"] /\ group # {} THEN [row EXCEPT !.batch = group] ELSE row IN
       /\ req' = [t \in Txs |-> batched(req[t], t)]
       /\ seen' = [seen EXCEPT !["client"] = [t \in Txs |-> batched(seen["client"][t], t)]]
    /\ stage' = [stage EXCEPT !["client"] = "check"]
    /\ group' = {}
    /\ UNCHANGED <<txStatus, txProven, spendable, spentBy, world, creating, mode, left, accepted,
                   cur, monitor, history>>
-----------------------------------------------------------------------------
(* attemptToPostReqsToNetwork, for a client call or for SendWaiting.  It   *)
(* works on the rows in seen[p] and writes them back whole.                *)

TooManyAttempts(p) == \E t \in left[p] : seen[p][t].attempts > MaxSendAttempts

\* An input's transaction is neither in the batch nor known to be valid.
MayLackAncestor(p) == \E t \in Beef(left[p]) : \E u \in Parents(t) : ~KnownValid(u)

\* The batch fails as a whole.
PostInvalid(p) ==
    /\ stage[p] = "check"
    /\ TooManyAttempts(p) \/ MayLackAncestor(p)
    /\ stage' = [stage EXCEPT ![p] = "invalid"]
    /\ UNCHANGED <<db, world, creating, mode, group, left, seen, accepted, cur, monitor, history>>

\* The caller's inputBEEF may supply an ancestor the storage does not vouch for.
PostSend(p) ==
    /\ stage[p] = "check"
    /\ ~TooManyAttempts(p)
    /\ stage' = [stage EXCEPT ![p] = "net"]
    /\ UNCHANGED <<db, world, creating, mode, group, left, seen, accepted, cur, monitor, history>>

\* The network takes the transactions A: their ancestors come along, and no two
\* transactions it takes spend the same output.
NetAccepts(A) ==
    LET known == {t \in Txs : net[t] # "unseen"} \cup A IN
    /\ \A t \in A : Parents(t) \subseteq known
    /\ \A t \in A : \A u \in known \ {t} : ins[t] \cap ins[u] = {}
    /\ net' = [t \in Txs |-> IF t \in A /\ net[t] = "unseen" THEN "seen" ELSE net[t]]

\* postBeef returns: A was taken, R reported as a success.  A lost answer is a
\* transaction in A and not in R.
NetReply(p, A, R) ==
    /\ stage[p] = "net"
    /\ A \subseteq Beef(left[p])
    /\ NetAccepts(A)
    /\ R \subseteq left[p]
    /\ \A t \in R : net[t] # "unseen" \/ t \in A
    /\ stage' = [stage EXCEPT ![p] = "write"]
    /\ seen' = [seen EXCEPT ![p] =
                 [t \in Txs |-> IF t \in left[p] THEN [seen[p][t] EXCEPT !.attempts = @ + 1] ELSE seen[p][t]]]
    /\ accepted' = [accepted EXCEPT ![p] = R]
    /\ UNCHANGED <<db, crashes, creating, mode, group, left, cur, monitor, history>>

\* A task that throws is over; a client call that throws returns.
Throw(p) ==
    /\ Idle(p)
    /\ IF p = "monitor"
       THEN /\ task' = "idle"
            /\ mLeft' = {}
            /\ mSeen' = [t \in Txs |-> NoReq]
            /\ UNCHANGED notify
       ELSE UNCHANGED monitor

\* A service throws, or answers for other txids; the network may have taken A.
NetThrow(p, A) ==
    /\ stage[p] = "net"
    /\ A \subseteq Beef(left[p])
    /\ NetAccepts(A)
    /\ Throw(p)
    /\ UNCHANGED <<db, crashes, creating, history>>

\* Mutant: the outcome "unknown" is taken for success.
PostedSuccess(p, t) == "unmined"

\* The status the posted req is written back with.
PostedStatus(p, t) ==
    IF t \in accepted[p] /\ seen[p][t].status \in ReadyToSendStatus
    THEN "unmined"
    ELSE seen[p][t].status

WriteReq(p, t) ==
    /\ stage[p] = "write"
    /\ cur[p] = None
    /\ t \in left[p]
    /\ req' = [req EXCEPT ![t] =
                 UpdateDynamics(@, [seen[p][t] EXCEPT !.status = PostedStatus(p, t)])]
    /\ left' = [left EXCEPT ![p] = @ \ {t}]
    /\ seen' = [seen EXCEPT ![p][t] = NoReq]
    /\ accepted' = [accepted EXCEPT ![p] = @ \ {t}]
    /\ cur' = [cur EXCEPT ![p] = IF t \in accepted[p] THEN t ELSE None]
    /\ UNCHANGED <<txStatus, txProven, spendable, spentBy, world, creating, stage, mode, group,
                   monitor, history>>

WriteTx(p, t) ==
    /\ stage[p] = "write"
    /\ cur[p] = t
    /\ ~StatusRefused("unproven", t, txProven[t])
    /\ txStatus' = [txStatus EXCEPT ![t] = "unproven"]
    /\ cur' = [cur EXCEPT ![p] = None]
    /\ UNCHANGED <<txProven, spendable, spentBy, req, world, creating, stage, mode, group, left, seen,
                   accepted, monitor, history>>

\* The rest of the batch is not written.
WriteTxThrow(p, t) ==
    /\ stage[p] = "write"
    /\ cur[p] = t
    /\ StatusRefused("unproven", t, txProven[t])
    /\ Throw(p)
    /\ UNCHANGED <<db, world, creating, history>>

WriteInvalid(p, t) ==
    /\ stage[p] = "invalid"
    /\ t \in left[p]
    /\ req' = [req EXCEPT ![t] = UpdateDynamics(@, [seen[p][t] EXCEPT !.status = "invalid"])]
    /\ left' = [left EXCEPT ![p] = @ \ {t}]
    /\ seen' = [seen EXCEPT ![p][t] = NoReq]
    /\ UNCHANGED <<txStatus, txProven, spendable, spentBy, world, creating, stage, mode, group,
                   accepted, cur, monitor, history>>

PostReturn(p) ==
    /\ stage[p] \in {"write", "invalid"}
    /\ left[p] = {} /\ cur[p] = None
    /\ Idle(p)
    /\ UNCHANGED <<db, world, creating, monitor, history>>
-----------------------------------------------------------------------------
(* abortAction: one database transaction.                                  *)

\* Mutant: a queued action may be aborted.
AbortableSending == {"unsigned", "unprocessed", "nosend", "sending"}

AbortableStatus == {"unsigned", "unprocessed", "nosend"}

Abort(t) ==
    /\ ClientMayStart
    /\ call[t] \in {"pending", "lost"}
    /\ txStatus[t] \in AbortableStatus
    /\ ~StatusRefused("failed", t, txProven[t])
    /\ Fail(t)
    /\ req' = IF HasReq(t) THEN [req EXCEPT ![t].status = "invalid"] ELSE req
    /\ UNCHANGED <<txProven, world, creating, posting, monitor, history>>
-----------------------------------------------------------------------------
(* The Monitor runs one task at a time.  It lists rows under runAsReader,   *)
(* which waits for the client's call to end.                               *)

ReadReqs(name, S) ==
    /\ MonitorMayStart
    /\ task = "idle"
    /\ S # {}
    /\ task' = name
    /\ mLeft' = S
    /\ mSeen' = Rows(S)
    /\ UNCHANGED <<db, world, creating, posting, notify, history>>

TaskReturn ==
    /\ task # "idle"
    /\ mLeft = {} /\ notify = None /\ stage["monitor"] = "idle"
    /\ task' = "idle"
    /\ UNCHANGED <<db, world, creating, posting, mLeft, mSeen, notify, history>>

Consume(t) ==
    /\ mLeft' = mLeft \ {t}
    /\ mSeen' = [mSeen EXCEPT ![t] = NoReq]

(* TaskSendWaiting: the reqs are listed once; a batched one brings in, read *)
(* again, the batch members that are still unsent.                          *)

\* Mutant: a req that was posted once is not posted again.
SendWaitingOnce == ReadReqs("send", {t \in Txs : req[t].status = "unsent" /\ req[t].attempts = 0})

SendWaiting == ReadReqs("send", {t \in Txs : req[t].status = "unsent"})

SendBatch(t) ==
    IF mSeen[t].batch = {} THEN {t}
    ELSE {u \in Txs : req[u].status = "unsent" /\ req[u].batch = mSeen[t].batch}

SendNext(t) ==
    /\ task = "send"
    /\ mSeen[t].batch # {} => MonitorMayStart
    /\ stage["monitor"] = "idle"
    /\ t \in mLeft
    /\ stage' = [stage EXCEPT !["monitor"] = "ready"]
    /\ left' = [left EXCEPT !["monitor"] = SendBatch(t)]
    /\ seen' = [seen EXCEPT !["monitor"] =
                 IF mSeen[t].batch = {} THEN [Rows({}) EXCEPT ![t] = mSeen[t]] ELSE Rows(SendBatch(t))]
    /\ Consume(t)
    /\ UNCHANGED <<db, world, creating, mode, group, accepted, cur, task, notify, history>>

SendLocked ==
    /\ stage["monitor"] = "ready"
    /\ MonitorMayStart
    /\ IF left["monitor"] = {}
       THEN Idle("monitor")
       ELSE /\ stage' = [stage EXCEPT !["monitor"] = "check"]
            /\ UNCHANGED <<mode, group, left, seen, accepted, cur>>
    /\ UNCHANGED <<db, world, creating, monitor, history>>

(* TaskCheckForProofs: the listed rows are asked about one after another,   *)
(* and written back whole.                                                 *)

CheckForProofs == ReadReqs("proof", {t \in Txs : req[t].status \in ProofStatus})

MayProve(t) ==
    /\ task = "proof"
    /\ notify = None
    /\ t \in mLeft
    /\ MonitorMayStart

ProofNext(t) == MayProve(t) /\ Consume(t)

\* The row already had a proof when it was listed.
AlreadyProven(t) ==
    /\ ProofNext(t)
    /\ mSeen[t].proven
    /\ req' = [req EXCEPT ![t] = UpdateDynamics(@, [mSeen[t] EXCEPT !.status = "completed"])]
    /\ UNCHANGED <<txStatus, txProven, spendable, spentBy, world, creating, posting, task, notify, history>>

ProofAttemptsExceeded(t) ==
    /\ ProofNext(t)
    /\ ~mSeen[t].proven
    /\ mSeen[t].attempts > MaxProofAttempts
    /\ req' = [req EXCEPT ![t] = UpdateDynamics(@, [mSeen[t] EXCEPT !.status = "invalid"])]
    /\ UNCHANGED <<txStatus, txProven, spendable, spentBy, world, creating, posting, task, notify, history>>

\* No merkle path, or one that lacks the transaction.  A check made for a new
\* block counts as an attempt, and twice in the second case.  A req may be given
\* up for its age.
NoProof(t, status, counted) ==
    /\ ProofNext(t)
    /\ ~mSeen[t].proven
    /\ mSeen[t].attempts <= MaxProofAttempts
    /\ \/ status = mSeen[t].status
       \/ status = "invalid" /\ counted < 2 /\ mSeen[t].attempts > StaleProofAttempts
    /\ status = "nosend" => counted = 0
    /\ req' = [req EXCEPT ![t] =
                 UpdateDynamics(@, [mSeen[t] EXCEPT !.status = status, !.attempts = @ + counted])]
    /\ UNCHANGED <<txStatus, txProven, spendable, spentBy, world, creating, posting, task, notify, history>>

\* Mutant: half of the update is left out.
UnfinishedRow(r) == [r EXCEPT !.proven = TRUE]

ProvenRow(r) == [r EXCEPT !.status = "completed", !.proven = TRUE]

\* A merkle path: updateProvenTxReqWithNewProvenTx reads the req again and, in one
\* database transaction, inserts the proven_txs row and completes the req.
ProofFound(t) ==
    /\ MayProve(t)
    /\ ~mSeen[t].proven
    /\ mSeen[t].attempts <= MaxProofAttempts
    /\ net[t] = "mined"
    /\ mLeft' = mLeft \ {t}
    /\ LET row == ProvenRow(req[t]) IN
       IF req[t].proven
       THEN /\ mSeen' = [mSeen EXCEPT ![t] = NoReq]
            /\ UNCHANGED <<req, notify>>
       ELSE /\ req' = [req EXCEPT ![t] = row]
            /\ mSeen' = [mSeen EXCEPT ![t] = row]
            /\ notify' = t
    /\ UNCHANGED <<txStatus, txProven, spendable, spentBy, world, creating, posting, task, history>>

\* Outside that transaction: provenTxId is written first, so the status update
\* that follows finds it and throws; the throw is caught.  The req is written again.
Notify(t) ==
    /\ notify = t
    /\ notify' = None
    /\ txProven' = [txProven EXCEPT ![t] = TRUE]
    /\ txStatus' = [txStatus EXCEPT ![t] = IF StatusRefused("completed", t, TRUE) THEN @ ELSE "completed"]
    /\ req' = [req EXCEPT ![t] = UpdateDynamics(@, mSeen[t])]
    /\ mSeen' = [mSeen EXCEPT ![t] = NoReq]
    /\ UNCHANGED <<spendable, spentBy, world, creating, posting, task, mLeft, history>>

(* TaskFailAbandoned: under one lock, list and then fail the transactions   *)
(* that have been left alone for abandonedMsecs.                            *)

\* Mutant: one of the two statuses is forgotten.
AbandonedProcessed == {t \in Txs : txStatus[t] = "unprocessed"
                                   /\ t \notin left["client"] \cup {cur["client"]}}

Abandoned == {t \in Txs : /\ txStatus[t] \in {"unprocessed", "unsigned"}
                          /\ ~Creating(t)
                          /\ t \notin left["client"] \cup {cur["client"]}}

FailAbandoned ==
    /\ MonitorMayStart
    /\ task = "idle"
    /\ Abandoned # {}
    /\ task' = "fail"
    /\ mLeft' \in SUBSET Abandoned \ {{}}
    /\ UNCHANGED <<db, world, creating, posting, mSeen, notify, history>>

FailOne(t) ==
    /\ task = "fail"
    /\ t \in mLeft
    /\ ~StatusRefused("failed", t, txProven[t])
    /\ Fail(t)
    /\ mLeft' = mLeft \ {t}
    /\ UNCHANGED <<txProven, req, world, creating, posting, task, mSeen, notify, history>>

\* The task gives up, and with it the transactions it has not come to.
FailOneThrow(t) ==
    /\ task = "fail"
    /\ t \in mLeft
    /\ StatusRefused("failed", t, txProven[t])
    /\ Throw("monitor")
    /\ UNCHANGED <<db, world, creating, history>>
-----------------------------------------------------------------------------
(* The world.                                                              *)

\* A transaction handed out with noSend is broadcast by whoever received it, also
\* after it was aborted.
Broadcast(t, A) ==
    /\ "nosend" \in Modes
    /\ HasReq(t)
    /\ txStatus[t] \in {"nosend", "failed"}
    /\ net[t] = "unseen"
    /\ t \in A /\ A \subseteq Beef({t})
    /\ NetAccepts(A)
    /\ UNCHANGED <<db, crashes, creating, posting, monitor, history>>

Mine(t) ==
    /\ net[t] = "seen"
    /\ \A u \in Parents(t) : net[u] = "mined"
    /\ net' = [net EXCEPT ![t] = "mined"]
    /\ UNCHANGED <<db, crashes, creating, posting, monitor, history>>

\* The process restarts: memory is lost, and with it the pending actions.
Crash ==
    /\ crashes < MaxCrashes
    /\ crashes' = crashes + 1
    /\ call' = [t \in Txs |-> CASE call[t] = "pending" -> "lost"
                                [] Creating(t) -> "dead"
                                [] OTHER -> call[t]]
    /\ named' = [t \in Txs |-> {}]
    /\ noSendChange' = [t \in Txs |-> {}]
    /\ mode' = "now"
    /\ group' = {}
    /\ stage' = [p \in Callers |-> "idle"]
    /\ left' = [p \in Callers |-> {}]
    /\ seen' = [p \in Callers |-> [t \in Txs |-> NoReq]]
    /\ accepted' = [p \in Callers |-> {}]
    /\ cur' = [p \in Callers |-> None]
    /\ task' = "idle"
    /\ mLeft' = {}
    /\ mSeen' = [t \in Txs |-> NoReq]
    /\ notify' = None
    /\ UNCHANGED <<db, net, ins, history>>
-----------------------------------------------------------------------------
Create(t) ==
    \/ \E X, C \in SUBSET (Outputs \ {t}), isNoSend \in BOOLEAN : CreateBegin(t, X, C, isNoSend)
    \/ \E o \in Outputs : \/ AllocateNoSendChange(t, o)
                          \/ Allocate(t, o)
                          \/ Release(t, o)
                          \/ MarkNamed(t, o)
    \/ Funded(t)
    \/ CreateReturn(t)
    \/ CreateThrow(t)

Process ==
    \/ \E t \in Txs, m \in Modes : \E S \in SUBSET (Committed \ {t}) : ProcessBegin(t, m, S)
    \/ \E t \in Txs : Commit(t)
    \/ \E m \in Modes, S \in SUBSET Committed : SendWith(m, S)
    \/ ShareRead \/ ShareReturn \/ ShareDelayed \/ ShareNow

Post(p) ==
    \/ PostInvalid(p)
    \/ PostSend(p)
    \/ \E A \in SUBSET Txs, R \in SUBSET left[p] : NetReply(p, A, R)
    \/ \E A \in SUBSET Txs : NetThrow(p, A)
    \/ \E t \in Txs : WriteReq(p, t) \/ WriteTx(p, t) \/ WriteTxThrow(p, t) \/ WriteInvalid(p, t)
    \/ PostReturn(p)

Tasks ==
    \/ SendWaiting \/ SendLocked \/ CheckForProofs \/ FailAbandoned \/ TaskReturn
    \/ \E t \in Txs : \/ SendNext(t)
                      \/ AlreadyProven(t)
                      \/ ProofAttemptsExceeded(t)
                      \/ \E status \in ProofStatus \cup {"invalid"}, counted \in 0..2 : NoProof(t, status, counted)
                      \/ ProofFound(t)
                      \/ Notify(t)
                      \/ FailOne(t)
                      \/ FailOneThrow(t)

World ==
    \/ \E t \in Txs, A \in SUBSET Txs : Broadcast(t, A)
    \/ \E t \in Txs : Mine(t)
    \/ Crash

Next ==
    \/ \E t \in Txs : Create(t) \/ Abort(t)
    \/ Process
    \/ \E p \in Callers : Post(p)
    \/ Tasks
    \/ World

Spec == Init /\ [][Next]_vars
-----------------------------------------------------------------------------
(* Properties.                                                             *)

\* Every variable keeps its type.
TypeOK ==
    /\ txStatus \in [Txs -> TxStatus]
    /\ txProven \in [Txs -> BOOLEAN]
    /\ spendable \in [Outputs -> BOOLEAN]
    /\ spentBy \in [Outputs -> Txs \cup {None}]
    /\ req \in [Txs -> Req]
    /\ net \in [Txs -> {"unseen", "seen", "mined"}]
    /\ call \in [Txs -> {"none", "fund", "mark", "pending", "lost", "dead"}]
    /\ named \in [Txs -> SUBSET Outputs]
    /\ noSendChange \in [Txs -> SUBSET Outputs]
    /\ ins \in [Txs -> SUBSET Outputs]
    /\ stage \in [Callers -> {"idle", "commit", "share", "ready", "check", "net", "write", "invalid"}]
    /\ mode \in {"nosend", "delayed", "now"}
    /\ group \in SUBSET Txs
    /\ left \in [Callers -> SUBSET Txs]
    /\ seen \in [Callers -> [Txs -> Req]]
    /\ accepted \in [Callers -> SUBSET Txs]
    /\ cur \in [Callers -> Txs \cup {None}]
    /\ task \in {"idle", "send", "proof", "fail"}
    /\ mLeft \in SUBSET Txs
    /\ mSeen \in [Txs -> Req]
    /\ notify \in Txs \cup {None}
    /\ revived \in SUBSET Txs
    /\ overwritten \in SUBSET Outputs
    /\ reopened \in SUBSET Outputs

Live(t) == txStatus[t] \notin {"absent", "failed"}

\* An output that a live action will spend is held by that action: it is marked
\* spent by it and nothing else may be funded with it, whatever calls, tasks and
\* restarts come in between.  Left out: an output whose recorded spender was
\* overwritten (noSend may name a spent output) or reopened, and an action that a
\* delayed sendWith brought back from 'failed'.
InputsHeld ==
    \A t \in Txs : Live(t) /\ t \notin revived =>
        \A o \in ins[t] \ (overwritten \cup reopened) : spentBy[o] = t /\ ~spendable[o]

\* No coin is lost: an output that exists and cannot be spent is being spent by a
\* live action, so that failing the action gives it back.
HeldByLive ==
    \A o \in Outputs : HasOutpoint(o) /\ ~spendable[o] =>
        spentBy[o] \in Txs /\ Live(spentBy[o])

\* A failed action has released every output it had locked (StorageProvider.ts,
\* updateTransactionStatus), also those it locked before it had an outpoint.
FailedHoldsNothing ==
    \A t \in Txs : txStatus[t] = "failed" => \A o \in Outputs : spentBy[o] # t

\* An output offered for spending has no recorded spender, unless a second commit
\* reopened it.
SpendableIsFree ==
    \A o \in Outputs \ reopened : spendable[o] => spentBy[o] = None

\* createAction.ts, validateRequiredInputs: an input is a "spendable output unless
\* noSend is true".  So where no action is noSend and the manager's locks are taken,
\* no action takes an output from another one: not between the check and the lock,
\* unless a second commit has offered the output again.
NoOverwrite == "nosend" \notin Modes => overwritten \subseteq reopened

\* The storage says that a transaction was accepted only if the network took it,
\* although rows are written back long after they were read.
SharedIsAccepted ==
    \A t \in Txs : txStatus[t] = "unproven" \/ req[t].status = "unmined" => net[t] # "unseen"

\* A req has its proof exactly when it is 'completed': no late write-back of a row
\* read before the proof undoes half of it.  Only an action whose transaction restarts
\* left behind its req may be aborted later.
CompletedIffProven ==
    \A t \in Txs :
        /\ req[t].status = "completed" => req[t].proven
        /\ req[t].proven => req[t].status = "completed" \/ txStatus[t] = "failed"

\* An action that is queued or sent never returns to a status in which it may be
\* signed again, aborted or given up (abortAction, FailAbandoned, processAction).
SentStaysSent ==
    [][\A t \in Txs : txStatus[t] \in {"sending", "unproven"} =>
          txStatus'[t] \in {"sending", "unproven", "completed"}]_vars

\* 'completed' is a terminal req status (types.ts), but for an action that restarts
\* have left behind its req, still abortable: 'nosend' when the recipient sent it, or
\* 'unprocessed' when it was posted, and the row without its proof.
CompletedIsFinal ==
    [][\A t \in Txs : req[t].status = "completed" /\ (txProven[t] \/ txStatus[t] \notin {"nosend", "unprocessed"}) =>
          req'[t].status = "completed"]_vars

\* StorageProvider.ts: a proof updates "each transaction's status to 'completed'".
ProvenIsCompleted == \A t \in Txs : txProven[t] => txStatus[t] = "completed"

-----------------------------------------------------------------------------
(* Liveness.  The Monitor polls for ever; the network answers a post that   *)
(* is asked for again and again.                                           *)

PostStep(p) == \/ PostInvalid(p) \/ PostSend(p) \/ PostReturn(p)
               \/ \E t \in Txs : WriteReq(p, t) \/ WriteTx(p, t) \/ WriteTxThrow(p, t) \/ WriteInvalid(p, t)

NetAnswers(p) == \E A \in SUBSET Txs, R \in SUBSET left[p] : NetReply(p, A, R)

CallStep == \/ ShareRead \/ ShareReturn \/ ShareDelayed \/ ShareNow
            \/ \E t \in Txs : \/ Commit(t) \/ Funded(t) \/ CreateReturn(t)
                              \/ \E o \in Outputs : MarkNamed(t, o)

ProofStep == \E t \in Txs : \/ AlreadyProven(t) \/ ProofAttemptsExceeded(t) \/ ProofFound(t) \/ Notify(t)
                            \/ \E status \in ProofStatus \cup {"invalid"}, counted \in 0..2 : NoProof(t, status, counted)

Fairness ==
    /\ \A p \in Callers : WF_vars(PostStep(p)) /\ SF_vars(NetAnswers(p))
    /\ WF_vars(CallStep)
    /\ SF_vars(SendWaiting) /\ SF_vars(SendLocked) /\ SF_vars(ProofStep) /\ WF_vars(TaskReturn)
    /\ \A t \in Txs : SF_vars(SendNext(t)) /\ WF_vars(FailOne(t) \/ FailOneThrow(t))
    /\ \A t \in Txs : SF_vars(FailAbandoned /\ t \in mLeft')

FairSpec == Spec /\ Fairness

\* A queued req does not stay queued: SendWaiting posts it or declares it invalid.
UnsentIsSent == \A t \in Txs : req[t].status = "unsent" ~> req[t].status # "unsent"

\* What a createAction that failed half-way has locked is released in the end.
DeadIsReleased ==
    \A t \in Txs : call[t] = "dead" ~> \A o \in Outputs : spentBy[o] # t
=============================================================================

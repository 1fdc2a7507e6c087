----------------------------- MODULE MonitorTasks -----------------------------
(***************************************************************************)
(* The scheduling of the Monitor: its loop, start and stop, the triggers,  *)
(* errors of tasks, and the tasks whose runs depend on it: NewHeader,      *)
(* CheckForProofs and FailAbandoned with their pages.  That the services   *)
(* answer, and how they go on to the next one, is in NetworkServices.      *)
(***************************************************************************)
EXTENDS Naturals, Sequences, SequencesExt

CONSTANTS
    Loops,          \* calls of startTasks that may go on at once
    Reqs,           \* reqs that wait for a proof, in the order a query lists them
    Txs,            \* transactions unsigned or unprocessed, likewise
    PageSize,       \* the limit of a query: 100
    AttemptsLimit,  \* unprovenAttemptsLimit
    StaleAttempts,  \* getProofAttemptsLimit
    Timed,          \* the tasks with a period
    MaxRows,        \* bound: reqs and transactions that the tasks find at first
    MaxHeaders,     \* bound: new headers
    MaxFaults       \* bound: tasks that throw, events that cannot be logged

ASSUME MonitorAssumption ==
    /\ Reqs \subseteq Nat /\ IsFiniteSet(Reqs)
    /\ Txs \subseteq Nat /\ IsFiniteSet(Txs)
    /\ PageSize \in Nat \ {0} /\ AttemptsLimit \in Nat /\ StaleAttempts \in Nat
    /\ MaxRows \in Nat /\ MaxHeaders \in Nat \ {0} /\ MaxFaults \in Nat

Tasks == <<"NewHeader", "CheckForProofs", "FailAbandoned">>

VARIABLES
    tasksRunning,
    loop,       \* each call of startTasks: the task it runs or where it is between tasks,
                \* tasksToRun (their places in Tasks), countsAsAttempt, and of a query the
                \* offset, the reqs left of the page with what they held, and whether that
                \* was full
    checkNow,
    tip, header,    \* the newest header of the chain, and that of TaskNewHeader or 0
    req,        \* of each req the status, whether it has a provenTxId, and the attempts
    tx,         \* each transaction: "new", "old" (abandonedMsecs have passed) or "done"
    faults,
    \* History, read by no action.
    overlapped, \* the tasks were started while another call of startTasks went on
    nudges,     \* how often checkNow was set
    checked,    \* the tip when a run of CheckForProofs last began that it had nudged
    missed,     \* of each loop's run of CheckForProofs: the reqs it has not looked at,
    left,       \* and how many left the list
    skipped     \* a run came to its end that had missed more than left

running == <<tasksRunning, overlapped>>
monitor == <<running, loop>>
chain == <<tip, header>>
nudged == <<checkNow, nudges, checked>>
run == <<missed, left, skipped>>
vars == <<monitor, chain, nudged, req, tx, faults, run>>

\* Mutant: pages are counted from one.
FirstOffsetOne == PageSize

FirstOffset == 0

Off == [at |-> "off", todo |-> {}, counts |-> FALSE, offset |-> FirstOffset, page |-> <<>>, full |-> FALSE]

Init ==
    /\ tasksRunning = FALSE /\ overlapped = FALSE
    /\ loop = [l \in Loops |-> Off]
    /\ tip = 1 /\ header = 0
    /\ checkNow = FALSE /\ nudges = 0 /\ checked = 0
    \* A req that a server's client posted while its proof was found is linked to the proof
    \* and may wait all the same: the client wrote the row back.
    /\ \E waiting \in SUBSET Reqs, unfinished \in SUBSET Txs : \E linked \in SUBSET waiting :
         /\ Cardinality(waiting) + Cardinality(unfinished) <= MaxRows
         /\ req = [q \in Reqs |-> [status |-> IF q \in waiting THEN "unmined" ELSE "completed",
                                   proven |-> q \notin waiting \ linked, attempts |-> 0]]
         /\ tx = [t \in Txs |-> IF t \in unfinished THEN "new" ELSE "done"]
    /\ faults = 0
    /\ missed = [l \in Loops |-> {}] /\ left = [l \in Loops |-> 0]
    /\ skipped = FALSE

At(l, place) == loop[l].at = place
Goto(l, place) == loop' = [loop EXCEPT ![l].at = place]
Nudge == checkNow' = TRUE /\ nudges' = nudges + 1 /\ UNCHANGED checked

\* The members of S from the offset on, as many as the limit allows.
PageOf(S, offset) ==
    {n \in S : LET before == Cardinality({m \in S : m < n})
               IN  offset <= before /\ before < offset + PageSize}
-----------------------------------------------------------------------------
(* The scheduler.                                                          *)

\* startTasks throws if the tasks are running.
StartTasks(l) ==
    /\ At(l, "off")
    /\ ~tasksRunning
    /\ tasksRunning' = TRUE
    /\ overlapped' = (overlapped \/ \E k \in Loops : ~(At(k, "off") \/ At(k, "rejected")))
    /\ Goto(l, "trigger")
    /\ UNCHANGED <<chain, nudged, req, tx, faults, run>>

StopTasks ==
    /\ tasksRunning
    /\ tasksRunning' = FALSE
    /\ UNCHANGED <<overlapped, loop, chain, nudged, req, tx, faults, run>>

\* Whether the task's trigger says run; the period has passed for the tasks that are due.
Triggered(task, due) ==
    task = "NewHeader" \/ (task = "CheckForProofs" /\ checkNow) \/ task \in due

\* runOnce: the triggers are asked before any of the tasks runs.
Trigger(l, due) ==
    /\ At(l, "trigger")
    /\ loop' = [loop EXCEPT ![l].todo = {n \in DOMAIN Tasks : Triggered(Tasks[n], due)},
                            ![l].at = "next"]
    /\ UNCHANGED <<running, chain, nudged, req, tx, faults, run>>

\* Before every task the loop looks whether it was stopped.
NextTask(l) ==
    /\ At(l, "next")
    /\ loop' = [loop EXCEPT ![l] =
                  IF @.todo = {} \/ ~tasksRunning THEN [Off EXCEPT !.at = "wait"]
                  ELSE LET first == Min(loop[l].todo)
                       IN  [Off EXCEPT !.at = Tasks[first], !.todo = loop[l].todo \ {first}]]
    /\ UNCHANGED <<running, chain, nudged, req, tx, faults, run>>

\* The wait between two turns; a loop that was stopped in it may find the tasks started anew.
Wait(l) ==
    /\ At(l, "wait")
    /\ Goto(l, IF tasksRunning THEN "trigger" ELSE "off")
    /\ UNCHANGED <<running, chain, nudged, req, tx, faults, run>>

\* A task throws between two of its steps.  The error is logged to storage; if that throws
\* too, startTasks rejects, and the tasks still count as running.
Throws(l) ==
    /\ loop[l].at \in {"NewHeader", "page", "proofs", "FailAbandoned"}
    /\ faults < MaxFaults /\ faults' = faults + 1
    /\ \E place \in {"next", "rejected"} :
         loop' = [loop EXCEPT ![l].at = place, ![l].page = <<>>]
    /\ missed' = [missed EXCEPT ![l] = {}] /\ left' = [left EXCEPT ![l] = 0]
    /\ UNCHANGED <<running, chain, nudged, req, tx, skipped>>
-----------------------------------------------------------------------------
(* TaskNewHeader, and the listener of the Monitor.                         *)

\* Mutant: the first header is not new.
IsNewButFirst == header # 0 /\ header # tip

IsNew == header # tip

NewHeader(l) ==
    /\ At(l, "NewHeader")
    /\ header' = tip
    /\ IF IsNew THEN Nudge ELSE UNCHANGED nudged
    /\ Goto(l, "next")
    /\ UNCHANGED <<running, tip, req, tx, faults, run>>

\* A block is mined; processNewBlockHeader may be called with its header.
Mined ==
    /\ tip < MaxHeaders /\ tip' = tip + 1
    /\ Nudge \/ UNCHANGED nudged
    /\ UNCHANGED <<monitor, header, req, tx, faults, run>>
-----------------------------------------------------------------------------
(* TaskCheckForProofs.                                                     *)

Ready == {q \in Reqs : req[q].status = "unmined"}

\* Mutant: every run counts.
CountsAlways == TRUE

CountsAsAttempt == checkNow

CheckForProofs(l) ==
    /\ At(l, "CheckForProofs")
    /\ loop' = [loop EXCEPT ![l].at = "page", ![l].counts = CountsAsAttempt]
    /\ checkNow' = FALSE
    /\ checked' = IF checkNow THEN tip ELSE checked
    /\ missed' = [missed EXCEPT ![l] = Ready] /\ left' = [left EXCEPT ![l] = 0]
    /\ UNCHANGED <<running, chain, nudges, req, tx, faults, skipped>>

\* The run of CheckForProofs goes on to at, or is over.
Tally(l, at, unseen, gone) ==
    LET over == at = "next"
        k == IF over THEN 0 ELSE gone[l]
    IN  /\ skipped' = (skipped \/ (over /\ Cardinality(unseen) > gone[l]))
        /\ missed' = [missed EXCEPT ![l] = IF over THEN {} ELSE unseen]
        /\ left' = [gone EXCEPT ![l] = k]

\* The reqs are read with what they hold now.
ReadPage(l) ==
    /\ At(l, "page")
    /\ LET page == PageOf(Ready, loop[l].offset)
           at == IF page = {} THEN "next" ELSE "proofs"
       IN  /\ loop' = [loop EXCEPT ![l].at = at, ![l].full = Cardinality(page) >= PageSize,
                          ![l].page = [q \in page |-> req[q]]]
           /\ Tally(l, at, missed[l], left)
    /\ UNCHANGED <<running, chain, nudged, req, tx, faults>>

\* Mutant: a page that is full is the last one.
AfterPageEnds(l) == [loop[l] EXCEPT !.page = <<>>, !.at = "next"]

\* Mutant: the run does not go on after a page.
AfterPageStays(l) == [loop[l] EXCEPT !.page = <<>>, !.offset = @ + PageSize]

\* The next page begins at an offset that does not regard the reqs that have left the list.
AfterPage(l) ==
    IF loop[l].full
    THEN [loop[l] EXCEPT !.page = <<>>, !.at = "page", !.offset = @ + PageSize, !.full = FALSE]
    ELSE [loop[l] EXCEPT !.page = <<>>, !.at = "next"]

\* The req that is looked at, the first that is left of the page, and what that holds of it.
LooksAt(l) == Min(DOMAIN loop[l].page)
Looking(l) == loop[l].page[LooksAt(l)]

Looked(l, row) ==
    LET q == LooksAt(l)
        rest == DOMAIN loop[l].page \ {q}
        then == IF rest = {} THEN AfterPage(l)
                ELSE [loop[l] EXCEPT !.page = [p \in rest |-> @[p]]]
        leaves == q \in Ready /\ row.status # "unmined"
    IN  /\ req' = [req EXCEPT ![q] = row]
        /\ loop' = [loop EXCEPT ![l] = then]
        /\ Tally(l, then.at, missed[l] \ {q},
                 [k \in Loops |-> IF leaves /\ loop[k].at \in {"page", "proofs"}
                                  THEN left[k] + 1 ELSE left[k]])
        /\ UNCHANGED <<running, chain, nudged, tx, faults>>

\* updateStorageDynamicProperties writes what the page held, but attempts that are 0.
Written(l, status, attempts) ==
    LET row == req[LooksAt(l)]
    IN  [row EXCEPT !.status = status, !.attempts = IF attempts = 0 THEN @ ELSE attempts]

\* A req that has a proof already, and one that had too many attempts.
Linked(l) ==
    /\ At(l, "proofs") /\ Looking(l).proven
    /\ Looked(l, Written(l, "completed", Looking(l).attempts))

GiveUp(l) ==
    /\ At(l, "proofs") /\ ~Looking(l).proven /\ Looking(l).attempts > AttemptsLimit
    /\ Looked(l, Written(l, "invalid", Looking(l).attempts))

Asks(l) == At(l, "proofs") /\ ~Looking(l).proven /\ Looking(l).attempts <= AttemptsLimit

\* getMerklePath has a proof: updateProvenTxReqWithNewProvenTx, unless someone beat it to it.
Proven(l) ==
    /\ Asks(l)
    /\ LET row == req[LooksAt(l)]
       IN  Looked(l, IF row.proven THEN row
                     ELSE [row EXCEPT !.status = "completed", !.proven = TRUE])

\* It has none, and perhaps it is too late for one; or it has a path of which no leaf is the
\* txid, an attempt that ProvenTx.fromReq has counted before.
NoProof(l) ==
    /\ Asks(l)
    /\ \E status \in {"unmined", "invalid"}, attempts \in {1, 2} :
         /\ status = "invalid" => attempts = 1 /\ Looking(l).attempts > StaleAttempts
         /\ Looked(l, Written(l, status,
                              Looking(l).attempts + IF loop[l].counts THEN attempts ELSE 0))
-----------------------------------------------------------------------------
(* TaskFailAbandoned.                                                      *)

Unfinished == {t \in Txs : tx[t] # "done"}

\* A page that holds a transaction that is not old yet is the last one.
FailAbandoned(l) ==
    /\ At(l, "FailAbandoned")
    /\ LET old == {t \in PageOf(Unfinished, loop[l].offset) : tx[t] = "old"}
       IN  /\ tx' = [t \in Txs |-> IF t \in old THEN "done" ELSE tx[t]]
           /\ loop' = [loop EXCEPT ![l].at = IF Cardinality(old) < PageSize THEN "next" ELSE @,
                                   ![l].offset = @ + PageSize]
    /\ UNCHANGED <<running, chain, nudged, req, faults, run>>

\* abandonedMsecs pass, or a client comes back to its action.
Age(t) ==
    /\ tx[t] = "new"
    /\ tx' = [tx EXCEPT ![t] = "old"]
    /\ UNCHANGED <<monitor, chain, nudged, req, faults, run>>

Sign(t) ==
    /\ tx[t] # "done"
    /\ tx' = [tx EXCEPT ![t] = "done"]
    /\ UNCHANGED <<monitor, chain, nudged, req, faults, run>>
-----------------------------------------------------------------------------
Step(l) ==
    \/ NextTask(l) \/ Wait(l)
    \/ NewHeader(l) \/ CheckForProofs(l) \/ ReadPage(l)
    \/ Linked(l) \/ GiveUp(l) \/ Proven(l) \/ NoProof(l)
    \/ FailAbandoned(l)

Next ==
    \/ \E l \in Loops : \/ StartTasks(l) \/ Step(l) \/ Throws(l)
                        \/ \E due \in SUBSET Timed : Trigger(l, due)
    \/ StopTasks \/ Mined
    \/ \E t \in Txs : Age(t) \/ Sign(t)

Spec == Init /\ [][Next]_vars

\* A loop goes on, its services answer, and the periods of its tasks pass; time passes.
FairSpec ==
    /\ Spec
    /\ \A l \in Loops : /\ WF_vars(Step(l)) /\ WF_vars(\E due \in SUBSET Timed : Trigger(l, due))
                        /\ SF_vars(Trigger(l, Timed))
    /\ \A t \in Txs : WF_vars(Age(t))
-----------------------------------------------------------------------------
Places == {"off", "trigger", "next", "wait", "rejected", "page", "proofs"}
          \cup ToSet(Tasks)

TypeOK ==
    /\ tasksRunning \in BOOLEAN /\ checkNow \in BOOLEAN /\ checked <= tip
    /\ \A l \in Loops :
         /\ loop[l].at \in Places
         /\ loop[l].todo \subseteq DOMAIN Tasks
         /\ DOMAIN loop[l].page \subseteq Reqs /\ Cardinality(DOMAIN loop[l].page) <= PageSize
         /\ At(l, "proofs") <=> DOMAIN loop[l].page # {}
    /\ header <= tip /\ tip <= MaxHeaders /\ faults <= MaxFaults
    /\ \A q \in Reqs : /\ req[q].status \in {"unmined", "completed", "invalid"}
                       /\ req[q].proven \in BOOLEAN /\ req[q].attempts \in Nat
    /\ \A t \in Txs : tx[t] \in {"new", "old", "done"}

\* A run of CheckForProofs that comes to its end looks at the reqs that were ready when it
\* began, all but as many as left the list in the meantime, which the offsets of its pages
\* do not regard; however many calls of startTasks go on at once.
SkipsOnlyForLeft == ~skipped

\* A new header costs a req at most two attempts to find its proof, as long as one call of
\* startTasks has ended before the next begins.  Two that go on at once may look at a req
\* twice: what one holds of a req is written back, and a req that had left the list moves
\* those behind it into the next page.
AttemptsCounted == overlapped \/ \A q \in Reqs : req[q].attempts <= 2 * nudges

Dead == \E l \in Loops : At(l, "rejected")

\* After a block is mined a run of CheckForProofs begins that counts, unless the tasks were
\* stopped or the error of a task could not be logged: a nudge that comes during a run is not
\* lost, nor is a header that NewHeader failed to get.
HeaderIsChecked ==
    \A h \in 1 .. MaxHeaders : (tip >= h) ~> (checked >= h \/ ~tasksRunning \/ Dead)

\* Every abandoned transaction is failed, whatever is before it in the list and however the
\* list shrinks while it is read.
OldAreFailed ==
    \A t \in Txs : (tx[t] = "old") ~> (tx[t] # "old" \/ ~tasksRunning \/ Dead)
=============================================================================

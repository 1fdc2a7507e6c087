----------------------------- MODULE SyncStores -----------------------------
(***************************************************************************)
(* A sync of one wallet store to another: the loop of syncToWriter, the    *)
(* chunks getSyncChunk reads, the merge of every entity and the sync state *)
(* that is kept with the writer.                                           *)
(*                                                                         *)
(* A row is named by what mergeFind finds it by (Rows); in each store it   *)
(* has its own id, and refers to other rows by their ids there.  What the  *)
(* merges copy without looking at it is the row's data, a version number.  *)
(* The active store is the reader; another client of that store may write  *)
(* to it at any time, since the locks are the manager's.                   *)
(***************************************************************************)
EXTENDS Naturals, FiniteSets, FiniteSetsExt

CONSTANTS
    Stores,
    First,          \* the first active store
    Rows,
    KindOf,         \* the entity of each row
    Refs,           \* the row each field of a new row refers to, or None
    None,
    FirstRows,      \* rows the first active store begins with
    FirstId,        \* in each store, the id the first row of each entity gets
    ChunkSizes,     \* the numbers of rows a chunk may end with
    Writable,       \* bound: the rows that are written
    MaxEvents       \* bound: writes to the active stores, and syncs that are cut off

\* Mutant: outputs are sent before the transactions they belong to.
PlaceOutputsFirst ==
    [provenTx |-> 1, outputBasket |-> 2, outputTag |-> 3, txLabel |-> 4, transaction |-> 6,
     output |-> 5, txLabelMap |-> 7, outputTagMap |-> 8, certificate |-> 9,
     certificateField |-> 10, commission |-> 11, provenTxReq |-> 12]

\* The order of dependency in which chunks are filled and merged.
Place ==
    [provenTx |-> 1, outputBasket |-> 2, outputTag |-> 3, txLabel |-> 4, transaction |-> 5,
     output |-> 6, txLabelMap |-> 7, outputTagMap |-> 8, certificate |-> 9,
     certificateField |-> 10, commission |-> 11, provenTxReq |-> 12]
Kinds == DOMAIN Place

\* The entity a foreign key refers to.
FieldKind ==
    [provenTxId |-> "provenTx", transactionId |-> "transaction", spentBy |-> "transaction",
     notify |-> "transaction", basketId |-> "outputBasket", txLabelId |-> "txLabel",
     outputId |-> "output", outputTagId |-> "outputTag", certificateId |-> "certificate"]

\* The fields of each entity that hold the ids of other rows; the others are its data.
TransactionLinks == {"provenTxId"}
OutputLinks == {"transactionId", "basketId", "spentBy"}
TxLabelMapLinks == {"transactionId", "txLabelId"}
OutputTagMapLinks == {"outputId", "outputTagId"}
CertificateFieldLinks == {"certificateId"}
CommissionLinks == {"transactionId"}
ProvenTxReqLinks == {"provenTxId", "notify"}

LinksOf(k) ==
    CASE k = "transaction" -> TransactionLinks
      [] k = "output" -> OutputLinks
      [] k = "txLabelMap" -> TxLabelMapLinks
      [] k = "outputTagMap" -> OutputTagMapLinks
      [] k = "certificateField" -> CertificateFieldLinks
      [] k = "commission" -> CommissionLinks
      [] k = "provenTxReq" -> ProvenTxReqLinks
      [] OTHER -> {}

\* The schema: foreign keys that may be null.
Nullable == {"provenTxId", "spentBy", "basketId", "notify"}

ASSUME RowsAssumption ==
    /\ IsFiniteSet(Rows) /\ KindOf \in [Rows -> Kinds]
    /\ None \notin Rows
    /\ \A r \in Rows : /\ DOMAIN Refs[r] = LinksOf(KindOf[r])
                       /\ \A f \in DOMAIN Refs[r] : Refs[r][f] # None =>
                            Refs[r][f] \in Rows /\ KindOf[Refs[r][f]] = FieldKind[f]
                       /\ \A f \in DOMAIN Refs[r] \ Nullable : Refs[r][f] # None
    /\ First \in Stores
    /\ FirstRows \subseteq Rows
    /\ \A q, r \in FirstRows : KindOf[q] = KindOf[r] => q = r
    /\ \A r \in FirstRows : \A f \in DOMAIN Refs[r] \ Nullable : Refs[r][f] \in FirstRows
    /\ Writable \subseteq Rows
    /\ FirstId \in [Stores -> [Kinds -> Nat \ {0}]]
    /\ ChunkSizes \subseteq Nat \ {0} /\ ChunkSizes # {} /\ MaxEvents \in Nat

NoRow == [id |-> 0, data |-> 0, time |-> 0, link |-> <<>>]
NewSyncState ==
    [when |-> 0, count |-> [k \in Kinds |-> 0], top |-> [k \in Kinds |-> 0], idMap |-> {}]

VARIABLES
    table,      \* in each store, the record of each row
    syncState,  \* in each store, the sync_states record for every other store
    now,        \* the time of the latest write
    active,     \* the store the manager reads from
    \* The sync in progress.
    phase,      \* idle; request: next chunk; merge: processSyncChunk; done
    writer,
    ss,         \* the SyncState entity of processSyncChunk
    chunk,      \* rows of the chunk that are still to be merged
    sent,       \* how many rows of each entity the chunk had
    crashes,
    \* History, read by no action.
    touched,    \* rows whose latest change a sync may have missed, or a link of them
    thrown      \* why the latest sync threw

store == <<table, syncState, active>>
session == <<phase, writer, ss, chunk, sent>>
vars == <<store, now, session, crashes, touched, thrown>>
-----------------------------------------------------------------------------
Present(s, r) == table[s][r].id # 0
RowsOfKind(s, k) == {r \in Rows : KindOf[r] = k /\ Present(s, r)}

\* Autoincrement: rows of other users come first.
NewId(s, k) == FirstId[s][k] + Cardinality(RowsOfKind(s, k))

\* The id in store s of the row a field of r refers to.
IdOf(s, r) == IF r = None THEN 0 ELSE table[s][r].id

Init ==
    /\ active = First
    /\ writer = First
    /\ LET Ref(q) == IF q \in FirstRows THEN FirstId[First][KindOf[q]] ELSE 0
       IN  table = [s \in Stores |-> [r \in Rows |->
                      IF s = First /\ r \in FirstRows
                      THEN [id |-> FirstId[First][KindOf[r]], data |-> 0, time |-> 1,
                            link |-> [f \in DOMAIN Refs[r] |-> Ref(Refs[r][f])]]
                      ELSE NoRow]]
    /\ syncState = [s \in Stores |-> [t \in Stores |-> NewSyncState]]
    /\ now = 1
    /\ phase = "idle"
    /\ ss = NewSyncState
    /\ chunk = {}
    /\ sent = [k \in Kinds |-> 0]
    /\ crashes = 0
    /\ touched = {}
    /\ thrown = "no"
-----------------------------------------------------------------------------
(* The rows of a user.                                                     *)

\* Some row of kind k refers to row r by the field f.
ReferredTo(s, r, k, f) == \E q \in RowsOfKind(s, k) : table[s][q].link[f] = table[s][r].id

\* Row r refers by the field f to a row that is there.
Refers(s, r, f) == \E q \in RowsOfKind(s, FieldKind[f]) : table[s][r].link[f] = table[s][q].id

\* Proofs and their requests belong to no user: a user's are those of its transactions.
ProvenTxsForUser(s) ==
    {r \in RowsOfKind(s, "provenTx") : ReferredTo(s, r, "transaction", "provenTxId")}
ProvenTxReqsForUser(s) ==
    {r \in RowsOfKind(s, "provenTxReq") : Refs[r]["notify"] # None /\ Present(s, Refs[r]["notify"])}

\* Nor do the maps: a user's are those of its labels and tags.
TxLabelMapsForUser(s) == {r \in RowsOfKind(s, "txLabelMap") : Refers(s, r, "txLabelId")}
OutputTagMapsForUser(s) == {r \in RowsOfKind(s, "outputTagMap") : Refers(s, r, "outputTagId")}

Shared == {"provenTx", "provenTxReq", "txLabelMap", "outputTagMap"}

\* The user's rows.
Visible(s) ==
    {r \in Rows : Present(s, r) /\ KindOf[r] \notin Shared}
    \cup ProvenTxsForUser(s) \cup ProvenTxReqsForUser(s)
    \cup TxLabelMapsForUser(s) \cup OutputTagMapsForUser(s)
-----------------------------------------------------------------------------
(* Writes to the active store, by this manager's calls or another client's.*)

Put(s, r, row) == table' = [table EXCEPT ![s][r] = row]

\* Between two chunks of a sync from store s, or before one that was cut off is resumed, its
\* offsets count rows of s.
CutOff(s) == \E w \in Stores : \E k \in Kinds : syncState[w][s].count[k] # 0
Reading == phase \in {"request", "merge"} \/ CutOff(active)

\* What belongs to no user and is a user's through its transactions.
ProofKinds == {"provenTx", "provenTxReq"}

\* Rows that the change of another row makes the user's, and those that are too old then
\* to be sent by the next sync from store s.
Newly(s) == Visible(s)' \ Visible(s)
Late(s) ==
    {p \in Newly(s) : /\ KindOf[p] \in ProofKinds
                      /\ \E w \in Stores : table'[s][p].time < syncState[w][s].when}

\* Every insert and update stamps the row.  In the middle of a sync it may be too late
\* for this sync and, once later rows have been merged, too early for the next.  Otherwise
\* the row is sent again; a proof that was missed once is old in other stores still.
Write(r, row) ==
    /\ now + crashes <= MaxEvents
    /\ now' = now + 1
    /\ Put(active, r, [row EXCEPT !.time = now + 1])
    /\ phase' = IF phase = "done" THEN "idle" ELSE phase
    /\ UNCHANGED <<syncState, active, writer, ss, chunk, sent, crashes, thrown>>
    /\ touched' = IF Reading THEN touched \cup {r} \cup Newly(active)
                  ELSE {q \in touched : q = r => KindOf[r] \in ProofKinds} \cup Late(active)

InsertRow(r) ==
    /\ ~Present(active, r)
    /\ \A f \in DOMAIN Refs[r] : Refs[r][f] # None => Present(active, Refs[r][f])
    /\ Write(r, [id |-> NewId(active, KindOf[r]), data |-> now + 1, time |-> 0,
                 link |-> [f \in DOMAIN Refs[r] |-> IdOf(active, Refs[r][f])]])

UpdateRow(r) ==
    /\ Present(active, r)
    /\ KindOf[r] # "provenTx"
    /\ Write(r, [table[active][r] EXCEPT !.data = now + 1])

SetLink(r, f, id) ==
    /\ Present(active, r)
    /\ table[active][r].link[f] # id
    /\ Write(r, [table[active][r] EXCEPT !.data = now + 1, !.link[f] = id])

\* An output is committed to a transaction, or released.
Spend(r) ==
    /\ KindOf[r] = "output"
    /\ \E id \in {0} \cup {table[active][t].id : t \in RowsOfKind(active, "transaction")} :
           SetLink(r, "spentBy", id)

\* relinquishOutput.
Relinquish(r) == KindOf[r] = "output" /\ SetLink(r, "basketId", 0)

\* A transaction gets a proof that is stored; if other users already had it, it becomes the
\* user's, and its row does not change.
Prove(t, p) ==
    /\ KindOf[t] = "transaction" /\ KindOf[p] = "provenTx"
    /\ Present(active, p) /\ Present(active, t)
    /\ table[active][t].link["provenTxId"] = 0
    /\ SetLink(t, "provenTxId", table[active][p].id)
-----------------------------------------------------------------------------
(* The reader's side.                                                      *)

\* The queries' where clause.
Changed(s, r, since) == table[s][r].time >= since

\* Rows are read in order of dependency, and of id.
Before(s, q, r) ==
    \/ Place[KindOf[q]] < Place[KindOf[r]]
    \/ KindOf[q] = KindOf[r] /\ table[s][q].id < table[s][r].id

\* getProvenTxsForUser, findTransactions, ...: what changed, from the offset on.
ToSend(s, state) ==
    LET S == {r \in Visible(s) : Changed(s, r, state.when)}
        Skipped(r) == Cardinality({q \in S : KindOf[q] = KindOf[r] /\ Before(s, q, r)})
    IN  {r \in S : Skipped(r) >= state.count[KindOf[r]]}

Maximum(a, b) == IF a > b THEN a ELSE b

\* updateBackups and setActive sync to one backup after the other.
Begin ==
    /\ phase = "idle"
    /\ writer' \in Stores \ {active}
    /\ phase' = "request"
    /\ thrown' = "no"
    /\ UNCHANGED <<store, now, ss, chunk, sent, crashes, touched>>

\* A chunk ends with all there is to send, with as many rows as are asked for, or earlier
\* with the row that makes it too large.
Chunks(s, state) ==
    LET all == ToSend(s, state)
        Earlier(r) == Cardinality({q \in all : Before(s, q, r)})
    IN  {{r \in all : Earlier(r) < n} : n \in ChunkSizes}

\* fromStorage, makeRequestSyncChunkArgs and getSyncChunk.
GetSyncChunk ==
    /\ phase = "request"
    /\ ss' = syncState[writer][active]
    /\ \E rows \in Chunks(active, syncState[writer][active]) :
           /\ chunk' = {[row |-> r, ei |-> table[active][r]] : r \in rows}
           /\ sent' = [k \in Kinds |-> Cardinality({r \in rows : KindOf[r] = k})]
    /\ phase' = "merge"
    /\ UNCHANGED <<store, now, writer, crashes, touched, thrown>>
-----------------------------------------------------------------------------
(* The writer's side: one merge per entity.  ei is the reader's record, eo *)
(* the writer's; a merge yields the record the writer stores.              *)

Mapped(k, id) ==
    IF \E m \in ss.idMap : m.kind = k /\ m.from = id
    THEN (CHOOSE m \in ss.idMap : m.kind = k /\ m.from = id).to
    ELSE 0

Via(f, ei) == Mapped(FieldKind[f], ei.link[f])

\* mergeFind: rows that belong to another row are found by that row's id here.
Find(r, keys, ei) ==
    LET eo == table[writer][r] IN
    IF eo.id # 0 /\ \A f \in keys : eo.link[f] = Via(f, ei) THEN eo ELSE NoRow

\* mergeNew: every id is translated.
Inserted(r, ei) ==
    [ei EXCEPT !.id = NewId(writer, KindOf[r]),
               !.link = [f \in LinksOf(KindOf[r]) |-> Via(f, ei)]]

\* mergeExisting: the writer's record is changed and stamped if the reader's is newer.
IfNewer(eo, ei, row) == IF ei.time > eo.time THEN [row EXCEPT !.time = now] ELSE eo

WithData(eo, ei) == [eo EXCEPT !.data = ei.data]

Merge(r, keys, ei, row(_)) ==
    LET eo == Find(r, keys, ei) IN
    IF eo = NoRow THEN Inserted(r, ei) ELSE row(eo)

MergeProvenTx(r, ei) == Merge(r, {}, ei, LAMBDA eo : eo)
MergeOutputBasket(r, ei) == Merge(r, {}, ei, LAMBDA eo : IfNewer(eo, ei, WithData(eo, ei)))
MergeOutputTag(r, ei) == Merge(r, {}, ei, LAMBDA eo : IfNewer(eo, ei, WithData(eo, ei)))
MergeTxLabel(r, ei) == Merge(r, {}, ei, LAMBDA eo : IfNewer(eo, ei, WithData(eo, ei)))

\* mergeExisting looks the proof's id up among the transactions.
MergeTransaction(r, ei) ==
    Merge(r, {}, ei, LAMBDA eo : IfNewer(eo, ei,
        [WithData(eo, ei) EXCEPT !.link["provenTxId"] =
                                     Mapped("transaction", ei.link["provenTxId"])]))

\* Mutant: spentBy is copied as it is.
MergeOutputUnmapped(r, ei) ==
    Merge(r, {"transactionId"}, ei, LAMBDA eo : IfNewer(eo, ei,
        [WithData(eo, ei) EXCEPT !.link["spentBy"] = ei.link["spentBy"]]))

\* The basket of an output that is there already is left as it is.
MergeOutput(r, ei) ==
    Merge(r, {"transactionId"}, ei, LAMBDA eo : IfNewer(eo, ei,
        [WithData(eo, ei) EXCEPT !.link["spentBy"] = Via("spentBy", ei)]))

MergeTxLabelMap(r, ei) ==
    Merge(r, {"transactionId", "txLabelId"}, ei, LAMBDA eo : IfNewer(eo, ei, WithData(eo, ei)))
MergeOutputTagMap(r, ei) ==
    Merge(r, {"outputId", "outputTagId"}, ei, LAMBDA eo : IfNewer(eo, ei, WithData(eo, ei)))
MergeCertificate(r, ei) == Merge(r, {}, ei, LAMBDA eo : IfNewer(eo, ei, WithData(eo, ei)))
MergeCertificateField(r, ei) ==
    Merge(r, {"certificateId"}, ei, LAMBDA eo : IfNewer(eo, ei, WithData(eo, ei)))
MergeCommission(r, ei) ==
    Merge(r, {"transactionId"}, ei, LAMBDA eo : IfNewer(eo, ei, WithData(eo, ei)))

\* Status, attempts and proof of a req that is there already are left as they are; the
\* transactions to notify are added, and the row is stamped whatever the reader's time.
MergeProvenTxReq(r, ei) ==
    Merge(r, {}, ei, LAMBDA eo :
        [eo EXCEPT !.time = now,
                   !.link["notify"] = IF Via("notify", ei) # 0 THEN Via("notify", ei) ELSE @])

MergeFor(r, ei) ==
    LET k == KindOf[r] IN
    CASE k = "provenTx" -> MergeProvenTx(r, ei)
      [] k = "outputBasket" -> MergeOutputBasket(r, ei)
      [] k = "outputTag" -> MergeOutputTag(r, ei)
      [] k = "txLabel" -> MergeTxLabel(r, ei)
      [] k = "transaction" -> MergeTransaction(r, ei)
      [] k = "output" -> MergeOutput(r, ei)
      [] k = "txLabelMap" -> MergeTxLabelMap(r, ei)
      [] k = "outputTagMap" -> MergeOutputTagMap(r, ei)
      [] k = "certificate" -> MergeCertificate(r, ei)
      [] k = "certificateField" -> MergeCertificateField(r, ei)
      [] k = "commission" -> MergeCommission(r, ei)
      [] k = "provenTxReq" -> MergeProvenTxReq(r, ei)

\* The foreign keys that may not be null.
Required(row) == DOMAIN row.link \ Nullable

\* A unique key, a key that may not be null or a foreign key is violated.
Refused(r, row) ==
    \/ Present(writer, r) /\ row.id # table[writer][r].id
    \/ \E f \in Required(row) : row.link[f] = 0
    \/ \E f \in DOMAIN row.link \cap {"provenTxId", "spentBy", "basketId"} :
          row.link[f] # 0 /\ \A q \in RowsOfKind(writer, FieldKind[f]) :
                                 table[writer][q].id # row.link[f]

\* The maps and the certificate fields have no id.
HasId(r) == KindOf[r] \notin {"txLabelMap", "outputTagMap", "certificateField"}

\* updateSyncMap throws.
Overrides(r, ei, id) == HasId(r) /\ Mapped(KindOf[r], ei.id) \notin {0, id}

\* Mutant: the reader's id is taken for the writer's.
WithReaderId(r, ei, id) ==
    IF HasId(r) THEN {[kind |-> KindOf[r], from |-> ei.id, to |-> ei.id]} ELSE {}

WithId(r, ei, id) ==
    IF HasId(r) THEN {[kind |-> KindOf[r], from |-> ei.id, to |-> id]} ELSE {}

\* Arrays are merged in order of dependency.
FirstOf(rows) ==
    CHOOSE x \in rows : \A y \in rows \ {x} :
        \/ Place[KindOf[x.row]] < Place[KindOf[y.row]]
        \/ KindOf[x.row] = KindOf[y.row] /\ x.ei.id < y.ei.id

\* What a field refers to changed while a sync was reading.
IsLate(f, ei) ==
    \E q \in touched : /\ KindOf[q] = FieldKind[f] /\ Present(active, q)
                        /\ table[active][q].id = ei.link[f]

\* An output may be merged before the transaction that spends it, if that one is late.
LinkLost(x) ==
    {r \in {x.row} : /\ KindOf[r] = "output" /\ IsLate("spentBy", x.ei)
                     /\ Via("spentBy", x.ei) = 0}

\* One turn of the loop in MergeEntity.merge.  It changes rows of the writer: a sync from
\* the writer that was cut off goes on at offsets which mean other rows now.
MergeItem ==
    /\ phase = "merge"
    /\ chunk # {}
    /\ LET r == FirstOf(chunk).row
           ei == FirstOf(chunk).ei
           row == MergeFor(r, ei)
           k == KindOf[r]
       IN  /\ ~Refused(r, row)
           /\ ~Overrides(r, ei, row.id)
           /\ Put(writer, r, row)
           /\ ss' = [ss EXCEPT !.idMap = @ \cup WithId(r, ei, row.id),
                               !.top[k] = Maximum(@, ei.time)]
    /\ chunk' = chunk \ {FirstOf(chunk)}
    /\ UNCHANGED <<syncState, active, now, phase, writer, sent, crashes, thrown>>
    /\ touched' = IF CutOff(writer) THEN Rows
                  ELSE touched \cup Late(writer) \cup LinkLost(FirstOf(chunk))

\* The merge throws: what was merged stays, the sync state is not written.
MergeThrows ==
    /\ phase = "merge"
    /\ chunk # {}
    /\ LET r == FirstOf(chunk).row
           ei == FirstOf(chunk).ei
           row == MergeFor(r, ei)
       IN  /\ Refused(r, row) \/ Overrides(r, ei, row.id)
           /\ thrown' = IF ~Refused(r, row) THEN "override"
                        ELSE IF \E f \in Required(row) : row.link[f] = 0 /\ ~IsLate(f, ei)
                             THEN "parent" ELSE "key"
    /\ phase' = "idle"
    /\ chunk' = {}
    /\ UNCHANGED <<store, now, writer, ss, sent, crashes, touched>>

\* Every array of the chunk is there, and empty.
NothingSent == \A k \in Kinds : sent[k] = 0

\* Mutant: the next round begins after the latest row.
NextSyncStateLater ==
    IF NothingSent
    THEN [ss EXCEPT !.when = Max({ss.top[k] : k \in Kinds}) + 1, !.count = [k \in Kinds |-> 0]]
    ELSE [ss EXCEPT !.count = [k \in Kinds |-> ss.count[k] + sent[k]]]

\* The counts become the next request's offsets; an empty chunk ends the round, and the
\* next begins at the time of the latest row that was merged.
NextSyncState ==
    IF NothingSent THEN [ss EXCEPT !.when = Max({ss.top[k] : k \in Kinds}),
                            !.count = [k \in Kinds |-> 0]]
    ELSE [ss EXCEPT !.count = [k \in Kinds |-> ss.count[k] + sent[k]]]

\* processSyncChunk ends with updateStorage.
EndChunk ==
    /\ phase = "merge"
    /\ chunk = {}
    /\ syncState' = [syncState EXCEPT ![writer][active] = NextSyncState]
    /\ phase' = IF NothingSent THEN "done" ELSE "request"
    /\ UNCHANGED <<table, active, now, writer, ss, chunk, sent, crashes, touched, thrown>>

\* The process ends, or a call to one of the stores fails.
Crash ==
    /\ phase \in {"request", "merge"}
    /\ now + crashes <= MaxEvents
    /\ crashes' = crashes + 1
    /\ phase' = "idle"
    /\ chunk' = {}
    /\ UNCHANGED <<store, now, writer, ss, sent, touched, thrown>>

Return ==
    /\ phase = "done"
    /\ phase' = "idle"
    /\ UNCHANGED <<store, now, writer, ss, chunk, sent, crashes, touched, thrown>>

\* setActive: the store that has just been written becomes the active one.
SetActive ==
    /\ phase = "done"
    /\ active' = writer
    /\ phase' = "idle"
    /\ UNCHANGED <<table, syncState, now, writer, ss, chunk, sent, crashes, touched, thrown>>
-----------------------------------------------------------------------------
Next ==
    \/ \E r \in Writable : InsertRow(r) \/ UpdateRow(r) \/ Spend(r) \/ Relinquish(r)
    \/ \E t, p \in Writable : Prove(t, p)
    \/ Begin \/ GetSyncChunk \/ MergeItem \/ MergeThrows \/ EndChunk \/ Return \/ SetActive
    \/ Crash

Spec == Init /\ [][Next]_vars

-----------------------------------------------------------------------------
(* Properties.                                                             *)

TypeOK ==
    /\ \A s \in Stores : \A r \in Rows :
          /\ table[s][r].id \in Nat /\ table[s][r].data \in 0 .. now
          /\ table[s][r].time \in 0 .. now
          /\ Present(s, r) => DOMAIN table[s][r].link = LinksOf(KindOf[r])
    /\ active \in Stores /\ writer \in Stores
    /\ phase \in {"idle", "request", "merge", "done"}
    /\ touched \subseteq Rows
    /\ \A s, t \in Stores : syncState[s][t].when \in 0 .. now

\* Row r of store s, and what it refers to, are the same in store w.  A proof and the
\* progress of a request for one are the store's own.
SameRow(s, w, r, fields) ==
    /\ Present(w, r)
    /\ KindOf[r] \notin ProofKinds => table[w][r].data = table[s][r].data
    /\ \A f \in LinksOf(KindOf[r]) \cap fields :
          LET id == table[s][r].link[f]
              q == CHOOSE p \in RowsOfKind(s, FieldKind[f]) : table[s][p].id = id
          IN  table[w][r].link[f] = IF id = 0 THEN 0 ELSE table[w][q].id

\* The links that travel with every later change of a row.
Travelling == {"transactionId", "spentBy", "txLabelId", "outputId", "outputTagId",
               "certificateId"}

\* A sync that has ended leaves in the writer every row of the user's, with the reader's
\* data and with links to the same rows, however the chunks were cut, wherever earlier
\* syncs were cut off and whichever store was active before; but for rows that changed
\* while a sync was reading, and proofs that became the user's late.
BackupMatches ==
    phase = "done" =>
        \A r \in Visible(active) \ touched : SameRow(active, writer, r, Travelling)

\* EntityBase.ts: (A sync B) equals (B sync A): also the proof of a transaction travels.
ProofsTravel ==
    phase = "done" =>
        \A r \in Visible(active) \ touched : SameRow(active, writer, r, {"provenTxId"})

\* The ids a sync state has learned stay true: they name the same row in both stores.
IdMapsAreTrue ==
    \A w, s \in Stores : \A m \in syncState[w][s].idMap :
        \E r \in Rows : /\ KindOf[r] = m.kind
                        /\ table[s][r].id = m.from
                        /\ table[w][r].id = m.to

\* Chunks come in order of dependency: no row comes before a row it needs, unless that one
\* changed while a sync was reading; and ids are never mapped anew.
ParentsComeFirst == thrown \notin {"override", "parent"}
=============================================================================

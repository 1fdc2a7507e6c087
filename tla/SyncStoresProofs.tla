--------------------------- MODULE SyncStoresProofs ---------------------------
(***************************************************************************)
(* Proofs about syncs, for any stores and rows, sizes of chunks, writes,   *)
(* switches and syncs that are cut off: links and learned ids name the     *)
(* same rows in every store, rows come after the rows they need, and a     *)
(* sync that has ended has brought all that was not missed.                *)
(***************************************************************************)
EXTENDS SyncStores, FiniteSetTheorems, NaturalsInduction, WellFoundedInduction, TLAPS

Links == {NoRow.link} \cup UNION {[S -> Nat] : S \in SUBSET (DOMAIN FieldKind)}

Records == [id : Nat, data : Nat, time : Nat, link : Links]

SyncStates ==
    [when : Nat, count : [Kinds -> Nat], top : [Kinds -> Nat],
     idMap : SUBSET [kind : Kinds, from : Nat, to : Nat]]

\* A record of row r that was written before now.
RecordOf(r, row) ==
    /\ row \in Records /\ row.id # 0 /\ row.link \in [LinksOf(KindOf[r]) -> Nat]
    /\ row.data <= row.time /\ row.time <= now

\* A sync state that knows of nothing later than now.
StateOf(state) ==
    state \in SyncStates /\ state.when <= now /\ \A k \in Kinds : state.top[k] <= now

Typed ==
    /\ now \in Nat
    /\ table \in [Stores -> [Rows -> Records]]
    /\ \A s \in Stores : \A r \in Rows :
          IF Present(s, r) THEN RecordOf(r, table[s][r]) ELSE table[s][r] = NoRow
    /\ syncState \in [Stores -> [Stores -> SyncStates]]
    /\ \A w, s \in Stores : StateOf(syncState[w][s])
    /\ active \in Stores /\ writer \in Stores
    /\ phase \in {"idle", "request", "merge", "done"}
    /\ StateOf(ss)
    /\ chunk \subseteq [row : Rows, ei : Records]
    /\ \A x \in chunk : RecordOf(x.row, x.ei)
    /\ sent \in [Kinds -> Nat]
    /\ touched \subseteq Rows

\* Rows whose data a merge copies.
Plain(r) == KindOf[r] \notin ProofKinds

\* The fields a row of kind k is found by, besides its own key.
KeysOf(k) ==
    CASE k \in {"output", "commission"} -> {"transactionId"}
      [] k = "txLabelMap" -> {"transactionId", "txLabelId"}
      [] k = "outputTagMap" -> {"outputId", "outputTagId"}
      [] k = "certificateField" -> {"certificateId"}
      [] OTHER -> {}

\* The writer has row r with the keys of ei.
Found(r, ei) ==
    Present(writer, r) /\ \A f \in KeysOf(KindOf[r]) : table[writer][r].link[f] = Via(f, ei)

LEMMA KindsAre ==
    /\ Kinds = {"provenTx", "outputBasket", "outputTag", "txLabel", "transaction", "output",
                "txLabelMap", "outputTagMap", "certificate", "certificateField", "commission",
                "provenTxReq"}
    /\ Place \in [Kinds -> Nat]
    /\ \A j, k \in Kinds : Place[j] = Place[k] => j = k
BY DEF Kinds, Place

LEMMA LinksAre ==
    ASSUME NEW k \in Kinds
    PROVE  /\ LinksOf(k) \subseteq DOMAIN FieldKind
           /\ KeysOf(k) = LinksOf(k) \ Nullable
           /\ \A f \in LinksOf(k) : FieldKind[f] \in Kinds
           /\ \A f \in KeysOf(k) : /\ Place[FieldKind[f]] < Place[k]
                                   /\ FieldKind[f] \notin ProofKinds
                                   /\ FieldKind[f] \in {"transaction", "txLabel", "output",
                                                        "outputTag", "certificate"}
<1> USE DEF TransactionLinks, OutputLinks, TxLabelMapLinks, OutputTagMapLinks,
            CertificateFieldLinks, CommissionLinks, ProvenTxReqLinks, Nullable, ProofKinds
<1>1. DOMAIN FieldKind = {"provenTxId", "transactionId", "spentBy", "notify", "basketId",
                          "txLabelId", "outputId", "outputTagId", "certificateId"}
  BY DEF FieldKind
<1>2. \A f \in DOMAIN FieldKind : FieldKind[f] \in Kinds
  BY KindsAre DEF FieldKind
<1>3. LinksOf(k) \subseteq DOMAIN FieldKind
  BY <1>1, KindsAre DEF LinksOf
<1>4. KeysOf(k) = LinksOf(k) \ Nullable
  BY KindsAre DEF LinksOf, KeysOf
<1>5. \A f \in KeysOf(k) : /\ FieldKind[f] \in {"transaction", "txLabel", "output",
                                                "outputTag", "certificate"}
                           /\ Place[FieldKind[f]] < Place[k]
  BY KindsAre DEF KeysOf, FieldKind, Place
<1> QED
  BY <1>2, <1>3, <1>4, <1>5

LEMMA MappedType ==
    ASSUME Typed, NEW k, NEW id
    PROVE  Mapped(k, id) \in Nat
BY DEF Mapped, Typed, StateOf, SyncStates

LEMMA RecordIs ==
    ASSUME NEW r \in Rows, NEW id \in Nat, id # 0, NEW data \in Nat, NEW time \in Nat,
           data <= time, time <= now, NEW link \in [LinksOf(KindOf[r]) -> Nat],
           NEW row, row = [id |-> id, data |-> data, time |-> time, link |-> link]
    PROVE  RecordOf(r, row)
<1>1. link \in Links
  BY RowsAssumption, LinksAre DEF Links
<1>2. row \in Records
  BY <1>1 DEF Records
<1> QED
  BY <1>2 DEF RecordOf

LEMMA RecordHas ==
    ASSUME NEW r, NEW row, RecordOf(r, row), now \in Nat
    PROVE  /\ row.id \in Nat /\ row.id # 0 /\ row.data \in Nat /\ row.time \in Nat
           /\ row.link \in [LinksOf(KindOf[r]) -> Nat]
           /\ row.data <= row.time /\ row.time <= now /\ row.data <= now
           /\ row = [id |-> row.id, data |-> row.data, time |-> row.time, link |-> row.link]
<1>1. row \in Records
  BY DEF RecordOf
<1>2. row.id \in Nat /\ row.data \in Nat /\ row.time \in Nat
  BY <1>1 DEF Records
<1>3. row = [id |-> row.id, data |-> row.data, time |-> row.time, link |-> row.link]
  BY <1>1 DEF Records
<1> QED
  BY <1>2, <1>3 DEF RecordOf

-----------------------------------------------------------------------------
(* Merges.                                                                 *)

\* A merge that changes a row keeps its id and the links it is found by.
Keeps(eo, row) ==
    row.id = eo.id /\ \A f \in DOMAIN eo.link \ Nullable : row.link[f] = eo.link[f]

\* It takes the reader's data, stamps the row and translates its spender.
Takes(r, ei, row) ==
    /\ row.data = ei.data /\ row.time = now
    /\ KindOf[r] = "output" => row.link["spentBy"] = Via("spentBy", ei)

\* What the merge of an item stores.
LEMMA MergedRow ==
    ASSUME Typed, NEW r \in Rows, NEW ei, RecordOf(r, ei),
           NEW eo, eo = table[writer][r], NEW row, row = MergeFor(r, ei)
    PROVE  /\ ~Found(r, ei) => row = Inserted(r, ei)
           /\ Found(r, ei) =>
                /\ RecordOf(r, row) /\ Keeps(eo, row)
                /\ Plain(r) => IF ei.time > eo.time THEN Takes(r, ei, row) ELSE row = eo
                /\ KindOf[r] = "provenTx" => row = eo
                /\ KindOf[r] = "provenTxReq" => row.data = eo.data /\ row.time = now
<1> DEFINE k == KindOf[r]
           F == Find(r, KeysOf(k), ei)
<1>0. k \in Kinds /\ writer \in Stores /\ now \in Nat
  BY RowsAssumption DEF Typed
<1>1. /\ Found(r, ei) => F = eo /\ F # NoRow
      /\ ~Found(r, ei) => F = NoRow
  BY DEF Found, Find, Present, NoRow
<1>2. Found(r, ei) => RecordOf(r, eo)
  BY <1>0 DEF Found, Typed
<1>r. /\ ei.data \in Nat /\ ei.time \in Nat
      /\ ei.data <= ei.time /\ ei.time <= now /\ ei.data <= now
  BY <1>0, RecordHas
<1>e. Found(r, ei) =>
        /\ eo.id \in Nat /\ eo.id # 0 /\ eo.data \in Nat /\ eo.time \in Nat
        /\ eo.link \in [LinksOf(k) -> Nat] /\ eo.data <= now
        /\ eo = [id |-> eo.id, data |-> eo.data, time |-> eo.time, link |-> eo.link]
  BY <1>0, <1>2, RecordHas
<1> DEFINE Newer == IfNewer(F, ei, WithData(F, ei))
<1>3. ASSUME k \in {"outputBasket", "outputTag", "txLabel", "txLabelMap", "outputTagMap",
                    "certificate", "certificateField", "commission"}
      PROVE  row = IF F = NoRow THEN Inserted(r, ei) ELSE Newer
  BY <1>3 DEF MergeFor, MergeOutputBasket, MergeOutputTag, MergeTxLabel, MergeTxLabelMap,
     MergeOutputTagMap, MergeCertificate, MergeCertificateField, MergeCommission, Merge, KeysOf
<1> HIDE DEF F
<1>4. CASE k \in {"outputBasket", "outputTag", "txLabel", "txLabelMap", "outputTagMap",
                  "certificate", "certificateField", "commission"}
  <2>1. CASE ~Found(r, ei)
    BY <1>1, <1>3, <1>4, <2>1
  <2>2. CASE Found(r, ei)
    <3>1. row = IF ei.time > eo.time THEN [eo EXCEPT !.data = ei.data, !.time = now] ELSE eo
      BY <1>1, <1>2, <1>3, <1>4, <2>2 DEF IfNewer, WithData, RecordOf, Records
    <3>2. RecordOf(r, row)
      <4>1. CASE ei.time > eo.time
        <5>1. row = [id |-> eo.id, data |-> ei.data, time |-> now, link |-> eo.link]
          BY <1>e, <2>2, <3>1, <4>1
        <5> QED BY <1>0, <1>r, <1>e, <2>2, <5>1, RecordIs
      <4> QED BY <1>2, <2>2, <3>1, <4>1
    <3>3. Keeps(eo, row) /\ (ei.time > eo.time => Takes(r, ei, row))
      BY <1>2, <1>4, <2>2, <3>1 DEF Keeps, Takes, RecordOf, Records
    <3> QED BY <1>4, <2>2, <3>1, <3>2, <3>3
  <2> QED BY <2>1, <2>2
<1>5. CASE k = "transaction"
  <2> DEFINE to == Mapped("transaction", ei.link["provenTxId"])
  <2>1. row = IF F = NoRow THEN Inserted(r, ei)
              ELSE IfNewer(F, ei, [WithData(F, ei) EXCEPT !.link["provenTxId"] = to])
    BY <1>5 DEF MergeFor, MergeTransaction, Merge, KeysOf, F
  <2>0. to \in Nat
    BY <1>0, MappedType
  <2> HIDE DEF to
  <2>2. CASE ~Found(r, ei)
    BY <1>1, <2>1, <2>2
  <2>3. CASE Found(r, ei)
    <3>1. row = IF ei.time > eo.time
                THEN [eo EXCEPT !.data = ei.data, !.time = now, !.link["provenTxId"] = to]
                ELSE eo
      BY <1>1, <1>2, <2>1, <2>3 DEF IfNewer, WithData, RecordOf, Records
    <3> DEFINE link == [eo.link EXCEPT !["provenTxId"] = to]
    <3>2. link \in [LinksOf(k) -> Nat] /\ \A f \in DOMAIN eo.link \ Nullable : link[f] = eo.link[f]
      BY <1>2, <2>0, <2>3 DEF RecordOf, Nullable
    <3>3. ei.time > eo.time =>
            row = [id |-> eo.id, data |-> ei.data, time |-> now, link |-> link]
      BY <1>2, <2>3, <3>1 DEF RecordOf, Records
    <3> HIDE DEF link
    <3>5. RecordOf(r, row)
      <4>1. CASE ei.time > eo.time
        BY <1>0, <1>r, <1>e, <2>3, <3>2, <3>3, <4>1, RecordIs
      <4> QED BY <1>2, <2>3, <3>1, <4>1
    <3>6. Keeps(eo, row)
      <4>1. CASE ei.time > eo.time
        <5>1. row.id = eo.id /\ row.link = link
          BY <3>3, <4>1
        <5> QED BY <3>2, <5>1 DEF Keeps
      <4> QED BY <3>1, <4>1 DEF Keeps
    <3>7. ei.time > eo.time => Takes(r, ei, row)
      BY <1>5, <3>3 DEF Takes
    <3> QED BY <1>5, <2>3, <3>1, <3>5, <3>6, <3>7
  <2> QED BY <2>2, <2>3
<1>6. CASE k = "output"
  <2> DEFINE to == Via("spentBy", ei)
  <2>1. row = IF F = NoRow THEN Inserted(r, ei)
              ELSE IfNewer(F, ei, [WithData(F, ei) EXCEPT !.link["spentBy"] = to])
    BY <1>6 DEF MergeFor, MergeOutput, Merge, KeysOf, F
  <2>0. to \in Nat
    BY <1>0, MappedType DEF Via
  <2>2. CASE ~Found(r, ei)
    BY <1>1, <2>1, <2>2
  <2>3. CASE Found(r, ei)
    <3> HIDE DEF to
    <3>1. row = IF ei.time > eo.time
                THEN [eo EXCEPT !.data = ei.data, !.time = now, !.link["spentBy"] = to]
                ELSE eo
      BY <1>1, <1>2, <2>1, <2>3 DEF IfNewer, WithData, RecordOf, Records
    <3> DEFINE link == [eo.link EXCEPT !["spentBy"] = to]
    <3>2. /\ link \in [LinksOf(k) -> Nat]
          /\ \A f \in DOMAIN eo.link \ Nullable : link[f] = eo.link[f]
          /\ link["spentBy"] = to
      BY <1>2, <1>6, <2>0, <2>3 DEF RecordOf, Nullable, LinksOf, OutputLinks
    <3>3. ei.time > eo.time =>
            row = [id |-> eo.id, data |-> ei.data, time |-> now, link |-> link]
      BY <1>2, <2>3, <3>1 DEF RecordOf, Records
    <3> HIDE DEF link
    <3>5. RecordOf(r, row)
      <4>1. CASE ei.time > eo.time
        BY <1>0, <1>r, <1>e, <2>3, <3>2, <3>3, <4>1, RecordIs
      <4> QED BY <1>2, <2>3, <3>1, <4>1
    <3>6. Keeps(eo, row)
      <4>1. CASE ei.time > eo.time
        <5>1. row.id = eo.id /\ row.link = link
          BY <3>3, <4>1
        <5> QED BY <3>2, <5>1 DEF Keeps
      <4> QED BY <3>1, <4>1 DEF Keeps
    <3>7. ei.time > eo.time => Takes(r, ei, row)
      BY <3>2, <3>3 DEF Takes, to
    <3> QED BY <1>6, <2>3, <3>1, <3>5, <3>6, <3>7
  <2> QED BY <2>2, <2>3
<1>7. CASE k = "provenTx"
  <2>1. row = IF F = NoRow THEN Inserted(r, ei) ELSE F
    BY <1>7 DEF MergeFor, MergeProvenTx, Merge, KeysOf, F
  <2> QED BY <1>1, <1>2, <1>7, <2>1 DEF Plain, ProofKinds, Keeps
<1>8. CASE k = "provenTxReq"
  <2> DEFINE to == IF Via("notify", ei) # 0 THEN Via("notify", ei) ELSE F.link["notify"]
  <2>1. row = IF F = NoRow THEN Inserted(r, ei)
              ELSE [F EXCEPT !.time = now, !.link["notify"] = to]
    BY <1>8 DEF MergeFor, MergeProvenTxReq, Merge, KeysOf, F
  <2>2. CASE ~Found(r, ei)
    BY <1>1, <2>1, <2>2
  <2>3. CASE Found(r, ei)
    <3>0. to \in Nat
      <4>1. "notify" \in LinksOf(k)
        BY <1>8 DEF LinksOf, ProvenTxReqLinks
      <4>2. Via("notify", ei) \in Nat
        BY <1>0, MappedType DEF Via
      <4> QED BY <1>1, <1>2, <2>3, <4>1, <4>2 DEF RecordOf
    <3> HIDE DEF to
    <3> DEFINE link == [eo.link EXCEPT !["notify"] = to]
    <3>2. /\ link \in [LinksOf(k) -> Nat]
          /\ \A f \in DOMAIN eo.link \ Nullable : link[f] = eo.link[f]
      BY <1>2, <2>3, <3>0 DEF RecordOf, Nullable
    <3>3. row = [id |-> eo.id, data |-> eo.data, time |-> now, link |-> link]
      BY <1>1, <1>2, <2>1, <2>3 DEF RecordOf, Records
    <3> HIDE DEF link
    <3>5. RecordOf(r, row)
      BY <1>0, <1>e, <2>3, <3>2, <3>3, RecordIs
    <3>6. Keeps(eo, row)
      BY <3>2, <3>3 DEF Keeps
    <3> QED BY <1>8, <2>3, <3>3, <3>5, <3>6 DEF Plain, ProofKinds
  <2> QED BY <2>2, <2>3
<1> QED
  BY <1>0, <1>4, <1>5, <1>6, <1>7, <1>8, KindsAre

-----------------------------------------------------------------------------
(* Least and greatest members.                                             *)

LEMMA LeastMember ==
    ASSUME NEW S, S \subseteq Nat, S # {}
    PROVE  \E x \in S : \A y \in S : x <= y
<1>1. PICK x \in S : \A y \in S : ~(<<y, x>> \in OpToRel(<, Nat))
  BY WFMin, NatLessThanWellFounded, Zenon
<1>2. \A y \in S : ~(y < x)
  BY <1>1, Zenon DEF OpToRel
<1> QED
  BY <1>2

LEMMA GreatestMember ==
    ASSUME NEW S, S \subseteq Nat, S # {}, NEW n \in Nat, \A x \in S : x <= n
    PROVE  Max(S) \in S /\ \A y \in S : y <= Max(S)
<1> DEFINE D == {n - x : x \in S}
<1>1. D \subseteq Nat /\ D # {}
  <2>1. \A x \in S : n - x \in Nat
    OBVIOUS
  <2> QED BY <2>1
<1>2. PICK d \in D : \A e \in D : d <= e
  BY <1>1, LeastMember
<1>3. PICK x \in S : d = n - x
  BY <1>2
<1>4. ASSUME NEW y \in S
      PROVE  y <= x
  <2>1. n - y \in D
    OBVIOUS
  <2>2. d <= n - y
    BY <1>2, <2>1
  <2>3. x \in Nat /\ y \in Nat
    OBVIOUS
  <2> QED BY <1>3, <2>2, <2>3
<1> QED
  BY <1>3, <1>4 DEF Max
-----------------------------------------------------------------------------
(* Ids.                                                                    *)

\* A row's id is smaller than the next row of its kind will get, and its own.
IdsInv ==
    \A s \in Stores : \A r \in Rows : Present(s, r) =>
        /\ table[s][r].id < NewId(s, KindOf[r])
        /\ \A q \in Rows : KindOf[q] = KindOf[r] /\ table[s][q].id = table[s][r].id => q = r

\* No row loses its id.
IdsStay ==
    \A s \in Stores : \A r \in Rows :
        Present(s, r) => Present(s, r)' /\ table'[s][r].id = table[s][r].id

LEMMA NewIdType ==
    ASSUME NEW s \in Stores, NEW k \in Kinds
    PROVE  IsFiniteSet(RowsOfKind(s, k)) /\ NewId(s, k) \in Nat /\ NewId(s, k) # 0
<1>1. IsFiniteSet(RowsOfKind(s, k))
  BY RowsAssumption, FS_Subset DEF RowsOfKind
<1>2. Cardinality(RowsOfKind(s, k)) \in Nat
  BY <1>1, FS_CardinalityType
<1>3. FirstId[s][k] \in Nat \ {0}
  BY RowsAssumption
<1> QED
  BY <1>1, <1>2, <1>3 DEF NewId

\* A row that is stored keeps its id, and a new one gets the next.
LEMMA PutRow ==
    ASSUME Typed, IdsInv, NEW s \in Stores, NEW r \in Rows, NEW row \in Records, Put(s, r, row),
           row.id = IF Present(s, r) THEN table[s][r].id ELSE NewId(s, KindOf[r])
    PROVE  /\ table' \in [Stores -> [Rows -> Records]]
           /\ table'[s][r] = row /\ Present(s, r)'
           /\ \A t \in Stores : \A q \in Rows : t # s \/ q # r =>
                table'[t][q] = table[t][q] /\ (Present(t, q)' <=> Present(t, q))
           /\ IdsStay /\ IdsInv'
<1> DEFINE K == KindOf[r]
<1>0. K \in Kinds /\ KindOf \in [Rows -> Kinds]
  BY RowsAssumption
<1>1. table' = [table EXCEPT ![s][r] = row]
  BY DEF Put
<1>2. table' \in [Stores -> [Rows -> Records]] /\ table \in [Stores -> [Rows -> Records]]
  BY <1>1 DEF Typed
<1>3. /\ table'[s][r] = row
      /\ \A t \in Stores : \A q \in Rows : t # s \/ q # r => table'[t][q] = table[t][q]
  BY <1>1, <1>2
<1>4. row.id # 0
  BY <1>0, NewIdType DEF Present
<1>5. /\ Present(s, r)'
      /\ \A t \in Stores : \A q \in Rows : t # s \/ q # r => (Present(t, q)' <=> Present(t, q))
  BY <1>3, <1>4 DEF Present
<1>6. IdsStay
  BY <1>3, <1>5 DEF IdsStay
<1>7. \A t \in Stores : \A k \in Kinds :
        RowsOfKind(t, k)' = IF t = s /\ k = K THEN RowsOfKind(t, k) \cup {r} ELSE RowsOfKind(t, k)
  BY <1>5 DEF RowsOfKind
<1>8. \A t \in Stores : \A k \in Kinds :
        /\ NewId(t, k) \in Nat
        /\ NewId(t, k)' = IF t = s /\ k = K /\ ~Present(s, r) THEN NewId(t, k) + 1 ELSE NewId(t, k)
  <2> SUFFICES ASSUME NEW t \in Stores, NEW k \in Kinds
               PROVE  /\ NewId(t, k) \in Nat
                      /\ NewId(t, k)' = IF t = s /\ k = K /\ ~Present(s, r)
                                        THEN NewId(t, k) + 1 ELSE NewId(t, k)
    OBVIOUS
  <2>1. NewId(t, k) \in Nat /\ IsFiniteSet(RowsOfKind(t, k))
    BY NewIdType
  <2>2. CASE t = s /\ k = K /\ ~Present(s, r)
    <3>1. r \notin RowsOfKind(t, k) /\ RowsOfKind(t, k)' = RowsOfKind(t, k) \cup {r}
      BY <1>7, <2>2 DEF RowsOfKind
    <3>2. /\ Cardinality(RowsOfKind(t, k)') = Cardinality(RowsOfKind(t, k)) + 1
          /\ Cardinality(RowsOfKind(t, k)) \in Nat
      BY <2>1, <3>1, FS_AddElement, FS_CardinalityType
    <3>3. FirstId[t][k] \in Nat
      BY RowsAssumption
    <3> QED BY <2>1, <2>2, <3>2, <3>3 DEF NewId
  <2>3. CASE ~(t = s /\ k = K /\ ~Present(s, r))
    <3>1. RowsOfKind(t, k)' = RowsOfKind(t, k)
      BY <1>7, <2>3 DEF RowsOfKind
    <3> QED BY <2>1, <2>3, <3>1 DEF NewId
  <2> QED BY <2>2, <2>3
<1>9. ASSUME NEW t \in Stores, NEW q \in Rows, Present(t, q)'
      PROVE  table'[t][q].id < NewId(t, KindOf[q])'
  <2>1. NewId(t, KindOf[q]) \in Nat /\ KindOf[q] \in Kinds
    BY <1>0, <1>8
  <2>2. table[t][q].id \in Nat
    BY <1>2 DEF Records
  <2>3. CASE Present(t, q)
    BY <1>6, <1>8, <2>1, <2>2, <2>3 DEF IdsStay, IdsInv
  <2>4. CASE ~Present(t, q)
    <3>1. t = s /\ q = r
      BY <1>5, <1>9, <2>4
    <3> QED BY <1>3, <1>8, <2>1, <2>4, <3>1
  <2> QED BY <2>3, <2>4
<1>10. ASSUME NEW t \in Stores, NEW q \in Rows, NEW p \in Rows, Present(t, q)',
              KindOf[p] = KindOf[q], table'[t][p].id = table'[t][q].id
       PROVE  p = q
  <2>1. Present(t, p)'
    BY <1>10 DEF Present
  <2>2. CASE Present(t, p) /\ Present(t, q)
    <3>1. table[t][p].id = table[t][q].id
      BY <1>6, <1>10, <2>2 DEF IdsStay
    <3> QED BY <1>10, <2>2, <3>1 DEF IdsInv
  <2>3. CASE ~Present(t, p)
    <3>1. t = s /\ p = r /\ ~Present(s, r)
      BY <1>5, <2>1, <2>3
    <3>2. CASE q # r
      <4>1. Present(s, q) /\ table[s][q].id < NewId(s, KindOf[r])
        BY <1>5, <1>10, <3>1, <3>2 DEF IdsInv
      <4>2. table'[s][q].id = table[s][q].id /\ table'[s][r].id = NewId(s, KindOf[r])
        BY <1>3, <3>1, <3>2
      <4>3. table[s][q].id \in Nat /\ NewId(s, KindOf[r]) \in Nat
        BY <1>0, <1>2, <1>8 DEF Records
      <4> QED BY <1>10, <3>1, <4>1, <4>2, <4>3
    <3> QED BY <3>1, <3>2
  <2>4. CASE ~Present(t, q)
    <3>1. t = s /\ q = r /\ ~Present(s, r)
      BY <1>5, <1>10, <2>4
    <3>2. CASE p # r
      <4>1. Present(s, p) /\ table[s][p].id < NewId(s, KindOf[r])
        BY <1>5, <1>10, <2>1, <3>1, <3>2 DEF IdsInv
      <4>2. table'[s][p].id = table[s][p].id /\ table'[s][r].id = NewId(s, KindOf[r])
        BY <1>3, <3>1, <3>2
      <4>3. table[s][p].id \in Nat /\ NewId(s, KindOf[r]) \in Nat
        BY <1>0, <1>2, <1>8 DEF Records
      <4> QED BY <1>10, <3>1, <4>1, <4>2, <4>3
    <3> QED BY <3>1, <3>2
  <2> QED BY <2>2, <2>3, <2>4
<1>11. IdsInv'
  BY <1>9, <1>10 DEF IdsInv
<1> QED
  BY <1>2, <1>3, <1>5, <1>6, <1>11

-----------------------------------------------------------------------------
(* Links and id maps.                                                      *)

\* The links a row may not be without are those it was given, in every store.
KeysInv ==
    \A s \in Stores : \A r \in Rows : Present(s, r) =>
        \A f \in LinksOf(KindOf[r]) \ Nullable :
            Present(s, Refs[r][f]) /\ table[s][r].link[f] = table[s][Refs[r][f]].id

\* Transaction q of store s has this id.
IsSpender(s, q, id) == KindOf[q] = "transaction" /\ Present(s, q) /\ table[s][q].id = id

\* What an output says it is spent by is there.
SpentInv ==
    \A s \in Stores : \A r \in Rows :
        KindOf[r] = "output" /\ Present(s, r) /\ table[s][r].link["spentBy"] # 0 =>
            \E q \in Rows : IsSpender(s, q, table[s][r].link["spentBy"])

\* m names the same row in stores s and w.
MapTrue(w, s, m) ==
    \E r \in Rows : /\ KindOf[r] = m.kind /\ Present(s, r) /\ Present(w, r)
                    /\ table[s][r].id = m.from /\ table[w][r].id = m.to

MapsInv ==
    /\ \A w, s \in Stores : \A m \in syncState[w][s].idMap : MapTrue(w, s, m)
    /\ phase = "merge" => \A m \in ss.idMap : MapTrue(writer, active, m)

\* Items of a chunk name rows of the reader.
ItemOf(x) ==
    /\ Present(active, x.row) /\ x.ei.id = table[active][x.row].id
    /\ \A f \in LinksOf(KindOf[x.row]) \ Nullable : x.ei.link[f] = table[active][x.row].link[f]
    /\ KindOf[x.row] = "output" /\ x.ei.link["spentBy"] # 0 =>
         \E q \in Rows : IsSpender(active, q, x.ei.link["spentBy"])

ItemsInv ==
    \A x \in chunk : ItemOf(x) /\ \A y \in chunk : x.row = y.row => x = y

PhaseInv ==
    /\ phase \in {"request", "merge", "done"} => writer # active
    /\ phase # "merge" => chunk = {}

\* What holds whatever was touched.
LinkInv == Typed /\ IdsInv /\ KeysInv /\ SpentInv /\ MapsInv /\ ItemsInv /\ PhaseInv

LEMMA RefsAre ==
    ASSUME NEW r \in Rows, NEW f \in LinksOf(KindOf[r])
    PROVE  /\ Refs[r][f] # None => Refs[r][f] \in Rows /\ KindOf[Refs[r][f]] = FieldKind[f]
           /\ f \notin Nullable => /\ Refs[r][f] # None
                                   /\ r \in FirstRows => Refs[r][f] \in FirstRows
BY RowsAssumption

\* What an id is mapped to names the same row.
LEMMA MappedNames ==
    ASSUME LinkInv, phase = "merge", NEW q \in Rows, Present(active, q)
    PROVE  /\ Mapped(KindOf[q], table[active][q].id) # 0 =>
                Present(writer, q) /\ Mapped(KindOf[q], table[active][q].id) = table[writer][q].id
           /\ (\E m \in ss.idMap : m.kind = KindOf[q] /\ m.from = table[active][q].id) =>
                Mapped(KindOf[q], table[active][q].id) # 0
<1> DEFINE id == table[active][q].id
           Names(m) == m.kind = KindOf[q] /\ m.from = id
           n == CHOOSE m \in ss.idMap : Names(m)
<1>1. Mapped(KindOf[q], id) = IF \E m \in ss.idMap : Names(m) THEN n.to ELSE 0
  BY DEF Mapped
<1>2. CASE \E m \in ss.idMap : Names(m)
  <2>1. n \in ss.idMap /\ Names(n)
    BY <1>2
  <2>2. MapTrue(writer, active, n)
    BY <2>1 DEF LinkInv, MapsInv
  <2> HIDE DEF n
  <2>3. PICK r \in Rows : /\ KindOf[r] = n.kind /\ Present(active, r) /\ Present(writer, r)
                          /\ table[active][r].id = n.from /\ table[writer][r].id = n.to
    BY <2>2 DEF MapTrue
  <2>4. r = q
    BY <2>1, <2>3 DEF LinkInv, IdsInv, Typed
  <2> QED BY <1>1, <1>2, <2>3, <2>4 DEF Present
<1>3. CASE ~\E m \in ss.idMap : Names(m)
  BY <1>1, <1>3
<1> QED
  BY <1>2, <1>3

\* Rows of a chunk come in an order.
LEMMA FirstIs ==
    ASSUME LinkInv, chunk # {}
    PROVE  /\ FirstOf(chunk) \in chunk
           /\ \A y \in chunk : Place[KindOf[FirstOf(chunk).row]] <= Place[KindOf[y.row]]
<1> DEFINE P(x) == Place[KindOf[x.row]]
           Precedes(x, y) == \/ Place[KindOf[x.row]] < Place[KindOf[y.row]]
                             \/ KindOf[x.row] = KindOf[y.row] /\ x.ei.id < y.ei.id
<1>1. /\ \A x \in chunk : x.row \in Rows /\ x.ei.id \in Nat
      /\ \A x \in chunk : P(x) \in Nat /\ KindOf[x.row] \in Kinds
  <2>1. \A x \in chunk : x.row \in Rows /\ x.ei \in Records
    BY DEF LinkInv, Typed
  <2> QED BY <2>1, KindsAre, RowsAssumption DEF Records
<1>2. PICK x \in chunk : \A y \in chunk : P(x) <= P(y)
  <2>1. {P(y) : y \in chunk} \subseteq Nat /\ {P(y) : y \in chunk} # {}
    BY <1>1
  <2> HIDE DEF P
  <2>2. PICK p \in {P(y) : y \in chunk} : \A q \in {P(y) : y \in chunk} : p <= q
    BY <2>1, LeastMember
  <2> QED BY <2>2
<1> DEFINE T == {y \in chunk : P(y) = P(x)}
<1>3. PICK z \in T : \A y \in T : z.ei.id <= y.ei.id
  <2>1. {y.ei.id : y \in T} \subseteq Nat /\ {y.ei.id : y \in T} # {}
    BY <1>1
  <2> HIDE DEF T
  <2>2. PICK p \in {y.ei.id : y \in T} : \A q \in {y.ei.id : y \in T} : p <= q
    BY <2>1, LeastMember
  <2> QED BY <2>2
<1>4. ASSUME NEW y \in chunk \ {z}
      PROVE  Precedes(z, y)
  <2>1. P(z) <= P(y) /\ P(z) \in Nat /\ P(y) \in Nat /\ z \in chunk /\ P(z) = P(x)
    BY <1>1, <1>2, <1>3
  <2>2. CASE P(z) = P(y)
    <3>1. KindOf[z.row] = KindOf[y.row]
      BY <1>1, <2>1, <2>2, KindsAre
    <3>2. z.ei.id <= y.ei.id
      BY <1>3, <2>1, <2>2
    <3>3. z.ei.id # y.ei.id
      <4>1. z.row # y.row /\ ItemOf(z) /\ ItemOf(y)
        BY <1>4, <2>1 DEF LinkInv, ItemsInv
      <4> QED BY <1>1, <2>1, <3>1, <4>1 DEF LinkInv, IdsInv, ItemOf, Typed
    <3> QED BY <1>1, <2>1, <3>1, <3>2, <3>3
  <2>3. CASE P(z) # P(y)
    <3>1. P(z) < P(y)
      BY <2>1, <2>3
    <3> QED BY <3>1
  <2> QED BY <2>2, <2>3
<1> DEFINE First1(c) == \A y \in chunk \ {c} : Precedes(c, y)
<1>5. FirstOf(chunk) = CHOOSE c \in chunk : First1(c)
  BY DEF FirstOf
<1>6. z \in chunk /\ First1(z)
  BY <1>3, <1>4
<1> HIDE DEF Precedes
<1>7. FirstOf(chunk) \in chunk /\ First1(FirstOf(chunk))
  BY <1>5, <1>6
<1> USE DEF Precedes
<1>8. ASSUME NEW y \in chunk
      PROVE  P(FirstOf(chunk)) <= P(y)
  <2>1. CASE y = FirstOf(chunk)
    BY <1>1, <2>1
  <2>2. CASE y # FirstOf(chunk)
    BY <1>1, <1>7, <2>2
  <2> QED BY <2>1, <2>2
<1> QED
  BY <1>7, <1>8

-----------------------------------------------------------------------------
(* Changes of one row.                                                     *)

\* The record is one row r of store s may have: it keeps its id, and its links name rows.
Fits(s, r, row) ==
    /\ row.link \in [LinksOf(KindOf[r]) -> Nat]
    /\ row.id = IF Present(s, r) THEN table[s][r].id ELSE NewId(s, KindOf[r])
    /\ \A f \in LinksOf(KindOf[r]) \ Nullable :
          Present(s, Refs[r][f]) /\ row.link[f] = table[s][Refs[r][f]].id
    /\ KindOf[r] = "output" /\ row.link["spentBy"] # 0 =>
          \E q \in Rows : IsSpender(s, q, row.link["spentBy"])

LEMMA KeysAre ==
    ASSUME NEW r \in Rows, NEW f \in LinksOf(KindOf[r]) \ Nullable
    PROVE  /\ f \in KeysOf(KindOf[r]) /\ Refs[r][f] \in Rows
           /\ KindOf[Refs[r][f]] = FieldKind[f] /\ Plain(Refs[r][f])
           /\ Place[KindOf[Refs[r][f]]] < Place[KindOf[r]]
<1>1. KindOf[r] \in Kinds
  BY RowsAssumption
<1>2. Refs[r][f] \in Rows /\ KindOf[Refs[r][f]] = FieldKind[f]
  BY RefsAre
<1>3. f \in KeysOf(KindOf[r])
  BY <1>1, LinksAre
<1> QED
  BY <1>1, <1>2, <1>3, LinksAre DEF Plain

\* Links and maps stay true when a fitting record is stored.
LEMMA PutLinks ==
    ASSUME LinkInv, NEW s \in Stores, NEW r \in Rows, NEW row \in Records, Put(s, r, row),
           Fits(s, r, row), active' = active
    PROVE  /\ IdsInv' /\ IdsStay /\ KeysInv' /\ SpentInv'
           /\ \A t, w \in Stores : \A m : MapTrue(w, t, m) => MapTrue(w, t, m)'
           /\ \A x \in chunk : ItemOf(x)'
<1>1. /\ table' \in [Stores -> [Rows -> Records]]
      /\ table'[s][r] = row /\ Present(s, r)'
      /\ \A t \in Stores : \A q \in Rows : t # s \/ q # r =>
           table'[t][q] = table[t][q] /\ (Present(t, q)' <=> Present(t, q))
      /\ IdsStay /\ IdsInv'
  BY PutRow DEF LinkInv, Fits
<1>2. ASSUME NEW t \in Stores, NEW q \in Rows, Present(t, q)',
             NEW f \in LinksOf(KindOf[q]) \ Nullable
      PROVE  Present(t, Refs[q][f])' /\ table'[t][q].link[f] = table'[t][Refs[q][f]].id
  <2>1. Refs[q][f] \in Rows
    BY KeysAre
  <2>2. CASE t = s /\ q = r
    <3>1. Present(s, Refs[r][f]) /\ row.link[f] = table[s][Refs[r][f]].id
      BY <2>2 DEF Fits
    <3> QED BY <1>1, <2>1, <2>2, <3>1 DEF IdsStay
  <2>3. CASE ~(t = s /\ q = r)
    <3>1. Present(t, q) /\ table'[t][q] = table[t][q]
      BY <1>1, <1>2, <2>3
    <3>2. Present(t, Refs[q][f]) /\ table[t][q].link[f] = table[t][Refs[q][f]].id
      BY <3>1 DEF LinkInv, KeysInv
    <3> QED BY <1>1, <2>1, <3>1, <3>2 DEF IdsStay
  <2> QED BY <2>2, <2>3
<1>3. \A t \in Stores : \A q \in Rows : \A id : IsSpender(t, q, id) => IsSpender(t, q, id)'
  BY <1>1 DEF IsSpender, IdsStay
<1>4. ASSUME NEW t \in Stores, NEW q \in Rows, KindOf[q] = "output", Present(t, q)',
             table'[t][q].link["spentBy"] # 0
      PROVE  \E p \in Rows : IsSpender(t, p, table[t][q].link["spentBy"])'
  <2>1. CASE t = s /\ q = r
    <3>1. PICK p \in Rows : IsSpender(s, p, row.link["spentBy"])
      BY <1>1, <1>4, <2>1 DEF Fits
    <3> QED BY <1>1, <2>1, <3>1 DEF IsSpender, IdsStay
  <2>2. CASE ~(t = s /\ q = r)
    <3>1. Present(t, q) /\ table'[t][q] = table[t][q]
      BY <1>1, <1>4, <2>2
    <3>2. PICK p \in Rows : IsSpender(t, p, table[t][q].link["spentBy"])
      BY <1>4, <3>1 DEF LinkInv, SpentInv
    <3> QED BY <1>1, <3>1, <3>2 DEF IsSpender, IdsStay
  <2> QED BY <2>1, <2>2
<1>5. ASSUME NEW t \in Stores, NEW w \in Stores, NEW m, MapTrue(w, t, m)
      PROVE  MapTrue(w, t, m)'
  BY <1>1, <1>5 DEF MapTrue, IdsStay
<1>6. ASSUME NEW x \in chunk
      PROVE  ItemOf(x)'
  <2>1. ItemOf(x) /\ x.row \in Rows /\ active \in Stores
    BY DEF LinkInv, ItemsInv, Typed
  <2>2. Present(active, x.row)' /\ x.ei.id = table'[active][x.row].id
    BY <1>1, <2>1 DEF ItemOf, IdsStay
  <2>3. ASSUME NEW f \in LinksOf(KindOf[x.row]) \ Nullable
        PROVE  x.ei.link[f] = table'[active][x.row].link[f]
    <3>1. /\ x.ei.link[f] = table[active][Refs[x.row][f]].id
          /\ Present(active, Refs[x.row][f])
      BY <2>1 DEF LinkInv, KeysInv, ItemOf
    <3>2. table'[active][x.row].link[f] = table'[active][Refs[x.row][f]].id
      BY <1>2, <2>1, <2>2
    <3>3. Refs[x.row][f] \in Rows
      BY <2>1, KeysAre
    <3> QED BY <1>1, <2>1, <3>1, <3>2, <3>3 DEF IdsStay
  <2>4. ASSUME KindOf[x.row] = "output", x.ei.link["spentBy"] # 0
        PROVE  \E q \in Rows : IsSpender(active, q, x.ei.link["spentBy"])'
    BY <1>3, <2>1, <2>4 DEF ItemOf
  <2> QED BY <2>2, <2>3, <2>4 DEF ItemOf
<1> QED
  BY <1>1, <1>2, <1>4, <1>5, <1>6 DEF KeysInv, SpentInv

\* Tables hold records of their rows when a record is stored.
LEMMA PutTyped ==
    ASSUME Typed, IdsInv, NEW s \in Stores, NEW r \in Rows, NEW row, Put(s, r, row),
           row.id = IF Present(s, r) THEN table[s][r].id ELSE NewId(s, KindOf[r]),
           RecordOf(r, row)', now' \in Nat, now <= now'
    PROVE  /\ row \in Records /\ table' \in [Stores -> [Rows -> Records]]
           /\ \A t \in Stores : \A q \in Rows :
                (IF Present(t, q) THEN RecordOf(q, table[t][q]) ELSE table[t][q] = NoRow)'
           /\ \A q, rec : RecordOf(q, rec) => RecordOf(q, rec)'
           /\ \A state : StateOf(state) => StateOf(state)'
<1>1. row \in Records
  BY DEF RecordOf
<1>2. /\ table' \in [Stores -> [Rows -> Records]]
      /\ table'[s][r] = row /\ Present(s, r)'
      /\ \A t \in Stores : \A q \in Rows : t # s \/ q # r =>
           table'[t][q] = table[t][q] /\ (Present(t, q)' <=> Present(t, q))
  BY <1>1, PutRow
<1>3. now \in Nat
  BY DEF Typed
<1>4. ASSUME NEW q, NEW rec, RecordOf(q, rec)
      PROVE  RecordOf(q, rec)'
  <2>1. rec.time \in Nat /\ rec.time <= now
    BY <1>3, <1>4, RecordHas
  <2>2. rec.time <= now'
    BY <1>3, <2>1
  <2> QED BY <1>4, <2>2 DEF RecordOf
<1>5. ASSUME NEW state, StateOf(state)
      PROVE  StateOf(state)'
  <2>1. state \in SyncStates /\ state.when <= now /\ \A k \in Kinds : state.top[k] <= now
    BY <1>5 DEF StateOf
  <2>2. state.when \in Nat /\ state.top \in [Kinds -> Nat]
    BY <2>1 DEF SyncStates
  <2>3. state.when <= now' /\ \A k \in Kinds : state.top[k] <= now'
    BY <1>3, <2>1, <2>2
  <2> QED BY <2>1, <2>3 DEF StateOf
<1>6. ASSUME NEW t \in Stores, NEW q \in Rows
      PROVE  (IF Present(t, q) THEN RecordOf(q, table[t][q]) ELSE table[t][q] = NoRow)'
  <2>1. CASE t = s /\ q = r
    BY <1>2, <2>1
  <2>2. CASE ~(t = s /\ q = r)
    <3>1. table'[t][q] = table[t][q] /\ (Present(t, q)' <=> Present(t, q))
      BY <1>2, <2>2
    <3>2. IF Present(t, q) THEN RecordOf(q, table[t][q]) ELSE table[t][q] = NoRow
      BY DEF Typed
    <3>3. PICK rec : rec = table[t][q]
      OBVIOUS
    <3>4. RecordOf(q, rec) => RecordOf(q, rec)'
      BY <1>4
    <3>5. CASE Present(t, q)
      <4>1. RecordOf(q, rec)'
        BY <3>2, <3>3, <3>4, <3>5
      <4>2. table'[t][q] = rec
        BY <3>1, <3>3
      <4> QED BY <3>1, <3>5, <4>1, <4>2 DEF RecordOf
    <3>6. CASE ~Present(t, q)
      BY <3>1, <3>2, <3>6 DEF NoRow
    <3> QED BY <3>5, <3>6
  <2> QED BY <2>1, <2>2
<1> QED
  BY <1>1, <1>2, <1>4, <1>5, <1>6

-----------------------------------------------------------------------------
(* Writes.                                                                 *)

\* A transaction that has a proof keeps it.
KeepsProof(r, row) ==
    KindOf[r] = "transaction" /\ Present(active, r) /\ table[active][r].link["provenTxId"] # 0 =>
        row.link["provenTxId"] = table[active][r].link["provenTxId"]

\* What any write to the active store does.
Written(r, row) ==
    /\ r \in Rows /\ row \in Records /\ row.id # 0 /\ Fits(active, r, row)
    /\ KeepsProof(r, row)
    /\ row.data = now + 1 /\ row.time = now + 1
    /\ now' = now + 1
    /\ Put(active, r, row)
    /\ phase' = IF phase = "done" THEN "idle" ELSE phase
    /\ UNCHANGED <<syncState, active, writer, ss, chunk, sent, crashes, thrown>>
    /\ touched' = IF Reading THEN touched \cup {r} \cup Newly(active)
                  ELSE {q \in touched : q = r => KindOf[r] \in ProofKinds} \cup Late(active)

LEMMA WriteIs ==
    ASSUME LinkInv, NEW r \in Rows, NEW id \in Nat, id # 0, NEW time,
           NEW link \in [LinksOf(KindOf[r]) -> Nat],
           NEW row, row = [id |-> id, data |-> now + 1, time |-> time, link |-> link],
           Fits(active, r, row), KeepsProof(r, row), Write(r, row)
    PROVE  \E rec : Written(r, rec)
<1> DEFINE rec == [id |-> id, data |-> now + 1, time |-> now + 1, link |-> link]
<1>1. [row EXCEPT !.time = now + 1] = rec
  OBVIOUS
<1>2. rec \in Records
  <2>1. now + 1 \in Nat
    BY DEF LinkInv, Typed
  <2>2. link \in Links
    <3>1. KindOf[r] \in Kinds
      BY RowsAssumption
    <3> QED BY <3>1, LinksAre DEF Links
  <2> QED BY <2>1, <2>2 DEF Records
<1>3. Fits(active, r, rec) /\ KeepsProof(r, rec)
  BY DEF Fits, KeepsProof
<1>4. PICK fixed : fixed = rec
  OBVIOUS
<1>5. Put(active, r, fixed)
  BY <1>1, <1>4 DEF Write
<1>6. fixed.id # 0 /\ fixed.data = now + 1 /\ fixed.time = now + 1
  BY <1>4
<1> HIDE DEF rec
<1>7. Written(r, fixed)
  BY <1>2, <1>3, <1>4, <1>5, <1>6 DEF Write, Written
<1> QED
  BY <1>7

\* The record of a row that is there.
LEMMA RowIs ==
    ASSUME Typed, NEW s \in Stores, NEW r \in Rows, Present(s, r)
    PROVE  RecordOf(r, table[s][r])
BY DEF Typed

LEMMA InsertWrites ==
    ASSUME LinkInv, NEW r \in Rows, InsertRow(r)
    PROVE  \E row : Written(r, row)
<1> DEFINE link == [f \in DOMAIN Refs[r] |-> IdOf(active, Refs[r][f])]
           id == NewId(active, KindOf[r])
<1>0. active \in Stores /\ KindOf[r] \in Kinds /\ DOMAIN Refs[r] = LinksOf(KindOf[r]) /\ Typed
  BY RowsAssumption DEF LinkInv, Typed
<1>1. id \in Nat /\ id # 0
  BY <1>0, NewIdType
<1>2. ASSUME NEW f \in LinksOf(KindOf[r])
      PROVE  /\ IdOf(active, Refs[r][f]) \in Nat
             /\ Refs[r][f] # None =>
                  /\ Present(active, Refs[r][f]) /\ Refs[r][f] \in Rows
                  /\ KindOf[Refs[r][f]] = FieldKind[f]
                  /\ IdOf(active, Refs[r][f]) = table[active][Refs[r][f]].id
             /\ Refs[r][f] = None => IdOf(active, Refs[r][f]) = 0
  <2>1. CASE Refs[r][f] = None
    BY <2>1 DEF IdOf
  <2>2. CASE Refs[r][f] # None
    <3>1. Refs[r][f] \in Rows /\ KindOf[Refs[r][f]] = FieldKind[f]
      BY <2>2, RefsAre
    <3>2. Present(active, Refs[r][f])
      BY <1>0, <2>2 DEF InsertRow
    <3>3. table[active][Refs[r][f]].id \in Nat
      BY <1>0, <3>1 DEF Typed, Records
    <3> QED BY <2>2, <3>1, <3>2, <3>3 DEF IdOf
  <2> QED BY <2>1, <2>2
<1>3. link \in [LinksOf(KindOf[r]) -> Nat]
  BY <1>0, <1>2
<1>4. PICK row : row = [id |-> id, data |-> now + 1, time |-> 0, link |-> link]
  OBVIOUS
<1>5. Write(r, row) /\ ~Present(active, r)
  BY <1>4 DEF InsertRow
<1>6. Fits(active, r, row)
  <2>1. row.link = link /\ row.id = id
    BY <1>4
  <2>2. ASSUME NEW f \in LinksOf(KindOf[r]) \ Nullable
        PROVE  Present(active, Refs[r][f]) /\ link[f] = table[active][Refs[r][f]].id
    BY <1>0, <1>2, RefsAre
  <2>3. ASSUME KindOf[r] = "output", link["spentBy"] # 0
        PROVE  \E q \in Rows : IsSpender(active, q, link["spentBy"])
    <3>1. "spentBy" \in LinksOf(KindOf[r]) /\ FieldKind["spentBy"] = "transaction"
      BY <2>3 DEF LinksOf, OutputLinks, FieldKind
    <3> QED BY <1>0, <1>2, <2>3, <3>1 DEF IsSpender
  <2> HIDE DEF link, id
  <2> QED BY <1>3, <1>5, <2>1, <2>2, <2>3 DEF Fits, id
<1> HIDE DEF link, id
<1>7. PICK i \in Nat, l \in [LinksOf(KindOf[r]) -> Nat] : i = id /\ l = link
  BY <1>1, <1>3
<1> QED
  BY <1>1, <1>4, <1>5, <1>6, <1>7, WriteIs DEF KeepsProof

LEMMA UpdateWrites ==
    ASSUME LinkInv, NEW r \in Rows, Present(active, r),
           NEW link \in [LinksOf(KindOf[r]) -> Nat],
           \A f \in LinksOf(KindOf[r]) \ Nullable : link[f] = table[active][r].link[f],
           KindOf[r] = "output" /\ link["spentBy"] # 0 =>
               \E q \in Rows : IsSpender(active, q, link["spentBy"]),
           KindOf[r] = "transaction" /\ table[active][r].link["provenTxId"] # 0 =>
               link["provenTxId"] = table[active][r].link["provenTxId"],
           NEW row, row = [id |-> table[active][r].id, data |-> now + 1,
                           time |-> table[active][r].time, link |-> link],
           Write(r, row)
    PROVE  \E rec : Written(r, rec)
<1>0. active \in Stores /\ Typed /\ now \in Nat
  BY DEF LinkInv, Typed
<1>1. RecordOf(r, table[active][r])
  BY <1>0, RowIs
<1>2. PICK id \in Nat, time \in Nat : id = table[active][r].id /\ time = table[active][r].time
  BY <1>0, <1>1, RecordHas
<1>3. id # 0 /\ row = [id |-> id, data |-> now + 1, time |-> time, link |-> link]
  BY <1>0, <1>1, <1>2, RecordHas
<1>4. Fits(active, r, row)
  <2>1. row.link = link /\ row.id = id
    BY <1>3
  <2>2. \A f \in LinksOf(KindOf[r]) \ Nullable :
          Present(active, Refs[r][f]) /\ row.link[f] = table[active][Refs[r][f]].id
    BY <1>0, <2>1 DEF LinkInv, KeysInv
  <2> QED BY <1>2, <2>1, <2>2 DEF Fits
<1>5. KeepsProof(r, row)
  BY <1>3 DEF KeepsProof
<1> QED
  BY <1>3, <1>4, <1>5, WriteIs

LEMMA SetLinkWrites ==
    ASSUME LinkInv, NEW r \in Rows, NEW f \in LinksOf(KindOf[r]) \cap Nullable, NEW id \in Nat,
           f = "spentBy" /\ id # 0 => \E q \in Rows : IsSpender(active, q, id),
           f = "provenTxId" => table[active][r].link["provenTxId"] = 0,
           SetLink(r, f, id)
    PROVE  \E rec : Written(r, rec)
<1>0. active \in Stores /\ Typed /\ now \in Nat /\ Present(active, r)
  BY DEF LinkInv, Typed, SetLink
<1>1. table[active][r].link \in [LinksOf(KindOf[r]) -> Nat] /\ RecordOf(r, table[active][r])
  BY <1>0, RowIs DEF RecordOf
<1>2. PICK link : link = [table[active][r].link EXCEPT ![f] = id]
  OBVIOUS
<1>3. /\ link \in [LinksOf(KindOf[r]) -> Nat] /\ link[f] = id
      /\ \A g \in LinksOf(KindOf[r]) : g # f => link[g] = table[active][r].link[g]
  BY <1>1, <1>2
<1>4. PICK row : row = [id |-> table[active][r].id, data |-> now + 1,
                        time |-> table[active][r].time, link |-> link]
  OBVIOUS
<1>5. Write(r, row)
  <2>1. PICK old : old = table[active][r]
    OBVIOUS
  <2>2. old = [id |-> old.id, data |-> old.data, time |-> old.time, link |-> old.link]
    BY <1>0, <1>1, <2>1, RecordHas
  <2>3. PICK new : new = [old EXCEPT !.data = now + 1]
    OBVIOUS
  <2>4. new = [id |-> old.id, data |-> now + 1, time |-> old.time, link |-> old.link]
    BY <2>2, <2>3
  <2>5. [new EXCEPT !.link = link] = row
    BY <1>4, <2>1, <2>4
  <2>6. link = [new.link EXCEPT ![f] = id]
    BY <1>2, <2>1, <2>4
  <2>7. [old EXCEPT !.data = now + 1, !.link[f] = id] = row
    BY <2>3, <2>5, <2>6
  <2> QED BY <2>1, <2>7 DEF SetLink
<1>6. ASSUME KindOf[r] = "output", link["spentBy"] # 0
      PROVE  \E q \in Rows : IsSpender(active, q, link["spentBy"])
  <2>1. CASE f = "spentBy"
    BY <1>3, <1>6, <2>1
  <2>2. CASE f # "spentBy"
    <3>1. "spentBy" \in LinksOf(KindOf[r])
      BY <1>6 DEF LinksOf, OutputLinks
    <3> QED BY <1>0, <1>3, <1>6, <2>2, <3>1 DEF LinkInv, SpentInv
  <2> QED BY <2>1, <2>2
<1>7. KindOf[r] = "transaction" /\ table[active][r].link["provenTxId"] # 0 =>
        link["provenTxId"] = table[active][r].link["provenTxId"]
  BY <1>3 DEF LinksOf, TransactionLinks
<1> QED
  BY <1>0, <1>3, <1>4, <1>5, <1>6, <1>7, UpdateWrites

LEMMA EveryWrite ==
    ASSUME LinkInv, \/ \E r \in Writable : InsertRow(r) \/ UpdateRow(r) \/ Spend(r) \/ Relinquish(r)
                    \/ \E t, p \in Writable : Prove(t, p)
    PROVE  \E r, row : Written(r, row)
<1>0. active \in Stores /\ Typed /\ now \in Nat /\ Writable \subseteq Rows
  BY RowsAssumption DEF LinkInv, Typed
<1>1. ASSUME NEW r \in Writable, InsertRow(r)
      PROVE  \E row : Written(r, row)
  BY <1>0, <1>1, InsertWrites
<1>2. ASSUME NEW r \in Writable, UpdateRow(r)
      PROVE  \E row : Written(r, row)
  <2>1. RecordOf(r, table[active][r]) /\ Present(active, r)
    BY <1>0, <1>2, RowIs DEF UpdateRow
  <2>2. PICK link : link = table[active][r].link
    OBVIOUS
  <2>3. PICK row : row = [id |-> table[active][r].id, data |-> now + 1,
                          time |-> table[active][r].time, link |-> link]
    OBVIOUS
  <2>4. row = [table[active][r] EXCEPT !.data = now + 1]
    BY <1>0, <2>1, <2>2, <2>3, RecordHas
  <2>5. Write(r, row) /\ link \in [LinksOf(KindOf[r]) -> Nat]
    BY <1>2, <2>1, <2>2, <2>4 DEF UpdateRow, RecordOf
  <2>6. KindOf[r] = "output" /\ link["spentBy"] # 0 =>
          \E q \in Rows : IsSpender(active, q, link["spentBy"])
    BY <1>0, <2>1, <2>2 DEF LinkInv, SpentInv
  <2> QED BY <1>0, <2>1, <2>2, <2>3, <2>5, <2>6, UpdateWrites
<1>3. ASSUME NEW r \in Writable, Spend(r)
      PROVE  \E row : Written(r, row)
  <2>1. PICK id \in {0} \cup {table[active][t].id : t \in RowsOfKind(active, "transaction")} :
             SetLink(r, "spentBy", id)
    BY <1>3 DEF Spend
  <2>2. id # 0 => \E q \in Rows : IsSpender(active, q, id)
    BY <2>1 DEF RowsOfKind, IsSpender
  <2>3. id \in Nat
    BY <1>0, <2>1, <2>2 DEF IsSpender, Typed, Records
  <2>4. "spentBy" \in LinksOf(KindOf[r]) \cap Nullable
    BY <1>3 DEF Spend, LinksOf, OutputLinks, Nullable
  <2> QED BY <1>0, <2>1, <2>2, <2>3, <2>4, SetLinkWrites
<1>4. ASSUME NEW r \in Writable, Relinquish(r)
      PROVE  \E row : Written(r, row)
  <2>1. "basketId" \in LinksOf(KindOf[r]) \cap Nullable
    BY <1>4 DEF Relinquish, LinksOf, OutputLinks, Nullable
  <2> QED BY <1>0, <1>4, <2>1, SetLinkWrites DEF Relinquish
<1>5. ASSUME NEW t \in Writable, NEW p \in Writable, Prove(t, p)
      PROVE  \E row : Written(t, row)
  <2>1. "provenTxId" \in LinksOf(KindOf[t]) \cap Nullable
    BY <1>5 DEF Prove, LinksOf, TransactionLinks, Nullable
  <2>2. PICK id \in Nat : id = table[active][p].id
    BY <1>0 DEF Typed, Records
  <2>3. SetLink(t, "provenTxId", id)
    BY <1>5, <2>2 DEF Prove
  <2>4. table[active][t].link["provenTxId"] = 0
    BY <1>5 DEF Prove
  <2> QED BY <1>0, <2>1, <2>3, <2>4, SetLinkWrites
<1> QED
  BY <1>1, <1>2, <1>3, <1>4, <1>5

-----------------------------------------------------------------------------
(* The merge of an item.                                                   *)

LEMMA InsertedIs ==
    ASSUME Typed, NEW r \in Rows, NEW ei, RecordOf(r, ei), NEW row, row = Inserted(r, ei)
    PROVE  /\ RecordOf(r, row)
           /\ row.id = NewId(writer, KindOf[r]) /\ row.data = ei.data /\ row.time = ei.time
           /\ \A f \in LinksOf(KindOf[r]) : row.link[f] = Via(f, ei)
<1> DEFINE link == [f \in LinksOf(KindOf[r]) |-> Via(f, ei)]
           id == NewId(writer, KindOf[r])
<1>0. writer \in Stores /\ KindOf[r] \in Kinds /\ now \in Nat
  BY RowsAssumption DEF Typed
<1>1. ei = [id |-> ei.id, data |-> ei.data, time |-> ei.time, link |-> ei.link]
  BY <1>0, RecordHas
<1>2. row = [id |-> id, data |-> ei.data, time |-> ei.time, link |-> link]
  BY <1>1 DEF Inserted
<1>3. link \in [LinksOf(KindOf[r]) -> Nat]
  BY MappedType DEF Via
<1>4. id \in Nat /\ id # 0
  BY <1>0, NewIdType
<1>5. /\ ei.data \in Nat /\ ei.time \in Nat /\ ei.data <= ei.time /\ ei.time <= now
  BY <1>0, RecordHas
<1>6. \A f \in LinksOf(KindOf[r]) : link[f] = Via(f, ei)
  OBVIOUS
<1> HIDE DEF link, id
<1>7. RecordOf(r, row)
  BY <1>2, <1>3, <1>4, <1>5, RecordIs
<1> QED
  BY <1>2, <1>6, <1>7 DEF id

\* A key of an item is translated to the same row, or not at all.
LEMMA KeyNames ==
    ASSUME LinkInv, phase = "merge", NEW x \in chunk,
           NEW f \in LinksOf(KindOf[x.row]) \ Nullable
    PROVE  LET q == Refs[x.row][f]
           IN  /\ q \in Rows /\ KindOf[q] = FieldKind[f] /\ Present(active, q)
               /\ x.ei.link[f] = table[active][q].id
               /\ Via(f, x.ei) = Mapped(KindOf[q], table[active][q].id)
               /\ Via(f, x.ei) # 0 => Present(writer, q) /\ Via(f, x.ei) = table[writer][q].id
<1> DEFINE q == Refs[x.row][f]
<1>1. x.row \in Rows /\ active \in Stores /\ ItemOf(x)
  BY DEF LinkInv, Typed, ItemsInv
<1>2. q \in Rows /\ KindOf[q] = FieldKind[f]
  BY <1>1, KeysAre
<1>3. Present(active, q) /\ x.ei.link[f] = table[active][q].id
  BY <1>1 DEF ItemOf, LinkInv, KeysInv
<1>4. Via(f, x.ei) = Mapped(KindOf[q], table[active][q].id)
  BY <1>2, <1>3 DEF Via
<1> HIDE DEF q
<1>5. Via(f, x.ei) # 0 => Present(writer, q) /\ Via(f, x.ei) = table[writer][q].id
  BY <1>2, <1>3, <1>4, MappedNames
<1> QED
  BY <1>2, <1>3, <1>4, <1>5 DEF q

\* The spender of an item is translated to the same row, or not at all.
LEMMA SpenderNames ==
    ASSUME LinkInv, phase = "merge", NEW x \in chunk, KindOf[x.row] = "output"
    PROVE  Via("spentBy", x.ei) # 0 =>
             \E q \in Rows : /\ IsSpender(active, q, x.ei.link["spentBy"])
                             /\ IsSpender(writer, q, Via("spentBy", x.ei))
<1> SUFFICES ASSUME Via("spentBy", x.ei) # 0
             PROVE  \E q \in Rows : /\ IsSpender(active, q, x.ei.link["spentBy"])
                                    /\ IsSpender(writer, q, Via("spentBy", x.ei))
  OBVIOUS
<1>1. ItemOf(x)
  BY DEF LinkInv, ItemsInv
<1>2. FieldKind["spentBy"] = "transaction"
  BY DEF FieldKind
<1>3. x.ei.link["spentBy"] # 0
  <2>1. SUFFICES ASSUME x.ei.link["spentBy"] = 0 PROVE FALSE
    OBVIOUS
  <2>2. PICK m \in ss.idMap : m.from = 0
    BY <1>2, <2>1 DEF Via, Mapped
  <2>3. MapTrue(writer, active, m)
    BY DEF LinkInv, MapsInv
  <2> QED BY <2>2, <2>3 DEF MapTrue, Present
<1>4. PICK q \in Rows : IsSpender(active, q, x.ei.link["spentBy"])
  BY <1>1, <1>3 DEF ItemOf
<1>5. Via("spentBy", x.ei) = Mapped(KindOf[q], table[active][q].id)
  BY <1>2, <1>4 DEF Via, IsSpender
<1>6. Present(writer, q) /\ Via("spentBy", x.ei) = table[writer][q].id
  BY <1>4, <1>5, MappedNames DEF IsSpender
<1> QED
  BY <1>4, <1>6 DEF IsSpender

\* What a merge stores fits, unless the schema refuses it.
LEMMA MergeFits ==
    ASSUME LinkInv, phase = "merge", NEW x \in chunk, NEW r, r = x.row,
           NEW row, row = MergeFor(r, x.ei), ~Refused(r, row)
    PROVE  /\ r \in Rows /\ RecordOf(r, x.ei) /\ RecordOf(r, row) /\ Fits(writer, r, row)
           /\ Found(r, x.ei) <=> Present(writer, r)
<1>0. /\ Typed /\ r \in Rows /\ writer \in Stores /\ now \in Nat /\ KindOf[r] \in Kinds
      /\ RecordOf(r, x.ei) /\ ItemOf(x)
  BY RowsAssumption DEF LinkInv, Typed, ItemsInv
<1>1. PICK ei : ei = x.ei
  OBVIOUS
<1>2. PICK eo : eo = table[writer][r]
  OBVIOUS
<1>3. CASE Found(r, ei)
  <2>1. /\ RecordOf(r, row) /\ Keeps(eo, row)
        /\ Plain(r) => IF ei.time > eo.time THEN Takes(r, ei, row) ELSE row = eo
        /\ KindOf[r] = "provenTx" => row = eo
    BY <1>0, <1>1, <1>2, <1>3, MergedRow
  <2>2. Present(writer, r) /\ RecordOf(r, eo)
    BY <1>0, <1>2, <1>3, RowIs DEF Found
  <2>3. eo.link \in [LinksOf(KindOf[r]) -> Nat] /\ row.link \in [LinksOf(KindOf[r]) -> Nat]
    BY <2>1, <2>2 DEF RecordOf
  <2>4. ASSUME NEW f \in LinksOf(KindOf[r]) \ Nullable
        PROVE  Present(writer, Refs[r][f]) /\ row.link[f] = table[writer][Refs[r][f]].id
    <3>1. row.link[f] = eo.link[f]
      BY <2>1, <2>3 DEF Keeps
    <3> QED BY <1>0, <1>2, <2>2, <3>1 DEF LinkInv, KeysInv
  <2>5. ASSUME KindOf[r] = "output", row.link["spentBy"] # 0
        PROVE  \E q \in Rows : IsSpender(writer, q, row.link["spentBy"])
    <3>1. CASE ei.time > eo.time
      <4>1. row.link["spentBy"] = Via("spentBy", x.ei)
        BY <1>1, <2>1, <2>5, <3>1 DEF Plain, ProofKinds, Takes
      <4> QED BY <2>5, <4>1, SpenderNames
    <3>2. CASE ~(ei.time > eo.time)
      <4>1. row = table[writer][r]
        BY <1>2, <2>1, <2>5, <3>2 DEF Plain, ProofKinds
      <4> QED BY <1>0, <2>2, <2>5, <4>1 DEF LinkInv, SpentInv
    <3> QED BY <3>1, <3>2
  <2>6. row.id = table[writer][r].id
    BY <1>2, <2>1 DEF Keeps
  <2> QED BY <1>0, <1>1, <1>3, <2>1, <2>2, <2>3, <2>4, <2>5, <2>6 DEF Fits
<1>4. CASE ~Found(r, ei)
  <2>1. row = Inserted(r, ei)
    BY <1>0, <1>1, <1>2, <1>4, MergedRow
  <2>2. /\ RecordOf(r, row) /\ row.id = NewId(writer, KindOf[r])
        /\ \A f \in LinksOf(KindOf[r]) : row.link[f] = Via(f, ei)
    BY <1>0, <1>1, <2>1, InsertedIs
  <2>3. ~Present(writer, r)
    <3>1. SUFFICES ASSUME Present(writer, r) PROVE FALSE
      OBVIOUS
    <3>2. table[writer][r].id < NewId(writer, KindOf[r]) /\ table[writer][r].id \in Nat
      BY <1>0, <3>1 DEF LinkInv, IdsInv, Typed, Records
    <3>3. table[writer][r].id # row.id
      BY <1>0, <2>2, <3>2, NewIdType
    <3> QED BY <3>1, <3>3 DEF Refused
  <2>4. row.link \in [LinksOf(KindOf[r]) -> Nat]
    BY <2>2 DEF RecordOf
  <2>5. ASSUME NEW f \in LinksOf(KindOf[r]) \ Nullable
        PROVE  Present(writer, Refs[r][f]) /\ row.link[f] = table[writer][Refs[r][f]].id
    <3>1. row.link[f] # 0
      BY <2>4 DEF Refused, Required
    <3>2. row.link[f] = Via(f, x.ei)
      BY <1>1, <2>2
    <3> QED BY <3>1, <3>2, KeyNames
  <2>6. ASSUME KindOf[r] = "output", row.link["spentBy"] # 0
        PROVE  \E q \in Rows : IsSpender(writer, q, row.link["spentBy"])
    <3>1. "spentBy" \in LinksOf(KindOf[r])
      BY <2>6 DEF LinksOf, OutputLinks
    <3>2. row.link["spentBy"] = Via("spentBy", x.ei)
      BY <1>1, <2>2, <3>1
    <3> QED BY <2>6, <3>2, SpenderNames
  <2> QED BY <1>0, <1>1, <1>4, <2>2, <2>3, <2>4, <2>5, <2>6 DEF Fits
<1> QED
  BY <1>3, <1>4

\* One turn of the loop, for an item x and the record its merge stores.
Merged(x, row) ==
    /\ phase = "merge" /\ x \in chunk /\ x = FirstOf(chunk) /\ row = MergeFor(x.row, x.ei)
    /\ ~Refused(x.row, row)
    /\ Put(writer, x.row, row)
    /\ ss' = [ss EXCEPT !.idMap = @ \cup WithId(x.row, x.ei, row.id),
                        !.top[KindOf[x.row]] = Maximum(@, x.ei.time)]
    /\ chunk' = chunk \ {x}
    /\ UNCHANGED <<syncState, active, now, phase, writer, sent, crashes, thrown>>
    /\ touched' = IF CutOff(writer) THEN Rows ELSE touched \cup Late(writer) \cup LinkLost(x)

LEMMA EveryMerge ==
    ASSUME LinkInv, MergeItem
    PROVE  \E x, row : Merged(x, row)
<1>1. FirstOf(chunk) \in chunk
  BY FirstIs DEF MergeItem
<1>2. PICK x : x = FirstOf(chunk)
  OBVIOUS
<1>3. PICK row : row = MergeFor(x.row, x.ei)
  OBVIOUS
<1>4. Merged(x, row)
  BY <1>1, <1>2, <1>3 DEF MergeItem, Merged
<1> QED
  BY <1>4

-----------------------------------------------------------------------------
(* LinkInv is kept.                                                        *)

LEMMA VisibleAre ==
    ASSUME NEW s \in Stores
    PROVE  Visible(s) \subseteq {r \in Rows : Present(s, r)}
BY DEF Visible, ProvenTxsForUser, ProvenTxReqsForUser, TxLabelMapsForUser, OutputTagMapsForUser,
   RowsOfKind

LEMMA NewlyAre == \A s : Newly(s) \subseteq Rows /\ Late(s) \subseteq Rows
BY DEF Newly, Late, Visible, ProvenTxsForUser, ProvenTxReqsForUser, TxLabelMapsForUser,
   OutputTagMapsForUser, RowsOfKind

LEMMA InitLinks ==
    ASSUME Init
    PROVE  LinkInv
<1> DEFINE Id(q) == IF q \in FirstRows THEN FirstId[First][KindOf[q]] ELSE 0
           First1(r) == [id |-> FirstId[First][KindOf[r]], data |-> 0, time |-> 1,
                         link |-> [f \in DOMAIN Refs[r] |-> Id(Refs[r][f])]]
<1>0. /\ FirstRows \subseteq Rows /\ First \in Stores /\ \A r \in Rows : KindOf[r] \in Kinds
      /\ \A k \in Kinds : FirstId[First][k] \in Nat \ {0}
      /\ \A r \in Rows : DOMAIN Refs[r] = LinksOf(KindOf[r])
  BY RowsAssumption
<1>1. table = [s \in Stores |-> [r \in Rows |->
                 IF s = First /\ r \in FirstRows THEN First1(r) ELSE NoRow]]
  BY DEF Init
<1>2. \A q : Id(q) \in Nat
  BY <1>0
<1>3. \A s \in Stores : \A r \in Rows :
        /\ table[s][r] = IF s = First /\ r \in FirstRows THEN First1(r) ELSE NoRow
        /\ Present(s, r) <=> s = First /\ r \in FirstRows
  BY <1>0, <1>1 DEF Present, NoRow
<1>4. now = 1 /\ active = First /\ writer = First /\ phase = "idle" /\ chunk = {} /\ touched = {}
  BY DEF Init
<1>5. ASSUME NEW r \in FirstRows
      PROVE  RecordOf(r, First1(r))
  <2> DEFINE link == [f \in DOMAIN Refs[r] |-> Id(Refs[r][f])]
  <2>1. link \in [LinksOf(KindOf[r]) -> Nat]
    BY <1>0, <1>2
  <2>2. First1(r) = [id |-> FirstId[First][KindOf[r]], data |-> 0, time |-> 1, link |-> link]
    OBVIOUS
  <2> HIDE DEF link, Id
  <2>3. FirstId[First][KindOf[r]] \in Nat /\ FirstId[First][KindOf[r]] # 0
    BY <1>0
  <2>4. r \in Rows
    BY <1>0
  <2> QED BY <1>4, <2>1, <2>2, <2>3, <2>4, RecordIs
<1>6. NoRow \in Records
  <2>1. NoRow.link \in Links
    BY DEF Links
  <2>2. NoRow = [id |-> 0, data |-> 0, time |-> 0, link |-> NoRow.link]
    BY DEF NoRow
  <2> QED BY <2>1, <2>2 DEF Records
<1>7. NewSyncState \in SyncStates /\ StateOf(NewSyncState)
  <2>1. NewSyncState \in SyncStates
    BY DEF NewSyncState, SyncStates
  <2> QED BY <1>4, <2>1 DEF StateOf, NewSyncState
<1> HIDE DEF First1
<1>8. table \in [Stores -> [Rows -> Records]]
  <2>1. \A s \in Stores : \A r \in Rows :
          (IF s = First /\ r \in FirstRows THEN First1(r) ELSE NoRow) \in Records
    BY <1>5, <1>6 DEF RecordOf
  <2> QED BY <1>1, <2>1
<1>9. Typed
  <2>1. \A s \in Stores : \A r \in Rows :
          IF Present(s, r) THEN RecordOf(r, table[s][r]) ELSE table[s][r] = NoRow
    BY <1>3, <1>5
  <2>2. syncState = [s \in Stores |-> [t \in Stores |-> NewSyncState]]
    BY DEF Init
  <2>3. /\ syncState \in [Stores -> [Stores -> SyncStates]]
        /\ \A w, s \in Stores : StateOf(syncState[w][s])
    BY <1>7, <2>2
  <2>4. sent \in [Kinds -> Nat] /\ ss = NewSyncState
    BY DEF Init
  <2> QED BY <1>0, <1>4, <1>7, <1>8, <2>1, <2>3, <2>4 DEF Typed
<1>10. ASSUME NEW r \in FirstRows
       PROVE  /\ table[First][r].id = FirstId[First][KindOf[r]]
              /\ \A f \in LinksOf(KindOf[r]) : table[First][r].link[f] = Id(Refs[r][f])
  <2>1. table[First][r] = First1(r)
    BY <1>0, <1>3
  <2> QED BY <1>0, <2>1 DEF First1
<1>11. IdsInv
  <2>1. ASSUME NEW s \in Stores, NEW r \in Rows, Present(s, r)
        PROVE  table[s][r].id < NewId(s, KindOf[r])
    <3>1. s = First /\ r \in FirstRows /\ table[s][r].id = FirstId[First][KindOf[r]]
      BY <1>3, <1>10, <2>1
    <3>2. r \in RowsOfKind(s, KindOf[r]) /\ IsFiniteSet(RowsOfKind(s, KindOf[r]))
      BY <1>0, <2>1, NewIdType DEF RowsOfKind
    <3>3. Cardinality(RowsOfKind(s, KindOf[r])) \in Nat /\ Cardinality(RowsOfKind(s, KindOf[r])) # 0
      BY <3>2, FS_EmptySet, FS_CardinalityType
    <3>4. FirstId[First][KindOf[r]] \in Nat
      BY <1>0
    <3> QED BY <3>1, <3>3, <3>4 DEF NewId
  <2>2. ASSUME NEW s \in Stores, NEW r \in Rows, Present(s, r), NEW q \in Rows,
               KindOf[q] = KindOf[r], table[s][q].id = table[s][r].id
        PROVE  q = r
    <3>1. Present(s, q)
      BY <2>2 DEF Present
    <3> QED BY <1>3, <2>2, <3>1, RowsAssumption
  <2> QED BY <2>1, <2>2 DEF IdsInv
<1>12. KeysInv
  <2> SUFFICES ASSUME NEW s \in Stores, NEW r \in Rows, Present(s, r),
                      NEW f \in LinksOf(KindOf[r]) \ Nullable
               PROVE  Present(s, Refs[r][f]) /\ table[s][r].link[f] = table[s][Refs[r][f]].id
    BY DEF KeysInv
  <2>1. s = First /\ r \in FirstRows /\ Refs[r][f] \in FirstRows
    BY <1>3, RefsAre
  <2> QED BY <1>0, <1>3, <1>10, <2>1
<1>13. SpentInv
  <2> SUFFICES ASSUME NEW s \in Stores, NEW r \in Rows, KindOf[r] = "output", Present(s, r),
                      table[s][r].link["spentBy"] # 0
               PROVE  \E q \in Rows : IsSpender(s, q, table[s][r].link["spentBy"])
    BY DEF SpentInv
  <2>1. "spentBy" \in LinksOf(KindOf[r]) /\ FieldKind["spentBy"] = "transaction"
    BY DEF LinksOf, OutputLinks, FieldKind
  <2> DEFINE q == Refs[r]["spentBy"]
  <2>2. s = First /\ r \in FirstRows /\ table[s][r].link["spentBy"] = Id(q)
    BY <1>3, <1>10, <2>1
  <2>3. q \in FirstRows
    BY <2>2
  <2>4. q # None
    BY <1>0, <2>3, RowsAssumption
  <2>5. KindOf[q] = "transaction"
    BY <2>1, <2>4, RefsAre
  <2> HIDE DEF q
  <2> QED BY <1>0, <1>3, <1>10, <2>2, <2>3, <2>5 DEF IsSpender
<1>14. MapsInv
  BY <1>4 DEF MapsInv, Init, NewSyncState
<1> QED
  BY <1>4, <1>9, <1>11, <1>12, <1>13, <1>14 DEF LinkInv, ItemsInv, PhaseInv

LEMMA WriteLinks ==
    ASSUME LinkInv, NEW r, NEW row, Written(r, row)
    PROVE  LinkInv' /\ IdsStay
<1>0. /\ Typed /\ active \in Stores /\ r \in Rows /\ row \in Records /\ now \in Nat
      /\ Put(active, r, row) /\ Fits(active, r, row) /\ active' = active /\ now' = now + 1
  BY DEF Written, LinkInv, Typed
<1>1. /\ IdsInv' /\ IdsStay /\ KeysInv' /\ SpentInv'
      /\ \A t, w \in Stores : \A m : MapTrue(w, t, m) => MapTrue(w, t, m)'
      /\ \A x \in chunk : ItemOf(x)'
  BY <1>0, PutLinks
<1>2. RecordOf(r, row)'
  <2>1. row.data <= row.time /\ row.time <= now'
    BY <1>0 DEF Written
  <2> QED BY <1>0, <2>1 DEF RecordOf, Written, Fits
<1>3. /\ table' \in [Stores -> [Rows -> Records]]
      /\ \A t \in Stores : \A q \in Rows :
           (IF Present(t, q) THEN RecordOf(q, table[t][q]) ELSE table[t][q] = NoRow)'
      /\ \A q, rec : RecordOf(q, rec) => RecordOf(q, rec)'
      /\ \A state : StateOf(state) => StateOf(state)'
  BY <1>0, <1>2, PutTyped DEF LinkInv, Fits
<1>4. UNCHANGED <<syncState, active, writer, ss, chunk, sent>>
  BY DEF Written
<1>5. touched' \subseteq Rows
  BY <1>0, NewlyAre DEF Written, Typed
<1>6. Typed'
  <2>1. \A w, s \in Stores : StateOf(syncState[w][s])'
    <3> SUFFICES ASSUME NEW w \in Stores, NEW s \in Stores
                 PROVE  StateOf(syncState[w][s])'
      OBVIOUS
    <3>1. PICK state : state = syncState[w][s]
      OBVIOUS
    <3>2. StateOf(state)'
      BY <1>0, <1>3, <3>1 DEF Typed
    <3> QED BY <1>4, <3>1, <3>2 DEF StateOf
  <2>2. StateOf(ss)'
    <3>1. PICK state : state = ss
      OBVIOUS
    <3>2. StateOf(state)'
      BY <1>0, <1>3, <3>1 DEF Typed
    <3> QED BY <1>4, <3>1, <3>2 DEF StateOf
  <2>3. phase' \in {"idle", "request", "merge", "done"}
    BY <1>0 DEF Written, Typed
  <2>4. \A x \in chunk : RecordOf(x.row, x.ei)'
    BY <1>0, <1>3 DEF Typed
  <2> QED BY <1>0, <1>3, <1>4, <1>5, <2>1, <2>2, <2>3, <2>4 DEF Typed
<1>7. MapsInv'
  <2>1. phase' = "merge" => phase = "merge"
    BY DEF Written
  <2> QED BY <1>0, <1>1, <1>4, <2>1 DEF LinkInv, MapsInv, Typed
<1>8. ItemsInv' /\ PhaseInv'
  BY <1>0, <1>1, <1>4 DEF LinkInv, ItemsInv, PhaseInv, Written
<1> QED
  BY <1>1, <1>6, <1>7, <1>8 DEF LinkInv

LEMMA MergeLinks ==
    ASSUME LinkInv, NEW x, NEW row, Merged(x, row)
    PROVE  LinkInv' /\ IdsStay
<1> DEFINE r == x.row
           k == KindOf[r]
<1>0. /\ Typed /\ writer \in Stores /\ active \in Stores /\ writer # active /\ now \in Nat
      /\ Put(writer, r, row) /\ active' = active /\ now' = now /\ x \in chunk /\ phase = "merge"
      /\ UNCHANGED <<syncState, active, now, phase, writer, sent>> /\ chunk' = chunk \ {x}
  BY DEF Merged, LinkInv, Typed, PhaseInv
<1>1. /\ r \in Rows /\ RecordOf(r, x.ei) /\ RecordOf(r, row) /\ Fits(writer, r, row)
      /\ k \in Kinds
  BY <1>0, MergeFits, RowsAssumption DEF Merged
<1>2. /\ IdsInv' /\ IdsStay /\ KeysInv' /\ SpentInv'
      /\ \A t, w \in Stores : \A m : MapTrue(w, t, m) => MapTrue(w, t, m)'
      /\ \A y \in chunk : ItemOf(y)'
  <2>1. row \in Records
    BY <1>1 DEF RecordOf
  <2> QED BY <1>0, <1>1, <2>1, PutLinks
<1>3. RecordOf(r, row)'
  BY <1>0, <1>1 DEF RecordOf
<1>4. /\ table' \in [Stores -> [Rows -> Records]]
      /\ \A t \in Stores : \A q \in Rows :
           (IF Present(t, q) THEN RecordOf(q, table[t][q]) ELSE table[t][q] = NoRow)'
      /\ \A q, rec : RecordOf(q, rec) => RecordOf(q, rec)'
      /\ \A state : StateOf(state) => StateOf(state)'
  <2>1. now' \in Nat /\ now <= now'
    BY <1>0
  <2> QED BY <1>0, <1>1, <1>3, <2>1, PutTyped DEF LinkInv, Fits
<1>5. /\ x.ei.id \in Nat /\ row.id \in Nat /\ x.ei.time \in Nat /\ x.ei.time <= now
  BY <1>0, <1>1, RecordHas
<1>6. StateOf(ss)'
  <2>1. /\ ss.when \in Nat /\ ss.when <= now /\ ss.count \in [Kinds -> Nat]
        /\ ss.top \in [Kinds -> Nat] /\ ss.idMap \subseteq [kind : Kinds, from : Nat, to : Nat]
        /\ \A j \in Kinds : ss.top[j] <= now
        /\ ss = [when |-> ss.when, count |-> ss.count, top |-> ss.top, idMap |-> ss.idMap]
    BY <1>0 DEF Typed, StateOf, SyncStates
  <2>2. PICK map, top : /\ map = ss.idMap \cup WithId(r, x.ei, row.id)
                        /\ top = [ss.top EXCEPT ![k] = Maximum(@, x.ei.time)]
    OBVIOUS
  <2>3. map \subseteq [kind : Kinds, from : Nat, to : Nat]
    BY <1>1, <1>5, <2>1, <2>2 DEF WithId
  <2>4. top \in [Kinds -> Nat] /\ \A j \in Kinds : top[j] <= now
    BY <1>1, <1>5, <2>1, <2>2 DEF Maximum
  <2>5. ss' = [when |-> ss.when, count |-> ss.count, top |-> top, idMap |-> map]
    BY <2>1, <2>2 DEF Merged
  <2>6. ss' \in SyncStates
    BY <2>1, <2>3, <2>4, <2>5 DEF SyncStates
  <2> QED BY <1>0, <2>1, <2>4, <2>5, <2>6 DEF StateOf
<1>7. Typed'
  <2>1. \A w, s \in Stores : StateOf(syncState[w][s])'
    BY <1>0 DEF Typed, StateOf
  <2>2. touched' \subseteq Rows
    BY <1>0, <1>1, NewlyAre DEF Merged, Typed, LinkLost
  <2>3. /\ chunk' \subseteq [row : Rows, ei : Records]
        /\ \A y \in chunk' : RecordOf(y.row, y.ei)'
    BY <1>0, <1>4 DEF Typed
  <2>4. sent' \in [Kinds -> Nat] /\ phase' \in {"idle", "request", "merge", "done"}
    BY <1>0 DEF Typed
  <2> QED BY <1>0, <1>4, <1>6, <2>1, <2>2, <2>3, <2>4 DEF Typed
<1>8. MapsInv'
  <2>1. \A w, s \in Stores : \A m \in syncState'[w][s].idMap : MapTrue(w, s, m)'
    BY <1>0, <1>2 DEF LinkInv, MapsInv
  <2>2. ASSUME NEW m \in ss'.idMap
        PROVE  MapTrue(writer, active, m)'
    <3>1. ss'.idMap = ss.idMap \cup WithId(r, x.ei, row.id)
      BY <1>0 DEF Merged, Typed, StateOf, SyncStates
    <3>2. CASE m \in ss.idMap
      <4>1. MapTrue(writer, active, m)
        BY <1>0, <3>2 DEF LinkInv, MapsInv
      <4>2. \A t, w \in Stores : MapTrue(w, t, m) => MapTrue(w, t, m)'
        BY <1>2
      <4>3. PICK w \in Stores, t \in Stores : w = writer /\ t = active
        BY <1>0
      <4>4. MapTrue(w, t, m)'
        BY <4>1, <4>2, <4>3
      <4> QED BY <1>0, <4>3, <4>4 DEF MapTrue
    <3>3. CASE m \in WithId(r, x.ei, row.id)
      <4>1. m.kind = k /\ m.from = x.ei.id /\ m.to = row.id
        BY <3>3 DEF WithId
      <4>2. Present(active, r)' /\ x.ei.id = table'[active][r].id
        BY <1>0, <1>2 DEF ItemOf
      <4>3. table'[writer][r] = row /\ row.id # 0
        BY <1>0, <1>1 DEF Put, Typed, RecordOf
      <4> QED BY <1>0, <1>1, <4>1, <4>2, <4>3 DEF MapTrue, Present
    <3> QED BY <3>1, <3>2, <3>3
  <2> QED BY <1>0, <2>1, <2>2 DEF MapsInv
<1>9. ItemsInv' /\ PhaseInv'
  BY <1>0, <1>2 DEF LinkInv, ItemsInv, PhaseInv
<1> QED
  BY <1>2, <1>7, <1>8, <1>9 DEF LinkInv

\* Nothing happens to ids and links when no row changes.
LEMMA SameTable ==
    ASSUME UNCHANGED table
    PROVE  /\ IdsInv => IdsInv'
           /\ KeysInv => KeysInv'
           /\ SpentInv => SpentInv'
           /\ IdsStay
<1>1. IdsInv => IdsInv'
  BY DEF IdsInv, Present, NewId, RowsOfKind
<1>2. KeysInv => KeysInv'
  BY DEF KeysInv, Present
<1>3. SpentInv => SpentInv'
  BY DEF SpentInv, Present, IsSpender
<1>4. IdsStay
  BY DEF IdsStay, Present
<1> QED
  BY <1>1, <1>2, <1>3, <1>4

LEMMA ChunksAre ==
    ASSUME LinkInv, NEW state, NEW rows \in Chunks(active, state)
    PROVE  rows \subseteq ToSend(active, state) /\ rows \subseteq Visible(active)
           /\ \A r \in rows : r \in Rows /\ Present(active, r)
<1>1. active \in Stores
  BY DEF LinkInv, Typed
<1>2. rows \subseteq ToSend(active, state)
  BY DEF Chunks
<1>3. ToSend(active, state) \subseteq Visible(active)
  BY DEF ToSend
<1> QED
  BY <1>1, <1>2, <1>3, VisibleAre

LEMMA RequestLinks ==
    ASSUME LinkInv, GetSyncChunk
    PROVE  LinkInv' /\ IdsStay
<1>0. /\ Typed /\ writer \in Stores /\ active \in Stores /\ writer # active /\ now \in Nat
      /\ UNCHANGED <<table, syncState, active, now, writer, touched>> /\ phase' = "merge"
      /\ ss' = syncState[writer][active]
  BY DEF GetSyncChunk, LinkInv, Typed, PhaseInv, store
<1>1. PICK rows \in Chunks(active, syncState[writer][active]) :
           /\ chunk' = {[row |-> r, ei |-> table[active][r]] : r \in rows}
           /\ sent' = [k \in Kinds |-> Cardinality({r \in rows : KindOf[r] = k})]
  BY DEF GetSyncChunk
<1>2. \A r \in rows : r \in Rows /\ Present(active, r)
  BY ChunksAre
<1>3. sent' \in [Kinds -> Nat]
  <2>1. \A k \in Kinds : Cardinality({r \in rows : KindOf[r] = k}) \in Nat
    <3>1. \A k : IsFiniteSet({r \in rows : KindOf[r] = k})
      BY <1>2, RowsAssumption, FS_Subset
    <3> QED BY <3>1, FS_CardinalityType
  <2> QED BY <1>1, <2>1
<1>4. ASSUME NEW x \in chunk'
      PROVE  /\ x \in [row : Rows, ei : Records] /\ RecordOf(x.row, x.ei)
             /\ Present(active, x.row) /\ x.ei = table[active][x.row]
  BY <1>0, <1>1, <1>2, <1>4 DEF Typed
<1>5. Typed'
  <2>1. \A s \in Stores : \A r \in Rows :
          (IF Present(s, r) THEN RecordOf(r, table[s][r]) ELSE table[s][r] = NoRow)'
    BY <1>0 DEF Typed, Present, RecordOf, NoRow
  <2>2. \A w, s \in Stores : StateOf(syncState[w][s])'
    BY <1>0 DEF Typed, StateOf
  <2>3. StateOf(ss)'
    BY <1>0 DEF Typed, StateOf
  <2>4. \A x \in chunk' : RecordOf(x.row, x.ei)'
    BY <1>0, <1>4 DEF RecordOf
  <2> QED BY <1>0, <1>3, <1>4, <2>1, <2>2, <2>3, <2>4 DEF Typed
<1>6. IdsInv' /\ KeysInv' /\ SpentInv' /\ IdsStay
  BY <1>0, SameTable DEF LinkInv
<1>7. MapsInv'
  BY <1>0 DEF LinkInv, MapsInv, MapTrue, Present
<1>8. ItemsInv'
  <2> SUFFICES ASSUME NEW x \in chunk'
               PROVE  ItemOf(x)' /\ \A y \in chunk' : x.row = y.row => x = y
    BY DEF ItemsInv
  <2>1. x.row \in Rows /\ Present(active, x.row) /\ x.ei = table[active][x.row]
    BY <1>4
  <2>2. ItemOf(x)
    BY <1>0, <2>1 DEF ItemOf, LinkInv, SpentInv
  <2>3. ItemOf(x)'
    BY <1>0, <2>2 DEF ItemOf, Present, IsSpender
  <2>4. \A y \in chunk' : x.row = y.row => x = y
    BY <1>1
  <2> QED BY <2>3, <2>4
<1>9. PhaseInv'
  BY <1>0 DEF PhaseInv
<1> QED
  BY <1>5, <1>6, <1>7, <1>8, <1>9 DEF LinkInv

LEMMA NextStateIs ==
    ASSUME Typed
    PROVE  /\ StateOf(NextSyncState) /\ NextSyncState.idMap = ss.idMap
           /\ NothingSent => \A k \in Kinds : NextSyncState.count[k] = 0
           /\ ~NothingSent => /\ NextSyncState.when = ss.when
                              /\ \A k \in Kinds : NextSyncState.count[k] = ss.count[k] + sent[k]
<1>0. /\ ss.when \in Nat /\ ss.when <= now /\ ss.count \in [Kinds -> Nat] /\ now \in Nat
      /\ ss.top \in [Kinds -> Nat] /\ ss.idMap \subseteq [kind : Kinds, from : Nat, to : Nat]
      /\ \A j \in Kinds : ss.top[j] <= now
      /\ ss = [when |-> ss.when, count |-> ss.count, top |-> ss.top, idMap |-> ss.idMap]
      /\ sent \in [Kinds -> Nat]
  BY DEF Typed, StateOf, SyncStates
<1>1. PICK tops : tops = {ss.top[k] : k \in Kinds}
  OBVIOUS
<1>2. Max(tops) \in Nat /\ Max(tops) <= now
  <2>1. tops \subseteq Nat /\ \A t \in tops : t <= now
    BY <1>0, <1>1
  <2>2. tops # {}
    BY <1>1, KindsAre
  <2> QED BY <1>0, <2>1, <2>2, GreatestMember
<1>3. CASE NothingSent
  <2>1. NextSyncState = [when |-> Max(tops), count |-> [k \in Kinds |-> 0], top |-> ss.top,
                         idMap |-> ss.idMap]
    BY <1>0, <1>1, <1>3 DEF NextSyncState
  <2>2. NextSyncState \in SyncStates
    BY <1>0, <1>2, <2>1 DEF SyncStates
  <2> QED BY <1>0, <1>2, <1>3, <2>1, <2>2 DEF StateOf
<1>4. CASE ~NothingSent
  <2>1. NextSyncState = [when |-> ss.when, count |-> [k \in Kinds |-> ss.count[k] + sent[k]],
                         top |-> ss.top, idMap |-> ss.idMap]
    BY <1>0, <1>4 DEF NextSyncState
  <2>2. NextSyncState \in SyncStates
    BY <1>0, <2>1 DEF SyncStates
  <2> QED BY <1>0, <1>4, <2>1, <2>2 DEF StateOf
<1> QED
  BY <1>3, <1>4

LEMMA EndLinks ==
    ASSUME LinkInv, EndChunk
    PROVE  LinkInv' /\ IdsStay
<1>0. /\ Typed /\ writer \in Stores /\ active \in Stores /\ writer # active /\ phase = "merge"
      /\ UNCHANGED <<table, active, now, writer, ss, chunk, sent, touched>> /\ chunk = {}
      /\ syncState' = [syncState EXCEPT ![writer][active] = NextSyncState]
      /\ phase' \in {"done", "request"}
  BY DEF EndChunk, LinkInv, Typed, PhaseInv
<1>1. StateOf(NextSyncState) /\ NextSyncState.idMap = ss.idMap
  BY <1>0, NextStateIs
<1>2. PICK next : next = NextSyncState
  OBVIOUS
<1>3. \A w, s \in Stores :
        syncState'[w][s] = IF w = writer /\ s = active THEN next ELSE syncState[w][s]
  BY <1>0, <1>2 DEF Typed
<1>4. Typed'
  <2>1. syncState' \in [Stores -> [Stores -> SyncStates]]
    BY <1>0, <1>1 DEF Typed, StateOf
  <2>2. \A w, s \in Stores : StateOf(syncState[w][s])'
    BY <1>0, <1>1, <1>2, <1>3 DEF Typed, StateOf
  <2>3. \A s \in Stores : \A r \in Rows :
          (IF Present(s, r) THEN RecordOf(r, table[s][r]) ELSE table[s][r] = NoRow)'
    BY <1>0 DEF Typed, Present, RecordOf, NoRow
  <2>4. StateOf(ss)'
    BY <1>0 DEF Typed, StateOf
  <2> QED BY <1>0, <2>1, <2>2, <2>3, <2>4 DEF Typed
<1>5. IdsInv' /\ KeysInv' /\ SpentInv' /\ IdsStay
  BY <1>0, SameTable DEF LinkInv
<1>6. MapsInv'
  <2>1. \A w, s \in Stores : \A m : MapTrue(w, s, m) => MapTrue(w, s, m)'
    BY <1>0 DEF MapTrue, Present
  <2>2. \A m \in ss.idMap : MapTrue(writer, active, m)
    BY <1>0 DEF LinkInv, MapsInv
  <2>3. \A w, s \in Stores : \A m \in syncState'[w][s].idMap : MapTrue(w, s, m)
    BY <1>1, <1>2, <1>3, <2>2 DEF LinkInv, MapsInv
  <2> QED BY <1>0, <2>1, <2>3 DEF MapsInv
<1>7. ItemsInv' /\ PhaseInv'
  BY <1>0 DEF ItemsInv, PhaseInv
<1> QED
  BY <1>4, <1>5, <1>6, <1>7 DEF LinkInv

\* The other steps leave the rows and the sync states alone.
LEMMA OtherLinks ==
    ASSUME LinkInv, Begin \/ MergeThrows \/ Crash \/ Return \/ SetActive \/ UNCHANGED vars
    PROVE  LinkInv' /\ IdsStay
<1>0. /\ Typed /\ writer \in Stores /\ active \in Stores
      /\ UNCHANGED <<table, syncState, now, ss, sent, touched>>
      /\ active' \in Stores /\ writer' \in Stores
      /\ phase' \in {"idle", "request", "merge", "done"} /\ chunk' \subseteq chunk
      /\ phase' = "merge" => phase = "merge" /\ active' = active /\ writer' = writer
      /\ chunk' = {} \/ phase' = "merge"
  <2>1. Typed /\ (phase # "merge" => chunk = {})
    BY DEF LinkInv, PhaseInv
  <2>2. CASE Begin
    BY <2>1, <2>2 DEF Begin, Typed, store
  <2>3. CASE MergeThrows \/ Crash \/ Return \/ SetActive
    BY <2>1, <2>3 DEF MergeThrows, Crash, Return, SetActive, Typed, store
  <2>4. CASE UNCHANGED vars
    BY <2>1, <2>4 DEF vars, store, session, Typed
  <2> QED BY <2>1, <2>2, <2>3, <2>4
<1>1. Typed'
  <2>1. \A s \in Stores : \A r \in Rows :
          (IF Present(s, r) THEN RecordOf(r, table[s][r]) ELSE table[s][r] = NoRow)'
    BY <1>0 DEF Typed, Present, RecordOf, NoRow
  <2>2. /\ \A w, s \in Stores : StateOf(syncState[w][s])'
        /\ StateOf(ss)'
    BY <1>0 DEF Typed, StateOf
  <2>3. \A x \in chunk' : RecordOf(x.row, x.ei)'
    BY <1>0 DEF Typed, RecordOf
  <2> QED BY <1>0, <2>1, <2>2, <2>3 DEF Typed
<1>2. IdsInv' /\ KeysInv' /\ SpentInv' /\ IdsStay
  BY <1>0, SameTable DEF LinkInv
<1>3. MapsInv'
  BY <1>0 DEF LinkInv, MapsInv, MapTrue, Present
<1>4. ItemsInv'
  BY <1>0 DEF LinkInv, ItemsInv, ItemOf, Present, IsSpender
<1>5. PhaseInv'
  <2>1. phase' \in {"request", "merge", "done"} => writer' # active'
    BY <1>0 DEF LinkInv, PhaseInv, Begin, MergeThrows, Crash, Return, SetActive, vars, store,
       session
  <2> QED BY <1>0, <2>1 DEF PhaseInv
<1> QED
  BY <1>1, <1>2, <1>3, <1>4, <1>5 DEF LinkInv

\* The steps of the system, with what they write.
LEMMA StepsAre ==
    ASSUME LinkInv, [Next]_vars
    PROVE  \/ \E r, row : Written(r, row)
           \/ \E x, row : Merged(x, row)
           \/ GetSyncChunk \/ EndChunk
           \/ Begin \/ MergeThrows \/ Crash \/ Return \/ SetActive \/ UNCHANGED vars
BY EveryWrite, EveryMerge DEF Next

LEMMA NextLinks ==
    ASSUME LinkInv, [Next]_vars
    PROVE  LinkInv' /\ IdsStay
BY StepsAre, WriteLinks, MergeLinks, RequestLinks, EndLinks, OtherLinks

LEMMA LinksHold == Spec => []LinkInv
<1>1. Init => LinkInv
  BY InitLinks
<1>2. LinkInv /\ [Next]_vars => LinkInv'
  BY NextLinks
<1> QED
  BY <1>1, <1>2, PTL DEF Spec

\* Types and bounds of the state.
THEOREM TypeCorrect == Spec => []TypeOK
<1>1. LinkInv => TypeOK
  <2> SUFFICES ASSUME LinkInv PROVE TypeOK
    OBVIOUS
  <2>1. ASSUME NEW s \in Stores, NEW r \in Rows
        PROVE  /\ table[s][r].id \in Nat /\ table[s][r].data \in 0 .. now
               /\ table[s][r].time \in 0 .. now
               /\ Present(s, r) => DOMAIN table[s][r].link = LinksOf(KindOf[r])
    <3>1. Typed /\ now \in Nat
      BY DEF LinkInv, Typed
    <3>2. CASE Present(s, r)
      <4>1. RecordOf(r, table[s][r])
        BY <3>1, <3>2 DEF Typed
      <4> QED BY <3>1, <4>1, RecordHas
    <3>3. CASE ~Present(s, r)
      <4>1. table[s][r] = NoRow
        BY <3>1, <3>3 DEF Typed
      <4> QED BY <3>1, <3>3, <4>1 DEF NoRow
    <3> QED BY <3>2, <3>3
  <2>2. \A s, t \in Stores : syncState[s][t].when \in 0 .. now
    BY DEF LinkInv, Typed, StateOf, SyncStates
  <2> QED BY <2>1, <2>2 DEF TypeOK, LinkInv, Typed
<1> QED
  BY <1>1, LinksHold, PTL

\* mergeIdMap, updateSyncMap: an id that a sync state has learned names the same row in the
\* reader and in the writer for ever, whichever store is active and wherever syncs end.
THEOREM LearnedIdsAreTrue == Spec => []IdMapsAreTrue
<1>1. LinkInv => IdMapsAreTrue
  BY DEF LinkInv, MapsInv, MapTrue, IdMapsAreTrue
<1> QED
  BY <1>1, LinksHold, PTL

-----------------------------------------------------------------------------
(* Rows that were missed by no sync.                                       *)

\* Store s has the latest version of row r; a proof and a request for one have no versions.
Current(s, r) == Present(s, r) /\ (Plain(r) => table[s][r].data = table[active][r].data)

\* A map has learned the id that row r has in store s.
Told(map, s, r) ==
    HasId(r) => \E m \in map : m.kind = KindOf[r] /\ m.from = table[s][r].id

\* Store w has row r from store s.
Got(w, s, map, r) == Current(w, r) /\ Told(map, s, r)

\* The rows of its kind that are sent before row r.
Ahead(s, r, since) ==
    {q \in Visible(s) : KindOf[q] = KindOf[r] /\ Changed(s, q, since) /\ Before(s, q, r)}

\* Row r is not among the first n rows of its kind that changed.
Later(s, r, since, n) == Changed(s, r, since) /\ Cardinality(Ahead(s, r, since)) >= n

InChunk(r) == \E x \in chunk : x.row = r

\* Output r is spent by the same transaction in store s and in the active one.
SameSpender(s, r) ==
    \/ table[active][r].link["spentBy"] = 0 /\ table[s][r].link["spentBy"] = 0
    \/ \E q \in Rows : /\ IsSpender(active, q, table[active][r].link["spentBy"])
                       /\ IsSpender(s, q, table[s][r].link["spentBy"])

\* The active store has every version a store has; a store that has not the latest one has
\* an older record, and sent nothing since.
IsLatest(r) ==
    /\ \A s \in Stores : Present(s, r) => Present(active, r)
    /\ \A s \in Stores : Present(s, r) /\ ~Current(s, r) =>
          table[s][r].time < table[active][r].data
    /\ \A s \in Stores : Present(active, r) /\ ~Current(s, r) =>
          \A w \in Stores : syncState[w][s].when <= table[active][r].data

\* A store that has the latest version of an output knows what spends it.
HasSpender(r) ==
    KindOf[r] = "output" => \A s \in Stores : Current(s, r) => SameSpender(s, r)

\* Where it is latest, a sync from there will send it or has sent it.
IsSent(r) ==
    \A w, s \in Stores : w # s /\ r \in Visible(s) /\ Current(s, r) =>
        \/ Later(s, r, syncState[w][s].when, syncState[w][s].count[KindOf[r]])
        \/ Got(w, s, syncState[w][s].idMap, r)

\* In the sync that is going on, from the active store s, it comes later, is in the chunk or
\* was merged, and it is not later than a row of a kind that needs it.
IsUnderWay(r) ==
    \A s \in Stores : s = active =>
        /\ \A x \in chunk : x.row = r => x.ei = table[s][r]
        /\ phase = "merge" /\ r \in Visible(s) =>
             /\ \/ Later(s, r, ss.when, ss.count[KindOf[r]] + sent[KindOf[r]])
                \/ InChunk(r)
                \/ Got(writer, s, ss.idMap, r)
             /\ \A x \in chunk : Place[KindOf[r]] < Place[KindOf[x.row]] =>
                  InChunk(r) \/ Got(writer, s, ss.idMap, r)
             /\ NothingSent => Got(writer, s, ss.idMap, r)
        /\ phase = "done" /\ r \in Visible(s) => Current(writer, r)

IsFollowed(r) ==
    /\ Plain(r) => IsLatest(r) /\ HasSpender(r)
    /\ IsSent(r) /\ IsUnderWay(r)

RowsInv == \A r \in Rows \ touched : IsFollowed(r)

\* The sync state is the one that is kept; an empty chunk has no rows.
RoundInv ==
    phase = "merge" =>
        /\ ss.when = syncState[writer][active].when
        /\ ss.count = syncState[writer][active].count
        /\ NothingSent => chunk = {}

SyncInv == RowsInv /\ RoundInv

LEMMA PlainVisible ==
    LinkInv => \A s \in Stores : \A r \in Rows : Plain(r) => (r \in Visible(s) <=> Present(s, r))
<1> SUFFICES ASSUME LinkInv, NEW s \in Stores, NEW r \in Rows, Plain(r)
             PROVE  r \in Visible(s) <=> Present(s, r)
  OBVIOUS
<1>1. r \in Visible(s) => Present(s, r)
  BY VisibleAre
<1>2. ASSUME Present(s, r), NEW f \in LinksOf(KindOf[r]) \ Nullable
      PROVE  Refers(s, r, f)
  <2>1. Present(s, Refs[r][f]) /\ table[s][r].link[f] = table[s][Refs[r][f]].id
    BY <1>2 DEF LinkInv, KeysInv
  <2>2. Refs[r][f] \in Rows /\ KindOf[Refs[r][f]] = FieldKind[f]
    BY KeysAre
  <2> QED BY <2>1, <2>2 DEF Refers, RowsOfKind
<1>3. ASSUME Present(s, r)
      PROVE  r \in Visible(s)
  <2>1. CASE KindOf[r] = "txLabelMap"
    <3>1. Refers(s, r, "txLabelId")
      BY <1>2, <1>3, <2>1 DEF LinksOf, TxLabelMapLinks, Nullable
    <3> QED BY <1>3, <2>1, <3>1 DEF Visible, TxLabelMapsForUser, RowsOfKind
  <2>2. CASE KindOf[r] = "outputTagMap"
    <3>1. Refers(s, r, "outputTagId")
      BY <1>2, <1>3, <2>2 DEF LinksOf, OutputTagMapLinks, Nullable
    <3> QED BY <1>3, <2>2, <3>1 DEF Visible, OutputTagMapsForUser, RowsOfKind
  <2>3. CASE KindOf[r] \notin {"txLabelMap", "outputTagMap"}
    BY <1>3, <2>3 DEF Visible, Shared, Plain, ProofKinds
  <2> QED BY <2>1, <2>2, <2>3
<1> QED
  BY <1>1, <1>3

LEMMA PlainVisibleNext ==
    ASSUME LinkInv'
    PROVE  (\A s \in Stores : \A r \in Rows : Plain(r) => (r \in Visible(s) <=> Present(s, r)))'
BY PlainVisible, PTL

LEMMA VisibleNext ==
    ASSUME NEW s \in Stores
    PROVE  (Visible(s) \subseteq {r \in Rows : Present(s, r)})'
BY VisibleAre, PTL

LEMMA AheadType ==
    \A s \in Stores : \A r, since :
        IsFiniteSet(Ahead(s, r, since)) /\ Cardinality(Ahead(s, r, since)) \in Nat
<1> SUFFICES ASSUME NEW s \in Stores, NEW r, NEW since
             PROVE  IsFiniteSet(Ahead(s, r, since)) /\ Cardinality(Ahead(s, r, since)) \in Nat
  OBVIOUS
<1>1. Ahead(s, r, since) \subseteq Rows
  BY VisibleAre DEF Ahead
<1> QED
  BY <1>1, RowsAssumption, FS_Subset, FS_CardinalityType

LEMMA AheadNext ==
    (\A s \in Stores : \A r, since :
        IsFiniteSet(Ahead(s, r, since)) /\ Cardinality(Ahead(s, r, since)) \in Nat)'
BY AheadType, PTL

\* Where no sync is cut off, what is new enough will be sent.
LEMMA LaterAtStart ==
    ASSUME NEW s \in Stores, NEW r, NEW since, Changed(s, r, since)
    PROVE  Later(s, r, since, 0)
<1>1. Cardinality(Ahead(s, r, since)) \in Nat
  BY AheadType
<1> QED
  BY <1>1 DEF Later

LEMMA LaterAtStartNext ==
    ASSUME NEW s \in Stores, NEW r, NEW since, Changed(s, r, since)'
    PROVE  Later(s, r, since, 0)'
<1>1. Cardinality(Ahead(s, r, since)') \in Nat
  BY AheadNext
<1> QED
  BY <1>1 DEF Later

LEMMA NotCutOff ==
    ASSUME Typed, NEW s \in Stores, ~CutOff(s), NEW w \in Stores, NEW r \in Rows
    PROVE  syncState[w][s].count[KindOf[r]] = 0
BY RowsAssumption DEF CutOff

\* A store whose table stays sends as before.
LEMMA SameStore ==
    ASSUME NEW s \in Stores, table'[s] = table[s]
    PROVE  /\ Visible(s)' = Visible(s)
           /\ \A r, since : Ahead(s, r, since)' = Ahead(s, r, since)
           /\ \A r, since, n : Later(s, r, since, n)' <=> Later(s, r, since, n)
           /\ \A r : Present(s, r)' <=> Present(s, r)
           /\ \A map, r : Told(map, s, r)' <=> Told(map, s, r)
<1>1. Visible(s)' = Visible(s)
  BY DEF Visible, ProvenTxsForUser, ProvenTxReqsForUser, TxLabelMapsForUser, OutputTagMapsForUser,
     RowsOfKind, ReferredTo, Refers, Present
<1>2. \A r, since : Ahead(s, r, since)' = Ahead(s, r, since)
  BY <1>1 DEF Ahead, Changed, Before
<1>3. \A r, since, n : Later(s, r, since, n)' <=> Later(s, r, since, n)
  BY <1>2 DEF Later, Changed
<1> QED
  BY <1>1, <1>2, <1>3 DEF Present, Told

-----------------------------------------------------------------------------
(* Writes are followed.                                                    *)

\* What a write changes, in the active store a.
LEMMA WriteChanges ==
    ASSUME LinkInv, NEW r, NEW row, Written(r, row), NEW a \in Stores, a = active
    PROVE  /\ r \in Rows /\ table'[a][r] = row /\ row.time = now + 1 /\ row.data = now + 1
           /\ \A t \in Stores : \A q \in Rows : t # a \/ q # r =>
                table'[t][q] = table[t][q] /\ (Present(t, q)' <=> Present(t, q))
           /\ \A t \in Stores : t # a => table'[t] = table[t]
           /\ Present(a, r)' /\ IdsStay /\ now \in Nat
           /\ \A t \in Stores : \A q \in Rows : table[t][q].time <= now /\ table[t][q].data <= now
<1>1. /\ r \in Rows /\ row \in Records /\ Put(a, r, row) /\ Fits(a, r, row)
      /\ row.data = now + 1 /\ row.time = now + 1 /\ Typed /\ IdsInv
      /\ now \in Nat
  BY DEF Written, LinkInv, Typed
<1>0. row.id = IF Present(a, r) THEN table[a][r].id ELSE NewId(a, KindOf[r])
  BY <1>1 DEF Fits
<1>2. /\ table' \in [Stores -> [Rows -> Records]]
      /\ table'[a][r] = row /\ Present(a, r)'
      /\ \A t \in Stores : \A q \in Rows : t # a \/ q # r =>
           table'[t][q] = table[t][q] /\ (Present(t, q)' <=> Present(t, q))
      /\ IdsStay
  BY <1>0, <1>1, PutRow
<1>3. \A t \in Stores : t # a => table'[t] = table[t]
  BY <1>1 DEF Put, Typed
<1>4. ASSUME NEW t \in Stores, NEW q \in Rows
      PROVE  table[t][q].time <= now /\ table[t][q].data <= now
  <2>1. CASE Present(t, q)
    BY <1>1, <2>1, RowIs, RecordHas
  <2>2. CASE ~Present(t, q)
    BY <1>1, <2>2 DEF Typed, NoRow
  <2> QED BY <2>1, <2>2
<1> QED
  BY <1>1, <1>2, <1>3, <1>4

\* The user's rows stay the user's.
LEMMA VisibleStays ==
    ASSUME LinkInv, NEW r, NEW row, Written(r, row), NEW a \in Stores, a = active
    PROVE  Visible(a) \subseteq Visible(a)'
<1>0. /\ r \in Rows /\ table'[a][r] = row /\ IdsStay /\ LinkInv'
      /\ \A q \in Rows : q # r => table'[a][q] = table[a][q]
  BY WriteChanges, WriteLinks
<1> SUFFICES ASSUME NEW q \in Visible(a)
             PROVE  q \in Visible(a)'
  OBVIOUS
<1>1. q \in Rows /\ Present(a, q) /\ Present(a, q)'
  BY <1>0, VisibleAre DEF IdsStay
<1>2. CASE Plain(q)
  BY <1>0, <1>1, <1>2, PlainVisibleNext
<1>3. CASE KindOf[q] = "provenTx"
  <2>1. PICK t \in RowsOfKind(a, "transaction") :
             table[a][t].link["provenTxId"] = table[a][q].id
    BY <1>3 DEF Visible, Shared, ProvenTxsForUser, ProvenTxReqsForUser, TxLabelMapsForUser,
       OutputTagMapsForUser, RowsOfKind, ReferredTo
  <2>2. t \in Rows /\ KindOf[t] = "transaction" /\ Present(a, t) /\ Present(a, t)'
    BY <1>0, <2>1 DEF RowsOfKind, IdsStay
  <2>3. table'[a][t].link["provenTxId"] = table[a][t].link["provenTxId"]
    <3>1. CASE t = r
      <4>1. table[a][t].link["provenTxId"] # 0
        BY <1>1, <2>1 DEF Present
      <4> QED BY <1>0, <2>2, <3>1, <4>1 DEF Written, KeepsProof
    <3>2. CASE t # r
      BY <1>0, <2>2, <3>2
    <3> QED BY <3>1, <3>2
  <2>4. table'[a][q].id = table[a][q].id
    BY <1>0, <1>1 DEF IdsStay
  <2>5. t \in RowsOfKind(a, "transaction")'
    BY <1>0, <2>2 DEF RowsOfKind
  <2>6. ReferredTo(a, q, "transaction", "provenTxId")'
    BY <1>0, <2>1, <2>3, <2>4, <2>5 DEF ReferredTo
  <2> QED BY <1>1, <1>3, <2>6 DEF Visible, ProvenTxsForUser, RowsOfKind
<1>4. CASE KindOf[q] = "provenTxReq"
  <2>1. Refs[q]["notify"] # None /\ Present(a, Refs[q]["notify"])
    BY <1>4 DEF Visible, Shared, ProvenTxsForUser, ProvenTxReqsForUser, TxLabelMapsForUser,
       OutputTagMapsForUser, RowsOfKind
  <2>2. Refs[q]["notify"] \in Rows
    <3>1. "notify" \in LinksOf(KindOf[q])
      BY <1>4 DEF LinksOf, ProvenTxReqLinks
    <3> QED BY <1>1, <2>1, <3>1, RefsAre
  <2>3. Present(a, Refs[q]["notify"])'
    BY <1>0, <2>1, <2>2 DEF IdsStay
  <2> QED BY <1>1, <1>4, <2>1, <2>3 DEF Visible, ProvenTxReqsForUser, RowsOfKind
<1> QED
  BY <1>2, <1>3, <1>4 DEF Plain, ProofKinds

\* No row is sent earlier for a write to another one.
LEMMA WriteBehind ==
    ASSUME LinkInv, NEW r, NEW row, Written(r, row), NEW a \in Stores, a = active,
           NEW q \in Rows, q # r, Present(a, q), NEW since \in Nat, NEW n \in Nat,
           Later(a, q, since, n)
    PROVE  Later(a, q, since, n)'
<1>0. /\ r \in Rows /\ table'[a][r] = row /\ IdsStay /\ row.time = now + 1 /\ now \in Nat
      /\ \A p \in Rows : p # r => table'[a][p] = table[a][p]
      /\ \A p \in Rows : table[a][p].time <= now
  BY WriteChanges
<1>1. ASSUME NEW p \in Rows, Changed(a, p, since)
      PROVE  Changed(a, p, since)'
  <2>1. CASE p = r
    <3>1. table[a][p].time \in Nat /\ table[a][p].time <= now
      BY <1>0 DEF LinkInv, Typed, Records
    <3>2. table[a][p].time >= since
      BY <1>1 DEF Changed
    <3>3. now + 1 >= since
      BY <1>0, <3>1, <3>2
    <3> QED BY <1>0, <2>1, <3>3 DEF Changed
  <2>2. CASE p # r
    BY <1>0, <1>1, <2>2 DEF Changed
  <2> QED BY <2>1, <2>2
<1>2. Ahead(a, q, since) \subseteq Ahead(a, q, since)'
  <2> SUFFICES ASSUME NEW p \in Ahead(a, q, since)
               PROVE  p \in Ahead(a, q, since)'
    OBVIOUS
  <2>1. p \in Visible(a) /\ KindOf[p] = KindOf[q] /\ Changed(a, p, since)
        /\ Before(a, p, q)
    BY DEF Ahead
  <2>2. p \in Rows /\ Present(a, p)
    BY <1>0, <2>1, VisibleAre
  <2>3. p \in Visible(a)' /\ Changed(a, p, since)'
    BY <1>1, <2>1, <2>2, VisibleStays
  <2>4. Before(a, p, q)'
    BY <1>0, <2>1, <2>2 DEF Before, IdsStay
  <2> QED BY <2>1, <2>3, <2>4 DEF Ahead
<1>3. /\ IsFiniteSet(Ahead(a, q, since)') /\ Cardinality(Ahead(a, q, since)') \in Nat
      /\ Cardinality(Ahead(a, q, since)) \in Nat
  BY AheadNext, AheadType
<1>4. Cardinality(Ahead(a, q, since)) <= Cardinality(Ahead(a, q, since)')
  BY <1>2, <1>3, FS_Subset
<1> QED
  BY <1>1, <1>3, <1>4 DEF Later

\* A row that a write leaves alone.
LEMMA WriteFollowsOther ==
    ASSUME LinkInv, SyncInv, NEW r, NEW row, Written(r, row), NEW q \in Rows \ touched', q # r,
           NEW a \in Stores, a = active
    PROVE  IsFollowed(q)'
<1>w. /\ r \in Rows /\ table'[a][r] = row /\ IdsStay /\ now \in Nat
      /\ \A t \in Stores : \A p \in Rows : t # a \/ p # r =>
           table'[t][p] = table[t][p] /\ (Present(t, p)' <=> Present(t, p))
      /\ \A t \in Stores : t # a => table'[t] = table[t]
  BY WriteChanges
<1>0. /\ r \in Rows /\ table'[a][r] = row /\ IdsStay /\ LinkInv' /\ now \in Nat /\ q \in Rows
      /\ \A t \in Stores : table'[t][q] = table[t][q] /\ (Present(t, q)' <=> Present(t, q))
      /\ \A t \in Stores : t # a => table'[t] = table[t]
      /\ active' = a /\ UNCHANGED <<syncState, writer, ss, chunk, sent>>
  BY <1>w, WriteLinks DEF Written
<1>1. q \notin touched
  BY DEF Written
<1>2. IsFollowed(q)
  BY <1>1 DEF SyncInv, RowsInv
<1>3. \A t \in Stores : Current(t, q)' <=> Current(t, q)
  BY <1>0 DEF Current
<1>4. /\ \A t, w \in Stores : \A map : Told(map, t, q)' <=> Told(map, t, q)
      /\ \A t, w \in Stores : \A map : Got(w, t, map, q)' <=> Got(w, t, map, q)
  <2>1. \A t \in Stores : \A map : Told(map, t, q)' <=> Told(map, t, q)
    BY <1>0 DEF Told
  <2> QED BY <1>3, <2>1 DEF Got
<1>5. ASSUME q \notin Visible(a), q \in Visible(a)'
      PROVE  /\ ~Reading
             /\ \A w \in Stores : Later(a, q, syncState[w][a].when, 0)'
  <2>1. q \in Newly(a)
    BY <1>5 DEF Newly
  <2>2. ~Reading /\ q \notin Late(a)
    BY <2>1 DEF Written
  <2>3. ~Plain(q)
    <3>1. SUFFICES ASSUME Plain(q) PROVE FALSE
      OBVIOUS
    <3>2. Present(a, q)' /\ ~Present(a, q)
      BY <1>0, <1>5, <3>1, PlainVisible, PlainVisibleNext
    <3> QED BY <1>0, <3>2
  <2>4. ASSUME NEW w \in Stores
        PROVE  Later(a, q, syncState[w][a].when, 0)'
    <3>1. PICK s \in Stores, since \in Nat : s = a /\ since = syncState[w][a].when
      BY <1>0 DEF LinkInv, Typed, SyncStates
    <3>2. table'[s][q].time >= since
      <4>1. ~(table'[s][q].time < since)
        BY <2>1, <2>2, <2>3, <3>1 DEF Late, Plain
      <4>2. table'[s][q].time \in Nat
        BY <1>0 DEF LinkInv, Typed, Records
      <4> QED BY <4>1, <4>2
    <3>3. Later(s, q, since, 0)'
      BY <3>2, LaterAtStartNext DEF Changed
    <3> QED BY <1>0, <3>1, <3>3 DEF Later, Ahead, Visible, ProvenTxsForUser, ProvenTxReqsForUser,
         TxLabelMapsForUser, OutputTagMapsForUser, RowsOfKind, ReferredTo, Refers, Present,
         Changed, Before
  <2> QED BY <2>2, <2>4
<1>6. Plain(q) => IsLatest(q)'
  BY <1>0, <1>2, <1>3 DEF IsFollowed, IsLatest
<1>7. Plain(q) => HasSpender(q)'
  <2> SUFFICES ASSUME Plain(q), KindOf[q] = "output", NEW s \in Stores, Current(s, q)
               PROVE  SameSpender(s, q)'
    BY <1>3 DEF HasSpender
  <2>1. SameSpender(s, q)
    BY <1>2 DEF IsFollowed, HasSpender
  <2> QED BY <1>0, <2>1 DEF SameSpender, IsSpender, IdsStay
<1>8. IsSent(q)'
  <2> SUFFICES ASSUME NEW w \in Stores, NEW s \in Stores, w # s, q \in Visible(s)', Current(s, q)
               PROVE  (\/ Later(s, q, syncState[w][s].when, syncState[w][s].count[KindOf[q]])
                       \/ Got(w, s, syncState[w][s].idMap, q))'
    BY <1>3 DEF IsSent
  <2>1. PICK since, n, map :
               /\ since \in Nat /\ n \in Nat
               /\ since = syncState[w][s].when /\ n = syncState[w][s].count[KindOf[q]]
               /\ map = syncState[w][s].idMap
    <3>1. /\ syncState[w][s].when \in Nat /\ syncState[w][s].count \in [Kinds -> Nat]
          /\ KindOf[q] \in Kinds
      BY RowsAssumption DEF LinkInv, Typed, SyncStates
    <3> QED BY <3>1
  <2> SUFFICES Later(s, q, since, n)' \/ Got(w, s, map, q)'
    BY <1>0, <2>1
  <2>2. CASE q \in Visible(s)
    <3>1. Later(s, q, since, n) \/ Got(w, s, map, q)
      BY <1>2, <2>1, <2>2 DEF IsFollowed, IsSent
    <3>2. CASE s # a
      BY <1>0, <1>4, <3>1, <3>2, SameStore
    <3>3. CASE s = a
      <4>1. CASE Later(s, q, since, n)
        <5>1. Later(a, q, since, n)'
          BY <1>0, <2>1, <2>2, <3>3, <4>1, WriteBehind, VisibleAre
        <5> QED BY <3>3, <5>1
      <4> QED BY <1>4, <3>1, <4>1
    <3> QED BY <3>2, <3>3
  <2>3. CASE q \notin Visible(s)
    <3>1. s = a
      BY <1>0, <2>3, SameStore
    <3>2. /\ ~Reading
          /\ Later(s, q, syncState[w][s].when, 0)'
      BY <1>5, <2>3, <3>1
    <3>3. n = 0
      BY <2>1, <3>1, <3>2, NotCutOff DEF Reading, LinkInv
    <3>4. since = syncState'[w][s].when
      BY <1>0, <2>1, <3>1
    <3> QED BY <3>2, <3>3, <3>4
  <2> QED BY <2>2, <2>3
<1>9. IsUnderWay(q)'
  <2>1. \A x \in chunk' : x.row = q => x.ei = table'[a][q]
    BY <1>0, <1>2 DEF IsFollowed, IsUnderWay
  <2>2. phase' # "done" /\ (phase' = "merge" => phase = "merge")
    BY DEF Written
  <2>3. ASSUME phase = "merge", q \in Visible(a)'
        PROVE  (/\ \/ Later(a, q, ss.when, ss.count[KindOf[q]] + sent[KindOf[q]])
                   \/ InChunk(q)
                   \/ Got(writer, a, ss.idMap, q)
                /\ \A x \in chunk : Place[KindOf[q]] < Place[KindOf[x.row]] =>
                     InChunk(q) \/ Got(writer, a, ss.idMap, q)
                /\ NothingSent => Got(writer, a, ss.idMap, q))'
    <3>1. q \in Visible(a)
      BY <1>5, <2>3 DEF Reading
    <3>2. PICK since, n, map :
                 /\ since \in Nat /\ n \in Nat /\ since = ss.when
                 /\ n = ss.count[KindOf[q]] + sent[KindOf[q]] /\ map = ss.idMap
      BY RowsAssumption DEF LinkInv, Typed, StateOf, SyncStates
    <3>3. /\ Later(a, q, since, n) \/ InChunk(q) \/ Got(writer, a, map, q)
          /\ \A x \in chunk : Place[KindOf[q]] < Place[KindOf[x.row]] =>
               InChunk(q) \/ Got(writer, a, map, q)
          /\ NothingSent => Got(writer, a, map, q)
      BY <1>2, <2>3, <3>1, <3>2 DEF IsFollowed, IsUnderWay
    <3>4. Later(a, q, since, n) => Later(a, q, since, n)'
      BY <1>0, <3>1, <3>2, WriteBehind, VisibleAre
    <3>5. /\ InChunk(q)' <=> InChunk(q)
          /\ NothingSent' <=> NothingSent
      BY <1>0 DEF InChunk, NothingSent
    <3>6. Got(writer, a, map, q)' <=> Got(writer, a, map, q)
      <4>1. writer \in Stores
        BY DEF LinkInv, Typed
      <4> QED BY <1>0, <4>1 DEF Got, Current, Told
    <3> QED BY <1>0, <3>2, <3>3, <3>4, <3>5, <3>6
  <2> QED BY <1>0, <2>1, <2>2, <2>3 DEF IsUnderWay
<1> QED
  BY <1>6, <1>7, <1>8, <1>9 DEF IsFollowed


\* A row that is written while no sync reads will be sent.
LEMMA WriteFollowsRow ==
    ASSUME LinkInv, SyncInv, NEW r, NEW row, Written(r, row), r \notin touched',
           NEW a \in Stores, a = active
    PROVE  IsFollowed(r)'
<1>w. /\ r \in Rows /\ table'[a][r] = row /\ row.time = now + 1 /\ row.data = now + 1
      /\ \A t \in Stores : \A q \in Rows : t # a \/ q # r =>
           table'[t][q] = table[t][q] /\ (Present(t, q)' <=> Present(t, q))
      /\ \A t \in Stores : t # a => table'[t] = table[t]
      /\ Present(a, r)' /\ IdsStay /\ now \in Nat
      /\ \A t \in Stores : \A q \in Rows : table[t][q].time <= now /\ table[t][q].data <= now
  BY WriteChanges
<1>0. LinkInv' /\ active' = a /\ UNCHANGED <<syncState, writer, ss, chunk, sent>>
  BY WriteLinks DEF Written
<1>1. ~Reading /\ (KindOf[r] \in ProofKinds => r \notin touched)
  BY DEF Written
<1>2. \A w, s \in Stores : /\ syncState[w][s].when \in Nat /\ syncState[w][s].when <= now
                           /\ syncState[w][s].count[KindOf[r]] \in Nat
  <2> SUFFICES ASSUME NEW w \in Stores, NEW s \in Stores
               PROVE  /\ syncState[w][s].when \in Nat /\ syncState[w][s].when <= now
                      /\ syncState[w][s].count[KindOf[r]] \in Nat
    OBVIOUS
  <2>1. syncState[w][s] \in SyncStates /\ syncState[w][s].when <= now
    BY DEF LinkInv, Typed, StateOf
  <2>2. KindOf[r] \in Kinds
    BY <1>w, RowsAssumption
  <2> QED BY <2>1, <2>2 DEF SyncStates
<1>3. \A t \in Stores : \A q \in Rows : table[t][q].time \in Nat /\ table[t][q].data \in Nat
  BY DEF LinkInv, Typed, Records
<1>4. ASSUME NEW s \in Stores, Plain(r), Current(s, r)'
      PROVE  s = a
  <2>1. SUFFICES ASSUME s # a PROVE FALSE
    OBVIOUS
  <2>2. table'[s][r].data = now + 1
    BY <1>0, <1>w, <1>4 DEF Current, Plain
  <2>3. table'[s][r].data = table[s][r].data /\ table[s][r].data \in Nat /\ table[s][r].data <= now
    BY <1>w, <1>3, <2>1
  <2> QED BY <1>w, <2>2, <2>3
<1>5. Current(a, r)'
  BY <1>0, <1>w DEF Current
<1>6. ASSUME Plain(r)
      PROVE  IsLatest(r)'
  <2>1. ASSUME NEW s \in Stores, ~Current(s, r)'
        PROVE  table'[s][r].time < table'[a][r].data
    <3>1. s # a
      BY <1>5, <2>1
    <3>2. /\ table'[s][r].time = table[s][r].time
          /\ table[s][r].time \in Nat /\ table[s][r].time <= now
      BY <1>w, <1>3, <3>1
    <3> QED BY <1>w, <3>2
  <2>2. ASSUME NEW s \in Stores, NEW w \in Stores
        PROVE  syncState'[w][s].when <= table'[a][r].data
    <3>1. syncState'[w][s].when \in Nat /\ syncState'[w][s].when <= now
      BY <1>0, <1>2
    <3> QED BY <1>w, <3>1
  <2>3. Present(active, r)'
    BY <1>0, <1>w DEF Present
  <2> QED BY <1>0, <2>1, <2>2, <2>3 DEF IsLatest
<1>7. ASSUME Plain(r), KindOf[r] = "output", NEW s \in Stores, Current(s, r)'
      PROVE  SameSpender(s, r)'
  <2>1. s = a
    BY <1>4, <1>7
  <2>2. CASE table'[a][r].link["spentBy"] = 0
    BY <1>0, <2>1, <2>2 DEF SameSpender
  <2>3. CASE table'[a][r].link["spentBy"] # 0
    <3>1. \E q \in Rows : IsSpender(a, q, table[a][r].link["spentBy"])'
      BY <1>0, <1>w, <1>7, <2>3 DEF LinkInv, SpentInv
    <3> QED BY <1>0, <2>1, <3>1 DEF SameSpender, IsSpender, Present
  <2> QED BY <2>2, <2>3
<1>8. ASSUME NEW w \in Stores, NEW s \in Stores, w # s, r \in Visible(s)', Current(s, r)'
      PROVE  (\/ Later(s, r, syncState[w][s].when, syncState[w][s].count[KindOf[r]])
              \/ Got(w, s, syncState[w][s].idMap, r))'
  <2>1. PICK since, n, map :
               /\ since \in Nat /\ n \in Nat
               /\ since = syncState[w][s].when /\ n = syncState[w][s].count[KindOf[r]]
               /\ map = syncState[w][s].idMap
    BY <1>2
  <2> SUFFICES Later(s, r, since, n)' \/ Got(w, s, map, r)'
    BY <1>0, <2>1
  <2>2. CASE s = a
    <3>1. n = 0
      BY <1>1, <1>w, <2>1, <2>2, NotCutOff DEF Reading, LinkInv
    <3>2. since <= now
      BY <1>2, <2>1
    <3>3. table'[s][r].time >= since
      BY <1>w, <2>1, <2>2, <3>2
    <3>4. Changed(s, r, since)'
      BY <3>3 DEF Changed
    <3>5. Later(s, r, since, 0)'
      BY <3>4, LaterAtStartNext
    <3> QED BY <3>1, <3>5
  <2>3. CASE s # a
    <3>1. ~Plain(r) /\ r \notin touched
      BY <1>1, <1>4, <1>8, <2>3 DEF Plain
    <3>2. IsSent(r)
      BY <1>w, <3>1 DEF SyncInv, RowsInv, IsFollowed
    <3>3. r \in Visible(s)
      BY <1>w, <1>8, <2>3, SameStore
    <3>4. Current(s, r)
      BY <1>w, <3>1, <3>3, VisibleAre DEF Current
    <3>5. Later(s, r, since, n) \/ Got(w, s, map, r)
      BY <1>8, <2>1, <3>2, <3>3, <3>4 DEF IsSent
    <3>6. CASE Later(s, r, since, n)
      BY <1>w, <2>3, <3>6, SameStore
    <3>7. CASE Got(w, s, map, r)
      <4>1. Present(w, r)'
        <5>1. Present(w, r)
          BY <3>7 DEF Got, Current
        <5> QED BY <1>w, <5>1 DEF IdsStay
      <4>2. Told(map, s, r)'
        BY <1>w, <2>3, <3>7, SameStore DEF Got
      <4> QED BY <3>1, <4>1, <4>2 DEF Got, Current
    <3> QED BY <3>5, <3>6, <3>7
  <2> QED BY <2>2, <2>3
<1>9. IsUnderWay(r)'
  <2>1. phase \notin {"request", "merge"}
    BY <1>1 DEF Reading
  <2>2. chunk' = {}
    BY <1>0, <2>1 DEF LinkInv, PhaseInv
  <2>3. phase' \notin {"merge", "done"}
    BY <2>1 DEF Written
  <2> QED BY <2>2, <2>3 DEF IsUnderWay
<1>10. Plain(r) => HasSpender(r)'
  BY <1>7 DEF HasSpender
<1>11. IsSent(r)'
  BY <1>8 DEF IsSent
<1> QED
  BY <1>6, <1>9, <1>10, <1>11 DEF IsFollowed

LEMMA WriteFollows ==
    ASSUME LinkInv, SyncInv, NEW r, NEW row, Written(r, row)
    PROVE  SyncInv'
<1>1. PICK a \in Stores : a = active
  BY DEF LinkInv, Typed
<1>2. ASSUME NEW q \in Rows \ touched'
      PROVE  IsFollowed(q)'
  BY <1>1, <1>2, WriteFollowsOther, WriteFollowsRow
<1>3. RoundInv'
  <2>1. phase' = "merge" => phase = "merge"
    BY DEF Written
  <2>2. UNCHANGED <<syncState, active, writer, ss, chunk, sent>>
    BY DEF Written
  <2> QED BY <2>1, <2>2 DEF SyncInv, RoundInv, NothingSent
<1> QED
  BY <1>2, <1>3 DEF SyncInv, RowsInv
-----------------------------------------------------------------------------
(* Chunks are followed.                                                    *)

\* Rows are read in one order.
LEMMA BeforeOrders ==
    ASSUME LinkInv, NEW s \in Stores
    PROVE  /\ \A p, q, r \in Rows : Before(s, p, q) /\ Before(s, q, r) => Before(s, p, r)
           /\ \A p \in Rows : ~Before(s, p, p)
           /\ \A p, q \in Rows : Present(s, p) /\ Present(s, q) =>
                p = q \/ Before(s, p, q) \/ Before(s, q, p)
<1>1. \A r \in Rows : KindOf[r] \in Kinds /\ Place[KindOf[r]] \in Nat /\ table[s][r].id \in Nat
  BY KindsAre, RowsAssumption DEF LinkInv, Typed, Records
<1>2. \A p, q \in Rows : Place[KindOf[p]] = Place[KindOf[q]] => KindOf[p] = KindOf[q]
  BY <1>1, KindsAre
<1>3. \A p, q \in Rows : Present(s, p) /\ KindOf[q] = KindOf[p] /\ table[s][q].id = table[s][p].id
                           => q = p
  BY DEF LinkInv, IdsInv
<1>4. ASSUME NEW p \in Rows, NEW q \in Rows, NEW r \in Rows, Before(s, p, q), Before(s, q, r)
      PROVE  Before(s, p, r)
  BY <1>1, <1>4 DEF Before
<1>5. ASSUME NEW p \in Rows
      PROVE  ~Before(s, p, p)
  BY <1>1 DEF Before
<1>6. ASSUME NEW p \in Rows, NEW q \in Rows, Present(s, p), Present(s, q)
      PROVE  p = q \/ Before(s, p, q) \/ Before(s, q, p)
  BY <1>1, <1>2, <1>3, <1>6 DEF Before
<1> QED
  BY <1>4, <1>5, <1>6

\* What there is to send is what changed and comes at or after the offset.
LEMMA ToSendIs ==
    ASSUME NEW s \in Stores, NEW state
    PROVE  ToSend(s, state) = {r \in Visible(s) : Later(s, r, state.when, state.count[KindOf[r]])}
<1> DEFINE S == {r \in Visible(s) : Changed(s, r, state.when)}
           Skipped(r) == Cardinality({q \in S : KindOf[q] = KindOf[r] /\ Before(s, q, r)})
<1>1. ToSend(s, state) = {r \in S : Skipped(r) >= state.count[KindOf[r]]}
  BY DEF ToSend
<1>2. ASSUME NEW r
      PROVE  Skipped(r) = Cardinality(Ahead(s, r, state.when))
  <2>1. {q \in S : KindOf[q] = KindOf[r] /\ Before(s, q, r)} = Ahead(s, r, state.when)
    BY DEF Ahead
  <2> QED BY <2>1
<1> HIDE DEF Skipped
<1> QED
  BY <1>1, <1>2 DEF Later

\* The first of a set of rows.
LEMMA FirstRow ==
    ASSUME LinkInv, NEW s \in Stores, NEW S, S \subseteq Rows, \A r \in S : Present(s, r), S # {}
    PROVE  \E p \in S : \A q \in S : p = q \/ Before(s, p, q)
<1>1. \A r \in Rows : KindOf[r] \in Kinds /\ Place[KindOf[r]] \in Nat /\ table[s][r].id \in Nat
  BY KindsAre, RowsAssumption DEF LinkInv, Typed, Records
<1>2. PICK j \in {Place[KindOf[r]] : r \in S} : \A i \in {Place[KindOf[r]] : r \in S} : j <= i
  <2>1. {Place[KindOf[r]] : r \in S} \subseteq Nat /\ {Place[KindOf[r]] : r \in S} # {}
    BY <1>1
  <2> QED BY <2>1, LeastMember
<1> DEFINE T == {r \in S : Place[KindOf[r]] = j}
<1>3. T # {} /\ T \subseteq S
  BY <1>2
<1>4. PICK i \in {table[s][r].id : r \in T} : \A h \in {table[s][r].id : r \in T} : i <= h
  <2>1. {table[s][r].id : r \in T} \subseteq Nat /\ {table[s][r].id : r \in T} # {}
    BY <1>1, <1>3
  <2> QED BY <2>1, LeastMember
<1>5. PICK p \in T : table[s][p].id = i
  BY <1>4
<1>6. p \in S /\ p \in Rows /\ Place[KindOf[p]] = j
  BY <1>3, <1>5
<1>7. ASSUME NEW q \in S, q # p
      PROVE  Before(s, p, q)
  <2>1. ~Before(s, q, p)
    <3>1. SUFFICES ASSUME Before(s, q, p) PROVE FALSE
      OBVIOUS
    <3>2. j <= Place[KindOf[q]] /\ q \in Rows /\ j \in Nat
      BY <1>1, <1>2
    <3>3. KindOf[q] = KindOf[p] /\ table[s][q].id < table[s][p].id
      BY <1>1, <1>6, <3>1, <3>2 DEF Before
    <3>4. i <= table[s][q].id
      BY <1>4, <1>6, <3>3
    <3> QED BY <1>1, <1>5, <1>6, <3>2, <3>3, <3>4
  <2> QED BY <1>6, <1>7, <2>1, BeforeOrders
<1> QED
  BY <1>6, <1>7

\* A chunk has the first rows there are, in every entity too.
LEMMA ChunkIsFirst ==
    ASSUME LinkInv, NEW s \in Stores, s = active, NEW state, NEW rows \in Chunks(s, state)
    PROVE  /\ \A p \in rows, q \in ToSend(s, state) : Before(s, q, p) => q \in rows
           /\ ToSend(s, state) # {} => rows # {}
           /\ IsFiniteSet(rows)
<1> DEFINE all == ToSend(s, state)
           Earlier(r) == {q \in all : Before(s, q, r)}
<1>1. PICK n \in ChunkSizes : rows = {r \in all : Cardinality(Earlier(r)) < n}
  BY DEF Chunks
<1>2. n \in Nat /\ n # 0
  BY RowsAssumption
<1>3. all \subseteq Rows /\ \A r \in all : Present(s, r)
  BY ToSendIs, VisibleAre
<1>4. \A r : IsFiniteSet(Earlier(r)) /\ Cardinality(Earlier(r)) \in Nat
  <2> SUFFICES ASSUME NEW r PROVE IsFiniteSet(Earlier(r)) /\ Cardinality(Earlier(r)) \in Nat
    OBVIOUS
  <2>1. Earlier(r) \subseteq Rows
    BY <1>3
  <2> QED BY <2>1, RowsAssumption, FS_Subset, FS_CardinalityType
<1>5. ASSUME NEW p \in rows, NEW q \in all, Before(s, q, p)
      PROVE  q \in rows
  <2>1. p \in Rows /\ q \in Rows /\ p \in all
    BY <1>1, <1>3
  <2>2. Earlier(q) \subseteq Earlier(p)
    BY <1>3, <1>5, <2>1, BeforeOrders
  <2>3. Cardinality(Earlier(q)) <= Cardinality(Earlier(p))
    BY <1>4, <2>2, FS_Subset
  <2>4. Cardinality(Earlier(p)) < n
    BY <1>1
  <2>5. Cardinality(Earlier(q)) < n
    BY <1>2, <1>4, <2>3, <2>4
  <2> QED BY <1>1, <2>5
<1>6. ASSUME all # {}
      PROVE  rows # {}
  <2>1. PICK p \in all : \A q \in all : p = q \/ Before(s, p, q)
    BY <1>3, <1>6, FirstRow
  <2>2. Earlier(p) = {}
    BY <1>3, <2>1, BeforeOrders
  <2>3. Cardinality(Earlier(p)) = 0
    BY <2>2, FS_EmptySet
  <2> QED BY <1>1, <1>2, <2>3
<1>7. IsFiniteSet(rows)
  <2>1. rows \subseteq Rows
    BY <1>1, <1>3
  <2> QED BY <2>1, RowsAssumption, FS_Subset
<1> QED
  BY <1>5, <1>6, <1>7

\* What is left for the next chunk comes at or after the next offset.
LEMMA LeftIsLater ==
    ASSUME LinkInv, NEW s \in Stores, s = active, NEW state \in SyncStates,
           NEW rows \in Chunks(s, state), NEW r \in ToSend(s, state) \ rows,
           NEW same, same = {q \in rows : KindOf[q] = KindOf[r]}
    PROVE  Later(s, r, state.when, state.count[KindOf[r]] + Cardinality(same))
<1> DEFINE all == ToSend(s, state)
           since == state.when
           n == state.count[KindOf[r]]
<1>1. all \subseteq Rows /\ \A p \in all : Present(s, p) /\ p \in Visible(s) /\ Changed(s, p, since)
  BY ToSendIs, VisibleAre DEF Later
<1>2. rows \subseteq all
  BY DEF Chunks
<1>3. n \in Nat
  BY <1>1, RowsAssumption DEF SyncStates
<1>4. IsFiniteSet(same) /\ Cardinality(same) \in Nat
  BY ChunkIsFirst, FS_Subset, FS_CardinalityType
<1>5. ASSUME NEW q \in same
      PROVE  q \in Ahead(s, r, since)
  <2>1. q \in rows /\ q \in all /\ q \in Rows /\ r \in Rows /\ q # r
    BY <1>1, <1>2
  <2>2. ~Before(s, r, q)
    BY <2>1, ChunkIsFirst
  <2>3. Before(s, q, r)
    BY <1>1, <2>1, <2>2, BeforeOrders
  <2> QED BY <1>1, <2>1, <2>3 DEF Ahead
<1>6. Changed(s, r, since) /\ Cardinality(Ahead(s, r, since)) >= n
  BY ToSendIs DEF Later
<1>7. CASE same = {}
  <2>1. Cardinality(same) = 0
    BY <1>7, FS_EmptySet
  <2>2. n + Cardinality(same) = n
    BY <1>3, <2>1
  <2> QED BY <1>6, <2>2 DEF Later
<1>8. CASE same # {}
  <2>1. same \subseteq Rows /\ \A p \in same : Present(s, p)
    BY <1>1, <1>2
  <2>2. PICK p \in same : \A q \in same : p = q \/ Before(s, p, q)
    BY <1>8, <2>1, FirstRow
  <2>3. p \in all /\ p \in Rows /\ KindOf[p] = KindOf[r] /\ r \in Rows
    BY <1>1, <1>2
  <2>4. Cardinality(Ahead(s, p, since)) >= n
    BY <2>3, ToSendIs DEF Later
  <2>5. Ahead(s, p, since) \cap same = {}
    <3> SUFFICES ASSUME NEW q \in same, Before(s, q, p) PROVE FALSE
      BY DEF Ahead
    <3>1. p = q \/ Before(s, p, q)
      BY <2>2
    <3>2. q \in Rows
      BY <2>1
    <3> QED BY <2>3, <3>1, <3>2, BeforeOrders
  <2>6. Ahead(s, p, since) \cup same \subseteq Ahead(s, r, since)
    <3>1. p \in Ahead(s, r, since)
      BY <1>5
    <3>2. ASSUME NEW q \in Ahead(s, p, since) PROVE q \in Ahead(s, r, since)
      <4>1. q \in Rows
        BY VisibleAre DEF Ahead
      <4>2. Before(s, q, r)
        BY <2>3, <3>1, <4>1, BeforeOrders DEF Ahead
      <4> QED BY <2>3, <4>2 DEF Ahead
    <3> QED BY <1>5, <3>2
  <2>7. Cardinality(Ahead(s, p, since) \cup same)
          = Cardinality(Ahead(s, p, since)) + Cardinality(same)
    <3>1. IsFiniteSet(Ahead(s, p, since)) /\ Cardinality(Ahead(s, p, since)) \in Nat
      BY AheadType
    <3>2. Cardinality(Ahead(s, p, since) \cap same) = 0
      BY <2>5, FS_EmptySet
    <3>3. Cardinality(Ahead(s, p, since) \cup same)
            = Cardinality(Ahead(s, p, since)) + Cardinality(same)
                - Cardinality(Ahead(s, p, since) \cap same)
      BY <1>4, <3>1, FS_Union
    <3> QED BY <1>4, <3>1, <3>2, <3>3
  <2>8. Cardinality(Ahead(s, p, since) \cup same) <= Cardinality(Ahead(s, r, since))
    BY <2>6, AheadType, FS_Subset
  <2>9. n + Cardinality(same) <= Cardinality(Ahead(s, r, since))
    <3>1. Cardinality(Ahead(s, p, since)) \in Nat /\ Cardinality(Ahead(s, r, since)) \in Nat
      BY AheadType
    <3> HIDE DEF since, n
    <3> QED BY <1>3, <1>4, <2>4, <2>7, <2>8, <3>1
  <2> QED BY <1>3, <1>4, <1>6, <2>9, AheadType DEF Later
<1> QED
  BY <1>7, <1>8

\* What is said of the stores alone stays while they do.
LEMMA StoresStay ==
    ASSUME UNCHANGED <<table, syncState, active>>, NEW r
    PROVE  /\ IsLatest(r) => IsLatest(r)'
           /\ HasSpender(r) => HasSpender(r)'
           /\ IsSent(r) => IsSent(r)'
           /\ \A s \in Stores : Current(s, r)' <=> Current(s, r)
<1>1. \A s : Current(s, r)' <=> Current(s, r)
  BY DEF Current, Present
<1>2. IsLatest(r) => IsLatest(r)'
  BY <1>1 DEF IsLatest, Present
<1>3. HasSpender(r) => HasSpender(r)'
  <2>1. \A s : SameSpender(s, r)' <=> SameSpender(s, r)
    BY DEF SameSpender, IsSpender, Present
  <2> QED BY <1>1, <2>1 DEF HasSpender
<1>4. IsSent(r) => IsSent(r)'
  <2> SUFFICES ASSUME IsSent(r), NEW w \in Stores, NEW s \in Stores, w # s,
                      r \in Visible(s)', Current(s, r)'
               PROVE  (\/ Later(s, r, syncState[w][s].when, syncState[w][s].count[KindOf[r]])
                       \/ Got(w, s, syncState[w][s].idMap, r))'
    BY DEF IsSent
  <2>1. PICK since, n, map :
               /\ since = syncState[w][s].when /\ n = syncState[w][s].count[KindOf[r]]
               /\ map = syncState[w][s].idMap
    OBVIOUS
  <2>2. Later(s, r, since, n) \/ Got(w, s, map, r)
    BY <1>1, <2>1, SameStore DEF IsSent
  <2>3. Later(s, r, since, n)' \/ Got(w, s, map, r)'
    BY <1>1, <2>2, SameStore DEF Got
  <2> QED BY <2>1, <2>3
<1> QED
  BY <1>1, <1>2, <1>3, <1>4

LEMMA BeginFollows ==
    ASSUME LinkInv, SyncInv, Begin \/ MergeThrows \/ Crash \/ Return
    PROVE  SyncInv'
<1>1. UNCHANGED <<table, syncState, active, touched>> /\ phase' \notin {"merge", "done"}
  BY DEF Begin, MergeThrows, Crash, Return, store
<1>2. chunk' = {}
  BY DEF Begin, MergeThrows, Crash, Return, LinkInv, PhaseInv
<1>3. ASSUME NEW r \in Rows \ touched'
      PROVE  IsFollowed(r)'
  <2>1. IsFollowed(r)
    BY <1>1 DEF SyncInv, RowsInv
  <2>2. IsUnderWay(r)'
    BY <1>1, <1>2 DEF IsUnderWay
  <2> QED BY <1>1, <2>1, <2>2, StoresStay DEF IsFollowed
<1> QED
  BY <1>1, <1>3 DEF SyncInv, RowsInv, RoundInv

LEMMA StutterFollows ==
    ASSUME LinkInv, SyncInv, UNCHANGED vars
    PROVE  SyncInv'
<1>1. UNCHANGED <<table, syncState, active, touched, phase, writer, ss, chunk, sent>>
  BY DEF vars, store, session
<1>2. ASSUME NEW r \in Rows \ touched'
      PROVE  IsFollowed(r)'
  <2>1. IsFollowed(r)
    BY <1>1, <1>2 DEF SyncInv, RowsInv
  <2>2. IsUnderWay(r)'
    <3> SUFFICES ASSUME NEW s \in Stores, s = active
                 PROVE  (/\ \A x \in chunk : x.row = r => x.ei = table[s][r]
                         /\ phase = "merge" /\ r \in Visible(s) =>
                             /\ \/ Later(s, r, ss.when, ss.count[KindOf[r]] + sent[KindOf[r]])
                                \/ InChunk(r)
                                \/ Got(writer, s, ss.idMap, r)
                             /\ \A x \in chunk : Place[KindOf[r]] < Place[KindOf[x.row]] =>
                                  InChunk(r) \/ Got(writer, s, ss.idMap, r)
                             /\ NothingSent => Got(writer, s, ss.idMap, r)
                         /\ phase = "done" /\ r \in Visible(s) => Current(writer, r))'
      BY <1>1 DEF IsUnderWay
    <3>1. PICK w, since, n, map :
                 /\ w \in Stores /\ w = writer /\ since = ss.when /\ map = ss.idMap
                 /\ n = ss.count[KindOf[r]] + sent[KindOf[r]]
      BY DEF LinkInv, Typed
    <3>2. /\ Later(s, r, since, n)' <=> Later(s, r, since, n)
          /\ r \in Visible(s)' <=> r \in Visible(s)
          /\ Got(w, s, map, r)' <=> Got(w, s, map, r)
          /\ Current(w, r)' <=> Current(w, r)
      BY <1>1, <3>1, SameStore, StoresStay DEF Got
    <3>3. /\ InChunk(r)' <=> InChunk(r)
          /\ NothingSent' <=> NothingSent
      BY <1>1 DEF InChunk, NothingSent
    <3>4. /\ \A x \in chunk : x.row = r => x.ei = table[s][r]
          /\ phase = "merge" /\ r \in Visible(s) =>
               /\ Later(s, r, since, n) \/ InChunk(r) \/ Got(w, s, map, r)
               /\ \A x \in chunk : Place[KindOf[r]] < Place[KindOf[x.row]] =>
                    InChunk(r) \/ Got(w, s, map, r)
               /\ NothingSent => Got(w, s, map, r)
          /\ phase = "done" /\ r \in Visible(s) => Current(w, r)
      BY <2>1, <3>1 DEF IsFollowed, IsUnderWay
    <3> QED BY <1>1, <3>1, <3>2, <3>3, <3>4
  <2> QED BY <1>1, <2>1, <2>2, StoresStay DEF IsFollowed
<1>3. RoundInv'
  BY <1>1 DEF SyncInv, RoundInv, NothingSent
<1> QED
  BY <1>2, <1>3 DEF SyncInv, RowsInv

LEMMA RequestFollows ==
    ASSUME LinkInv, SyncInv, GetSyncChunk
    PROVE  SyncInv'
<1>1. PICK a \in Stores, w \in Stores, state \in SyncStates :
           a = active /\ w = writer /\ state = syncState[w][a]
  BY DEF LinkInv, Typed
<1>2. PICK rows \in Chunks(a, state) :
           /\ chunk' = {[row |-> r, ei |-> table[a][r]] : r \in rows}
           /\ sent' = [k \in Kinds |-> Cardinality({r \in rows : KindOf[r] = k})]
  BY <1>1 DEF GetSyncChunk
<1>3. /\ UNCHANGED <<table, syncState, active, writer, touched>> /\ w # a
      /\ ss' = state /\ phase' = "merge"
  BY <1>1 DEF GetSyncChunk, store, LinkInv, PhaseInv
<1>4. rows \subseteq ToSend(a, state) /\ rows \subseteq Rows
  BY <1>1, <1>2, ChunksAre
<1>5. ASSUME NEW r \in rows
      PROVE  InChunk(r)'
  <2>1. PICK x : x = [row |-> r, ei |-> table[a][r]]
    OBVIOUS
  <2>2. x \in chunk' /\ x.row = r
    BY <1>2, <2>1
  <2> QED BY <2>2 DEF InChunk
<1>6. NothingSent' => rows = {}
  <2> SUFFICES ASSUME NothingSent', NEW r \in rows PROVE FALSE
    OBVIOUS
  <2>1. KindOf[r] \in Kinds
    BY <1>4, RowsAssumption
  <2>2. Cardinality({q \in rows : KindOf[q] = KindOf[r]}) = 0
    BY <1>2, <2>1 DEF NothingSent
  <2>3. IsFiniteSet({q \in rows : KindOf[q] = KindOf[r]})
    BY <1>1, ChunkIsFirst, FS_Subset
  <2>4. {q \in rows : KindOf[q] = KindOf[r]} = {}
    BY <2>2, <2>3, FS_EmptySet
  <2> QED BY <2>4
<1>7. ASSUME NEW r \in Rows \ touched'
      PROVE  IsFollowed(r)'
  <2>1. IsFollowed(r)
    BY <1>3, <1>7 DEF SyncInv, RowsInv
  <2>2. KindOf[r] \in Kinds
    BY RowsAssumption
  <2>3. PICK since, n, map, same :
             /\ since = state.when /\ n = state.count[KindOf[r]] /\ map = state.idMap
             /\ same = {q \in rows : KindOf[q] = KindOf[r]}
    OBVIOUS
  <2>4. PICK m : m = n + Cardinality(same)
    OBVIOUS
  <2>5. ASSUME r \in Visible(a)
        PROVE  /\ Later(a, r, since, m) \/ r \in rows \/ Got(w, a, map, r)
               /\ \A p \in rows : Place[KindOf[r]] < Place[KindOf[p]] =>
                    r \in rows \/ Got(w, a, map, r)
               /\ rows = {} => Got(w, a, map, r)
    <3>1. Current(a, r)
      BY <1>1, <2>5, VisibleAre DEF Current
    <3>2. Later(a, r, since, n) \/ Got(w, a, map, r)
      BY <1>1, <1>3, <2>1, <2>3, <2>5, <3>1 DEF IsFollowed, IsSent
    <3>3. SUFFICES ASSUME Later(a, r, since, n)
                   PROVE  /\ Later(a, r, since, m) \/ r \in rows
                          /\ \A p \in rows : Place[KindOf[r]] < Place[KindOf[p]] => r \in rows
                          /\ rows # {}
      BY <3>2
    <3>4. r \in ToSend(a, state)
      BY <2>3, <2>5, <3>3, ToSendIs
    <3>5. rows # {}
      BY <1>1, <3>4, ChunkIsFirst
    <3>6. ASSUME NEW p \in rows, Place[KindOf[r]] < Place[KindOf[p]]
          PROVE  r \in rows
      <4>1. Before(a, r, p)
        BY <3>6 DEF Before
      <4> QED BY <1>1, <3>4, <4>1, ChunkIsFirst
    <3>7. ASSUME r \notin rows
          PROVE  Later(a, r, since, m)
      BY <1>1, <2>3, <2>4, <3>4, <3>7, LeftIsLater
    <3> QED BY <3>5, <3>6, <3>7
  <2>6. IsUnderWay(r)'
    <3>1. /\ r \in Visible(a)' <=> r \in Visible(a)
          /\ Later(a, r, since, m)' <=> Later(a, r, since, m)
          /\ Got(w, a, map, r)' <=> Got(w, a, map, r)
      BY <1>3, SameStore, StoresStay DEF Got
    <3>2. /\ ss'.when = since /\ ss'.count[KindOf[r]] + sent'[KindOf[r]] = m
          /\ ss'.idMap = map /\ writer' = w /\ active' = a
      BY <1>1, <1>2, <1>3, <2>2, <2>3, <2>4
    <3>3. \A x \in chunk' : x.row \in rows /\ x.ei = table[a][x.row]
      BY <1>2
    <3>4. ASSUME r \in Visible(a)'
          PROVE  /\ Later(a, r, since, m)' \/ InChunk(r)' \/ Got(w, a, map, r)'
                 /\ \A x \in chunk' : Place[KindOf[r]] < Place[KindOf[x.row]] =>
                      InChunk(r)' \/ Got(w, a, map, r)'
                 /\ NothingSent' => Got(w, a, map, r)'
      BY <1>5, <1>6, <2>5, <3>1, <3>3, <3>4
    <3>5. \A x \in chunk' : x.row = r => x.ei = table'[a][r]
      BY <1>3, <3>3
    <3> QED BY <1>3, <3>2, <3>4, <3>5 DEF IsUnderWay
  <2> QED BY <1>3, <2>1, <2>6, StoresStay DEF IsFollowed
<1>8. RoundInv'
  BY <1>1, <1>2, <1>3, <1>6 DEF RoundInv
<1> QED
  BY <1>7, <1>8 DEF SyncInv, RowsInv

LEMMA EndFollows ==
    ASSUME LinkInv, SyncInv, EndChunk
    PROVE  SyncInv'
<1>1. PICK a, w, next :
           /\ a \in Stores /\ w \in Stores
           /\ a = active /\ w = writer /\ next = NextSyncState
  BY DEF LinkInv, Typed
<1>2. /\ UNCHANGED <<table, active, writer, ss, chunk, sent, touched>> /\ w # a
      /\ phase = "merge" /\ chunk = {} /\ phase' = IF NothingSent THEN "done" ELSE "request"
      /\ syncState' = [syncState EXCEPT ![w][a] = next]
  BY <1>1 DEF EndChunk, LinkInv, PhaseInv
<1>3. /\ syncState'[w][a] = next
      /\ \A v, s \in Stores : v # w \/ s # a => syncState'[v][s] = syncState[v][s]
  BY <1>1, <1>2 DEF LinkInv, Typed
<1>4. /\ next.idMap = ss.idMap
      /\ ~NothingSent => /\ next.when = ss.when
                         /\ \A k \in Kinds : next.count[k] = ss.count[k] + sent[k]
  BY <1>1, NextStateIs DEF LinkInv
<1>5. ASSUME NEW r \in Rows \ touched'
      PROVE  IsFollowed(r)'
  <2>1. IsFollowed(r)
    BY <1>2, <1>5 DEF SyncInv, RowsInv
  <2>2. \A s \in Stores : Current(s, r)' <=> Current(s, r)
    BY <1>2 DEF Current, Present
  <2>3. KindOf[r] \in Kinds
    BY RowsAssumption
  <2>4. ASSUME NEW s \in Stores
        PROVE  /\ r \in Visible(s)' <=> r \in Visible(s)
               /\ \A since, n : Later(s, r, since, n)' <=> Later(s, r, since, n)
               /\ \A map : \A v \in Stores : Got(v, s, map, r)' <=> Got(v, s, map, r)
    BY <1>2, <2>2, SameStore DEF Got
  <2>5. ASSUME r \in Visible(a)
        PROVE  /\ \/ Later(a, r, ss.when, ss.count[KindOf[r]] + sent[KindOf[r]])
                  \/ Got(w, a, ss.idMap, r)
               /\ NothingSent => Got(w, a, ss.idMap, r)
    BY <1>1, <1>2, <2>1, <2>5 DEF IsFollowed, IsUnderWay, InChunk
  <2>6. Plain(r) => IsLatest(r)'
    <3> SUFFICES ASSUME Plain(r) PROVE IsLatest(r)'
      OBVIOUS
    <3>1. /\ \A s \in Stores : Present(s, r) => Present(a, r)
          /\ \A s \in Stores : Present(s, r) /\ ~Current(s, r) =>
                table[s][r].time < table[a][r].data
          /\ \A s \in Stores : Present(a, r) /\ ~Current(s, r) =>
                \A v \in Stores : syncState[v][s].when <= table[a][r].data
      BY <1>1, <2>1 DEF IsFollowed, IsLatest
    <3>2. Present(a, r) => Current(a, r)
      BY <1>1 DEF Current
    <3>3. \A s \in Stores : Present(a, r) /\ ~Current(s, r) =>
                \A v \in Stores : syncState'[v][s].when <= table[a][r].data
      BY <1>3, <3>1, <3>2
    <3> QED BY <1>1, <1>2, <2>2, <3>1, <3>3 DEF IsLatest, Present
  <2>7. Plain(r) => HasSpender(r)'
    <3>1. \A s : SameSpender(s, r)' <=> SameSpender(s, r)
      BY <1>2 DEF SameSpender, IsSpender, Present
    <3> QED BY <2>1, <2>2, <3>1 DEF IsFollowed, HasSpender
  <2>8. IsSent(r)'
    <3> SUFFICES ASSUME NEW v \in Stores, NEW s \in Stores, v # s, r \in Visible(s), Current(s, r)
                 PROVE  (\/ Later(s, r, syncState[v][s].when, syncState[v][s].count[KindOf[r]])
                         \/ Got(v, s, syncState[v][s].idMap, r))'
      BY <2>2, <2>4 DEF IsSent
    <3>1. PICK since, n, map :
                 /\ since = syncState'[v][s].when /\ n = syncState'[v][s].count[KindOf[r]]
                 /\ map = syncState'[v][s].idMap
      OBVIOUS
    <3>2. Later(s, r, since, n) \/ Got(v, s, map, r)
      <4>1. CASE v = w /\ s = a
        <5>1. CASE NothingSent
          BY <1>3, <1>4, <2>5, <3>1, <4>1, <5>1
        <5>2. CASE ~NothingSent
          BY <1>3, <1>4, <2>3, <2>5, <3>1, <4>1, <5>2
        <5> QED BY <5>1, <5>2
      <4>2. CASE ~(v = w /\ s = a)
        BY <1>3, <2>1, <3>1, <4>2 DEF IsFollowed, IsSent
      <4> QED BY <4>1, <4>2
    <3>3. Later(s, r, since, n)' \/ Got(v, s, map, r)'
      BY <2>4, <3>2
    <3> QED BY <3>1, <3>3
  <2>9. IsUnderWay(r)'
    <3>1. phase' = "done" /\ r \in Visible(a) => Current(w, r)'
      BY <1>1, <1>2, <2>2, <2>5 DEF Got
    <3>2. phase' # "merge" /\ chunk' = {} /\ active' = a /\ writer' = w
      BY <1>1, <1>2
    <3> QED BY <2>4, <3>1, <3>2 DEF IsUnderWay
  <2> QED BY <2>1, <2>6, <2>7, <2>8, <2>9 DEF IsFollowed
<1>6. RoundInv'
  BY <1>2 DEF RoundInv
<1> QED
  BY <1>5, <1>6 DEF SyncInv, RowsInv

\* The store that has just been written has what the active store has.
LEMMA SwitchFollows ==
    ASSUME LinkInv, SyncInv, SetActive
    PROVE  SyncInv'
<1>1. PICK a \in Stores, w \in Stores : a = active /\ w = writer
  BY DEF LinkInv, Typed
<1>2. /\ UNCHANGED <<table, syncState, touched, chunk>> /\ active' = w /\ phase = "done"
      /\ phase' = "idle" /\ chunk' = {}
  BY <1>1 DEF SetActive, LinkInv, PhaseInv
<1>3. ASSUME NEW r \in Rows \ touched'
      PROVE  IsFollowed(r)'
  <2>1. IsFollowed(r)
    BY <1>2, <1>3 DEF SyncInv, RowsInv
  <2>2. ASSUME Plain(r)
        PROVE  /\ \A s \in Stores : Present(s, r) => Present(a, r) /\ Present(w, r)
               /\ Present(a, r) => Current(w, r)
               /\ \A s \in Stores : Present(s, r) =>
                    table[w][r].data = table[a][r].data
    <3>1. \A s \in Stores : Present(s, r) => Present(a, r)
      BY <1>1, <2>1, <2>2 DEF IsFollowed, IsLatest
    <3>2. Present(a, r) => r \in Visible(a)
      BY <2>2, PlainVisible
    <3>3. Present(a, r) => Current(w, r)
      BY <1>1, <1>2, <2>1, <3>2 DEF IsFollowed, IsUnderWay
    <3> QED BY <1>1, <2>2, <3>1, <3>3 DEF Current
  <2>3. \A s \in Stores : Current(s, r)' <=> Current(s, r)
    BY <1>1, <1>2, <2>2 DEF Current, Present
  <2>4. Plain(r) => IsLatest(r)'
    <3> SUFFICES ASSUME Plain(r) PROVE IsLatest(r)'
      OBVIOUS
    <3>1. /\ \A s \in Stores : Present(s, r) /\ ~Current(s, r) =>
                table[s][r].time < table[a][r].data
          /\ \A s \in Stores : Present(a, r) /\ ~Current(s, r) =>
                \A v \in Stores : syncState[v][s].when <= table[a][r].data
      BY <1>1, <2>1 DEF IsFollowed, IsLatest
    <3>2. /\ \A s \in Stores : Present(s, r) /\ ~Current(s, r) =>
                table[s][r].time < table[w][r].data
          /\ \A s \in Stores : Present(w, r) /\ ~Current(s, r) =>
                \A v \in Stores : syncState[v][s].when <= table[w][r].data
          /\ \A s \in Stores : Present(s, r) => Present(w, r)
      BY <2>2, <3>1
    <3> QED BY <1>2, <2>3, <3>2 DEF IsLatest, Present
  <2>5. Plain(r) => HasSpender(r)'
    <3> SUFFICES ASSUME Plain(r), KindOf[r] = "output", NEW s \in Stores, Current(s, r)
                 PROVE  SameSpender(s, r)'
      BY <2>3 DEF HasSpender
    <3> DEFINE Id(t) == table[t][r].link["spentBy"]
    <3>1. Current(w, r)
      BY <2>2 DEF Current
    <3>2. ASSUME NEW t \in Stores, SameSpender(t, r)
          PROVE  \/ Id(a) = 0 /\ Id(t) = 0
                 \/ \E q \in Rows : IsSpender(a, q, Id(a)) /\ IsSpender(t, q, Id(t))
      BY <1>1, <3>2 DEF SameSpender
    <3>3. SameSpender(w, r) /\ SameSpender(s, r)
      BY <2>1, <3>1 DEF IsFollowed, HasSpender
    <3>4. \A q : ~IsSpender(a, q, 0)
      BY DEF IsSpender, Present
    <3>5. \A p, q \in Rows : \A id : IsSpender(a, p, id) /\ IsSpender(a, q, id) => p = q
      BY DEF IsSpender, LinkInv, IdsInv
    <3>6. \/ Id(w) = 0 /\ Id(s) = 0
          \/ \E q \in Rows : IsSpender(w, q, Id(w)) /\ IsSpender(s, q, Id(s))
      <4>1. CASE Id(a) = 0
        <5>1. Id(w) = 0 /\ Id(s) = 0
          <6> HIDE DEF Id
          <6> QED BY <3>2, <3>3, <3>4, <4>1
        <5> QED BY <5>1
      <4>2. CASE Id(a) # 0
        <5> HIDE DEF Id
        <5>1. PICK p \in Rows : IsSpender(a, p, Id(a)) /\ IsSpender(w, p, Id(w))
          BY <3>2, <3>3, <4>2
        <5>2. PICK q \in Rows : IsSpender(a, q, Id(a)) /\ IsSpender(s, q, Id(s))
          BY <3>2, <3>3, <4>2
        <5>3. p = q
          BY <3>5, <5>1, <5>2
        <5> QED BY <5>1, <5>2, <5>3
      <4> QED BY <4>1, <4>2
    <3> QED BY <1>2, <3>6 DEF SameSpender, IsSpender, Present
  <2>6. IsSent(r)'
    <3> SUFFICES ASSUME NEW v \in Stores, NEW s \in Stores, v # s, r \in Visible(s)', Current(s, r)
                 PROVE  (\/ Later(s, r, syncState[v][s].when, syncState[v][s].count[KindOf[r]])
                         \/ Got(v, s, syncState[v][s].idMap, r))'
      BY <2>3 DEF IsSent
    <3>1. PICK since, n, map :
                 /\ since = syncState[v][s].when /\ n = syncState[v][s].count[KindOf[r]]
                 /\ map = syncState[v][s].idMap
      OBVIOUS
    <3>2. Later(s, r, since, n) \/ Got(v, s, map, r)
      BY <1>2, <2>1, <3>1, SameStore DEF IsFollowed, IsSent
    <3>3. Later(s, r, since, n)' \/ Got(v, s, map, r)'
      BY <1>2, <2>3, <3>2, SameStore DEF Got
    <3> QED BY <1>2, <3>1, <3>3
  <2>7. IsUnderWay(r)'
    BY <1>2 DEF IsUnderWay
  <2> QED BY <2>4, <2>5, <2>6, <2>7 DEF IsFollowed
<1>4. RoundInv'
  BY <1>2 DEF RoundInv
<1> QED
  BY <1>3, <1>4 DEF SyncInv, RowsInv

LEMMA InitFollows ==
    ASSUME Init
    PROVE  SyncInv
<1>1. LinkInv
  BY InitLinks
<1>2. /\ active = First /\ First \in Stores /\ phase = "idle" /\ chunk = {} /\ touched = {}
      /\ \A w, s \in Stores : syncState[w][s] = NewSyncState
  BY RowsAssumption DEF Init
<1>3. ASSUME NEW s \in Stores, NEW r \in Rows, Present(s, r)
      PROVE  s = First /\ r \in FirstRows /\ table[s][r].data = 0 /\ table[s][r].time = 1
  BY <1>3 DEF Init, Present, NoRow
<1>4. ASSUME NEW s \in Stores
      PROVE  /\ \A w \in Stores : syncState[w][s].when = 0
             /\ \A w \in Stores : \A k \in Kinds : syncState[w][s].count[k] = 0
  BY <1>2 DEF NewSyncState
<1>5. ASSUME NEW r \in Rows
      PROVE  IsFollowed(r)
  <2>1. IsLatest(r)
    <3>1. \A s \in Stores : Present(s, r) => s = active /\ Current(s, r)
      BY <1>2, <1>3 DEF Current
    <3>2. Present(active, r) => table[active][r].data = 0
      BY <1>2, <1>3
    <3> QED BY <1>4, <3>1, <3>2 DEF IsLatest
  <2>2. HasSpender(r)
    <3> SUFFICES ASSUME KindOf[r] = "output", NEW s \in Stores, Current(s, r)
                 PROVE  SameSpender(s, r)
      BY DEF HasSpender
    <3>1. s = active /\ Present(s, r)
      BY <1>2, <1>3 DEF Current
    <3>2. table[s][r].link["spentBy"] # 0 =>
             \E q \in Rows : IsSpender(s, q, table[s][r].link["spentBy"])
      BY <1>1, <3>1 DEF LinkInv, SpentInv
    <3> QED BY <3>1, <3>2 DEF SameSpender
  <2>3. IsSent(r)
    <3> SUFFICES ASSUME NEW w \in Stores, NEW s \in Stores, r \in Visible(s)
                 PROVE  Later(s, r, syncState[w][s].when, syncState[w][s].count[KindOf[r]])
      BY DEF IsSent
    <3>1. table[s][r].time = 1
      BY <1>3, VisibleAre
    <3>2. Later(s, r, 0, 0)
      BY <3>1, LaterAtStart DEF Changed
    <3>3. KindOf[r] \in Kinds
      BY RowsAssumption
    <3> QED BY <1>4, <3>2, <3>3
  <2>4. IsUnderWay(r)
    BY <1>2 DEF IsUnderWay
  <2> QED BY <2>1, <2>2, <2>3, <2>4 DEF IsFollowed
<1> QED
  BY <1>2, <1>5 DEF SyncInv, RowsInv, RoundInv
-----------------------------------------------------------------------------
(* Merges are followed.                                                    *)

\* What a merge from the active store a changes in the writer w.
LEMMA MergeChanges ==
    ASSUME LinkInv, NEW x, NEW row, Merged(x, row), NEW r, r = x.row,
           NEW a \in Stores, a = active, NEW w \in Stores, w = writer
    PROVE  /\ r \in Rows /\ w # a /\ table'[w][r] = row /\ Present(w, r)' /\ IdsStay
           /\ \A t \in Stores : \A q \in Rows : t # w \/ q # r =>
                table'[t][q] = table[t][q] /\ (Present(t, q)' <=> Present(t, q))
           /\ \A t \in Stores : t # w => table'[t] = table[t]
           /\ active' = a /\ writer' = w /\ phase = "merge" /\ x \in chunk /\ chunk' = chunk \ {x}
           /\ UNCHANGED <<syncState, now, phase, sent>>
           /\ ss'.when = ss.when /\ ss'.count = ss.count
           /\ ss'.idMap = ss.idMap \cup WithId(r, x.ei, row.id)
<1>1. /\ phase = "merge" /\ x \in chunk /\ row = MergeFor(r, x.ei) /\ ~Refused(r, row)
      /\ Put(w, r, row) /\ Typed /\ IdsInv /\ w # a
  BY DEF Merged, LinkInv, PhaseInv
<1>2. r \in Rows /\ row \in Records /\ Fits(w, r, row)
  BY <1>1, MergeFits DEF RecordOf
<1>3. row.id = IF Present(w, r) THEN table[w][r].id ELSE NewId(w, KindOf[r])
  BY <1>2 DEF Fits
<1>4. /\ table'[w][r] = row /\ Present(w, r)' /\ IdsStay
      /\ \A t \in Stores : \A q \in Rows : t # w \/ q # r =>
           table'[t][q] = table[t][q] /\ (Present(t, q)' <=> Present(t, q))
  BY <1>1, <1>2, <1>3, PutRow
<1>5. \A t \in Stores : t # w => table'[t] = table[t]
  BY <1>1 DEF Put, Typed
<1>6. ss \in SyncStates
  BY <1>1 DEF Typed, StateOf
<1>7. /\ ss'.when = ss.when /\ ss'.count = ss.count
      /\ ss'.idMap = ss.idMap \cup WithId(r, x.ei, row.id)
  BY <1>6 DEF Merged, SyncStates
<1> QED
  BY <1>1, <1>2, <1>4, <1>5, <1>7 DEF Merged

\* What becomes the user's in the writer is new enough to be sent from there.
LEMMA NewInWriter ==
    ASSUME LinkInv, NEW x, NEW row, Merged(x, row), NEW w \in Stores, w = writer, ~CutOff(w),
           NEW q \in Rows \ touched', q \notin Visible(w), q \in Visible(w)', ~Plain(q),
           NEW v \in Stores
    PROVE  table'[w][q].time >= syncState[v][w].when
<1>1. q \in Newly(w) /\ q \notin Late(w)
  BY DEF Merged, Newly
<1>2. ~(table'[w][q].time < syncState[v][w].when)
  BY <1>1 DEF Late, Plain
<1>3. table'[w][q].time \in Nat /\ syncState[v][w].when \in Nat
  BY MergeLinks DEF LinkInv, Typed, Records, SyncStates
<1> QED
  BY <1>2, <1>3

\* A row that a merge leaves alone.
LEMMA MergeFollowsOther ==
    ASSUME LinkInv, SyncInv, NEW x, NEW row, Merged(x, row), NEW q \in Rows \ touched', q # x.row,
           NEW a \in Stores, a = active, NEW w \in Stores, w = writer, ~CutOff(w)
    PROVE  IsFollowed(q)'
<1>1. PICK r : r = x.row
  OBVIOUS
<1>2. /\ r \in Rows /\ w # a /\ IdsStay /\ LinkInv' /\ q \in Rows
      /\ \A t \in Stores : table'[t][q] = table[t][q] /\ (Present(t, q)' <=> Present(t, q))
      /\ \A t \in Stores : t # w => table'[t] = table[t]
      /\ active' = a /\ writer' = w /\ phase = "merge" /\ x \in chunk /\ chunk' = chunk \ {x}
      /\ UNCHANGED <<syncState, now, phase, sent>>
      /\ ss'.when = ss.when /\ ss'.count = ss.count /\ ss.idMap \subseteq ss'.idMap
  BY <1>1, MergeChanges, MergeLinks
<1>3. IsFollowed(q)
  BY DEF Merged, SyncInv, RowsInv
<1>4. \A t \in Stores : Current(t, q)' <=> Current(t, q)
  BY <1>2 DEF Current
<1>5. \A t, v \in Stores : \A map : /\ Told(map, t, q)' <=> Told(map, t, q)
                                    /\ Got(v, t, map, q)' <=> Got(v, t, map, q)
  <2>1. \A t \in Stores : \A map : Told(map, t, q)' <=> Told(map, t, q)
    BY <1>2 DEF Told
  <2> QED BY <1>4, <2>1 DEF Got
<1>6. Plain(q) => IsLatest(q)'
  BY <1>2, <1>3, <1>4 DEF IsFollowed, IsLatest
<1>7. Plain(q) => HasSpender(q)'
  <2> SUFFICES ASSUME Plain(q), KindOf[q] = "output", NEW s \in Stores, Current(s, q)
               PROVE  SameSpender(s, q)'
    BY <1>4 DEF HasSpender
  <2>1. SameSpender(s, q)
    BY <1>3 DEF IsFollowed, HasSpender
  <2> QED BY <1>2, <2>1 DEF SameSpender, IsSpender, IdsStay
<1>8. IsSent(q)'
  <2> SUFFICES ASSUME NEW v \in Stores, NEW s \in Stores, v # s, q \in Visible(s)', Current(s, q)
               PROVE  (\/ Later(s, q, syncState[v][s].when, syncState[v][s].count[KindOf[q]])
                       \/ Got(v, s, syncState[v][s].idMap, q))'
    BY <1>4 DEF IsSent
  <2>1. PICK since, n, map :
               /\ since = syncState[v][s].when /\ n = syncState[v][s].count[KindOf[q]]
               /\ map = syncState[v][s].idMap
    OBVIOUS
  <2> SUFFICES Later(s, q, since, n)' \/ Got(v, s, map, q)'
    BY <1>2, <2>1
  <2>2. q \in Visible(s) => Later(s, q, since, n) \/ Got(v, s, map, q)
    BY <1>3, <2>1 DEF IsFollowed, IsSent
  <2>3. CASE s # w
    BY <1>2, <1>5, <2>2, <2>3, SameStore
  <2>4. CASE s = w
    <3>1. n = 0
      BY <2>1, <2>4, NotCutOff DEF LinkInv
    <3>2. SUFFICES ASSUME Changed(s, q, since)' PROVE Later(s, q, since, n)'
                   \/ (q \in Visible(s) /\ Got(v, s, map, q))
      <4>1. CASE q \in Visible(s)
        <5>1. CASE Later(s, q, since, n)
          <6>1. Changed(s, q, since)'
            BY <1>2, <5>1 DEF Later, Changed
          <6> QED BY <1>5, <3>2, <6>1
        <5> QED BY <1>5, <2>2, <4>1, <5>1
      <4>2. CASE q \notin Visible(s)
        <5>1. ~Plain(q)
          <6>1. SUFFICES ASSUME Plain(q) PROVE FALSE
            OBVIOUS
          <6>2. Present(s, q)'
            BY <1>2, <6>1, PlainVisibleNext
          <6>3. Present(s, q)
            BY <1>2, <6>2
          <6> QED BY <4>2, <6>1, <6>3, PlainVisible
        <5>2. table'[s][q].time >= since
          BY <2>1, <2>4, <4>2, <5>1, NewInWriter
        <5>3. Changed(s, q, since)'
          BY <5>2 DEF Changed
        <5> QED BY <1>5, <3>2, <5>3
      <4> QED BY <4>1, <4>2
    <3> QED BY <3>1, <3>2, LaterAtStartNext
  <2> QED BY <2>3, <2>4
<1>9. IsUnderWay(q)'
  <2>1. PICK since, n, map, map2 :
               /\ since = ss.when /\ n = ss.count[KindOf[q]] + sent[KindOf[q]]
               /\ map = ss.idMap /\ map2 = ss'.idMap
    OBVIOUS
  <2>2. \A y \in chunk' : y \in chunk
    BY <1>2
  <2>3. /\ \A y \in chunk : y.row = q => y.ei = table[a][q]
        /\ q \in Visible(a) =>
             /\ Later(a, q, since, n) \/ InChunk(q) \/ Got(w, a, map, q)
             /\ \A y \in chunk : Place[KindOf[q]] < Place[KindOf[y.row]] =>
                  InChunk(q) \/ Got(w, a, map, q)
             /\ NothingSent => Got(w, a, map, q)
    BY <1>2, <1>3, <2>1 DEF IsFollowed, IsUnderWay
  <2>4. InChunk(q) => InChunk(q)'
    <3> SUFFICES ASSUME NEW y \in chunk, y.row = q PROVE InChunk(q)'
      BY DEF InChunk
    <3>1. y \in chunk'
      BY <1>2
    <3> QED BY <3>1 DEF InChunk
  <2>5. Got(w, a, map, q) => Got(w, a, map2, q)'
    <3>1. Told(map, a, q) => Told(map2, a, q)
      BY <1>2, <2>1 DEF Told
    <3> QED BY <1>5, <3>1 DEF Got
  <2>6. /\ Later(a, q, since, n)' <=> Later(a, q, since, n)
        /\ q \in Visible(a)' <=> q \in Visible(a)
    BY <1>2, SameStore
  <2>7. NothingSent' <=> NothingSent
    BY <1>2 DEF NothingSent
  <2>8. q \in Visible(a)' =>
             /\ Later(a, q, since, n)' \/ InChunk(q)' \/ Got(w, a, map2, q)'
             /\ \A y \in chunk' : Place[KindOf[q]] < Place[KindOf[y.row]] =>
                  InChunk(q)' \/ Got(w, a, map2, q)'
             /\ NothingSent' => Got(w, a, map2, q)'
    BY <2>2, <2>3, <2>4, <2>5, <2>6, <2>7
  <2>9. \A y \in chunk' : y.row = q => y.ei = table'[a][q]
    BY <1>2, <2>2, <2>3
  <2> QED BY <1>2, <2>1, <2>8, <2>9 DEF IsUnderWay
<1> QED
  BY <1>6, <1>7, <1>8, <1>9 DEF IsFollowed

\* A transaction or another parent that was missed by no sync was merged before what needs it.
LEMMA NeededIsMapped ==
    ASSUME LinkInv, SyncInv, phase = "merge", NEW x \in chunk, x = FirstOf(chunk),
           NEW q \in Rows \ touched, Plain(q), Present(active, q), HasId(q),
           Place[KindOf[q]] < Place[KindOf[x.row]]
    PROVE  Mapped(KindOf[q], table[active][q].id) # 0
<1>1. IsUnderWay(q) /\ active \in Stores
  BY DEF SyncInv, RowsInv, IsFollowed, LinkInv, Typed
<1>2. q \in Visible(active)
  BY <1>1, PlainVisible
<1>3. InChunk(q) \/ Got(writer, active, ss.idMap, q)
  BY <1>1, <1>2 DEF IsUnderWay
<1>4. ~InChunk(q)
  <2> SUFFICES ASSUME NEW y \in chunk, y.row = q PROVE FALSE
    BY DEF InChunk
  <2>1. Place[KindOf[x.row]] <= Place[KindOf[q]]
    BY FirstIs
  <2>2. x.row \in Rows /\ KindOf[x.row] \in Kinds /\ KindOf[q] \in Kinds
    BY RowsAssumption DEF LinkInv, Typed
  <2>3. Place[KindOf[x.row]] \in Nat /\ Place[KindOf[q]] \in Nat
    BY <2>2, KindsAre
  <2> QED BY <2>1, <2>3
<1>5. \E m \in ss.idMap : m.kind = KindOf[q] /\ m.from = table[active][q].id
  BY <1>3, <1>4 DEF Got, Told
<1> QED
  BY <1>5, MappedNames

\* What a merge of a row that has versions leaves in the writer w.
LEMMA MergedIs ==
    ASSUME LinkInv, NEW x, NEW row, Merged(x, row), NEW r, r = x.row, Plain(r),
           NEW w \in Stores, w = writer
    PROVE  \/ /\ row.data = x.ei.data
              /\ KindOf[r] = "output" => row.link["spentBy"] = Via("spentBy", x.ei)
              /\ row.time = now \/ (~Present(w, r) /\ row.time = x.ei.time)
           \/ /\ Present(w, r) /\ row = table[w][r] /\ x.ei.time <= row.time
<1>1. /\ phase = "merge" /\ x \in chunk /\ row = MergeFor(r, x.ei) /\ ~Refused(r, row) /\ Typed
  BY DEF Merged, LinkInv
<1>2. r \in Rows /\ RecordOf(r, x.ei) /\ RecordOf(r, row) /\ (Found(r, x.ei) <=> Present(w, r))
  BY <1>1, MergeFits
<1>3. PICK ei, eo : ei = x.ei /\ eo = table[w][r]
  OBVIOUS
<1>4. CASE Present(w, r)
  <2>1. IF ei.time > eo.time THEN Takes(r, ei, row) ELSE row = eo
    BY <1>1, <1>2, <1>3, <1>4, MergedRow
  <2>2. ei.time \in Nat /\ row.time \in Nat
    BY <1>1, <1>2, <1>3, RecordHas DEF Typed
  <2>3. CASE ei.time > eo.time
    <3>1. Takes(r, ei, row)
      BY <2>1, <2>3
    <3>2. /\ row.data = ei.data /\ row.time = now
          /\ KindOf[r] = "output" => row.link["spentBy"] = Via("spentBy", ei)
      BY <3>1 DEF Takes
    <3>3. Via("spentBy", ei) = Via("spentBy", x.ei)
      BY <1>3
    <3> QED BY <1>3, <3>2, <3>3
  <2>4. CASE ~(ei.time > eo.time)
    <3>1. row = eo
      BY <2>1, <2>4
    <3>2. ei.time <= row.time
      BY <2>2, <2>4, <3>1
    <3> QED BY <1>3, <1>4, <3>1, <3>2
  <2> QED BY <2>3, <2>4
<1>5. CASE ~Present(w, r)
  <2>1. row = Inserted(r, ei)
    BY <1>1, <1>2, <1>3, <1>5, MergedRow
  <2>2. /\ row.data = ei.data /\ row.time = ei.time
        /\ \A f \in LinksOf(KindOf[r]) : row.link[f] = Via(f, ei)
    BY <1>1, <1>2, <1>3, <2>1, InsertedIs
  <2>3. KindOf[r] = "output" => "spentBy" \in LinksOf(KindOf[r])
    BY DEF LinksOf, OutputLinks
  <2> QED BY <1>3, <1>5, <2>2, <2>3
<1> QED
  BY <1>4, <1>5

\* The row that is merged.
LEMMA MergeFollowsRow ==
    ASSUME LinkInv, SyncInv, NEW x, NEW row, Merged(x, row), NEW r \in Rows \ touched', r = x.row,
           NEW a \in Stores, a = active, NEW w \in Stores, w = writer, ~CutOff(w)
    PROVE  IsFollowed(r)'
<1>1. /\ r \in Rows /\ w # a /\ table'[w][r] = row /\ Present(w, r)' /\ IdsStay
      /\ \A t \in Stores : t # w =>
           table'[t] = table[t] /\ (Present(t, r)' <=> Present(t, r))
      /\ active' = a /\ writer' = w /\ phase = "merge" /\ x \in chunk /\ chunk' = chunk \ {x}
      /\ UNCHANGED <<syncState, now, phase, sent>>
      /\ ss'.when = ss.when /\ ss'.count = ss.count
      /\ ss'.idMap = ss.idMap \cup WithId(r, x.ei, row.id)
  BY MergeChanges
<1>2. r \notin touched /\ r \notin LinkLost(x) /\ x = FirstOf(chunk)
  BY DEF Merged
<1>3. IsFollowed(r) /\ LinkInv' /\ Typed /\ now \in Nat
  BY <1>2, MergeLinks DEF SyncInv, RowsInv, LinkInv, Typed
<1>4. PICK ei : ei = x.ei
  OBVIOUS
<1>5. ei = table[a][r] /\ ei = table'[a][r] /\ ItemOf(x)
  BY <1>1, <1>3, <1>4 DEF IsFollowed, IsUnderWay, LinkInv, ItemsInv
<1>6. Present(a, r) /\ RecordOf(r, ei)
  BY <1>3, <1>5, RowIs DEF ItemOf
<1>7. Plain(r) =>
        \/ /\ row.data = ei.data
           /\ KindOf[r] = "output" => row.link["spentBy"] = Via("spentBy", x.ei)
           /\ row.time = now \/ (~Present(w, r) /\ row.time = ei.time)
        \/ /\ Present(w, r) /\ row = table[w][r] /\ ei.time <= row.time
  BY <1>4, MergedIs
<1>8. ei.data \in Nat /\ ei.time \in Nat /\ ei.data <= ei.time /\ ei.time <= now
  BY <1>3, <1>6, RecordHas
<1>9. \A t \in Stores : t # w => (Current(t, r)' <=> Current(t, r))
  BY <1>1, <1>5 DEF Current
<1>10. Plain(r) /\ Present(w, r) /\ row = table[w][r] /\ ei.time <= row.time => Current(w, r)
  <2> SUFFICES ASSUME Plain(r), Present(w, r), row = table[w][r], ei.time <= row.time,
                      ~Current(w, r)
               PROVE  FALSE
    OBVIOUS
  <2>1. row.time < ei.data
    BY <1>3, <1>5 DEF IsFollowed, IsLatest
  <2>2. row.time \in Nat
    BY <1>3 DEF Typed, Records
  <2> QED BY <1>8, <2>1, <2>2
<1>11. Current(w, r)'
  <2>1. Plain(r) => row.data = ei.data
    <3>1. Plain(r) /\ Current(w, r) => table[w][r].data = ei.data
      BY <1>5 DEF Current
    <3> QED BY <1>7, <1>10, <3>1
  <2> QED BY <1>1, <1>5, <2>1 DEF Current
<1>12. Plain(r) => IsLatest(r)'
  <2>1. \A s \in Stores : s # w => table'[s][r] = table[s][r]
    BY <1>1
  <2>2. Present(a, r)'
    BY <1>1, <1>6
  <2> QED BY <1>1, <1>3, <1>6, <1>9, <1>11, <2>1, <2>2 DEF IsFollowed, IsLatest
<1>13. Plain(r) => HasSpender(r)'
  <2> SUFFICES ASSUME Plain(r), KindOf[r] = "output", NEW s \in Stores, Current(s, r)'
               PROVE  SameSpender(s, r)'
    BY DEF HasSpender
  <2>1. \A t \in Stores, q \in Rows : \A id : IsSpender(t, q, id) => IsSpender(t, q, id)'
    BY <1>1 DEF IsSpender, IdsStay
  <2>2. CASE s # w
    <3>1. SameSpender(s, r)
      BY <1>3, <1>9, <2>2 DEF IsFollowed, HasSpender
    <3> QED BY <1>1, <2>1, <2>2, <3>1 DEF SameSpender
  <2>3. CASE s = w /\ Present(w, r) /\ row = table[w][r] /\ ei.time <= row.time
    <3>1. SameSpender(s, r)
      BY <1>3, <1>10, <2>3 DEF IsFollowed, HasSpender
    <3> QED BY <1>1, <2>1, <2>3, <3>1 DEF SameSpender
  <2>4. CASE s = w /\ row.link["spentBy"] = Via("spentBy", x.ei)
    <3>1. Via("spentBy", x.ei) \in Nat
      BY <1>3, MappedType DEF Via
    <3>2. CASE Via("spentBy", x.ei) # 0
      <4>1. PICK q \in Rows : /\ IsSpender(active, q, x.ei.link["spentBy"])
                              /\ IsSpender(writer, q, Via("spentBy", x.ei))
        BY <1>1, <3>2, SpenderNames
      <4>2. IsSpender(a, q, ei.link["spentBy"])' /\ IsSpender(w, q, row.link["spentBy"])'
        BY <1>4, <2>1, <2>4, <4>1 DEF IsSpender
      <4> QED BY <1>1, <1>5, <2>4, <4>2 DEF SameSpender
    <3>3. CASE Via("spentBy", x.ei) = 0 /\ ei.link["spentBy"] # 0
      <4>1. PICK q \in Rows : IsSpender(a, q, ei.link["spentBy"])
        BY <1>4, <1>5, <3>3 DEF ItemOf
      <4>2. KindOf[q] = "transaction" /\ Present(a, q) /\ table[a][q].id = x.ei.link["spentBy"]
        BY <1>4, <4>1 DEF IsSpender
      <4>3. q \notin touched
        BY <1>2, <3>3, <4>2 DEF LinkLost, IsLate, FieldKind
      <4>4. Plain(q) /\ HasId(q) /\ Place[KindOf[q]] < Place[KindOf[x.row]]
        BY <4>2 DEF Plain, ProofKinds, HasId, Place
      <4>5. Mapped(KindOf[q], table[a][q].id) # 0
        BY <1>1, <1>2, <4>2, <4>3, <4>4, NeededIsMapped
      <4>6. Via("spentBy", x.ei) = Mapped(KindOf[q], table[a][q].id)
        BY <4>2 DEF Via, FieldKind
      <4> QED BY <3>3, <4>5, <4>6
    <3>4. CASE Via("spentBy", x.ei) = 0 /\ ei.link["spentBy"] = 0
      BY <1>1, <1>5, <2>4, <3>4 DEF SameSpender
    <3> QED BY <3>2, <3>3, <3>4
  <2> QED BY <1>7, <2>2, <2>3, <2>4
<1>14. IsSent(r)'
  <2> SUFFICES ASSUME NEW v \in Stores, NEW s \in Stores, v # s, r \in Visible(s)', Current(s, r)'
               PROVE  (\/ Later(s, r, syncState[v][s].when, syncState[v][s].count[KindOf[r]])
                       \/ Got(v, s, syncState[v][s].idMap, r))'
    BY DEF IsSent
  <2>1. PICK since, n, map :
               /\ since = syncState[v][s].when /\ n = syncState[v][s].count[KindOf[r]]
               /\ map = syncState[v][s].idMap
    OBVIOUS
  <2> SUFFICES Later(s, r, since, n)' \/ Got(v, s, map, r)'
    BY <1>1, <2>1
  <2>2. r \in Visible(s) /\ Current(s, r) => Later(s, r, since, n) \/ Got(v, s, map, r)
    BY <1>3, <2>1 DEF IsFollowed, IsSent
  <2>3. since \in Nat /\ since <= now
    BY <1>3, <2>1 DEF Typed, StateOf, SyncStates
  <2>4. CASE s # w
    <3>1. r \in Visible(s) /\ (Later(s, r, since, n)' <=> Later(s, r, since, n))
          /\ (Told(map, s, r)' <=> Told(map, s, r))
      BY <1>1, <2>4, SameStore
    <3>2. Current(v, r) => Current(v, r)'
      BY <1>9, <1>11
    <3> QED BY <1>9, <2>2, <2>4, <3>1, <3>2 DEF Got
  <2>5. CASE s = w
    <3>1. n = 0
      BY <1>3, <2>1, <2>5, NotCutOff
    <3>2. CASE row.time >= since
      <4>1. Changed(s, r, since)'
        BY <1>1, <2>5, <3>2 DEF Changed
      <4> QED BY <3>1, <4>1, LaterAtStartNext
    <3>3. CASE row = table[w][r] /\ r \in Visible(w) /\ Current(w, r)
      <4>1. CASE Later(s, r, since, n)
        <5>1. row.time >= since
          BY <2>5, <3>3, <4>1 DEF Later, Changed
        <5> QED BY <3>2, <5>1
      <4>2. CASE Got(v, s, map, r)
        <5>1. Current(v, r)'
          BY <1>9, <2>5, <4>2 DEF Got
        <5>2. Told(map, s, r)'
          BY <1>1, <2>5, <3>3, <4>2 DEF Got, Told
        <5> QED BY <5>1, <5>2 DEF Got
      <4> QED BY <2>2, <2>5, <3>3, <4>1, <4>2
    <3>4. CASE Plain(r) /\ Present(w, r)
      <4>1. r \in Visible(w)
        BY <3>4, PlainVisible
      <4>2. row.time = now => row.time >= since
        BY <1>3, <2>3
      <4> QED BY <1>7, <1>10, <3>2, <3>3, <3>4, <4>1, <4>2
    <3>5. CASE Plain(r) /\ ~Present(w, r)
      <4>1. since <= ei.data
        BY <1>3, <1>5, <1>6, <2>1, <2>5, <3>5 DEF IsFollowed, IsLatest, Current
      <4>2. row.time = now \/ row.time = ei.time
        BY <1>7, <3>5
      <4>3. row.time >= since
        BY <1>3, <1>8, <2>3, <4>1, <4>2
      <4> QED BY <3>2, <4>3
    <3>6. CASE ~Plain(r) /\ r \notin Visible(w)
      <4>1. table'[w][r].time >= since
        BY <2>1, <2>5, <3>6, NewInWriter
      <4> QED BY <1>1, <3>2, <4>1
    <3>7. CASE ~Plain(r) /\ r \in Visible(w)
      <4>1. Present(w, r) /\ Current(w, r)
        BY <3>7, VisibleAre DEF Current
      <4>2. row = MergeFor(r, x.ei) /\ ~Refused(r, row)
        BY DEF Merged
      <4>3. Found(r, ei)
        BY <1>1, <1>4, <4>1, <4>2, MergeFits
      <4>4. /\ KindOf[r] = "provenTx" => row = table[w][r]
            /\ KindOf[r] = "provenTxReq" => row.time = now
        BY <1>3, <1>4, <1>6, <4>2, <4>3, MergedRow
      <4>5. row.time = now => row.time >= since
        BY <1>3, <2>3
      <4> QED BY <3>2, <3>3, <3>7, <4>1, <4>4, <4>5 DEF Plain, ProofKinds
    <3> QED BY <3>4, <3>5, <3>6, <3>7
  <2> QED BY <2>4, <2>5
<1>15. IsUnderWay(r)'
  <2>1. PICK map2 : map2 = ss'.idMap
    OBVIOUS
  <2>2. Told(map2, a, r)'
    <3> SUFFICES ASSUME HasId(r)
                 PROVE  \E m \in map2 : m.kind = KindOf[r] /\ m.from = table'[a][r].id
      BY DEF Told
    <3>1. [kind |-> KindOf[r], from |-> x.ei.id, to |-> row.id] \in map2
      BY <1>1, <2>1 DEF WithId
    <3> QED BY <1>4, <1>5, <3>1
  <2>3. Got(w, a, map2, r)'
    BY <1>11, <2>2 DEF Got
  <2>4. \A y \in chunk' : y.row = r => y.ei = table'[a][r]
    BY <1>1, <1>3, <1>5 DEF IsFollowed, IsUnderWay
  <2> QED BY <1>1, <2>1, <2>3, <2>4 DEF IsUnderWay
<1> QED
  BY <1>12, <1>13, <1>14, <1>15 DEF IsFollowed

\* Every turn of the merge loop keeps the rows followed.
LEMMA MergeFollows ==
    ASSUME LinkInv, SyncInv, NEW x, NEW row, Merged(x, row)
    PROVE  SyncInv'
<1>1. PICK a \in Stores, w \in Stores : a = active /\ w = writer
  BY DEF LinkInv, Typed
<1>2. ASSUME NEW r \in Rows \ touched'
      PROVE  IsFollowed(r)'
  <2>1. ~CutOff(w)
    BY <1>1, <1>2 DEF Merged
  <2> QED BY <1>1, <1>2, <2>1, MergeFollowsRow, MergeFollowsOther
<1>3. RoundInv'
  <2>1. /\ phase = "merge" /\ x \in chunk /\ UNCHANGED <<syncState, sent>>
        /\ active' = a /\ writer' = w /\ ss'.when = ss.when /\ ss'.count = ss.count
    BY <1>1, MergeChanges
  <2>2. /\ ss.when = syncState[w][a].when /\ ss.count = syncState[w][a].count /\ ~NothingSent
    BY <1>1, <2>1 DEF SyncInv, RoundInv
  <2>3. ~NothingSent'
    BY <2>1, <2>2 DEF NothingSent
  <2> QED BY <2>1, <2>2, <2>3 DEF RoundInv
<1> QED
  BY <1>2, <1>3 DEF SyncInv, RowsInv

-----------------------------------------------------------------------------
(* No step loses a row that was not touched.                               *)

LEMMA SyncHolds == Spec => [](LinkInv /\ SyncInv)
<1>1. Init => LinkInv /\ SyncInv
  BY InitLinks, InitFollows
<1>2. LinkInv /\ SyncInv /\ [Next]_vars => LinkInv' /\ SyncInv'
  <2> SUFFICES ASSUME LinkInv, SyncInv, [Next]_vars PROVE LinkInv' /\ SyncInv'
    OBVIOUS
  <2>1. LinkInv'
    BY NextLinks
  <2>2. SyncInv'
    BY StepsAre, WriteFollows, MergeFollows, RequestFollows, EndFollows, BeginFollows,
       SwitchFollows, StutterFollows
  <2> QED BY <2>1, <2>2
<1> QED
  BY <1>1, <1>2, PTL DEF Spec

-----------------------------------------------------------------------------
(* What the syncs promise.                                                 *)

\* The row a link of row r names.
LEMMA LinkedRow ==
    ASSUME LinkInv, NEW s \in Stores, NEW q \in Rows, Present(s, q)
    PROVE  (CHOOSE p \in RowsOfKind(s, KindOf[q]) : table[s][p].id = table[s][q].id) = q
<1>1. q \in RowsOfKind(s, KindOf[q])
  BY DEF RowsOfKind
<1>2. \A p \in RowsOfKind(s, KindOf[q]) : table[s][p].id = table[s][q].id => p = q
  BY DEF RowsOfKind, LinkInv, IdsInv
<1> QED
  BY <1>1, <1>2

\* The links that travel are those a row may not be without, and the spender of an output.
LEMMA TravellingAre ==
    ASSUME NEW r \in Rows, NEW f \in LinksOf(KindOf[r]) \cap Travelling
    PROVE  f \notin Nullable \/ (f = "spentBy" /\ KindOf[r] = "output")
<1>1. KindOf[r] \in Kinds
  BY RowsAssumption
<1> QED
  BY <1>1, KindsAre DEF Travelling, Nullable, LinksOf, TransactionLinks, OutputLinks,
     TxLabelMapLinks, OutputTagMapLinks, CertificateFieldLinks, CommissionLinks, ProvenTxReqLinks

\* syncToWriter, getSyncChunk, processSyncChunk and the merges: a sync that has ended leaves in
\* the writer every row of the user's that was not changed while a sync was reading, with the
\* reader's data and with links to the same rows.  It holds for any number of stores and rows,
\* wherever chunks end and syncs are cut off, and whichever stores were active before.
THEOREM BackupIsComplete == Spec => []BackupMatches
<1>1. LinkInv /\ SyncInv => BackupMatches
  <2> SUFFICES ASSUME LinkInv, SyncInv, phase = "done", NEW r \in Visible(active) \ touched
               PROVE  SameRow(active, writer, r, Travelling)
    BY DEF BackupMatches
  <2>1. PICK a \in Stores, w \in Stores : a = active /\ w = writer
    BY DEF LinkInv, Typed
  <2>2. r \in Rows /\ Present(a, r)
    BY <2>1, VisibleAre
  <2>3. IsFollowed(r) /\ Current(w, r)
    BY <2>1, <2>2 DEF SyncInv, RowsInv, IsFollowed, IsUnderWay
  <2>4. Present(w, r) /\ (Plain(r) => table[w][r].data = table[a][r].data)
    BY <2>1, <2>3 DEF Current
  <2>5. ASSUME NEW f \in LinksOf(KindOf[r]) \cap Travelling, NEW id, id = table[a][r].link[f],
               NEW q, q = CHOOSE p \in RowsOfKind(a, FieldKind[f]) : table[a][p].id = id
        PROVE  table[w][r].link[f] = IF id = 0 THEN 0 ELSE table[w][q].id
    <3>1. CASE f \notin Nullable
      <4>1. PICK p : p = Refs[r][f]
        OBVIOUS
      <4>2. p \in Rows /\ KindOf[p] = FieldKind[f]
        BY <2>2, <2>5, <3>1, <4>1, KeysAre
      <4>3. /\ Present(a, p) /\ table[a][r].link[f] = table[a][p].id
            /\ Present(w, p) /\ table[w][r].link[f] = table[w][p].id
        BY <2>2, <2>4, <2>5, <3>1, <4>1 DEF LinkInv, KeysInv
      <4>4. q = p
        BY <2>5, <4>2, <4>3, LinkedRow
      <4>5. id # 0
        BY <2>5, <4>3 DEF Present
      <4> QED BY <4>3, <4>4, <4>5
    <3>2. CASE f = "spentBy" /\ KindOf[r] = "output"
      <4>1. SameSpender(w, r)
        BY <2>3, <3>2 DEF IsFollowed, HasSpender, Plain, ProofKinds
      <4>2. CASE id = 0
        <5>1. ~(\E p \in Rows : IsSpender(a, p, id))
          BY <4>2 DEF IsSpender, Present
        <5> QED BY <2>1, <2>5, <3>2, <4>1, <4>2, <5>1 DEF SameSpender
      <4>3. CASE id # 0
        <5>1. PICK p \in Rows : IsSpender(a, p, id) /\ IsSpender(w, p, table[w][r].link[f])
          BY <2>1, <2>5, <3>2, <4>1, <4>3 DEF SameSpender
        <5>2. /\ KindOf[p] = FieldKind[f] /\ Present(a, p) /\ table[a][p].id = id
              /\ table[w][p].id = table[w][r].link[f]
          BY <3>2, <5>1 DEF IsSpender, FieldKind
        <5>3. q = p
          BY <2>5, <5>2, LinkedRow
        <5> QED BY <4>3, <5>2, <5>3
      <4> QED BY <4>2, <4>3
    <3> QED BY <2>2, <2>5, <3>1, <3>2, TravellingAre
  <2> QED BY <2>1, <2>4, <2>5 DEF SameRow, Plain
<1> QED
  BY <1>1, SyncHolds, PTL

\* Why a merge throws: never because a parent that was not touched is not there yet.
LEMMA ThrowsAre ==
    ASSUME LinkInv, SyncInv, MergeThrows
    PROVE  thrown' = "key"
<1>1. PICK x, r, ei, row :
           x = FirstOf(chunk) /\ r = x.row /\ ei = x.ei /\ row = MergeFor(r, ei)
  OBVIOUS
<1>2. /\ phase = "merge" /\ x \in chunk /\ (Refused(r, row) \/ Overrides(r, ei, row.id))
      /\ thrown' = IF ~Refused(r, row) THEN "override"
                   ELSE IF \E f \in Required(row) : row.link[f] = 0 /\ ~IsLate(f, ei)
                        THEN "parent" ELSE "key"
  BY <1>1, FirstIs DEF MergeThrows
<1>3. /\ Typed /\ r \in Rows /\ KindOf[r] \in Kinds /\ RecordOf(r, ei) /\ ItemOf(x)
      /\ active \in Stores /\ writer \in Stores
  BY <1>1, <1>2, RowsAssumption DEF LinkInv, Typed, ItemsInv
<1>4. ASSUME ~Refused(r, row)
      PROVE  FALSE
  <2>1. HasId(r) /\ Mapped(KindOf[r], ei.id) # 0 /\ Mapped(KindOf[r], ei.id) # row.id
    BY <1>2, <1>4 DEF Overrides
  <2>2. Present(active, r) /\ ei.id = table[active][r].id
    BY <1>1, <1>3 DEF ItemOf
  <2>3. Present(writer, r) /\ Mapped(KindOf[r], ei.id) = table[writer][r].id
    BY <1>2, <1>3, <2>1, <2>2, MappedNames
  <2>4. Fits(writer, r, row)
    BY <1>1, <1>2, <1>4, MergeFits
  <2> QED BY <2>1, <2>3, <2>4 DEF Fits
<1>5. ASSUME NEW f \in Required(row), row.link[f] = 0, ~IsLate(f, ei)
      PROVE  FALSE
  <2>1. PICK eo : eo = table[writer][r]
    OBVIOUS
  <2>2. /\ RecordOf(r, row) /\ (Found(r, ei) => Keeps(eo, row))
        /\ ~Found(r, ei) => row = Inserted(r, ei)
    BY <1>1, <1>3, <2>1, MergedRow, InsertedIs
  <2>3. f \in LinksOf(KindOf[r]) \ Nullable
    BY <2>2 DEF RecordOf, Required
  <2>4. PICK q : q = Refs[r][f]
    OBVIOUS
  <2>5. CASE Found(r, ei)
    <3>1. Present(writer, r) /\ RecordOf(r, eo)
      BY <1>3, <2>1, <2>5, RowIs DEF Found
    <3>2. row.link[f] = eo.link[f]
      BY <2>2, <2>3, <2>5, <3>1 DEF Keeps, RecordOf
    <3>3. Present(writer, q) /\ eo.link[f] = table[writer][q].id
      BY <1>3, <2>1, <2>3, <2>4, <3>1 DEF LinkInv, KeysInv
    <3> QED BY <1>5, <3>2, <3>3 DEF Present
  <2>6. CASE ~Found(r, ei)
    <3>1. row.link[f] = Via(f, ei)
      BY <1>1, <1>3, <2>2, <2>3, <2>6, InsertedIs
    <3>2. /\ q \in Rows /\ KindOf[q] = FieldKind[f] /\ Present(active, q)
          /\ ei.link[f] = table[active][q].id
          /\ Via(f, ei) = Mapped(KindOf[q], table[active][q].id)
      BY <1>1, <1>2, <2>3, <2>4, KeyNames
    <3>3. q \notin touched
      BY <1>5, <3>2 DEF IsLate
    <3>4. /\ f \in KeysOf(KindOf[r]) /\ Plain(q) /\ Place[KindOf[q]] < Place[KindOf[r]]
      BY <1>3, <2>3, <2>4, KeysAre
    <3>5. HasId(q)
      BY <1>3, <3>2, <3>4, LinksAre DEF HasId
    <3>6. Mapped(KindOf[q], table[active][q].id) # 0
      BY <1>1, <1>2, <3>2, <3>3, <3>4, <3>5, NeededIsMapped
    <3> QED BY <1>5, <3>1, <3>2, <3>6
  <2> QED BY <2>5, <2>6
<1> QED
  BY <1>2, <1>4, <1>5

\* getSyncChunk sends rows in order of dependency, updateSyncMap throws WERR_INTERNAL: in no
\* sync is a row merged before a row it needs, unless that one changed while a sync was
\* reading, and no id is ever mapped to another one; whatever the sizes of the chunks.
THEOREM ParentsAreFirst == Spec => []ParentsComeFirst
<1>1. Init => ParentsComeFirst
  BY DEF Init, ParentsComeFirst
<1>2. LinkInv /\ SyncInv /\ ParentsComeFirst /\ [Next]_vars => ParentsComeFirst'
  <2> SUFFICES ASSUME LinkInv, SyncInv, ParentsComeFirst, [Next]_vars PROVE ParentsComeFirst'
    OBVIOUS
  <2>1. CASE MergeThrows
    BY <2>1, ThrowsAre DEF ParentsComeFirst
  <2>2. CASE ~MergeThrows
    <3>1. thrown' = thrown \/ thrown' = "no"
      BY <2>2, StepsAre DEF Written, Merged, GetSyncChunk, EndChunk, Begin, Crash, Return,
         SetActive, vars
    <3> QED BY <3>1 DEF ParentsComeFirst
  <2> QED BY <2>1, <2>2
<1> QED
  BY <1>1, <1>2, SyncHolds, PTL DEF Spec

=============================================================================

-------------------------- MODULE MonitorTasksProofs --------------------------
(***************************************************************************)
(* Proofs about the runs of TaskCheckForProofs, for any number of reqs and *)
(* of calls of startTasks and any size of a page: the pages of a run skip  *)
(* no more reqs than have left the list while it was read, and a header    *)
(* costs a req two attempts at most as long as the tasks are not started   *)
(* twice.  Both rest on how the places of the reqs in the list move when   *)
(* one of them leaves it.                                                  *)
(***************************************************************************)
EXTENDS MonitorTasks, FiniteSetTheorems, NaturalsInduction, WellFoundedInduction, TLAPS

Rows == [status : {"unmined", "completed", "invalid"}, proven : BOOLEAN, attempts : Nat]

Pages == UNION {[S -> Rows] : S \in SUBSET Reqs}

LoopStates == [at : Places, todo : SUBSET (DOMAIN Tasks), counts : BOOLEAN, offset : Nat,
               page : Pages, full : BOOLEAN]

\* A page is held while its reqs are looked at, and a run begins at the first page.
GoodLoops ==
    {r \in LoopStates : /\ Cardinality(DOMAIN r.page) <= PageSize
                        /\ r.at = "proofs" <=> DOMAIN r.page # {}
                        /\ r.at = "CheckForProofs" => r.offset = 0}

Typed ==
    /\ tasksRunning \in BOOLEAN /\ overlapped \in BOOLEAN
    /\ loop \in [Loops -> GoodLoops]
    /\ checkNow \in BOOLEAN /\ nudges \in Nat /\ checked \in Nat /\ checked <= tip
    /\ tip \in Nat /\ tip <= MaxHeaders /\ header \in Nat /\ header <= tip
    /\ req \in [Reqs -> Rows] /\ tx \in [Txs -> {"new", "old", "done"}]
    /\ faults \in Nat /\ faults <= MaxFaults
    /\ missed \in [Loops -> SUBSET Reqs] /\ left \in [Loops -> Nat] /\ skipped \in BOOLEAN

\* How many are before q in the list S.
Rank(S, q) == Cardinality({m \in S : m < q})

\* Those of M that a page of the list S that begins at offset o, or a later one, will not hold.
Behind(M, S, o) == {q \in M : q \notin S \/ Rank(S, q) < o}

InPage(l) == DOMAIN loop[l].page

\* The offset of the page after the one that is read or to be read.
NextOffset(l) == IF At(l, "proofs") THEN loop[l].offset + PageSize ELSE loop[l].offset

Runs(l) == At(l, "page") \/ At(l, "proofs")

\* Those that a run will not look at are no more than have left the list.
SkipOf(l) ==
    LET unread == missed[l] \ InPage(l)
    IN  /\ At(l, "page") \/ (At(l, "proofs") /\ loop[l].full) =>
             Cardinality(Behind(unread, Ready, NextOffset(l))) <= left[l]
        /\ At(l, "proofs") /\ ~loop[l].full => Cardinality(unread) <= left[l]

SkipInv == ~skipped /\ \A l \in Loops : SkipOf(l)

Idle(l) == At(l, "off") \/ At(l, "rejected")

Alone == \A l, k \in Loops : l # k => Idle(l) \/ Idle(k)

\* How many nudges have been spent on runs that count.
Spent == IF checkNow THEN nudges - 1 ELSE nudges

\* What is left of a page is still unread and as the reqs are, those that were looked at are
\* before the next page, and those that were not have two attempts left if the run counts.
CountOf(l) ==
    Runs(l) =>
        /\ \A q \in InPage(l) : q \in missed[l] /\ q \in Ready /\ loop[l].page[q] = req[q]
        /\ \A q \in Ready : q \in missed[l] \ InPage(l) \/ Rank(Ready, q) < NextOffset(l)
        /\ loop[l].counts => \A q \in missed[l] : req[q].attempts + 2 <= 2 * Spent

\* While one call of startTasks goes on, no req has more attempts than the nudges have paid.
CountInv ==
    overlapped \/ /\ Alone
                  /\ checkNow => nudges > 0
                  /\ \A q \in Reqs : req[q].attempts <= 2 * Spent
                  /\ \A l \in Loops : CountOf(l)

IInv == Typed /\ SkipInv /\ CountInv
-----------------------------------------------------------------------------
(* Places in a list.                                                       *)

\* A set of numbers has a least one.
LEMMA LeastMember ==
    ASSUME NEW S, S \subseteq Nat, S # {}
    PROVE  Min(S) \in S /\ \A y \in S : Min(S) <= y
<1>1. PICK x \in S : \A y \in S : ~(<<y, x>> \in OpToRel(<, Nat))
  BY WFMin, NatLessThanWellFounded, Zenon
<1>2. \A y \in S : ~(y < x)
  BY <1>1, Zenon DEF OpToRel
<1>3. \A y \in S : x <= y
  BY <1>2
<1> QED
  BY <1>3 DEF Min

\* What is mapped into a finite set one to one has no more members.
LEMMA OneToOne ==
    ASSUME NEW S, NEW T, IsFiniteSet(T), NEW f \in [S -> T],
           \A a, b \in S : f[a] = f[b] => a = b
    PROVE  Cardinality(S) <= Cardinality(T)
<1>1. f \in Injection(S, T)
  BY DEF Injection, IsInjective
<1> QED
  BY <1>1, FS_Injection

LEMMA RankType ==
    ASSUME NEW S, IsFiniteSet(S), NEW q
    PROVE  Rank(S, q) \in Nat /\ IsFiniteSet({m \in S : m < q})
BY FS_Subset, FS_CardinalityType DEF Rank

\* The list grows, and nobody's place moves forward.
LEMMA RankGrows ==
    ASSUME NEW S, IsFiniteSet(S), NEW T \in SUBSET S, NEW q
    PROVE  Rank(T, q) <= Rank(S, q)
<1>1. IsFiniteSet({m \in S : m < q}) /\ {m \in T : m < q} \subseteq {m \in S : m < q}
  BY FS_Subset
<1> QED
  BY <1>1, FS_Subset DEF Rank

\* Who is before another has the lower place.
LEMMA RankOrders ==
    ASSUME NEW S \in SUBSET Nat, IsFiniteSet(S), NEW p \in S, NEW q \in Nat, p < q
    PROVE  Rank(S, p) + 1 <= Rank(S, q)
<1>1. IsFiniteSet({m \in S : m < p}) /\ IsFiniteSet({m \in S : m < q})
  BY RankType
<1>2. {m \in S : m < p} \cup {p} \subseteq {m \in S : m < q} /\ p \notin {m \in S : m < p}
  <2>1. ~(p < p)
    BY SMT
  <2>2. ASSUME NEW m \in S, m < p
        PROVE  m < q
    <3>1. m \in Nat /\ p \in Nat
      OBVIOUS
    <3> QED BY <2>2, <3>1
  <2> QED BY <2>1, <2>2
<1>3. Cardinality({m \in S : m < p} \cup {p}) = Rank(S, p) + 1
  BY <1>1, <1>2, FS_AddElement DEF Rank
<1> QED
  BY <1>1, <1>2, <1>3, FS_Subset DEF Rank

\* One that leaves moves those after it one place forward.
LEMMA RankWithout ==
    ASSUME NEW S \in SUBSET Nat, IsFiniteSet(S), NEW x, NEW q \in Nat
    PROVE  Rank(S \ {x}, q) = IF x \in S /\ x < q THEN Rank(S, q) - 1 ELSE Rank(S, q)
<1>1. IsFiniteSet({m \in S : m < q})
  BY RankType
<1>2. {m \in S \ {x} : m < q} = {m \in S : m < q} \ {x}
  OBVIOUS
<1> QED
  BY <1>1, <1>2, FS_RemoveElement DEF Rank

\* Places differ.
LEMMA RankDiffers ==
    ASSUME NEW S \in SUBSET Nat, IsFiniteSet(S), NEW p \in S, NEW q \in S,
           Rank(S, p) = Rank(S, q)
    PROVE  p = q
<1>1. p \in Nat /\ q \in Nat /\ Rank(S, p) \in Nat /\ Rank(S, q) \in Nat
  BY RankType
<1>2. ~(p < q) /\ ~(q < p)
  BY <1>1, RankOrders
<1> QED
  BY <1>1, <1>2

\* No place before a member's is empty.
LEMMA RankIsFilled ==
    ASSUME NEW S \in SUBSET Nat, IsFiniteSet(S), NEW q \in S, NEW o \in Nat, o <= Rank(S, q)
    PROVE  \E p \in S : Rank(S, p) = o
<1> DEFINE H == {p \in S : o <= Rank(S, p)}
           p == Min(H)
           L == {m \in S : m < p}
<1>1. p \in H /\ \A y \in H : p <= y
  <2>1. q \in H /\ H \subseteq Nat
    OBVIOUS
  <2> QED BY <2>1, LeastMember, Zenon
<1>2. p \in S /\ p \in Nat /\ o <= Rank(S, p)
  BY <1>1
<1> HIDE DEF p
<1>3. ASSUME NEW m \in L
      PROVE  Rank(S, m) \in 0 .. o - 1
  <2>1. m \in S /\ m \in Nat /\ Rank(S, m) \in Nat
    BY RankType
  <2>2. m \notin H
    BY <1>1, <1>2, <2>1
  <2> QED BY <2>1, <2>2
<1>4. Cardinality(L) <= Cardinality(0 .. o - 1)
  <2> DEFINE f == [m \in L |-> Rank(S, m)]
  <2>1. f \in [L -> 0 .. o - 1]
    BY <1>3
  <2>2. \A a, b \in L : f[a] = f[b] => a = b
    BY RankDiffers
  <2>3. IsFiniteSet(0 .. o - 1)
    BY FS_Interval
  <2> HIDE DEF f, L
  <2> QED BY <2>1, <2>2, <2>3, OneToOne
<1>5. Cardinality(0 .. o - 1) = o
  BY FS_Interval
<1>6. Rank(S, p) <= o /\ Rank(S, p) \in Nat
  BY <1>4, <1>5, RankType DEF Rank
<1> QED
  BY <1>2, <1>6

\* A page holds no more than its size, and so much if there is more behind it.
LEMMA PageHolds ==
    ASSUME NEW S \in SUBSET Nat, IsFiniteSet(S), NEW o \in Nat
    PROVE  /\ PageOf(S, o) = {q \in S : o <= Rank(S, q) /\ Rank(S, q) < o + PageSize}
           /\ IsFiniteSet(PageOf(S, o))
           /\ Cardinality(PageOf(S, o)) <= PageSize
           /\ \A q \in S : o + PageSize <= Rank(S, q) => Cardinality(PageOf(S, o)) >= PageSize
           /\ \A q \in S : o <= Rank(S, q) => PageOf(S, o) # {}
<1> DEFINE P == PageOf(S, o)
           I == o .. o + PageSize - 1
<1>0. PageSize \in Nat /\ PageSize > 0
  BY MonitorAssumption
<1>1. P = {q \in S : o <= Rank(S, q) /\ Rank(S, q) < o + PageSize}
  BY DEF PageOf, Rank
<1>2. IsFiniteSet(P)
  BY <1>1, FS_Subset
<1>3. IsFiniteSet(I) /\ Cardinality(I) = PageSize
  BY <1>0, FS_Interval
<1>4. \A q \in S : Rank(S, q) \in Nat
  BY RankType
<1> HIDE DEF P
<1>5. Cardinality(P) <= PageSize
  <2> DEFINE f == [q \in P |-> Rank(S, q)]
  <2>1. f \in [P -> I]
    <3> SUFFICES ASSUME NEW q \in P
                 PROVE  Rank(S, q) \in I
      OBVIOUS
    <3> QED BY <1>0, <1>1, <1>4
  <2>2. \A a, b \in P : f[a] = f[b] => a = b
    BY <1>1, RankDiffers
  <2> HIDE DEF f, I
  <2>3. Cardinality(P) <= Cardinality(I)
    BY <1>3, <2>1, <2>2, OneToOne
  <2> QED BY <1>3, <2>3
<1>6. ASSUME NEW q \in S, o + PageSize <= Rank(S, q)
      PROVE  Cardinality(P) >= PageSize
  <2> DEFINE g == [k \in I |-> CHOOSE p \in S : Rank(S, p) = k]
  <2>1. ASSUME NEW k \in I
        PROVE  g[k] \in P /\ Rank(S, g[k]) = k
    <3>1. \E p \in S : Rank(S, p) = k
      <4>1. k \in Nat /\ k <= Rank(S, q)
        BY <1>0, <1>4, <1>6
      <4> QED BY <4>1, RankIsFilled
    <3>2. g[k] \in S /\ Rank(S, g[k]) = k
      BY <3>1
    <3> HIDE DEF g
    <3> QED BY <1>0, <1>1, <3>2
  <2>2. g \in [I -> P]
    BY <2>1
  <2>3. \A a, b \in I : g[a] = g[b] => a = b
    BY <2>1
  <2> HIDE DEF g, I
  <2>4. Cardinality(I) <= Cardinality(P)
    BY <1>2, <2>2, <2>3, OneToOne
  <2> QED BY <1>3, <2>4
<1>7. ASSUME NEW q \in S, o <= Rank(S, q)
      PROVE  P # {}
  <2>1. PICK p \in S : Rank(S, p) = o
    BY <1>7, RankIsFilled
  <2> QED BY <1>0, <1>1, <2>1
<1> QED
  BY <1>1, <1>2, <1>5, <1>6, <1>7 DEF P

\* When one leaves the list, at most one more is behind the offset.
LEMMA BehindWithout ==
    ASSUME NEW S \in SUBSET Nat, IsFiniteSet(S), NEW x, NEW M \in SUBSET Nat, IsFiniteSet(M),
           NEW o \in Nat
    PROVE  Cardinality(Behind(M, S \ {x}, o)) <= Cardinality(Behind(M, S, o)) + 1
<1> DEFINE B == Behind(M, S, o)
           C == Behind(M, S \ {x}, o)
<1>1. IsFiniteSet(B) /\ IsFiniteSet(C)
  BY FS_Subset DEF Behind
<1>2. \A q \in M : Rank(S, q) \in Nat
                /\ Rank(S \ {x}, q) = IF x \in S /\ x < q THEN Rank(S, q) - 1 ELSE Rank(S, q)
  BY RankWithout, RankType
<1>3. \E y : C \subseteq B \cup {y}
  <2>1. CASE x \notin S
    BY <1>2, <2>1 DEF Behind
  <2>2. CASE x \in S /\ Rank(S, x) >= o
    <3>1. ASSUME NEW q \in C, q # x
          PROVE  q \in B
      <4>1. q \in M /\ q \in Nat /\ x \in Nat /\ Rank(S, q) \in Nat /\ Rank(S, x) \in Nat
        BY <1>2, <2>2, RankType DEF Behind
      <4>2. CASE q \in S /\ x < q
        <5>1. Rank(S, x) + 1 <= Rank(S, q)
          BY <2>2, <4>1, <4>2, RankOrders
        <5>2. Rank(S \ {x}, q) = Rank(S, q) - 1 /\ Rank(S \ {x}, q) < o
          BY <1>2, <2>2, <3>1, <4>1, <4>2 DEF Behind
        <5> QED BY <2>2, <4>1, <5>1, <5>2
      <4>3. CASE ~(q \in S /\ x < q)
        BY <1>2, <3>1, <4>1, <4>3 DEF Behind
      <4> QED BY <4>2, <4>3
    <3> QED BY <3>1
  <2>3. CASE x \in S /\ Rank(S, x) < o
    <3> DEFINE E == {q \in S : Rank(S, q) = o}
               y == CHOOSE q \in S : Rank(S, q) = o
    <3>1. ASSUME NEW q \in C, q \notin B
          PROVE  q = y
      <4>1. q \in M /\ q \in S /\ q # x /\ Rank(S, q) \in Nat /\ Rank(S, q) >= o
        <5>1. q \in M /\ q \in S /\ ~(Rank(S, q) < o)
          BY <3>1 DEF Behind
        <5> QED BY <1>2, <2>3, <5>1
      <4>2. Rank(S \ {x}, q) < o
        BY <4>1 DEF Behind
      <4>3. Rank(S, q) = o
        BY <1>2, <4>1, <4>2
      <4>4. y \in S /\ Rank(S, y) = o
        BY <4>1, <4>3
      <4> HIDE DEF y
      <4> QED BY <4>1, <4>3, <4>4, RankDiffers
    <3> HIDE DEF y
    <3> QED BY <3>1
  <2>4. x \in S => Rank(S, x) \in Nat
    BY RankType
  <2> HIDE DEF B, C
  <2> QED
    BY <2>1, <2>2, <2>3, <2>4
<1>4. PICK y : C \subseteq B \cup {y}
  BY <1>3
<1> HIDE DEF B, C
<1>5. IsFiniteSet(B \cup {y}) /\ Cardinality(B \cup {y}) <= Cardinality(B) + 1
  <2>1. Cardinality(B) \in Nat
    BY <1>1, FS_CardinalityType
  <2>2. Cardinality(B \cup {y}) = IF y \in B THEN Cardinality(B) ELSE Cardinality(B) + 1
    BY <1>1, FS_AddElement
  <2>3. IsFiniteSet(B \cup {y})
    BY <1>1, FS_AddElement
  <2> QED BY <2>1, <2>2, <2>3
<1>6. Cardinality(C) <= Cardinality(B \cup {y})
  BY <1>4, <1>5, FS_Subset
<1>7. Cardinality(C) \in Nat /\ Cardinality(B) \in Nat /\ Cardinality(B \cup {y}) \in Nat
  BY <1>1, <1>5, FS_CardinalityType
<1> QED
  BY <1>5, <1>6, <1>7 DEF B, C

\* One that comes into the list leaves nobody behind.
LEMMA BehindWith ==
    ASSUME NEW S, NEW T, IsFiniteSet(T), S \subseteq T, T \subseteq Nat, NEW M \in SUBSET Nat,
           IsFiniteSet(M), NEW o \in Nat
    PROVE  Cardinality(Behind(M, T, o)) <= Cardinality(Behind(M, S, o))
<1>1. IsFiniteSet(S)
  BY FS_Subset
<1>2. \A q \in M : Rank(S, q) \in Nat /\ Rank(T, q) \in Nat /\ Rank(S, q) <= Rank(T, q)
  BY <1>1, RankGrows, RankType
<1>3. Behind(M, T, o) \subseteq Behind(M, S, o)
  <2> SUFFICES ASSUME NEW q \in M, q \notin T \/ Rank(T, q) < o
               PROVE  q \notin S \/ Rank(S, q) < o
    BY DEF Behind
  <2>1. Rank(S, q) \in Nat /\ Rank(T, q) \in Nat /\ Rank(S, q) <= Rank(T, q)
    BY <1>2
  <2> QED BY <2>1
<1>4. IsFiniteSet(Behind(M, S, o))
  BY FS_Subset DEF Behind
<1> QED
  BY <1>3, <1>4, FS_Subset
-----------------------------------------------------------------------------
(* Steps that leave the reqs and the runs alone.                           *)

\* Loop l comes to a place out of a run, or nothing changes for it.
Quiet(l) ==
    \/ ~Runs(l)'
    \/ loop'[l] = loop[l] /\ missed'[l] = missed[l] /\ left'[l] = left[l]

LEMMA QuietKeepsSkip ==
    ASSUME SkipInv, UNCHANGED <<req, skipped>>, \A l \in Loops : Quiet(l)
    PROVE  SkipInv'
<1>1. UNCHANGED Ready
  BY DEF Ready
<1>2. ASSUME NEW l \in Loops
      PROVE  SkipOf(l)'
  <2>1. CASE ~Runs(l)'
    BY <2>1 DEF SkipOf, Runs
  <2>2. CASE loop'[l] = loop[l] /\ missed'[l] = missed[l] /\ left'[l] = left[l]
    BY <1>1, <2>2 DEF SkipInv, SkipOf, InPage, NextOffset, At
  <2> QED BY <2>1, <2>2 DEF Quiet
<1> QED
  BY <1>2 DEF SkipInv

LEMMA QuietKeepsCount ==
    ASSUME Typed, Typed', CountInv, UNCHANGED req, \A l \in Loops : Quiet(l),
           overlapped => overlapped', Alone \/ overlapped => Alone' \/ overlapped',
           (checkNow /\ nudges > 0) \/ ~checkNow => (checkNow' => nudges' > 0),
           Spent' >= Spent
    PROVE  CountInv'
<1> SUFFICES ASSUME ~overlapped'
             PROVE  /\ Alone' /\ (checkNow' => nudges' > 0)
                    /\ \A q \in Reqs : req'[q].attempts <= 2 * Spent'
                    /\ \A l \in Loops : CountOf(l)'
  BY DEF CountInv
<1>1. /\ Alone /\ (checkNow => nudges > 0)
      /\ \A q \in Reqs : req[q].attempts <= 2 * Spent
      /\ \A l \in Loops : CountOf(l)
  BY DEF CountInv
<1>2. UNCHANGED Ready
  BY DEF Ready
<1>3. Spent \in Int /\ Spent' \in Int /\ \A q \in Reqs : req[q].attempts \in Nat
  BY DEF Typed, Rows, Spent
<1>4. \A q \in Reqs : req'[q].attempts <= 2 * Spent'
  BY <1>1, <1>3
<1>5. ASSUME NEW l \in Loops
      PROVE  CountOf(l)'
  <2>1. CASE ~Runs(l)'
    BY <2>1 DEF CountOf
  <2>2. CASE Runs(l)' /\ loop'[l] = loop[l] /\ missed'[l] = missed[l] /\ left'[l] = left[l]
    <3>1. Runs(l) /\ CountOf(l)
      BY <1>1, <2>2 DEF Runs, At
    <3>2. \A q \in InPage(l)' : q \in missed'[l] /\ q \in Ready' /\ loop'[l].page[q] = req'[q]
      BY <1>2, <2>2, <3>1 DEF CountOf, InPage
    <3>3. \A q \in Ready' : q \in missed'[l] \ InPage(l)' \/ Rank(Ready', q) < NextOffset(l)'
      BY <1>2, <2>2, <3>1 DEF CountOf, InPage, NextOffset, At
    <3>4. loop'[l].counts => \A q \in missed'[l] : req'[q].attempts + 2 <= 2 * Spent'
      <4> SUFFICES ASSUME loop'[l].counts, NEW q \in missed'[l]
                   PROVE  req'[q].attempts + 2 <= 2 * Spent'
        OBVIOUS
      <4>1. q \in Reqs /\ req[q].attempts + 2 <= 2 * Spent
        BY <2>2, <3>1 DEF CountOf, Typed
      <4> QED BY <1>3, <4>1
    <3> QED BY <3>2, <3>3, <3>4 DEF CountOf
  <2> QED BY <2>1, <2>2 DEF Quiet
<1> QED
  BY <1>1, <1>4, <1>5
-----------------------------------------------------------------------------
(* Types.                                                                  *)

LEMMA PlacesAre ==
    /\ DOMAIN Tasks = 1 .. 3
    /\ Tasks[1] = "NewHeader" /\ Tasks[2] = "CheckForProofs" /\ Tasks[3] = "FailAbandoned"
    /\ Places = {"off", "trigger", "next", "wait", "rejected", "page", "proofs",
                 "NewHeader", "CheckForProofs", "FailAbandoned"}
<1>1. /\ DOMAIN Tasks = 1 .. 3
      /\ Tasks[1] = "NewHeader" /\ Tasks[2] = "CheckForProofs" /\ Tasks[3] = "FailAbandoned"
  BY DEF Tasks
<1>2. ToSet(Tasks) = {"NewHeader", "CheckForProofs", "FailAbandoned"}
  <2>1. ToSet(Tasks) = {Tasks[n] : n \in 1 .. 3}
    BY <1>1 DEF ToSet
  <2> QED BY <1>1, <2>1
<1> QED
  BY <1>1, <1>2 DEF Places

LEMMA NoPage == <<>> \in Pages /\ DOMAIN <<>> = {} /\ Cardinality({}) = 0 /\ 0 <= PageSize
<1>1. <<>> \in [{} -> Rows]
  OBVIOUS
<1> QED
  BY <1>1, FS_EmptySet, MonitorAssumption DEF Pages

LEMMA OffIsGood ==
    ASSUME NEW at \in Places, at # "proofs", NEW todo \in SUBSET (DOMAIN Tasks)
    PROVE  /\ [Off EXCEPT !.at = at] \in GoodLoops
           /\ [Off EXCEPT !.at = at, !.todo = todo] \in GoodLoops
           /\ Off \in GoodLoops
<1>1. "off" \in Places /\ FirstOffset = 0
  BY PlacesAre DEF FirstOffset
<1> QED
  BY <1>1, NoPage DEF Off, GoodLoops, LoopStates

LEMMA InitTyped == Init => Typed
<1> SUFFICES ASSUME Init
             PROVE  Typed
  OBVIOUS
<1>1. loop \in [Loops -> GoodLoops]
  BY OffIsGood, PlacesAre DEF Init
<1>2. req \in [Reqs -> Rows] /\ tx \in [Txs -> {"new", "old", "done"}]
  BY DEF Init, Rows
<1>3. MaxHeaders \in Nat /\ MaxHeaders >= 1 /\ MaxFaults \in Nat
  BY MonitorAssumption
<1>4. missed \in [Loops -> SUBSET Reqs] /\ left \in [Loops -> Nat] /\ skipped \in BOOLEAN
  BY DEF Init
<1>5. /\ tasksRunning \in BOOLEAN /\ overlapped \in BOOLEAN /\ checkNow \in BOOLEAN
      /\ nudges \in Nat /\ checked = 0 /\ tip = 1 /\ header = 0 /\ faults = 0
  BY DEF Init
<1> QED
  BY <1>1, <1>2, <1>3, <1>4, <1>5, SMT DEF Typed

\* A loop that is not looking at reqs goes to another place.
LEMMA GoesTo ==
    ASSUME Typed, NEW l \in Loops, ~At(l, "proofs"), NEW at \in Places, at # "proofs",
           at # "CheckForProofs", at # "page", Goto(l, at)
    PROVE  \E r \in GoodLoops : loop' = [loop EXCEPT ![l] = r] /\ r.at \notin {"page", "proofs"}
<1> DEFINE r == [loop[l] EXCEPT !.at = at]
<1>1. loop' = [loop EXCEPT ![l] = r]
  BY DEF Goto
<1>2. r \in GoodLoops /\ r.at = at
  BY DEF Typed, GoodLoops, LoopStates, At
<1> QED
  BY <1>1, <1>2

\* The actions of a loop between the runs of CheckForProofs.
BetweenRuns(l) ==
    \/ StartTasks(l) \/ NextTask(l) \/ Wait(l) \/ Throws(l) \/ NewHeader(l)
    \/ FailAbandoned(l) \/ \E due \in SUBSET Timed : Trigger(l, due)

LEMMA BetweenRunsTyped ==
    ASSUME Typed, NEW l \in Loops, BetweenRuns(l)
    PROVE  Typed' /\ \E r \in GoodLoops :
             loop' = [loop EXCEPT ![l] = r] /\ r.at \notin {"page", "proofs"}
<1> DEFINE Goes == \E r \in GoodLoops :
                     loop' = [loop EXCEPT ![l] = r] /\ r.at \notin {"page", "proofs"}
<1> SUFFICES Typed' /\ Goes
  OBVIOUS
<1>0. loop \in [Loops -> GoodLoops] /\ loop[l].at \in Places
  BY DEF Typed, GoodLoops, LoopStates
<1>1. Goes => loop' \in [Loops -> GoodLoops]
  BY <1>0
<1>2. Goes /\ UNCHANGED <<running, chain, nudged, req, tx, faults, run>> => Goes /\ Typed'
  <2> HIDE DEF Goes
  <2> QED BY <1>1 DEF Typed, running, chain, nudged, run
<1>3. CASE StartTasks(l)
  <2>1. Goes
    BY <1>3, GoesTo, PlacesAre DEF StartTasks, At
  <2>2. overlapped' \in BOOLEAN
    BY <1>3 DEF StartTasks, Typed
  <2> HIDE DEF Goes
  <2> QED BY <1>1, <1>3, <2>1, <2>2 DEF StartTasks, Typed, chain, nudged, run
<1>4. CASE NextTask(l)
  <2>1. CASE loop[l].todo = {} \/ ~tasksRunning
    <3>1. loop' = [loop EXCEPT ![l] = [Off EXCEPT !.at = "wait"]]
      BY <1>0, <1>4, <2>1 DEF NextTask
    <3>2. [Off EXCEPT !.at = "wait"] \in GoodLoops
      BY OffIsGood, PlacesAre
    <3>3. [Off EXCEPT !.at = "wait"].at = "wait"
      BY DEF Off
    <3> QED BY <1>2, <1>4, <3>1, <3>2, <3>3 DEF NextTask
  <2>2. CASE ~(loop[l].todo = {} \/ ~tasksRunning)
    <3> DEFINE first == Min(loop[l].todo)
               r == [Off EXCEPT !.at = Tasks[first], !.todo = loop[l].todo \ {first}]
    <3>1. loop' = [loop EXCEPT ![l] = r]
      BY <1>0, <1>4, <2>2 DEF NextTask
    <3>2. first \in loop[l].todo /\ loop[l].todo \subseteq DOMAIN Tasks
      <4>1. loop[l].todo \subseteq DOMAIN Tasks
        BY <1>0 DEF GoodLoops, LoopStates
      <4>2. loop[l].todo \subseteq Nat
        BY <4>1, PlacesAre
      <4> QED BY <2>2, <4>1, <4>2, LeastMember
    <3>3. Tasks[first] \in {"NewHeader", "CheckForProofs", "FailAbandoned"}
      BY <3>2, PlacesAre
    <3> HIDE DEF first
    <3>4. r \in GoodLoops
      BY <3>2, <3>3, OffIsGood, PlacesAre
    <3>5. r.at = Tasks[first]
      BY DEF Off
    <3> HIDE DEF r
    <3>6. Goes
      BY <3>1, <3>3, <3>4, <3>5
    <3> QED BY <1>2, <1>4, <3>6 DEF NextTask
  <2> QED BY <2>1, <2>2
<1>5. CASE Wait(l)
  <2>1. Goes
    BY <1>5, GoesTo, PlacesAre DEF Wait, At
  <2> QED BY <1>2, <1>5, <2>1 DEF Wait
<1>6. CASE Throws(l)
  <2>1. PICK place \in {"next", "rejected"} :
          loop' = [loop EXCEPT ![l].at = place, ![l].page = <<>>]
    BY <1>6 DEF Throws
  <2>2. [loop[l] EXCEPT !.at = place, !.page = <<>>] \in GoodLoops
    BY <1>0, NoPage, PlacesAre DEF GoodLoops, LoopStates
  <2>3. [loop[l] EXCEPT !.at = place, !.page = <<>>].at = place
    BY <1>0 DEF GoodLoops, LoopStates
  <2>4. Goes
    BY <1>0, <2>1, <2>2, <2>3
  <2>5. missed' \in [Loops -> SUBSET Reqs] /\ left' \in [Loops -> Nat]
    BY <1>6 DEF Throws, Typed
  <2>6. faults' \in Nat /\ faults' <= MaxFaults
    BY <1>6, MonitorAssumption DEF Throws, Typed
  <2>7. skipped' = skipped /\ UNCHANGED <<running, chain, nudged, req, tx>>
    BY <1>6 DEF Throws
  <2> HIDE DEF Goes
  <2> QED BY <1>1, <2>4, <2>5, <2>6, <2>7 DEF Typed, running, chain, nudged
<1>7. CASE NewHeader(l)
  <2>1. Goes
    BY <1>7, GoesTo, PlacesAre DEF NewHeader, At
  <2>2. nudges' \in Nat /\ checkNow' \in BOOLEAN /\ checked' = checked
    <3>1. CASE IsNew
      BY <1>7, <3>1 DEF NewHeader, Nudge, Typed
    <3>2. CASE ~IsNew
      BY <1>7, <3>2 DEF NewHeader, nudged, Typed
    <3> QED BY <3>1, <3>2
  <2>3. header' = tip /\ UNCHANGED <<running, tip, req, tx, faults, run>>
    BY <1>7 DEF NewHeader
  <2> HIDE DEF Goes
  <2> QED BY <1>1, <2>1, <2>2, <2>3 DEF Typed, running, run
<1>8. CASE FailAbandoned(l)
  <2> DEFINE old == {t \in PageOf(Unfinished, loop[l].offset) : tx[t] = "old"}
             at == IF Cardinality(old) < PageSize THEN "next" ELSE loop[l].at
             o == loop[l].offset + PageSize
  <2>1. loop' = [loop EXCEPT ![l] = [loop[l] EXCEPT !.at = at, !.offset = o]]
    BY <1>0, <1>8 DEF FailAbandoned
  <2>2. o \in Nat
    BY <1>0, MonitorAssumption DEF GoodLoops, LoopStates
  <2>3. at \in {"next", "FailAbandoned"} /\ ~At(l, "proofs")
    BY <1>8 DEF FailAbandoned, At
  <2> HIDE DEF at, o
  <2>4. [loop[l] EXCEPT !.at = at, !.offset = o] \in GoodLoops
    BY <1>0, <2>2, <2>3, PlacesAre DEF GoodLoops, LoopStates, At
  <2>5. [loop[l] EXCEPT !.at = at, !.offset = o].at = at
    BY <1>0 DEF GoodLoops, LoopStates
  <2>6. Goes
    BY <2>1, <2>3, <2>4, <2>5
  <2>7. tx' \in [Txs -> {"new", "old", "done"}]
    BY <1>8 DEF FailAbandoned, Typed
  <2>8. UNCHANGED <<running, chain, nudged, req, faults, run>>
    BY <1>8 DEF FailAbandoned
  <2> HIDE DEF Goes
  <2> QED BY <1>1, <2>6, <2>7, <2>8 DEF Typed, running, chain, nudged, run
<1>9. CASE \E due \in SUBSET Timed : Trigger(l, due)
  <2>1. PICK due \in SUBSET Timed : Trigger(l, due)
    BY <1>9
  <2> DEFINE todo == {n \in DOMAIN Tasks : Triggered(Tasks[n], due)}
  <2>2. loop' = [loop EXCEPT ![l] = [loop[l] EXCEPT !.todo = todo, !.at = "next"]]
    BY <1>0, <2>1 DEF Trigger
  <2> HIDE DEF todo
  <2>3. todo \in SUBSET (DOMAIN Tasks)
    BY DEF todo
  <2>4. [loop[l] EXCEPT !.todo = todo, !.at = "next"] \in GoodLoops
    BY <1>0, <2>1, <2>3, PlacesAre DEF GoodLoops, LoopStates, Trigger, At
  <2>5. [loop[l] EXCEPT !.todo = todo, !.at = "next"].at = "next"
    BY <1>0 DEF GoodLoops, LoopStates
  <2>6. Goes
    BY <2>2, <2>4, <2>5
  <2> QED BY <1>2, <2>1, <2>6 DEF Trigger
<1> QED
  BY <1>3, <1>4, <1>5, <1>6, <1>7, <1>8, <1>9 DEF BetweenRuns
-----------------------------------------------------------------------------
(* The steps between runs keep what is true of the runs.                   *)

\* A loop that comes to another place out of a run, the others as they are.
LEMMA OneLoopIsQuiet ==
    ASSUME Typed, NEW l \in Loops, NEW r \in GoodLoops, loop' = [loop EXCEPT ![l] = r],
           r.at \notin {"page", "proofs"},
           \A k \in Loops \ {l} : missed'[k] = missed[k] /\ left'[k] = left[k]
    PROVE  /\ \A k \in Loops : Quiet(k)
           /\ ~Idle(l) \/ Idle(l)' => (Alone => Alone')
           /\ (\A k \in Loops : Idle(k)) => Alone'
<1>1. \A k \in Loops : loop'[k] = IF k = l THEN r ELSE loop[k]
  BY DEF Typed
<1>2. \A k \in Loops : Quiet(k)
  BY <1>1 DEF Quiet, Runs, At
<1>3. \A k \in Loops \ {l} : Idle(k)' <=> Idle(k)
  BY <1>1 DEF Idle, At
<1>4. ~Idle(l) \/ Idle(l)' => (Alone => Alone')
  BY <1>3 DEF Alone
<1>5. (\A k \in Loops : Idle(k)) => Alone'
  BY <1>3 DEF Alone
<1> QED
  BY <1>2, <1>4, <1>5

LEMMA BetweenRunsKeep ==
    ASSUME Typed, SkipInv, CountInv, NEW l \in Loops, BetweenRuns(l)
    PROVE  Typed' /\ SkipInv' /\ CountInv'
<1>1. PICK r \in GoodLoops : loop' = [loop EXCEPT ![l] = r] /\ r.at \notin {"page", "proofs"}
  BY BetweenRunsTyped
<1>2. Typed'
  BY BetweenRunsTyped
<1>3. UNCHANGED <<req, skipped>>
  BY DEF BetweenRuns, StartTasks, NextTask, Wait, Throws, NewHeader, FailAbandoned, Trigger, run
<1>4. \A k \in Loops \ {l} : missed'[k] = missed[k] /\ left'[k] = left[k]
  <2>1. CASE Throws(l)
    BY <2>1 DEF Throws, Typed
  <2>2. CASE ~Throws(l)
    BY <2>2 DEF BetweenRuns, StartTasks, NextTask, Wait, NewHeader, FailAbandoned, Trigger, run
  <2> QED BY <2>1, <2>2
<1>5. \A k \in Loops : Quiet(k)
  BY <1>1, <1>4, OneLoopIsQuiet
<1>6. SkipInv'
  BY <1>3, <1>5, QuietKeepsSkip
<1>7. (overlapped => overlapped') /\ (Alone \/ overlapped => Alone' \/ overlapped')
  <2>1. CASE StartTasks(l)
    <3>1. overlapped' = (overlapped \/ \E k \in Loops : ~Idle(k))
      BY <2>1 DEF StartTasks, Idle
    <3>2. (\A k \in Loops : Idle(k)) => Alone'
      BY <1>1, <1>4, OneLoopIsQuiet
    <3> QED BY <3>1, <3>2
  <2>2. CASE ~StartTasks(l)
    <3>1. ~Idle(l)
      BY <2>2 DEF BetweenRuns, NextTask, Wait, Throws, NewHeader, FailAbandoned, Trigger, Idle, At
    <3>2. overlapped' = overlapped
      BY <2>2 DEF BetweenRuns, NextTask, Wait, Throws, NewHeader, FailAbandoned, Trigger, running
    <3>3. Alone => Alone'
      BY <1>1, <1>4, <3>1, OneLoopIsQuiet
    <3> QED BY <3>2, <3>3
  <2> QED BY <2>1, <2>2
<1>8. /\ (checkNow /\ nudges > 0) \/ ~checkNow => (checkNow' => nudges' > 0)
      /\ Spent' >= Spent
  <2>1. CASE NewHeader(l) /\ IsNew
    BY <2>1 DEF NewHeader, Nudge, Spent, Typed
  <2>2. CASE ~(NewHeader(l) /\ IsNew)
    <3>1. UNCHANGED <<checkNow, nudges>>
      BY <2>2 DEF BetweenRuns, StartTasks, NextTask, Wait, Throws, NewHeader, FailAbandoned,
                  Trigger, nudged
    <3> QED BY <3>1 DEF Spent, Typed
  <2> QED BY <2>1, <2>2
<1>9. CountInv'
  BY <1>2, <1>3, <1>5, <1>7, <1>8, QuietKeepsCount
<1> QED
  BY <1>2, <1>6, <1>9

\* The steps of nobody's loop.
Outside == StopTasks \/ Mined \/ (\E t \in Txs : Age(t) \/ Sign(t))

LEMMA OutsideKeeps ==
    ASSUME Typed, SkipInv, CountInv, Outside
    PROVE  Typed' /\ SkipInv' /\ CountInv'
<1>1. UNCHANGED <<req, skipped, loop, missed, left, overlapped>>
  BY DEF Outside, StopTasks, Mined, Age, Sign, run, monitor, running
<1>2. \A l \in Loops : Quiet(l)
  BY <1>1 DEF Quiet
<1>3. Alone => Alone'
  BY <1>1 DEF Alone, Idle, At
<1>4. /\ checkNow' \in BOOLEAN /\ nudges' \in Nat /\ UNCHANGED checked
      /\ (checkNow /\ nudges > 0) \/ ~checkNow => (checkNow' => nudges' > 0)
      /\ Spent' >= Spent
  <2>1. CASE Mined /\ Nudge
    BY <2>1 DEF Nudge, Spent, Typed
  <2>2. CASE ~(Mined /\ Nudge)
    <3>1. UNCHANGED <<checkNow, nudges, checked>>
      BY <2>2 DEF Outside, StopTasks, Mined, Age, Sign, nudged
    <3> QED BY <3>1 DEF Spent, Typed
  <2> QED BY <2>1, <2>2
<1>5. Typed'
  <2>1. CASE StopTasks
    BY <2>1 DEF StopTasks, Typed, chain, nudged, run
  <2>2. CASE Mined
    <3>1. tip' \in Nat /\ tip <= tip' /\ tip' <= MaxHeaders
      BY <2>2, MonitorAssumption DEF Mined, Typed
    <3>2. UNCHANGED <<monitor, header, req, tx, faults, run>>
      BY <2>2 DEF Mined
    <3> QED BY <1>4, <3>1, <3>2 DEF Typed, monitor, running, run
  <2>3. CASE \E t \in Txs : Age(t) \/ Sign(t)
    <3>1. tx' \in [Txs -> {"new", "old", "done"}]
      BY <2>3 DEF Age, Sign, Typed
    <3>2. UNCHANGED <<monitor, chain, nudged, req, faults, run>>
      BY <2>3 DEF Age, Sign
    <3> QED BY <3>1, <3>2 DEF Typed, monitor, running, chain, nudged, run
  <2> QED BY <2>1, <2>2, <2>3 DEF Outside
<1>6. SkipInv'
  BY <1>1, <1>2, QuietKeepsSkip
<1>7. CountInv'
  BY <1>1, <1>2, <1>3, <1>4, <1>5, QuietKeepsCount
<1> QED
  BY <1>5, <1>6, <1>7
-----------------------------------------------------------------------------
(* A run of CheckForProofs begins, and reads its pages.                    *)

LEMMA ReadyIsList ==
    ASSUME Typed
    PROVE  Ready \in SUBSET Reqs /\ Ready \in SUBSET Nat /\ IsFiniteSet(Ready)
BY MonitorAssumption, FS_Subset DEF Ready

\* A run begins at the first page with all of the reqs that are ready.
LEMMA RunBegins ==
    ASSUME Typed, SkipInv, CountInv, NEW l \in Loops, CheckForProofs(l)
    PROVE  Typed' /\ SkipInv' /\ CountInv'
<1> DEFINE r == [loop[l] EXCEPT !.at = "page", !.counts = CountsAsAttempt]
<1>0. loop \in [Loops -> GoodLoops] /\ loop[l] \in LoopStates
  BY DEF Typed, GoodLoops
<1>1. loop' = [loop EXCEPT ![l] = r]
  BY <1>0 DEF CheckForProofs
<1>2. /\ r \in GoodLoops /\ r.at = "page" /\ r.offset = 0 /\ DOMAIN r.page = {}
      /\ r.counts = checkNow
  <2>1. loop[l] \in GoodLoops /\ loop[l].at = "CheckForProofs" /\ checkNow \in BOOLEAN
    BY DEF Typed, CheckForProofs, At
  <2>2. "page" \in Places
    BY PlacesAre
  <2> QED BY <2>1, <2>2 DEF GoodLoops, LoopStates, CountsAsAttempt
<1> HIDE DEF r
<1>3. \A k \in Loops : loop'[k] = IF k = l THEN r ELSE loop[k]
  BY <1>0, <1>1
<1>4. /\ \A k \in Loops : missed'[k] = IF k = l THEN Ready ELSE missed[k]
      /\ \A k \in Loops : left'[k] = IF k = l THEN 0 ELSE left[k]
      /\ missed' \in [Loops -> SUBSET Reqs] /\ left' \in [Loops -> Nat]
  BY ReadyIsList DEF CheckForProofs, Typed
<1>5. /\ UNCHANGED <<req, skipped, overlapped, nudges>> /\ checkNow' = FALSE
      /\ checked' = IF checkNow THEN tip ELSE checked
  BY DEF CheckForProofs, running
<1>6. Typed'
  <2>1. loop' \in [Loops -> GoodLoops]
    BY <1>0, <1>1, <1>2
  <2>2. checked' \in Nat /\ checked' <= tip
    BY <1>5 DEF Typed
  <2>3. UNCHANGED <<running, chain, nudges, req, tx, faults, skipped>>
    BY DEF CheckForProofs
  <2> QED BY <1>4, <1>5, <2>1, <2>2, <2>3 DEF Typed, running, chain
<1>7. UNCHANGED Ready
  BY <1>5 DEF Ready
<1>8. \A q \in Ready : Rank(Ready, q) \in Nat
  BY ReadyIsList, RankType
<1>9. SkipInv'
  <2>1. SkipOf(l)'
    <3>1. Behind(missed'[l] \ InPage(l)', Ready', NextOffset(l)') = {}
      BY <1>2, <1>3, <1>4, <1>7, <1>8 DEF Behind, InPage, NextOffset, At
    <3>2. ~At(l, "proofs")'
      BY <1>2, <1>3 DEF At
    <3>3. Cardinality(Behind(missed'[l] \ InPage(l)', Ready', NextOffset(l)')) <= left'[l]
      <4>1. Cardinality(Behind(missed'[l] \ InPage(l)', Ready', NextOffset(l)')) = 0
        BY <3>1, FS_EmptySet, Zenon
      <4>2. left'[l] = 0
        BY <1>4
      <4> QED BY <4>1, <4>2
    <3> QED BY <3>2, <3>3, Zenon DEF SkipOf
  <2>2. ASSUME NEW k \in Loops, k # l
        PROVE  SkipOf(k)'
    BY <1>3, <1>4, <1>7, <2>2 DEF SkipInv, SkipOf, InPage, NextOffset, At
  <2> QED BY <1>5, <2>1, <2>2 DEF SkipInv
<1>10. CountInv'
  <2> SUFFICES ASSUME ~overlapped
               PROVE  /\ Alone'
                      /\ \A q \in Reqs : req'[q].attempts <= 2 * Spent'
                      /\ \A k \in Loops : CountOf(k)'
    BY <1>5 DEF CountInv
  <2>1. /\ Alone /\ (checkNow => nudges > 0)
        /\ \A q \in Reqs : req[q].attempts <= 2 * Spent
    BY DEF CountInv
  <2>2. Spent \in Int /\ Spent' = IF checkNow THEN Spent + 1 ELSE Spent
    BY <1>5 DEF Spent, Typed
  <2>3. \A q \in Reqs : req[q].attempts \in Nat
    BY DEF Typed, Rows
  <2>4. \A q \in Reqs : /\ req'[q].attempts <= 2 * Spent'
                        /\ checkNow => req'[q].attempts + 2 <= 2 * Spent'
    BY <1>5, <2>1, <2>2, <2>3
  <2>5. ~Idle(l) /\ \A k \in Loops \ {l} : Idle(k)
    <3>1. ~Idle(l)
      BY DEF CheckForProofs, Idle, At
    <3> QED BY <2>1, <3>1 DEF Alone
  <2>6. \A k \in Loops \ {l} : Idle(k)'
    BY <1>3, <2>5 DEF Idle, At
  <2>7. Alone'
    BY <2>6 DEF Alone
  <2>8. CountOf(l)'
    <3>1. InPage(l)' = {} /\ loop'[l].counts = checkNow
      BY <1>2, <1>3 DEF InPage
    <3> QED BY <1>4, <1>7, <2>4, <3>1, ReadyIsList DEF CountOf
  <2>9. \A k \in Loops \ {l} : CountOf(k)'
    BY <2>6 DEF CountOf, Runs, Idle, At
  <2> QED BY <2>4, <2>7, <2>8, <2>9
<1> QED
  BY <1>6, <1>9, <1>10

\* What a page that is read changes: the run looks at its reqs, or is over if it is empty.
LEMMA PageRead ==
    ASSUME Typed, NEW l \in Loops, ReadPage(l), NEW page, page = PageOf(Ready, loop[l].offset)
    PROVE  /\ Typed'
           /\ \A k \in Loops \ {l} : /\ loop'[k] = loop[k] /\ missed'[k] = missed[k]
                                     /\ left'[k] = left[k]
           /\ UNCHANGED <<req, overlapped, checkNow, nudges>>
           /\ page = {} => loop'[l].at = "next"
           /\ page = {} => skipped' = (skipped \/ Cardinality(missed[l]) > left[l])
           /\ page # {} => /\ loop'[l].at = "proofs" /\ loop'[l].page = [q \in page |-> req[q]]
                           /\ loop'[l].full = (Cardinality(page) >= PageSize)
                           /\ loop'[l].offset = loop[l].offset
                           /\ loop'[l].counts = loop[l].counts
                           /\ missed'[l] = missed[l] /\ left'[l] = left[l]
                           /\ skipped' = skipped
<1> DEFINE at == IF page = {} THEN "next" ELSE "proofs"
           full == Cardinality(page) >= PageSize
           held == [q \in page |-> req[q]]
           r == [loop[l] EXCEPT !.at = at, !.full = full, !.page = held]
<1>0. /\ loop \in [Loops -> GoodLoops] /\ loop[l] \in LoopStates /\ loop[l].offset \in Nat
      /\ loop[l].at = "page"
  BY DEF Typed, GoodLoops, LoopStates, ReadPage, At
<1>1. loop' = [loop EXCEPT ![l] = r] /\ Tally(l, at, missed[l], left)
  BY <1>0 DEF ReadPage
<1>2. page \subseteq Reqs /\ Cardinality(page) <= PageSize
  BY <1>0, ReadyIsList, PageHolds
<1>3. held \in Pages /\ DOMAIN held = page
  BY <1>2 DEF Pages, Typed
<1>4. at \in Places /\ at # "CheckForProofs" /\ (at = "proofs" <=> page # {})
  BY PlacesAre
<1>5. full \in BOOLEAN
  OBVIOUS
<1> HIDE DEF at, full, held
<1>6. r \in GoodLoops /\ r.at = at /\ r.full = full /\ r.page = held
      /\ r.offset = loop[l].offset /\ r.counts = loop[l].counts
  BY <1>0, <1>2, <1>3, <1>4, <1>5 DEF GoodLoops, LoopStates
<1> HIDE DEF r
<1>7. /\ loop' \in [Loops -> GoodLoops]
      /\ \A k \in Loops : loop'[k] = IF k = l THEN r ELSE loop[k]
  BY <1>0, <1>1, <1>6
<1>8. /\ missed' \in [Loops -> SUBSET Reqs] /\ left' \in [Loops -> Nat] /\ skipped' \in BOOLEAN
      /\ \A k \in Loops \ {l} : missed'[k] = missed[k] /\ left'[k] = left[k]
      /\ at # "next" => missed'[l] = missed[l] /\ left'[l] = left[l] /\ skipped' = skipped
      /\ at = "next" => skipped' = (skipped \/ Cardinality(missed[l]) > left[l])
  BY <1>1 DEF Tally, Typed
<1>9. UNCHANGED <<running, chain, nudged, req, tx, faults>>
  BY DEF ReadPage
<1>10. Typed'
  BY <1>7, <1>8, <1>9 DEF Typed, running, chain, nudged
<1> QED
  BY <1>6, <1>7, <1>8, <1>9, <1>10 DEF at, full, held, running, nudged

LEMMA ReadPageKeeps ==
    ASSUME Typed, SkipInv, CountInv, NEW l \in Loops, ReadPage(l)
    PROVE  Typed' /\ SkipInv' /\ CountInv'
<1> DEFINE o == loop[l].offset
           page == PageOf(Ready, o)
<1>0. /\ o \in Nat /\ PageSize \in Nat /\ PageSize > 0 /\ loop[l].at = "page" /\ InPage(l) = {}
      /\ missed[l] \in SUBSET Reqs /\ missed[l] \in SUBSET Nat /\ IsFiniteSet(missed[l])
      /\ left[l] \in Nat
  <2>1. loop[l] \in GoodLoops /\ missed[l] \in SUBSET Reqs
    BY DEF Typed
  <2>2. loop[l].at = "page"
    BY DEF ReadPage, At
  <2>3. /\ missed[l] \in SUBSET Nat /\ IsFiniteSet(missed[l])
        /\ PageSize \in Nat /\ PageSize > 0
    <3>1. IsFiniteSet(missed[l])
      BY <2>1, MonitorAssumption, FS_Subset
    <3>2. missed[l] \in SUBSET Nat
      BY <2>1, MonitorAssumption
    <3>3. PageSize \in Nat /\ PageSize > 0
      BY MonitorAssumption
    <3> QED BY <3>1, <3>2, <3>3
  <2>4. o \in Nat /\ InPage(l) = {}
    BY <2>1, <2>2 DEF GoodLoops, LoopStates, InPage
  <2> QED BY <2>1, <2>2, <2>3, <2>4 DEF Typed
<1>1. /\ page = {q \in Ready : o <= Rank(Ready, q) /\ Rank(Ready, q) < o + PageSize}
      /\ \A q \in Ready : o + PageSize <= Rank(Ready, q) => Cardinality(page) >= PageSize
      /\ \A q \in Ready : o <= Rank(Ready, q) => page # {}
      /\ \A q \in Ready : Rank(Ready, q) \in Nat
  BY <1>0, ReadyIsList, PageHolds, RankType
<1>2. Cardinality(Behind(missed[l], Ready, o)) <= left[l]
  <2>1. SkipOf(l) /\ At(l, "page") /\ ~At(l, "proofs")
    BY <1>0 DEF SkipInv, At
  <2>2. missed[l] \ InPage(l) = missed[l] /\ NextOffset(l) = o
    BY <1>0, <2>1 DEF NextOffset
  <2> QED BY <2>1, <2>2 DEF SkipOf
<1>3. /\ Typed'
      /\ \A k \in Loops \ {l} : /\ loop'[k] = loop[k] /\ missed'[k] = missed[k]
                                /\ left'[k] = left[k]
      /\ UNCHANGED <<req, overlapped, checkNow, nudges>>
  BY PageRead
<1>4. page = {} => loop'[l].at = "next" /\ skipped' = (skipped \/ Cardinality(missed[l]) > left[l])
  BY PageRead
<1>5. page # {} => /\ loop'[l].at = "proofs" /\ loop'[l].page = [q \in page |-> req[q]]
                   /\ loop'[l].full = (Cardinality(page) >= PageSize)
                   /\ loop'[l].offset = o /\ loop'[l].counts = loop[l].counts
                   /\ missed'[l] = missed[l] /\ left'[l] = left[l]
                   /\ skipped' = skipped
  BY PageRead
<1> HIDE DEF page, o
<1>6. UNCHANGED <<Ready, Spent>>
  BY <1>3 DEF Ready, Spent
<1>7. ASSUME NEW k \in Loops, k # l
      PROVE  SkipOf(k)' /\ (CountOf(k) => CountOf(k)')
  <2>1. SkipOf(k)
    BY DEF SkipInv
  <2>2. SkipOf(k)'
    BY <1>3, <1>6, <1>7, <2>1 DEF SkipOf, InPage, NextOffset, At
  <2>3. CountOf(k) => CountOf(k)'
    BY <1>3, <1>6, <1>7 DEF CountOf, Runs, InPage, NextOffset, At
  <2> QED BY <2>2, <2>3
<1>8. SkipInv'
  <2>1. CASE page = {}
    <3>1. Behind(missed[l], Ready, o) = missed[l]
      BY <1>0, <1>1, <2>1 DEF Behind
    <3>2. ~(Cardinality(missed[l]) > left[l])
      BY <1>0, <1>2, <3>1, FS_CardinalityType
    <3>3. ~skipped'
      BY <1>4, <2>1, <3>2 DEF SkipInv
    <3>4. SkipOf(l)'
      BY <1>4, <2>1 DEF SkipOf, At
    <3> QED BY <1>7, <3>3, <3>4 DEF SkipInv
  <2>2. CASE page # {}
    <3> DEFINE unread == missed[l] \ page
    <3>1. /\ InPage(l)' = page /\ At(l, "proofs")' /\ ~At(l, "page")'
          /\ NextOffset(l)' = o + PageSize
      BY <1>5, <2>2 DEF InPage, At, NextOffset
    <3>2. Behind(unread, Ready, o + PageSize) \subseteq Behind(missed[l], Ready, o)
      BY <1>0, <1>1 DEF Behind
    <3>3. ~(Cardinality(page) >= PageSize) => unread \subseteq Behind(missed[l], Ready, o)
      BY <1>0, <1>1 DEF Behind
    <3>4. IsFiniteSet(Behind(missed[l], Ready, o))
      BY <1>0, FS_Subset DEF Behind
    <3>5. Cardinality(Behind(unread, Ready, o + PageSize)) <= left[l]
      <4>1. IsFiniteSet(Behind(unread, Ready, o + PageSize))
        BY <3>2, <3>4, FS_Subset
      <4>2. Cardinality(Behind(unread, Ready, o + PageSize))
              <= Cardinality(Behind(missed[l], Ready, o))
        BY <3>2, <3>4, FS_Subset
      <4>3. /\ Cardinality(Behind(unread, Ready, o + PageSize)) \in Nat
            /\ Cardinality(Behind(missed[l], Ready, o)) \in Nat
        BY <3>4, <4>1, FS_CardinalityType
      <4> QED BY <1>0, <1>2, <4>2, <4>3
    <3>6. ~(Cardinality(page) >= PageSize) => Cardinality(unread) <= left[l]
      <4> SUFFICES ASSUME ~(Cardinality(page) >= PageSize)
                   PROVE  Cardinality(unread) <= left[l]
        OBVIOUS
      <4>1. IsFiniteSet(unread)
        BY <3>3, <3>4, FS_Subset
      <4> QED BY <1>0, <1>2, <3>3, <3>4, <4>1, FS_Subset, FS_CardinalityType
    <3>7. SkipOf(l)'
      <4>1. Cardinality(Behind(missed'[l] \ InPage(l)', Ready', NextOffset(l)')) <= left'[l]
        BY <1>5, <1>6, <2>2, <3>1, <3>5
      <4>2. ~loop'[l].full => Cardinality(missed'[l] \ InPage(l)') <= left'[l]
        BY <1>5, <2>2, <3>1, <3>6
      <4> QED BY <4>1, <4>2, Zenon DEF SkipOf
    <3>8. ~skipped'
      BY <1>5, <2>2 DEF SkipInv
    <3> QED BY <1>7, <3>7, <3>8 DEF SkipInv
  <2> QED BY <2>1, <2>2
<1>9. CountInv'
  <2> SUFFICES ASSUME ~overlapped
               PROVE  /\ Alone' /\ (checkNow' => nudges' > 0)
                      /\ \A q \in Reqs : req'[q].attempts <= 2 * Spent'
                      /\ \A k \in Loops : CountOf(k)'
    BY <1>3 DEF CountInv
  <2>1. /\ Alone /\ (checkNow => nudges > 0)
        /\ \A q \in Reqs : req[q].attempts <= 2 * Spent
        /\ \A k \in Loops : CountOf(k)
    BY DEF CountInv
  <2>2. ~Idle(l) /\ \A k \in Loops \ {l} : Idle(k)'
    <3>1. ~Idle(l)
      BY <1>0 DEF Idle, At
    <3> QED BY <1>3, <2>1, <3>1 DEF Alone, Idle, At
  <2>3. Alone'
    BY <2>2 DEF Alone
  <2>4. CountOf(l)'
    <3>1. CASE page = {}
      BY <1>4, <3>1 DEF CountOf, Runs, At
    <3>2. CASE page # {}
      <4>1. /\ InPage(l)' = page /\ NextOffset(l)' = o + PageSize
        BY <1>5, <3>2 DEF InPage, At, NextOffset
      <4>2. /\ \A q \in Ready : q \in missed[l] \/ Rank(Ready, q) < o
            /\ loop[l].counts => \A q \in missed[l] : req[q].attempts + 2 <= 2 * Spent
        BY <1>0, <2>1 DEF CountOf, Runs, At, InPage, NextOffset, o
      <4>3. \A q \in page : q \in missed[l] /\ q \in Ready
        BY <1>0, <1>1, <4>2
      <4>4. \A q \in Ready : q \in missed[l] \ page \/ Rank(Ready, q) < o + PageSize
        BY <1>0, <1>1, <4>2
      <4>5. \A q \in page : loop'[l].page[q] = req'[q]
        BY <1>3, <1>5, <3>2
      <4> QED BY <1>3, <1>5, <1>6, <3>2, <4>1, <4>2, <4>3, <4>4, <4>5 DEF CountOf
    <3> QED BY <3>1, <3>2
  <2> QED BY <1>3, <1>6, <1>7, <2>1, <2>3, <2>4
<1> QED
  BY <1>3, <1>8, <1>9
-----------------------------------------------------------------------------
(* A req is looked at.                                                     *)

\* The req leaves the list.
Leaves(q, row) == q \in Ready /\ row.status # "unmined"

\* What the list does to those behind an offset.
LEMMA ListMoves ==
    ASSUME Typed, NEW q \in Reqs, NEW row \in Rows, req' = [req EXCEPT ![q] = row],
           NEW U \in SUBSET Reqs, NEW o \in Nat, NEW n \in Nat,
           Cardinality(Behind(U, Ready, o)) <= n
    PROVE  /\ Leaves(q, row) => Cardinality(Behind(U, Ready', o)) <= n + 1
           /\ ~Leaves(q, row) => Cardinality(Behind(U, Ready', o)) <= n
<1>1. IsFiniteSet(U) /\ U \in SUBSET Nat /\ IsFiniteSet(Reqs) /\ Reqs \in SUBSET Nat
  BY MonitorAssumption, FS_Subset
<1>2. Ready' = IF row.status = "unmined" THEN Ready \cup {q} ELSE Ready \ {q}
  BY DEF Ready, Typed
<1>3. IsFiniteSet(Ready') /\ Ready' \in SUBSET Nat
  <2>1. Ready' \in SUBSET Reqs
    BY <1>2 DEF Ready
  <2> QED BY <1>1, <2>1, FS_Subset
<1>4. \A S \in {Ready, Ready'} : Cardinality(Behind(U, S, o)) \in Nat
  BY <1>1, FS_Subset, FS_CardinalityType DEF Behind
<1>5. CASE Leaves(q, row)
  <2>1. Ready' = Ready \ {q}
    BY <1>2, <1>5 DEF Leaves
  <2>2. Cardinality(Behind(U, Ready \ {q}, o)) <= Cardinality(Behind(U, Ready, o)) + 1
    BY <1>1, ReadyIsList, BehindWithout
  <2> QED BY <1>4, <1>5, <2>1, <2>2
<1>6. CASE ~Leaves(q, row)
  <2>1. Ready \subseteq Ready'
    BY <1>2, <1>6 DEF Leaves
  <2>2. Cardinality(Behind(U, Ready', o)) <= Cardinality(Behind(U, Ready, o))
    BY <1>1, <1>3, <2>1, BehindWith
  <2> QED BY <1>4, <1>6, <2>2
<1> QED
  BY <1>5, <1>6

\* What a req that is looked at changes: the run goes on with the page, with the next page,
\* or is over.
LEMMA ReqLooked ==
    ASSUME Typed, NEW l \in Loops, At(l, "proofs"), NEW row \in Rows, Looked(l, row),
           NEW q, q = LooksAt(l)
    PROVE  /\ Typed'
           /\ q \in InPage(l) /\ q \in Reqs /\ InPage(l) \subseteq Reqs
           /\ req' = [req EXCEPT ![q] = row]
           /\ UNCHANGED <<overlapped, checkNow, nudges>>
           /\ \A k \in Loops \ {l} :
                /\ loop'[k] = loop[k] /\ missed'[k] = missed[k]
                /\ Runs(k) => left'[k] = IF Leaves(q, row) THEN left[k] + 1 ELSE left[k]
           /\ InPage(l) = {q} /\ ~loop[l].full =>
                /\ loop'[l].at = "next"
                /\ skipped' = (skipped \/ Cardinality(missed[l] \ {q}) >
                                            IF Leaves(q, row) THEN left[l] + 1 ELSE left[l])
           /\ InPage(l) # {q} \/ loop[l].full =>
                /\ loop'[l].counts = loop[l].counts
                /\ NextOffset(l)' = NextOffset(l) /\ InPage(l)' = InPage(l) \ {q}
                /\ \A p \in InPage(l)' : loop'[l].page[p] = loop[l].page[p]
                /\ loop'[l].at \in {"page", "proofs"} /\ (loop'[l].at = "page" => loop[l].full)
                /\ loop'[l].at = "proofs" => loop'[l].full = loop[l].full
                /\ missed'[l] = missed[l] \ {q}
                /\ left'[l] = IF Leaves(q, row) THEN left[l] + 1 ELSE left[l]
                /\ skipped' = skipped
<1> DEFINE rest == InPage(l) \ {q}
           next == IF rest = {} THEN AfterPage(l)
                   ELSE [loop[l] EXCEPT !.page = [p \in rest |-> @[p]]]
           gone == [k \in Loops |-> IF Leaves(q, row) /\ Runs(k) THEN left[k] + 1 ELSE left[k]]
<1>0. /\ loop \in [Loops -> GoodLoops] /\ loop[l] \in LoopStates /\ loop[l].offset \in Nat
      /\ loop[l].at = "proofs" /\ loop[l].page \in [InPage(l) -> Rows] /\ InPage(l) \subseteq Reqs
      /\ InPage(l) # {} /\ Cardinality(InPage(l)) <= PageSize /\ loop[l].full \in BOOLEAN
      /\ PageSize \in Nat
  <2>1. loop \in [Loops -> GoodLoops] /\ loop[l].at = "proofs"
    BY DEF Typed, At
  <2>2. loop[l] \in GoodLoops
    BY <2>1
  <2>3. loop[l].page \in Pages /\ loop[l] \in LoopStates
    BY <2>2 DEF GoodLoops, LoopStates
  <2>4. loop[l].page \in [InPage(l) -> Rows] /\ InPage(l) \subseteq Reqs
    BY <2>3 DEF Pages, InPage
  <2> QED BY <2>1, <2>2, <2>3, <2>4, MonitorAssumption DEF GoodLoops, LoopStates, InPage
<1>1. q \in InPage(l) /\ q \in Reqs /\ rest \subseteq Reqs
  <2>1. InPage(l) \subseteq Nat
    BY <1>0, MonitorAssumption
  <2> QED BY <1>0, <2>1, LeastMember DEF LooksAt, InPage
<1>2. /\ req' = [req EXCEPT ![q] = row] /\ loop' = [loop EXCEPT ![l] = next]
      /\ Tally(l, next.at, missed[l] \ {q}, gone)
      /\ UNCHANGED <<running, chain, nudged, tx, faults>>
  BY DEF Looked, InPage, Leaves, Runs, At
<1>3. /\ rest # {} => /\ next \in GoodLoops /\ next.at = "proofs" /\ DOMAIN next.page = rest
                      /\ \A p \in rest : next.page[p] = loop[l].page[p]
                      /\ next.offset = loop[l].offset /\ next.counts = loop[l].counts
                      /\ next.full = loop[l].full
  <2> SUFFICES ASSUME rest # {}
               PROVE  /\ next \in GoodLoops /\ next.at = "proofs" /\ DOMAIN next.page = rest
                      /\ \A p \in rest : next.page[p] = loop[l].page[p]
                      /\ next.offset = loop[l].offset /\ next.counts = loop[l].counts
                      /\ next.full = loop[l].full
    OBVIOUS
  <2> DEFINE held == [p \in rest |-> loop[l].page[p]]
  <2>1. next = [loop[l] EXCEPT !.page = held]
    OBVIOUS
  <2>2. held \in Pages /\ DOMAIN held = rest /\ \A p \in rest : held[p] = loop[l].page[p]
    <3>1. held \in [rest -> Rows]
      BY <1>0
    <3> HIDE DEF held, rest
    <3>2. held \in Pages
      BY <1>1, <3>1 DEF Pages
    <3> QED BY <3>2 DEF held
  <2>3. Cardinality(rest) <= PageSize
    <3>1. IsFiniteSet(InPage(l))
      BY <1>0, MonitorAssumption, FS_Subset
    <3>2. Cardinality(rest) <= Cardinality(InPage(l)) /\ IsFiniteSet(rest)
      BY <3>1, FS_Subset
    <3> QED BY <1>0, <3>1, <3>2, FS_CardinalityType
  <2> HIDE DEF held, rest, next
  <2> QED BY <1>0, <2>1, <2>2, <2>3 DEF GoodLoops, LoopStates
<1>4. rest = {} /\ loop[l].full =>
        /\ next \in GoodLoops /\ next.at = "page" /\ DOMAIN next.page = {}
        /\ next.offset = loop[l].offset + PageSize /\ next.counts = loop[l].counts
  <2> DEFINE o == loop[l].offset + PageSize
             n == [loop[l] EXCEPT !.page = <<>>, !.at = "page", !.offset = o, !.full = FALSE]
  <2>1. rest = {} /\ loop[l].full => next = n
    BY DEF AfterPage
  <2>2. o \in Nat
    BY <1>0
  <2> HIDE DEF o
  <2>3. n \in GoodLoops /\ n.at = "page" /\ n.page = <<>> /\ n.offset = o /\ n.counts = loop[l].counts
    BY <1>0, <2>2, NoPage, PlacesAre DEF GoodLoops, LoopStates
  <2> HIDE DEF n, next
  <2> QED BY <2>1, <2>3, NoPage DEF o
<1>5. rest = {} /\ ~loop[l].full => next \in GoodLoops /\ next.at = "next"
  BY <1>0, NoPage, PlacesAre DEF AfterPage, GoodLoops, LoopStates
<1> HIDE DEF next
<1>6. /\ loop' \in [Loops -> GoodLoops]
      /\ \A k \in Loops : loop'[k] = IF k = l THEN next ELSE loop[k]
  BY <1>0, <1>2, <1>3, <1>4, <1>5
<1>7. gone \in [Loops -> Nat] /\ Runs(l)
  BY DEF Typed, Runs
<1>8. /\ missed' \in [Loops -> SUBSET Reqs] /\ left' \in [Loops -> Nat] /\ skipped' \in BOOLEAN
      /\ \A k \in Loops \ {l} : missed'[k] = missed[k] /\ left'[k] = gone[k]
      /\ next.at # "next" => missed'[l] = missed[l] \ {q} /\ left'[l] = gone[l] /\ skipped' = skipped
      /\ next.at = "next" => skipped' = (skipped \/ Cardinality(missed[l] \ {q}) > gone[l])
  <2> HIDE DEF gone
  <2> QED BY <1>2, <1>7 DEF Tally, Typed
<1>9. Typed'
  <2>1. req' \in [Reqs -> Rows]
    BY <1>1, <1>2 DEF Typed
  <2> QED BY <1>2, <1>6, <1>8, <2>1 DEF Typed, running, chain, nudged
<1>10. gone[l] = IF Leaves(q, row) THEN left[l] + 1 ELSE left[l]
  BY <1>7
<1>11. \A k \in Loops \ {l} : Runs(k) => gone[k] = IF Leaves(q, row) THEN left[k] + 1 ELSE left[k]
  OBVIOUS
<1> HIDE DEF gone
<1>12. InPage(l) = {q} <=> rest = {}
  BY <1>1
<1>13. UNCHANGED <<overlapped, checkNow, nudges>>
  BY <1>2 DEF running, nudged
<1>14. InPage(l) = {q} /\ ~loop[l].full =>
         /\ loop'[l].at = "next"
         /\ skipped' = (skipped \/ Cardinality(missed[l] \ {q}) >
                                     IF Leaves(q, row) THEN left[l] + 1 ELSE left[l])
  BY <1>5, <1>6, <1>8, <1>10, <1>12
<1>15. InPage(l) # {q} \/ loop[l].full =>
         /\ loop'[l].counts = loop[l].counts
         /\ NextOffset(l)' = NextOffset(l) /\ InPage(l)' = rest
         /\ \A p \in InPage(l)' : loop'[l].page[p] = loop[l].page[p]
         /\ loop'[l].at \in {"page", "proofs"} /\ (loop'[l].at = "page" => loop[l].full)
         /\ loop'[l].at = "proofs" => loop'[l].full = loop[l].full
         /\ missed'[l] = missed[l] \ {q}
         /\ left'[l] = IF Leaves(q, row) THEN left[l] + 1 ELSE left[l]
         /\ skipped' = skipped
  <2>1. CASE rest # {}
    <3>1. loop'[l] = next /\ next.at = "proofs"
      BY <1>3, <1>6, <2>1
    <3>2. NextOffset(l)' = NextOffset(l) /\ InPage(l)' = rest
      BY <1>0, <1>3, <2>1, <3>1 DEF NextOffset, InPage, At
    <3> QED BY <1>3, <1>8, <1>10, <2>1, <3>1, <3>2
  <2>2. CASE rest = {} /\ loop[l].full
    <3>1. loop'[l] = next /\ next.at = "page"
      BY <1>4, <1>6, <2>2
    <3>2. NextOffset(l)' = NextOffset(l) /\ InPage(l)' = rest
      BY <1>0, <1>4, <2>2, <3>1 DEF NextOffset, InPage, At
    <3> QED BY <1>4, <1>8, <1>10, <2>2, <3>1, <3>2
  <2> QED BY <1>12, <2>1, <2>2
<1> QED
  BY <1>0, <1>1, <1>2, <1>6, <1>8, <1>9, <1>11, <1>13, <1>14, <1>15

\* A row that is looked at keeps the invariant if it has two attempts more at most than the
\* req, and those only in a run that counts.
LEMMA LookedKeeps ==
    ASSUME Typed, SkipInv, CountInv, NEW l \in Loops, At(l, "proofs"), NEW row \in Rows,
           Looked(l, row),
           overlapped \/ row.attempts <= IF loop[l].counts THEN req[LooksAt(l)].attempts + 2
                                         ELSE req[LooksAt(l)].attempts
    PROVE  Typed' /\ SkipInv' /\ CountInv'
<1> DEFINE q == LooksAt(l)
           goes == InPage(l) # {q} \/ loop[l].full
           more(n) == IF Leaves(q, row) THEN n + 1 ELSE n
<1>1. /\ Typed'
      /\ q \in InPage(l) /\ q \in Reqs /\ InPage(l) \subseteq Reqs
      /\ req' = [req EXCEPT ![q] = row]
      /\ UNCHANGED <<overlapped, checkNow, nudges>>
      /\ \A k \in Loops \ {l} :
           /\ loop'[k] = loop[k] /\ missed'[k] = missed[k]
           /\ Runs(k) => left'[k] = more(left[k])
  BY ReqLooked
<1>2. ~goes => /\ loop'[l].at = "next"
               /\ skipped' = (skipped \/ Cardinality(missed[l] \ {q}) > more(left[l]))
  BY ReqLooked
<1>3. goes => /\ loop'[l].counts = loop[l].counts
              /\ NextOffset(l)' = NextOffset(l) /\ InPage(l)' = InPage(l) \ {q}
              /\ \A p \in InPage(l)' : loop'[l].page[p] = loop[l].page[p]
              /\ loop'[l].at \in {"page", "proofs"} /\ (loop'[l].at = "page" => loop[l].full)
              /\ loop'[l].at = "proofs" => loop'[l].full = loop[l].full
              /\ missed'[l] = missed[l] \ {q}
              /\ left'[l] = more(left[l])
              /\ skipped' = skipped
  BY ReqLooked
<1>4. \A k \in Loops : /\ missed[k] \in SUBSET Reqs /\ IsFiniteSet(missed[k]) /\ left[k] \in Nat
                       /\ NextOffset(k) \in Nat
  <2> SUFFICES ASSUME NEW k \in Loops
               PROVE  /\ missed[k] \in SUBSET Reqs /\ IsFiniteSet(missed[k]) /\ left[k] \in Nat
                      /\ NextOffset(k) \in Nat
    OBVIOUS
  <2>1. missed[k] \in SUBSET Reqs /\ left[k] \in Nat /\ loop[k] \in GoodLoops
    BY DEF Typed
  <2>2. IsFiniteSet(missed[k])
    BY <2>1, MonitorAssumption, FS_Subset
  <2>3. NextOffset(k) \in Nat
    BY <2>1, MonitorAssumption DEF NextOffset, GoodLoops, LoopStates
  <2> QED BY <2>1, <2>2, <2>3
<1>5. q \in Reqs /\ row \in Rows /\ req' = [req EXCEPT ![q] = row]
  BY <1>1
<1> HIDE DEF q
<1>6. ASSUME NEW U \in SUBSET Reqs, NEW o \in Nat, NEW n \in Nat,
             Cardinality(Behind(U, Ready, o)) <= n
      PROVE  Cardinality(Behind(U, Ready', o)) <= more(n)
  BY <1>5, <1>6, ListMoves
<1>7. \A n \in Nat : more(n) \in Nat /\ n <= more(n)
  OBVIOUS
<1> HIDE DEF more, goes
<1>8. ASSUME NEW k \in Loops, k # l
      PROVE  SkipOf(k)'
  <2>1. CASE ~Runs(k)
    BY <1>1, <1>8, <2>1 DEF SkipOf, Runs, At
  <2>2. CASE Runs(k)
    <3> DEFINE unread == missed[k] \ InPage(k)
    <3>1. /\ missed'[k] \ InPage(k)' = unread /\ NextOffset(k)' = NextOffset(k)
          /\ left'[k] = more(left[k]) /\ loop'[k] = loop[k]
      BY <1>1, <1>8, <2>2 DEF InPage, NextOffset, At
    <3>2. unread \in SUBSET Reqs /\ IsFiniteSet(unread)
      BY <1>4, FS_Subset
    <3>3. SkipOf(k)
      BY DEF SkipInv
    <3>4. Cardinality(unread) \in Nat
      BY <3>2, FS_CardinalityType
    <3> HIDE DEF unread
    <3>5. At(k, "page") \/ (At(k, "proofs") /\ loop[k].full) =>
            Cardinality(Behind(unread, Ready', NextOffset(k))) <= more(left[k])
      BY <1>4, <1>6, <3>2, <3>3 DEF SkipOf, unread
    <3>6. At(k, "proofs") /\ ~loop[k].full => Cardinality(unread) <= more(left[k])
      BY <1>4, <1>7, <3>3, <3>4 DEF SkipOf, unread
    <3>7. /\ At(k, "page")' <=> At(k, "page")
          /\ At(k, "proofs")' <=> At(k, "proofs")
      BY <3>1 DEF At
    <3>8. At(k, "page")' \/ (At(k, "proofs")' /\ loop'[k].full) =>
            Cardinality(Behind(missed'[k] \ InPage(k)', Ready', NextOffset(k)')) <= left'[k]
      BY <3>1, <3>5, <3>7
    <3>9. At(k, "proofs")' /\ ~loop'[k].full => Cardinality(missed'[k] \ InPage(k)') <= left'[k]
      BY <3>1, <3>6, <3>7
    <3> QED BY <3>8, <3>9, Zenon DEF SkipOf
  <2> QED BY <2>1, <2>2
<1>9. SkipOf(l) /\ ~skipped
  BY DEF SkipInv
<1>10. SkipInv'
  <2> DEFINE unread == missed[l] \ InPage(l)
  <2>1. unread \in SUBSET Reqs /\ IsFiniteSet(unread) /\ Cardinality(unread) \in Nat
    <3>1. unread \in SUBSET Reqs /\ IsFiniteSet(unread)
      BY <1>4, FS_Subset
    <3> QED BY <3>1, FS_CardinalityType
  <2>2. loop[l].full => Cardinality(Behind(unread, Ready, NextOffset(l))) <= left[l]
    BY <1>9 DEF SkipOf
  <2>3. ~loop[l].full => Cardinality(unread) <= left[l]
    BY <1>9 DEF SkipOf
  <2>4. loop[l].full => Cardinality(Behind(unread, Ready', NextOffset(l))) <= more(left[l])
    BY <1>4, <1>6, <2>1, <2>2
  <2>5. ~loop[l].full => Cardinality(unread) <= more(left[l])
    BY <1>4, <1>7, <2>1, <2>3
  <2>6. CASE goes
    <3>1. missed'[l] \ InPage(l)' = unread
      BY <1>1, <1>3, <2>6
    <3>2. SkipOf(l)'
      <4>1. At(l, "page")' \/ (At(l, "proofs")' /\ loop'[l].full) => loop[l].full
        BY <1>3, <2>6 DEF At
      <4>2. At(l, "proofs")' /\ ~loop'[l].full => ~loop[l].full
        BY <1>3, <2>6 DEF At
      <4> HIDE DEF unread
      <4>3. NextOffset(l)' = NextOffset(l) /\ left'[l] = more(left[l])
        BY <1>3, <2>6
      <4> QED BY <2>4, <2>5, <3>1, <4>1, <4>2, <4>3, Zenon DEF SkipOf
    <3>3. ~skipped'
      BY <1>3, <1>9, <2>6
    <3> QED BY <1>8, <3>2, <3>3 DEF SkipInv
  <2>7. CASE ~goes
    <3>1. missed[l] \ {q} = unread /\ ~loop[l].full
      BY <2>7 DEF goes
    <3>2. more(left[l]) \in Nat
      BY <1>4, <1>7
    <3>3. ~(Cardinality(unread) > more(left[l]))
      BY <2>1, <2>5, <3>1, <3>2
    <3>4. ~skipped'
      BY <1>2, <1>9, <2>7, <3>1, <3>3
    <3>5. SkipOf(l)'
      BY <1>2, <2>7 DEF SkipOf, At
    <3> QED BY <1>8, <3>4, <3>5 DEF SkipInv
  <2> QED BY <2>6, <2>7
<1>11. CountInv'
  <2> SUFFICES ASSUME ~overlapped
               PROVE  /\ Alone' /\ (checkNow' => nudges' > 0)
                      /\ \A p \in Reqs : req'[p].attempts <= 2 * Spent'
                      /\ \A k \in Loops : CountOf(k)'
    BY <1>1 DEF CountInv
  <2>1. /\ Alone /\ (checkNow => nudges > 0)
        /\ \A p \in Reqs : req[p].attempts <= 2 * Spent
        /\ CountOf(l) /\ Runs(l)
    BY DEF CountInv, Runs
  <2>2. ~Idle(l) /\ \A k \in Loops \ {l} : Idle(k)'
    <3>1. ~Idle(l)
      BY DEF Idle, At
    <3> QED BY <1>1, <2>1, <3>1 DEF Alone, Idle, At
  <2>3. Alone'
    BY <2>2 DEF Alone
  <2>4. UNCHANGED Spent /\ Spent \in Int
    BY <1>1 DEF Spent, Typed
  <2>5. q \in missed[l] /\ q \in Ready
    BY <1>1, <2>1 DEF CountOf
  <2>6. row.attempts <= 2 * Spent
    <3>1. req[q].attempts \in Nat /\ row.attempts \in Nat /\ req[q].attempts <= 2 * Spent
      BY <1>5, <2>1 DEF Typed, Rows
    <3>2. loop[l].counts => req[q].attempts + 2 <= 2 * Spent
      BY <2>1, <2>5 DEF CountOf
    <3>3. row.attempts <= IF loop[l].counts THEN req[q].attempts + 2 ELSE req[q].attempts
      BY DEF q
    <3> QED BY <2>4, <3>1, <3>2, <3>3
  <2>7. \A p \in Reqs : req'[p] = IF p = q THEN row ELSE req[p]
    BY <1>5 DEF Typed
  <2>8. \A p \in Reqs : req'[p].attempts <= 2 * Spent'
    BY <2>1, <2>4, <2>6, <2>7
  <2>9. CountOf(l)'
    <3>1. CASE goes
      <4>1. Ready' \subseteq Ready /\ \A p \in Ready : p # q => p \in Ready'
        BY <2>5, <2>7 DEF Ready
      <4>2. \A p \in InPage(l)' : /\ p \in missed'[l] /\ p \in Ready'
                                  /\ loop'[l].page[p] = req'[p]
        <5> SUFFICES ASSUME NEW p \in InPage(l)'
                     PROVE  p \in missed'[l] /\ p \in Ready' /\ loop'[l].page[p] = req'[p]
          OBVIOUS
        <5>1. p \in InPage(l) /\ p # q /\ p \in Reqs /\ loop'[l].page[p] = loop[l].page[p]
          BY <1>1, <1>3, <3>1
        <5>2. p \in missed[l] /\ p \in Ready /\ loop[l].page[p] = req[p]
          BY <2>1, <5>1 DEF CountOf
        <5> QED BY <1>3, <2>7, <3>1, <4>1, <5>1, <5>2
      <4>3. \A p \in Ready' : p \in missed'[l] \ InPage(l)' \/ Rank(Ready', p) < NextOffset(l)'
        <5> SUFFICES ASSUME NEW p \in Ready', p \notin missed'[l] \ InPage(l)'
                     PROVE  Rank(Ready', p) < NextOffset(l)'
          OBVIOUS
        <5>1. p \in Ready /\ p \notin missed[l] \ InPage(l)
          BY <1>1, <1>3, <3>1, <4>1
        <5>2. Rank(Ready, p) < NextOffset(l)
          BY <2>1, <5>1 DEF CountOf
        <5>3. /\ Rank(Ready', p) <= Rank(Ready, p) /\ Rank(Ready, p) \in Nat
              /\ Rank(Ready', p) \in Nat
          BY <4>1, ReadyIsList, RankGrows, RankType, FS_Subset
        <5> QED BY <1>3, <1>4, <3>1, <5>2, <5>3
      <4>4. loop'[l].counts => \A p \in missed'[l] : req'[p].attempts + 2 <= 2 * Spent'
        <5> SUFFICES ASSUME loop'[l].counts, NEW p \in missed'[l]
                     PROVE  req'[p].attempts + 2 <= 2 * Spent'
          OBVIOUS
        <5>1. p \in missed[l] /\ p # q /\ p \in Reqs /\ loop[l].counts
          BY <1>3, <1>4, <3>1
        <5> QED BY <2>1, <2>4, <2>7, <5>1 DEF CountOf
      <4> QED BY <4>2, <4>3, <4>4 DEF CountOf
    <3>2. CASE ~goes
      BY <1>2, <3>2 DEF CountOf, Runs, At
    <3> QED BY <3>1, <3>2
  <2>10. \A k \in Loops \ {l} : CountOf(k)'
    BY <2>2 DEF CountOf, Runs, Idle, At
  <2> QED BY <1>1, <2>1, <2>3, <2>8, <2>9, <2>10
<1> QED
  BY <1>1, <1>10, <1>11

\* What updateStorageDynamicProperties writes.
LEMMA WrittenRow ==
    ASSUME Typed, NEW l \in Loops, LooksAt(l) \in Reqs, NEW n \in Nat,
           NEW status \in {"unmined", "completed", "invalid"}
    PROVE  /\ Written(l, status, n) \in Rows
           /\ Written(l, status, n).attempts = IF n = 0 THEN req[LooksAt(l)].attempts ELSE n
<1>1. req[LooksAt(l)] \in Rows
  BY DEF Typed
<1> QED
  BY <1>1 DEF Written, Rows

\* The page holds what the req holds, unless the tasks were started twice.
LEMMA LookingAt ==
    ASSUME Typed, CountInv, NEW l \in Loops, At(l, "proofs")
    PROVE  /\ LooksAt(l) \in Reqs /\ Looking(l) \in Rows
           /\ overlapped \/ Looking(l) = req[LooksAt(l)]
<1>1. loop[l] \in GoodLoops /\ loop[l].at = "proofs"
  BY DEF Typed, At
<1>2. loop[l].page \in Pages /\ InPage(l) # {}
  BY <1>1 DEF GoodLoops, LoopStates, InPage
<1>3. loop[l].page \in [InPage(l) -> Rows] /\ InPage(l) \subseteq Reqs
  BY <1>2 DEF Pages, InPage
<1>4. LooksAt(l) \in InPage(l)
  <2>1. InPage(l) \subseteq Nat
    BY <1>3, MonitorAssumption
  <2> QED BY <1>2, <2>1, LeastMember DEF LooksAt, InPage
<1>5. overlapped \/ Looking(l) = req[LooksAt(l)]
  BY <1>4 DEF CountInv, CountOf, Runs, Looking
<1> QED
  BY <1>3, <1>4, <1>5 DEF Looking

LEMMA ReqsLookedAtKeep ==
    ASSUME Typed, SkipInv, CountInv, NEW l \in Loops,
           Linked(l) \/ GiveUp(l) \/ Proven(l) \/ NoProof(l)
    PROVE  Typed' /\ SkipInv' /\ CountInv'
<1> DEFINE q == LooksAt(l)
           n == Looking(l).attempts
<1>1. At(l, "proofs")
  BY DEF Linked, GiveUp, Proven, NoProof, Asks
<1>2. /\ q \in Reqs /\ Looking(l) \in Rows /\ n \in Nat /\ req[q] \in Rows
      /\ req[q].attempts \in Nat /\ (overlapped \/ n = req[q].attempts)
  <2>1. q \in Reqs /\ Looking(l) \in Rows /\ (overlapped \/ Looking(l) = req[q])
    BY <1>1, LookingAt
  <2>2. req[q] \in Rows
    BY <2>1 DEF Typed
  <2> QED BY <2>1, <2>2 DEF Rows
<1> HIDE DEF n, q
<1>3. CASE Linked(l) \/ GiveUp(l)
  <2>1. PICK status \in {"completed", "invalid"} : Looked(l, Written(l, status, n))
    BY <1>3 DEF Linked, GiveUp, n
  <2>2. /\ Written(l, status, n) \in Rows
        /\ Written(l, status, n).attempts = IF n = 0 THEN req[q].attempts ELSE n
    BY <1>2, WrittenRow DEF q
  <2>3. overlapped \/ Written(l, status, n).attempts <=
                        IF loop[l].counts THEN req[q].attempts + 2 ELSE req[q].attempts
    BY <1>2, <2>2
  <2> QED BY <1>1, <2>1, <2>2, <2>3, LookedKeeps DEF q
<1>4. CASE Proven(l)
  <2> DEFINE row == IF req[q].proven THEN req[q]
                    ELSE [req[q] EXCEPT !.status = "completed", !.proven = TRUE]
  <2>1. Looked(l, row)
    BY <1>4 DEF Proven, q
  <2>2. row \in Rows /\ row.attempts = req[q].attempts
    BY <1>2 DEF Rows
  <2> HIDE DEF row
  <2>3. row.attempts <= IF loop[l].counts THEN req[q].attempts + 2 ELSE req[q].attempts
    BY <1>2, <2>2
  <2> QED BY <1>1, <2>1, <2>2, <2>3, LookedKeeps DEF q
<1>5. CASE NoProof(l)
  <2>1. PICK status \in {"unmined", "invalid"}, a \in {1, 2} :
          Looked(l, Written(l, status, n + IF loop[l].counts THEN a ELSE 0))
    BY <1>5 DEF NoProof, n
  <2> DEFINE m == n + IF loop[l].counts THEN a ELSE 0
  <2>2. m \in Nat /\ m <= IF loop[l].counts THEN n + 2 ELSE n
    BY <1>2
  <2> HIDE DEF m
  <2>3. /\ Written(l, status, m) \in Rows
        /\ Written(l, status, m).attempts = IF m = 0 THEN req[q].attempts ELSE m
    BY <1>2, <2>2, WrittenRow DEF q
  <2>4. overlapped \/ Written(l, status, m).attempts <=
                        IF loop[l].counts THEN req[q].attempts + 2 ELSE req[q].attempts
    BY <1>2, <2>2, <2>3
  <2> QED BY <1>1, <2>1, <2>3, <2>4, LookedKeeps DEF q, m
<1> QED
  BY <1>3, <1>4, <1>5
-----------------------------------------------------------------------------
(* The theorems.                                                           *)

LEMMA InitHolds == Init => IInv
<1> SUFFICES ASSUME Init
             PROVE  IInv
  OBVIOUS
<1>1. Typed
  BY InitTyped
<1>2. \A l \in Loops : loop[l].at = "off"
  BY DEF Init, Off
<1>3. SkipInv
  BY <1>2 DEF SkipInv, SkipOf, At, Init
<1>4. CountInv
  <2>1. Spent = 0 /\ ~checkNow
    BY DEF Init, Spent
  <2>2. \A q \in Reqs : req[q].attempts = 0
    BY DEF Init
  <2> QED BY <1>2, <2>1, <2>2 DEF CountInv, CountOf, Alone, Idle, Runs, At
<1> QED
  BY <1>1, <1>3, <1>4 DEF IInv

LEMMA StepHolds == IInv /\ [Next]_vars => IInv'
<1> SUFFICES ASSUME IInv, [Next]_vars
             PROVE  IInv'
  OBVIOUS
<1>0. Typed /\ SkipInv /\ CountInv
  BY DEF IInv
<1>1. ASSUME NEW l \in Loops, BetweenRuns(l)
      PROVE  IInv'
  BY <1>0, <1>1, BetweenRunsKeep DEF IInv
<1>2. ASSUME NEW l \in Loops, CheckForProofs(l)
      PROVE  IInv'
  BY <1>0, <1>2, RunBegins DEF IInv
<1>3. ASSUME NEW l \in Loops, ReadPage(l)
      PROVE  IInv'
  BY <1>0, <1>3, ReadPageKeeps DEF IInv
<1>4. ASSUME NEW l \in Loops, Linked(l) \/ GiveUp(l) \/ Proven(l) \/ NoProof(l)
      PROVE  IInv'
  BY <1>0, <1>4, ReqsLookedAtKeep DEF IInv
<1>5. CASE Outside
  BY <1>0, <1>5, OutsideKeeps DEF IInv
<1>6. CASE UNCHANGED vars
  <2>1. UNCHANGED <<tasksRunning, overlapped, loop, tip, header, checkNow, nudges, checked,
                    req, tx, faults, missed, left, skipped>>
    BY <1>6 DEF vars, monitor, running, chain, nudged, run
  <2>2. Typed'
    BY <1>0, <2>1 DEF Typed
  <2>3. \A l \in Loops : Quiet(l)
    BY <2>1 DEF Quiet
  <2>4. Alone => Alone'
    BY <2>1 DEF Alone, Idle, At
  <2>5. Spent' >= Spent
    BY <1>0, <2>1 DEF Spent, Typed
  <2>6. SkipInv'
    BY <1>0, <2>1, <2>3, QuietKeepsSkip
  <2>7. CountInv'
    BY <1>0, <2>1, <2>2, <2>3, <2>4, <2>5, QuietKeepsCount
  <2> QED BY <2>2, <2>6, <2>7 DEF IInv
<1> QED
  BY <1>1, <1>2, <1>3, <1>4, <1>5, <1>6 DEF Next, Step, BetweenRuns, Outside

\* The types of the variables, for any number of reqs, loops and headers: a page that a loop
\* holds is never larger than a page, and a loop that looks at reqs always has one.
THEOREM TypeCorrect == Spec => []TypeOK
<1>1. Typed => TypeOK
  <2> SUFFICES ASSUME Typed
               PROVE  TypeOK
    OBVIOUS
  <2>1. ASSUME NEW l \in Loops
        PROVE  /\ loop[l].at \in Places
               /\ loop[l].todo \subseteq DOMAIN Tasks
               /\ DOMAIN loop[l].page \subseteq Reqs /\ Cardinality(DOMAIN loop[l].page) <= PageSize
               /\ At(l, "proofs") <=> DOMAIN loop[l].page # {}
    <3>1. loop[l] \in GoodLoops
      BY DEF Typed
    <3>2. loop[l].page \in Pages
      BY <3>1 DEF GoodLoops, LoopStates
    <3>3. DOMAIN loop[l].page \subseteq Reqs
      BY <3>2 DEF Pages
    <3> QED BY <3>1, <3>3 DEF GoodLoops, LoopStates, At
  <2>2. \A q \in Reqs : /\ req[q].status \in {"unmined", "completed", "invalid"}
                        /\ req[q].proven \in BOOLEAN /\ req[q].attempts \in Nat
    BY DEF Typed, Rows
  <2> QED BY <2>1, <2>2 DEF Typed, TypeOK
<1> QED
  BY <1>1, InitHolds, StepHolds, PTL DEF Spec, IInv

\* However many calls of startTasks go on, and however reqs leave and come back into the list
\* while its pages are read, a run of TaskCheckForProofs that ends has looked at the reqs that
\* were ready when it began, but for as many as have left.
THEOREM RunsSkipLittle == Spec => []SkipsOnlyForLeft
<1>1. SkipInv => SkipsOnlyForLeft
  BY DEF SkipInv, SkipsOnlyForLeft
<1> QED
  BY <1>1, InitHolds, StepHolds, PTL DEF Spec, IInv

\* As long as the tasks are not started while they go on, a nudge costs a req two attempts at
\* most, so that reqs are not given up earlier than unprovenAttemptsLimit means.
THEOREM AttemptsArePaid == Spec => []AttemptsCounted
<1>1. Typed /\ CountInv => AttemptsCounted
  <2> SUFFICES ASSUME Typed, CountInv, ~overlapped, NEW q \in Reqs
               PROVE  req[q].attempts <= 2 * nudges
    BY DEF AttemptsCounted
  <2>1. req[q].attempts <= 2 * Spent
    BY DEF CountInv
  <2>2. req[q].attempts \in Nat /\ nudges \in Nat /\ Spent \in Int /\ Spent <= nudges
    BY DEF Typed, Rows, Spent
  <2> QED BY <2>1, <2>2
<1> QED
  BY <1>1, InitHolds, StepHolds, PTL DEF Spec, IInv
=============================================================================

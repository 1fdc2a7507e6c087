------------------------- MODULE GenerateChangeProofs -------------------------
(***************************************************************************)
(* Proofs about the funding of a new transaction, for any amounts, sizes,  *)
(* fee rate and targets: its change inputs are the outputs that storage    *)
(* has allocated to it, each of them once, whatever other calls do; what   *)
(* is left of the inputs is exactly the required fee; and it gives up only *)
(* when no choice of the outputs would do.  The folds that add satoshis up *)
(* are reasoned about with least counterexamples.                          *)
(***************************************************************************)
EXTENDS GenerateChange, SequenceTheorems, FiniteSetTheorems, NaturalsInduction,
        WellFoundedInduction, TLAPS

Inv == TypeOK /\ AllocatedAreInputs

\* What storage offers is free.
LEMMA ClosestIsFree ==
    ASSUME NEW target, NEW exact
    PROVE  Closest(target, exact) \subseteq Free
BY DEF Closest

\* Nothing is allocated at first.
LEMMA InitInv == Init => Inv
<1> SUFFICES ASSUME Init PROVE Inv
  OBVIOUS
<1>1. TypeOK
  <2>1. change \in [Ids -> {"free", "mine", "other"}]
    BY DEF Init
  <2>2. allocated \in Seq(Ids) /\ taken \in 0 .. MaxTaken
    BY ParamsAssumption DEF Init
  <2> QED
    BY <2>1, <2>2 DEF Init, TypeOK
<1>2. Range(allocated) = {} /\ IsInjective(allocated)
  BY DEF Init, Range, IsInjective
<1>3. {i \in Ids : change[i] = "mine"} = {}
  BY DEF Init
<1> QED
  BY <1>1, <1>2, <1>3 DEF Inv, AllocatedAreInputs

\* A free output that is allocated becomes the last input.
LEMMA FundWithStep ==
    ASSUME Inv, NEW i \in Free, NEW ao, FundWith(i, ao)
    PROVE  /\ change' \in [Ids -> {"free", "mine", "other"}]
           /\ allocated' \in Seq(Ids)
           /\ AllocatedAreInputs'
<1>1. i \in Ids /\ change[i] = "free" /\ change \in [Ids -> {"free", "mine", "other"}]
  BY DEF Free, Inv, TypeOK
<1>2. change' = [change EXCEPT ![i] = "mine"] /\ allocated' = Append(allocated, i)
  BY DEF FundWith
<1>3. allocated \in Seq(Ids)
  BY DEF Inv, TypeOK
<1>4. /\ allocated' \in Seq(Ids) /\ Len(allocated') = Len(allocated) + 1
      /\ \A n \in 1 .. Len(allocated) : allocated'[n] = allocated[n]
      /\ allocated'[Len(allocated) + 1] = i
  BY <1>1, <1>2, <1>3, AppendProperties
<1>5. DOMAIN allocated = 1 .. Len(allocated) /\ DOMAIN allocated' = 1 .. (Len(allocated) + 1)
  BY <1>3, <1>4
<1>6. Len(allocated) \in Nat
  BY <1>3
<1>7. \A n \in DOMAIN allocated : allocated[n] # i
  BY <1>1 DEF Inv, AllocatedAreInputs, Range
<1>8. IsInjective(allocated')
  <2>1. \A a, b \in DOMAIN allocated : allocated[a] = allocated[b] => a = b
    BY DEF Inv, AllocatedAreInputs, IsInjective
  <2> QED
    BY <1>4, <1>5, <1>6, <1>7, <2>1 DEF IsInjective
<1>9. Range(allocated') = Range(allocated) \cup {i}
  BY <1>4, <1>5, <1>6 DEF Range
<1>10. {j \in Ids : change'[j] = "mine"} = {j \in Ids : change[j] = "mine"} \cup {i}
  BY <1>1, <1>2
<1>11. change' \in [Ids -> {"free", "mine", "other"}]
  BY <1>1, <1>2
<1> QED
  BY <1>4, <1>8, <1>9, <1>10, <1>11 DEF Inv, AllocatedAreInputs

\* The last input that is released is free, and no other input is.
LEMMA ReleaseStep ==
    ASSUME Inv, allocated # <<>>, change' = Released(allocated[Len(allocated)]),
           allocated' = SubSeq(allocated, 1, Len(allocated) - 1)
    PROVE  /\ change' \in [Ids -> {"free", "mine", "other"}]
           /\ allocated' \in Seq(Ids)
           /\ AllocatedAreInputs'
<1> DEFINE last == Len(allocated)
           i == allocated[last]
<1>1. allocated \in Seq(Ids) /\ change \in [Ids -> {"free", "mine", "other"}]
  BY DEF Inv, TypeOK
<1>2. last \in Nat \ {0} /\ DOMAIN allocated = 1 .. last /\ i \in Ids
  BY <1>1
<1>3. /\ allocated' \in Seq(Ids) /\ DOMAIN allocated' = 1 .. (last - 1)
      /\ \A n \in 1 .. (last - 1) : allocated'[n] = allocated[n]
  BY <1>1, <1>2
<1>4. \A a, b \in 1 .. last : allocated[a] = allocated[b] => a = b
  BY <1>2 DEF Inv, AllocatedAreInputs, IsInjective
<1>5. change' = [change EXCEPT ![i] = "free"]
  BY DEF Released
<1> HIDE DEF last, i
<1>6. IsInjective(allocated')
  BY <1>2, <1>3, <1>4 DEF IsInjective
<1>7. Range(allocated') = Range(allocated) \ {i}
  <2>1. Range(allocated) = {allocated[n] : n \in 1 .. last}
    BY <1>2 DEF Range
  <2>2. Range(allocated') = {allocated[n] : n \in 1 .. (last - 1)}
    BY <1>3 DEF Range
  <2>3. \A n \in 1 .. last : allocated[n] = i <=> n = last
    BY <1>2, <1>4 DEF i
  <2> QED
    BY <1>2, <2>1, <2>2, <2>3
<1>8. {j \in Ids : change'[j] = "mine"} = {j \in Ids : change[j] = "mine"} \ {i}
  BY <1>1, <1>2, <1>5
<1>9. change' \in [Ids -> {"free", "mine", "other"}]
  BY <1>1, <1>5
<1> QED
  BY <1>3, <1>6, <1>7, <1>8, <1>9 DEF Inv, AllocatedAreInputs

\* Every step keeps the invariant.
LEMMA StepInv == Inv /\ [Next]_vars => Inv'
<1> SUFFICES ASSUME Inv, [Next]_vars PROVE Inv'
  OBVIOUS
<1> USE DEF Inv, TypeOK
<1>s. ASSUME UNCHANGED <<change, allocated>> PROVE AllocatedAreInputs'
  BY <1>s DEF AllocatedAreInputs
<1>1. CASE Grow
  BY <1>1, <1>s DEF Grow
<1>2. CASE ReleaseInput
  <2>1. CASE allocated # <<>>
    BY <1>2, <2>1, ReleaseStep DEF ReleaseInput
  <2>2. CASE allocated = <<>>
    BY <1>2, <1>s, <2>2 DEF ReleaseInput
  <2> QED BY <2>1, <2>2
<1>3. CASE Fund
  <2>1. UNCHANGED <<removing, taken>> /\ stage' \in {"fund", "funded"}
    BY <1>3 DEF Fund
  <2>2. \/ UNCHANGED <<change, allocated>>
        \/ \E i \in Free, ao \in {0, 1} : FundWith(i, ao)
    BY <1>3, ClosestIsFree DEF Fund
  <2> QED
    BY <1>s, <2>1, <2>2, FundWithStep
<1>4. CASE Starve
  BY <1>4, <1>s DEF Starve
<1>5. CASE Check
  BY <1>5, <1>s DEF Check
<1>6. CASE Distribute \/ Finish
  BY <1>6, <1>s DEF Distribute, Finish
<1>7. CASE OtherTakes
  <2>1. PICK i \in Ids : /\ change[i] \in {"free", "other"}
                         /\ change' = [change EXCEPT ![i] = IF @ = "free" THEN "other" ELSE "free"]
    BY <1>7 DEF OtherTakes
  <2>2. change' \in [Ids -> {"free", "mine", "other"}]
    BY <2>1
  <2>3. {j \in Ids : change'[j] = "mine"} = {j \in Ids : change[j] = "mine"}
    BY <2>1
  <2>4. UNCHANGED <<allocated, removing, stage>> /\ taken' \in 0 .. MaxTaken
    BY <1>7, ParamsAssumption DEF OtherTakes
  <2>5. AllocatedAreInputs'
    BY <2>3, <2>4 DEF AllocatedAreInputs
  <2> QED
    BY <2>2, <2>4, <2>5
<1>8. CASE UNCHANGED vars
  BY <1>8, <1>s DEF vars
<1> QED
  BY <1>1, <1>2, <1>3, <1>4, <1>5, <1>6, <1>7, <1>8 DEF Next, Step

\* The state of the search for change keeps its types.
THEOREM TypeCorrect == Spec => []TypeOK
<1>1. Inv => TypeOK
  BY DEF Inv
<1> QED
  BY InitInv, StepInv, <1>1, PTL DEF Spec

\* The outputs that storage has allocated to the action are its inputs, each of them once,
\* for any outputs, amounts, fees and targets, and whatever other calls take meanwhile.
THEOREM InputsAreAllocated == Spec => []AllocatedAreInputs
<1>1. Inv => AllocatedAreInputs
  BY DEF Inv
<1> QED
  BY InitInv, StepInv, <1>1, PTL DEF Spec

-----------------------------------------------------------------------------
(* Sums.                                                                   *)

LEMMA LeastNumber ==
    ASSUME NEW S, S \subseteq Nat, S # {}
    PROVE  \E x \in S : \A y \in S : x <= y
<1>1. PICK x \in S : \A y \in S : ~(<<y, x>> \in OpToRel(<, Nat))
  BY WFMin, NatLessThanWellFounded, Zenon
<1>2. \A y \in S : ~(y < x)
  BY <1>1, Zenon DEF OpToRel
<1> QED
  BY <1>2

\* Among subsets of a finite set there is one that without any of its members is none of them.
LEMMA SmallestSet ==
    ASSUME NEW S, IsFiniteSet(S), NEW B, B \subseteq SUBSET S, B # {}
    PROVE  \E T \in B : \A x \in T : T \ {x} \notin B
<1>1. \A T \in SUBSET S : IsFiniteSet(T) /\ Cardinality(T) \in Nat
  BY FS_Subset, FS_CardinalityType
<1>2. PICK T \in B : \A U \in B : Cardinality(T) <= Cardinality(U)
  <2>1. {Cardinality(T) : T \in B} \subseteq Nat /\ {Cardinality(T) : T \in B} # {}
    BY <1>1
  <2>2. PICK n \in {Cardinality(T) : T \in B} : \A m \in {Cardinality(T) : T \in B} : n <= m
    BY <2>1, LeastNumber
  <2> QED BY <2>2
<1>3. ASSUME NEW x \in T, T \ {x} \in B
      PROVE  FALSE
  <2>1. Cardinality(T \ {x}) = Cardinality(T) - 1
    BY <1>1, FS_RemoveElement
  <2>2. Cardinality(T) <= Cardinality(T \ {x}) /\ Cardinality(T) \in Nat
    BY <1>1, <1>2, <1>3
  <2> QED BY <2>1, <2>2
<1> QED
  BY <1>3

Some(T) == CHOOSE x \in T : TRUE

\* In g are the sums of seq over every subset of S, added up as the fold does.
AddsUp(seq, S, g) ==
    \A T \in SUBSET S : g[T] = IF T = {} THEN 0 ELSE seq[Some(T)] + g[T \ {Some(T)}]

SumsOf(seq, S, g) ==
    IsFiniteSet(S) /\ seq \in [S -> Int] /\ g \in [SUBSET S -> Int] /\ AddsUp(seq, S, g)

LEMMA SomeIs == \A T : T # {} => Some(T) \in T
BY DEF Some

\* The fold adds one member at a time.
LEMMA SumsExist ==
    ASSUME NEW S, IsFiniteSet(S), NEW seq \in [S -> Int]
    PROVE  \E g : SumsOf(seq, S, g)
<1> DEFINE Level(n) == {T \in SUBSET S : Cardinality(T) <= n}
           SumsTo(n, g) ==
               /\ g \in [Level(n) -> Int]
               /\ \A T \in Level(n) : g[T] = IF T = {} THEN 0 ELSE seq[Some(T)] + g[T \ {Some(T)}]
           Bad == {n \in Nat : ~\E g : SumsTo(n, g)}
<1>1. \A T \in SUBSET S : IsFiniteSet(T) /\ Cardinality(T) \in Nat
  BY FS_Subset, FS_CardinalityType
<1>2. \E g : SumsTo(0, g)
  <2>1. \A T \in Level(0) : T = {}
    <3> SUFFICES ASSUME NEW T \in Level(0) PROVE T = {}
      OBVIOUS
    <3>1. Cardinality(T) = 0
      BY <1>1
    <3> QED BY <1>1, <3>1, FS_EmptySet
  <2>2. SumsTo(0, [T \in Level(0) |-> 0])
    BY <2>1
  <2> QED BY <2>2
<1>3. ASSUME NEW n \in Nat, NEW g, SumsTo(n, g)
      PROVE  \E h : SumsTo(n + 1, h)
  <2> DEFINE h == [T \in Level(n + 1) |-> IF T = {} THEN 0 ELSE seq[Some(T)] + g[T \ {Some(T)}]]
  <2>1. ASSUME NEW T \in Level(n + 1), T # {}
        PROVE  T \ {Some(T)} \in Level(n) /\ Some(T) \in S
    <3>1. Some(T) \in T
      BY <2>1, SomeIs
    <3>2. Cardinality(T \ {Some(T)}) = Cardinality(T) - 1
      BY <1>1, <3>1, FS_RemoveElement
    <3>3. Cardinality(T) \in Nat /\ Cardinality(T) <= n + 1
      BY <1>1
    <3> QED BY <3>1, <3>2, <3>3
  <2>2. \A T \in Level(n) : T \in Level(n + 1) /\ h[T] = g[T]
    <3> SUFFICES ASSUME NEW T \in Level(n) PROVE T \in Level(n + 1) /\ h[T] = g[T]
      OBVIOUS
    <3>1. T \in Level(n + 1)
      BY <1>1
    <3> QED BY <1>3, <3>1
  <2>3. \A T \in Level(n + 1) : h[T] \in Int
    <3> SUFFICES ASSUME NEW T \in Level(n + 1) PROVE h[T] \in Int
      OBVIOUS
    <3>1. CASE T = {}
      BY <3>1
    <3>2. CASE T # {}
      <4>1. seq[Some(T)] \in Int /\ g[T \ {Some(T)}] \in Int
        BY <1>3, <2>1, <3>2
      <4> QED BY <3>2, <4>1
    <3> QED BY <3>1, <3>2
  <2>4. \A T \in Level(n + 1) : h[T] = IF T = {} THEN 0 ELSE seq[Some(T)] + h[T \ {Some(T)}]
    BY <2>1, <2>2
  <2>5. h \in [Level(n + 1) -> Int]
    BY <2>3
  <2> HIDE DEF h
  <2> QED BY <2>4, <2>5
<1>4. Bad = {}
  <2> SUFFICES ASSUME Bad # {} PROVE FALSE
    OBVIOUS
  <2>1. Bad \subseteq Nat
    OBVIOUS
  <2> HIDE DEF SumsTo
  <2>2. PICK m \in Bad : \A n \in Bad : m <= n
    <3> HIDE DEF Bad
    <3> QED BY <2>1, LeastNumber
  <2>3. m # 0
    BY <1>2
  <2>4. m - 1 \in Nat /\ m - 1 \notin Bad /\ (m - 1) + 1 = m
    BY <2>2, <2>3
  <2>5. PICK g : SumsTo(m - 1, g)
    BY <2>4
  <2>6. \E h : SumsTo((m - 1) + 1, h)
    BY <1>3, <2>4, <2>5
  <2> QED BY <2>4, <2>6
<1>5. Cardinality(S) \in Nat /\ Level(Cardinality(S)) = SUBSET S
  <2>1. \A T \in SUBSET S : Cardinality(T) <= Cardinality(S)
    BY FS_Subset
  <2> QED BY <2>1, FS_CardinalityType
<1>6. PICK g : SumsTo(Cardinality(S), g)
  BY <1>4, <1>5
<1> QED
  BY <1>5, <1>6 DEF SumsOf, AddsUp

\* Where two sequences agree, so do their sums.
LEMMA SumsAgree ==
    ASSUME NEW S, IsFiniteSet(S), NEW seq, NEW seq2, NEW g, NEW h, AddsUp(seq, S, g),
           AddsUp(seq2, S, h), NEW T0 \in SUBSET S, \A x \in T0 : seq[x] = seq2[x]
    PROVE  g[T0] = h[T0]
<1> DEFINE Bad == {T \in SUBSET T0 : g[T] # h[T]}
<1> SUFFICES ASSUME Bad # {} PROVE FALSE
  OBVIOUS
<1>1. IsFiniteSet(T0)
  BY FS_Subset
<1>2. PICK T \in Bad : \A x \in T : T \ {x} \notin Bad
  <2>1. Bad \subseteq SUBSET T0
    OBVIOUS
  <2> HIDE DEF Bad
  <2> QED BY <1>1, <2>1, SmallestSet
<1>3. T \in SUBSET S /\ T \in SUBSET T0 /\ g[T] # h[T]
  OBVIOUS
<1>4. T # {}
  BY <1>3 DEF AddsUp
<1>5. Some(T) \in T /\ seq[Some(T)] = seq2[Some(T)]
  BY <1>3, <1>4, SomeIs
<1>6. g[T \ {Some(T)}] = h[T \ {Some(T)}]
  BY <1>2, <1>3, <1>5
<1> QED
  BY <1>3, <1>4, <1>5, <1>6 DEF AddsUp

\* Any member may be added last.
LEMMA AnyIsLast ==
    ASSUME NEW S, NEW seq, NEW g, SumsOf(seq, S, g), NEW T0 \in SUBSET S, NEW x0 \in T0
    PROVE  g[T0] = seq[x0] + g[T0 \ {x0}]
<1> DEFINE Bad == {T \in SUBSET S : \E x \in T : g[T] # seq[x] + g[T \ {x}]}
<1> SUFFICES ASSUME Bad # {} PROVE FALSE
  OBVIOUS
<1>0. IsFiniteSet(S) /\ seq \in [S -> Int] /\ g \in [SUBSET S -> Int] /\ AddsUp(seq, S, g)
  BY DEF SumsOf
<1>1. PICK T \in Bad : \A x \in T : T \ {x} \notin Bad
  <2>1. Bad \subseteq SUBSET S
    OBVIOUS
  <2> HIDE DEF Bad
  <2> QED BY <1>0, <2>1, SmallestSet
<1>2. PICK x \in T : g[T] # seq[x] + g[T \ {x}]
  OBVIOUS
<1>3. PICK c : c = Some(T)
  OBVIOUS
<1>4. c \in T /\ g[T] = seq[c] + g[T \ {c}]
  BY <1>2, <1>3, <1>0, SomeIs DEF AddsUp
<1>5. c # x
  BY <1>2, <1>4
<1>6. g[T \ {c}] = seq[x] + g[(T \ {c}) \ {x}]
  BY <1>1, <1>4, <1>5
<1>7. g[T \ {x}] = seq[c] + g[(T \ {x}) \ {c}]
  BY <1>1, <1>4, <1>5
<1>8. (T \ {x}) \ {c} = (T \ {c}) \ {x}
  OBVIOUS
<1>9. seq[x] \in Int /\ seq[c] \in Int /\ g[(T \ {c}) \ {x}] \in Int
  BY <1>0, <1>4
<1>10. PICK p \in Int, q \in Int, rest \in Int :
          p = seq[x] /\ q = seq[c] /\ rest = g[(T \ {c}) \ {x}]
  BY <1>9
<1>11. g[T] = q + (p + rest) /\ g[T \ {x}] = q + rest
  BY <1>4, <1>6, <1>7, <1>8, <1>10
<1> QED
  BY <1>2, <1>10, <1>11

\* The sum of a sequence is what is found by adding one member at a time.
LEMMA SumIs ==
    ASSUME NEW seq \in Seq(Int), NEW g, SumsOf(seq, DOMAIN seq, g)
    PROVE  Sum(seq) = g[DOMAIN seq]
<1> DEFINE S == DOMAIN seq
           Iter(f) == f = [T \in SUBSET S |-> IF T = {} THEN 0 ELSE seq[Some(T)] + f[T \ {Some(T)}]]
           iter == CHOOSE f : Iter(f)
<1>1. IsFiniteSet(S)
  BY FS_Interval
<1>2. Iter(g)
  BY DEF SumsOf, AddsUp
<1>3. Iter(iter)
  BY <1>2
<1>4. AddsUp(seq, S, iter)
  BY <1>3 DEF AddsUp
<1>5. iter[S] = g[S]
  <2> HIDE DEF iter, S
  <2> QED BY <1>1, <1>4, SumsAgree DEF S, SumsOf
<1>6. Sum(seq) = iter[S]
  BY DEF Sum, FoldFunction, FoldFunctionOnSet, MapThenFoldSet, Some
<1> QED
  BY <1>5, <1>6

LEMMA FiniteDomain ==
    ASSUME NEW seq \in Seq(Int)
    PROVE  IsFiniteSet(DOMAIN seq) /\ seq \in [DOMAIN seq -> Int]
<1>1. PICK n \in Nat : n = Len(seq)
  OBVIOUS
<1>2. DOMAIN seq = 1 .. n /\ seq \in [1 .. n -> Int]
  BY <1>1
<1>3. IsFiniteSet(1 .. n)
  BY FS_Interval
<1> QED
  BY <1>2, <1>3

LEMMA SumType ==
    ASSUME NEW seq \in Seq(Int)
    PROVE  Sum(seq) \in Int
<1>1. PICK S : S = DOMAIN seq
  OBVIOUS
<1>2. IsFiniteSet(S) /\ seq \in [S -> Int]
  BY <1>1, FiniteDomain
<1>3. PICK g : SumsOf(seq, S, g)
  BY <1>2, SumsExist
<1>4. Sum(seq) = g[S]
  BY <1>1, <1>3, SumIs
<1> QED
  BY <1>3, <1>4 DEF SumsOf

OnlyAt(seq, seq2, S, k) == k \in S /\ \A x \in S \ {k} : seq[x] = seq2[x]

\* When one member changes, the sum changes as much.
LEMMA SumsChange ==
    ASSUME NEW S, NEW seq, NEW seq2, NEW g, NEW h, SumsOf(seq, S, g), SumsOf(seq2, S, h),
           NEW k, OnlyAt(seq, seq2, S, k)
    PROVE  h[S] - g[S] = seq2[k] - seq[k]
<1>1. S \in SUBSET S /\ S \ {k} \in SUBSET S /\ k \in S
  BY DEF OnlyAt
<1>2. g[S] = seq[k] + g[S \ {k}]
  BY <1>1, AnyIsLast
<1>3. h[S] = seq2[k] + h[S \ {k}]
  BY <1>1, AnyIsLast
<1>4. g[S \ {k}] = h[S \ {k}]
  BY <1>1, SumsAgree DEF SumsOf, OnlyAt
<1>5. PICK p \in Int, q \in Int, rest \in Int :
         p = seq[k] /\ q = seq2[k] /\ rest = g[S \ {k}]
  BY <1>1 DEF SumsOf
<1> QED
  BY <1>2, <1>3, <1>4, <1>5

\* What is added to one member is added to the sum.
LEMMA SumExcept ==
    ASSUME NEW seq \in Seq(Int), NEW k \in DOMAIN seq, NEW n \in Int,
           NEW seq2, seq2 = [seq EXCEPT ![k] = @ + n]
    PROVE  Sum(seq2) = Sum(seq) + n
<1>1. PICK S : S = DOMAIN seq
  OBVIOUS
<1>2. IsFiniteSet(S) /\ seq \in [S -> Int]
  BY <1>1, FiniteDomain
<1>3. /\ seq2 \in [S -> Int] /\ seq2 \in Seq(Int) /\ DOMAIN seq2 = S /\ k \in S
      /\ seq2[k] = seq[k] + n /\ \A x \in S \ {k} : seq[x] = seq2[x]
  <2>1. S = 1 .. Len(seq) /\ Len(seq) \in Nat
    BY <1>1
  <2>2. seq2 \in [S -> Int]
    BY <1>1, <1>2
  <2>3. seq2 \in Seq(Int)
    BY <2>1, <2>2
  <2> QED BY <1>1, <1>2, <2>2, <2>3
<1>4. PICK g : SumsOf(seq, S, g)
  BY <1>2, SumsExist
<1>5. PICK h : SumsOf(seq2, S, h)
  BY <1>2, <1>3, SumsExist
<1>6. h[S] - g[S] = seq2[k] - seq[k]
  <2>1. PICK old, new : old = seq /\ new = seq2
    OBVIOUS
  <2>2. SumsOf(old, S, g) /\ SumsOf(new, S, h) /\ OnlyAt(old, new, S, k)
    BY <1>3, <1>4, <1>5, <2>1 DEF OnlyAt
  <2>3. h[S] - g[S] = new[k] - old[k]
    BY <2>2, SumsChange
  <2> QED BY <2>1, <2>3
<1>7. Sum(seq) = g[S] /\ Sum(seq2) = h[S]
  BY <1>1, <1>3, <1>4, <1>5, SumIs
<1>8. seq[k] \in Int /\ g[S] \in Int /\ h[S] \in Int
  BY <1>2, <1>3, <1>4, <1>5 DEF SumsOf
<1>9. PICK p \in Int, q \in Int, t \in Int : p = seq[k] /\ q = g[S] /\ t = h[S]
  BY <1>8
<1> QED
  BY <1>3, <1>6, <1>7, <1>9

-----------------------------------------------------------------------------
(* The result.                                                             *)

\* Change outputs are not empty; when the excess is given away, it is what is left over the
\* fee, and there is an output to take it.
ChangeInv ==
    /\ outputs \in Seq(Nat \ {0})
    /\ fixedInputs \in Seq(Nat) /\ fixedOutputs \in Seq(Nat)
    /\ stage = "distribute" =>
         excess = FeeExcessNow /\ excess >= 0 /\ (outputs = <<>> => excess = 0)
    /\ stage # "internal"

LEMMA FeeType ==
    ASSUME Inv, ChangeInv
    PROVE  Fee \in Int /\ FeeTarget(0, 0) \in Int /\ FeeTarget(1, 0) \in Int /\ Funding \in Int
           /\ Spending \in Int
<1>1. /\ Len(fixedInputs) \in Nat /\ Len(allocated) \in Nat
      /\ Len(fixedOutputs) \in Nat /\ Len(outputs) \in Nat
  BY DEF Inv, TypeOK, ChangeInv
<1>2. \A n \in Int : VarUintSize(n) \in Int
  BY DEF VarUintSize
<1>l. LockingScriptLength \in Int /\ UnlockingScriptLength \in Int /\ SatsPerKb \in Int
  BY ParamsAssumption
<1>3. TransactionInputSize(UnlockingScriptLength) \in Int
  <2>1. VarUintSize(UnlockingScriptLength) \in Int
    BY <1>2, <1>l
  <2> QED BY <1>l, <2>1 DEF TransactionInputSize
<1>4. TransactionOutputSize(LockingScriptLength) \in Int
  <2>1. VarUintSize(LockingScriptLength) \in Int
    BY <1>2, <1>l
  <2> QED BY <1>l, <2>1 DEF TransactionOutputSize
<1>5. \A i, o \in Int : TransactionSize(i, o) \in Int
  <2> SUFFICES ASSUME NEW i \in Int, NEW o \in Int PROVE TransactionSize(i, o) \in Int
    OBVIOUS
  <2>1. /\ i * TransactionInputSize(UnlockingScriptLength) \in Int
        /\ o * TransactionOutputSize(LockingScriptLength) \in Int
    BY <1>3, <1>4
  <2> QED BY <1>2, <2>1 DEF TransactionSize
<1>6. Size(0, 0) \in Int /\ Size(1, 0) \in Int
  <2> DEFINE i == Len(fixedInputs) + Len(allocated)
             o == Len(fixedOutputs) + Len(outputs)
  <2>1. i + 0 \in Int /\ i + 1 \in Int /\ o + 0 \in Int
    BY <1>1
  <2>2. Size(0, 0) = TransactionSize(i + 0, o + 0) /\ Size(1, 0) = TransactionSize(i + 1, o + 0)
    BY DEF Size
  <2> HIDE DEF i, o
  <2> QED BY <1>5, <2>1, <2>2
<1>7. \A n \in Int : FeeOf(n) \in Int
  BY ParamsAssumption DEF FeeOf
<1>8. FeeTarget(0, 0) \in Int /\ FeeTarget(1, 0) \in Int
  BY <1>6, <1>7 DEF FeeTarget
<1>9. Sum(fixedInputs) \in Int /\ Sum(fixedOutputs) \in Int /\ Sum(outputs) \in Int
  <2>1. fixedInputs \in Seq(Int) /\ fixedOutputs \in Seq(Int) /\ outputs \in Seq(Int)
    BY DEF ChangeInv
  <2> QED BY <2>1, SumType
<1>10. Sum([n \in DOMAIN allocated |-> Satoshis[allocated[n]]]) \in Int
  <2>1. DOMAIN allocated = 1 .. Len(allocated) /\ \A n \in DOMAIN allocated : allocated[n] \in Ids
    BY DEF Inv, TypeOK
  <2>2. \A n \in DOMAIN allocated : Satoshis[allocated[n]] \in Int
    BY <2>1, ParamsAssumption
  <2>3. [n \in DOMAIN allocated |-> Satoshis[allocated[n]]] \in Seq(Int)
    BY <1>1, <2>1, <2>2
  <2> QED BY <2>3, SumType
<1>11. Funding \in Int /\ Spending \in Int
  BY <1>9, <1>10 DEF Funding, Spending
<1> QED
  BY <1>8, <1>9, <1>11 DEF Fee

\* One output gets a part of the excess.
LEMMA GiveStep ==
    ASSUME Inv, ChangeInv, stage = "distribute", NEW k \in DOMAIN outputs, NEW n \in Nat \ {0},
           n <= excess, Give(k, n), UNCHANGED <<params, allocated, stage>>
    PROVE  ChangeInv'
<1>1. PICK old : old = outputs
  OBVIOUS
<1>2. PICK new : new = outputs' /\ new = [old EXCEPT ![k] = @ + n]
  BY <1>1 DEF Give
<1>3. old \in Seq(Nat \ {0}) /\ old \in Seq(Int) /\ k \in DOMAIN old
  BY <1>1 DEF ChangeInv
<1>4. /\ new \in Seq(Nat \ {0}) /\ Len(new) = Len(old) /\ new # <<>>
  <2>1. PICK l \in Nat : l = Len(old) /\ DOMAIN old = 1 .. l
    BY <1>3
  <2>2. \A j \in 1 .. l : old[j] \in Nat \ {0}
    BY <1>3, <2>1
  <2>3. DOMAIN new = 1 .. l /\ \A j \in 1 .. l : new[j] \in Nat \ {0}
    BY <1>2, <1>3, <2>1, <2>2
  <2>4. new \in [1 .. l -> Nat \ {0}]
    BY <1>2, <1>3, <2>1, <2>3
  <2>5. new \in Seq(Nat \ {0}) /\ Len(new) = l
    BY <2>1, <2>4
  <2>6. new # <<>>
    BY <1>3, <2>1, <2>3
  <2> QED BY <2>1, <2>5, <2>6
<1>5. Sum(new) = Sum(old) + n /\ Sum(old) \in Int
  <2>1. old \in Seq(Int) /\ k \in DOMAIN old /\ n \in Int
    BY <1>3
  <2>2. Sum(new) = Sum(old) + n
    BY <1>2, <2>1, SumExcept
  <2> QED BY <2>1, <2>2, SumType
<1>6. FeeExcessNow' = FeeExcessNow - n
  <2>1. FeeTarget(0, 0)' = FeeTarget(0, 0)
    BY <1>1, <1>2, <1>4 DEF FeeTarget, Size, params
  <2>2. Funding' = Funding /\ Spending' = Spending
    BY DEF Funding, Spending, params
  <2>3. Fee' = Fee - n
    <3>1. Fee = Funding - Spending - Sum(old) /\ Fee' = Funding' - Spending' - Sum(new)
      BY <1>1, <1>2 DEF Fee
    <3> QED BY <1>5, <2>2, <3>1, FeeType
  <2> QED BY <2>1, <2>3, FeeType DEF FeeExcessNow, FeeExcess
<1>7. excess = FeeExcessNow /\ excess' = excess - n /\ excess \in Int
  BY FeeType DEF ChangeInv, Give, FeeExcessNow, FeeExcess
<1>8. excess' = FeeExcessNow' /\ excess' >= 0
  BY <1>6, <1>7
<1> QED
  BY <1>2, <1>4, <1>8 DEF ChangeInv, params

LEMMA MinOfTwo ==
    ASSUME NEW a \in Int, NEW b \in Int
    PROVE  Min({a, b}) = IF a <= b THEN a ELSE b
BY DEF Min

LEMMA MaxOfTwo ==
    ASSUME NEW a \in Int, NEW b \in Int
    PROVE  Max({a, b}) = IF a <= b THEN b ELSE a
BY DEF Max

LEMMA SmallestIn ==
    ASSUME NEW S, S \subseteq Nat, S # {}
    PROVE  Min(S) \in S
<1>1. \E x \in S : \A y \in S : x <= y
  BY LeastNumber
<1> QED
  BY <1>1 DEF Min

\* Popping leaves a beginning of the outputs.
LEMMA PoppedStays ==
    ASSUME ChangeInv, outputs # <<>>
    PROVE  SubSeq(outputs, 1, Len(outputs) - Popped) \in Seq(Nat \ {0})
<1> DEFINE S == {n \in 1 .. Len(outputs) : n = Len(outputs) \/ ExcessWithout(n) >= 0}
<1>1. outputs \in Seq(Nat \ {0}) /\ Len(outputs) \in Nat \ {0}
  BY DEF ChangeInv
<1>2. S \subseteq Nat /\ S # {}
  <2>1. Len(outputs) \in S
    BY <1>1
  <2> QED BY <2>1
<1>3. Popped \in S
  <2> HIDE DEF S
  <2>1. Min(S) \in S
    BY <1>2, SmallestIn
  <2> QED BY <2>1 DEF S, Popped
<1>4. Popped \in 1 .. Len(outputs)
  BY <1>3
<1>5. PICK n \in Nat : n = Len(outputs) - Popped /\ n <= Len(outputs)
  <2>1. PICK l, p : l = Len(outputs) /\ p = Popped
    OBVIOUS
  <2>2. l \in Nat /\ p \in 1 .. l
    BY <1>1, <1>4, <2>1
  <2>3. l - p \in Nat /\ l - p <= l
    BY <2>2
  <2> QED BY <2>1, <2>3
<1>6. SubSeq(outputs, 1, n) \in Seq(Nat \ {0})
  BY <1>1, <1>5, SubSeqProperties
<1> QED
  BY <1>5, <1>6

LEMMA ChangeStart == Init => ChangeInv
BY ParamsAssumption DEF Init, ChangeInv

LEMMA ChangeStep == Inv /\ ChangeInv /\ [Next]_vars => ChangeInv'
<1> SUFFICES ASSUME Inv, ChangeInv, [Next]_vars PROVE ChangeInv'
  OBVIOUS
<1>0. /\ outputs \in Seq(Nat \ {0}) /\ fixedInputs \in Seq(Nat) /\ fixedOutputs \in Seq(Nat)
      /\ NextOutput \in Nat \ {0} /\ ChangeInitialSatoshis \in Nat \ {0}
  BY ParamsAssumption DEF ChangeInv, NextOutput
<1>1. CASE Grow
  <2>1. stage' \in {"grow", "release"} /\ UNCHANGED <<fixedInputs, fixedOutputs>>
    BY <1>1 DEF Grow, params
  <2>2. outputs' = outputs \/ outputs' = Append(outputs, NextOutput)
    BY <1>1 DEF Grow
  <2>3. outputs' \in Seq(Nat \ {0})
    <3>1. PICK x \in Nat \ {0} : x = NextOutput
      BY <1>0
    <3>2. Append(outputs, x) \in Seq(Nat \ {0})
      BY <1>0
    <3> QED BY <1>0, <2>2, <3>1, <3>2
  <2> QED BY <1>0, <2>1, <2>3 DEF ChangeInv
<1>2. CASE ReleaseInput
  BY <1>0, <1>2 DEF ReleaseInput, ChangeInv, params
<1>3. CASE Fund
  <2>1. stage' \in {"fund", "funded"} /\ UNCHANGED <<fixedInputs, fixedOutputs>>
    BY <1>3 DEF Fund, params
  <2>2. ASSUME NEW i \in Ids, NEW ao, FundWith(i, ao)
        PROVE  outputs' \in Seq(Nat \ {0})
    <3>1. PICK more : more = Fee + Satoshis[i] - FeeTarget(1, 0)
      OBVIOUS
    <3>2. more \in Int
      BY <3>1, FeeType, ParamsAssumption
    <3>3. outputs' = IF MayAddOutput(more) /\ (ao = 1 \/ outputs = <<>>)
                     THEN Append(outputs, Min({more, NextOutput})) ELSE outputs
      BY <2>2, <3>1 DEF FundWith
    <3>4. MayAddOutput(more) => Min({more, NextOutput}) \in Nat \ {0}
      BY <1>0, <3>2, MinOfTwo DEF MayAddOutput
    <3> QED BY <1>0, <3>3, <3>4
  <2>3. \/ UNCHANGED outputs
        \/ \E i \in Free, ao \in {0, 1} : FundWith(i, ao)
    BY <1>3, ClosestIsFree DEF Fund
  <2> QED BY <1>0, <2>1, <2>2, <2>3 DEF ChangeInv, Free
<1>4. CASE Starve
  <2>1. stage' \in {"check", "release"} /\ UNCHANGED <<fixedInputs, fixedOutputs>>
    BY <1>4 DEF Starve, params
  <2>2. outputs' \in Seq(Nat \ {0})
    BY <1>0, <1>4, PoppedStays DEF Starve
  <2> QED BY <1>0, <2>1, <2>2 DEF ChangeInv
<1>5. CASE Check
  <2>1. /\ excess' = FeeExcessNow /\ UNCHANGED <<fixedInputs, fixedOutputs, allocated, outputs>>
        /\ stage' = IF Insufficient THEN "insufficient" ELSE "distribute"
    BY <1>5 DEF Check, params
  <2>2. FeeExcessNow' = FeeExcessNow /\ FeeExcessNow \in Int
    BY <2>1, FeeType DEF FeeExcessNow, FeeExcess, Fee, Funding, Spending, FeeTarget, Size
  <2>3. ~Insufficient => FeeExcessNow >= 0 /\ (outputs = <<>> => FeeExcessNow = 0)
    BY <2>2 DEF Insufficient
  <2> QED BY <1>0, <2>1, <2>2, <2>3 DEF ChangeInv
<1>6. CASE Distribute
  <2>1. /\ stage = "distribute" /\ outputs # <<>> /\ excess > 0 /\ excess \in Int
        /\ UNCHANGED <<params, allocated, stage>>
    BY <1>6, FeeType DEF Distribute, ChangeInv, FeeExcessNow, FeeExcess
  <2>2. 1 \in DOMAIN outputs /\ outputs[1] \in Int
    BY <1>0, <2>1
  <2>3. \E k \in DOMAIN outputs : \E n \in Nat \ {0} : n <= excess /\ Give(k, n)
    <3>1. CASE Give(1, excess)
      BY <2>1, <2>2, <3>1
    <3>2. CASE /\ outputs[1] < ChangeInitialSatoshis
               /\ Give(1, Min({excess, ChangeInitialSatoshis - outputs[1]}))
      <4>1. PICK n : n = Min({excess, ChangeInitialSatoshis - outputs[1]})
        OBVIOUS
      <4>2. PICK more \in Int : more = ChangeInitialSatoshis - outputs[1] /\ more > 0
        BY <1>0, <2>2, <3>2
      <4>3. n \in Nat \ {0} /\ n <= excess
        BY <2>1, <4>1, <4>2, MinOfTwo
      <4> QED BY <2>2, <3>2, <4>1, <4>3
    <3>3. ASSUME NEW share \in (excess * 25) \div 100 .. excess \div 2, NEW k \in DOMAIN outputs,
                 Give(k, Max({1, share}))
          PROVE  \E j \in DOMAIN outputs : \E n \in Nat \ {0} : n <= excess /\ Give(j, n)
      <4>1. PICK n : n = Max({1, share})
        OBVIOUS
      <4>2. share \in Int /\ share <= excess
        BY <2>1
      <4>3. n \in Nat \ {0} /\ n <= excess
        BY <2>1, <4>1, <4>2, MaxOfTwo
      <4> QED BY <3>3, <4>1, <4>3
    <3> QED BY <1>6, <3>1, <3>2, <3>3 DEF Distribute
  <2> QED BY <2>1, <2>3, GiveStep
<1>7. CASE Finish
  <2>1. /\ stage = "distribute" /\ (outputs = <<>> \/ excess <= 0) /\ UNCHANGED <<params, outputs>>
        /\ stage' = IF ResultOk THEN "done" ELSE "internal"
    BY <1>7 DEF Finish
  <2>2. excess = 0 /\ excess = Fee - FeeTarget(0, 0)
    BY <2>1, FeeType DEF ChangeInv, FeeExcessNow, FeeExcess
  <2>3. ResultOk
    BY <2>2, FeeType DEF ResultOk
  <2> QED BY <1>0, <2>1, <2>3 DEF ChangeInv, params
<1>8. CASE OtherTakes \/ UNCHANGED vars
  <2>1. UNCHANGED <<params, allocated, outputs, excess, stage>>
    BY <1>8 DEF OtherTakes, vars
  <2>2. FeeExcessNow' = FeeExcessNow
    BY <2>1 DEF FeeExcessNow, FeeExcess, Fee, Funding, Spending, FeeTarget, Size, params
  <2> QED BY <1>0, <2>1, <2>2 DEF ChangeInv, params
<1> QED
  BY <1>1, <1>2, <1>3, <1>4, <1>5, <1>6, <1>7, <1>8 DEF Next, Step

\* validateGenerateChangeSdkResult never throws WERR_INTERNAL: for any amounts, sizes, fee rate
\* and targets, however the outputs were allocated, released and popped and the excess was
\* shared out, what is left of the inputs is the required fee and no change output is empty.
THEOREM ResultsBalance == Spec => []NeverInternal
<1>1. ChangeInv => NeverInternal
  BY DEF ChangeInv, NeverInternal
<1>2. Inv /\ ChangeInv /\ [Next]_vars => Inv' /\ ChangeInv'
  BY StepInv, ChangeStep
<1> QED
  BY InitInv, ChangeStart, <1>1, <1>2, PTL DEF Spec

-----------------------------------------------------------------------------
(* What the inputs are worth.                                              *)

LEMMA WorthIs ==
    ASSUME NEW g, SumsOf(Satoshis, Ids, g), NEW T \in SUBSET Ids
    PROVE  Worth(T) = g[T]
<1> DEFINE Iter(f) == f = [U \in SUBSET T |->
                             IF U = {} THEN 0 ELSE Satoshis[Some(U)] + f[U \ {Some(U)}]]
           iter == CHOOSE f : Iter(f)
<1>1. IsFiniteSet(T) /\ AddsUp(Satoshis, T, g)
  BY FS_Subset DEF SumsOf, AddsUp
<1>2. Iter([U \in SUBSET T |-> g[U]])
  BY <1>1 DEF AddsUp
<1>3. Iter(iter)
  BY <1>2
<1>4. AddsUp(Satoshis, T, iter)
  BY <1>3 DEF AddsUp
<1>5. iter[T] = g[T]
  <2> HIDE DEF iter
  <2> QED BY <1>1, <1>4, SumsAgree
<1>6. Worth(T) = iter[T]
  BY DEF Worth, MapThenSumSet, MapThenFoldSet, Some
<1> QED
  BY <1>5, <1>6

LEMMA BasketSums == \E g : SumsOf(Satoshis, Ids, g)
<1>1. IsFiniteSet(Ids) /\ Satoshis \in [Ids -> Int]
  BY ParamsAssumption
<1> QED
  BY <1>1, SumsExist

\* Each output adds what it holds.
LEMMA WorthAdds ==
    /\ Worth({}) = 0
    /\ \A T \in SUBSET Ids : Worth(T) \in Int
    /\ \A T \in SUBSET Ids : \A x \in T : Worth(T) = Satoshis[x] + Worth(T \ {x})
<1>1. PICK g : SumsOf(Satoshis, Ids, g)
  BY BasketSums
<1>2. \A T \in SUBSET Ids : Worth(T) = g[T]
  BY <1>1, WorthIs
<1>3. g[{}] = 0 /\ \A T \in SUBSET Ids : g[T] \in Int
  BY <1>1 DEF SumsOf, AddsUp
<1>4. ASSUME NEW T \in SUBSET Ids, NEW x \in T
      PROVE  Worth(T) = Satoshis[x] + Worth(T \ {x})
  <2>1. g[T] = Satoshis[x] + g[T \ {x}]
    BY <1>1, AnyIsLast
  <2> QED BY <1>2, <2>1
<1> QED
  BY <1>2, <1>3, <1>4

\* Outputs in a row are worth what they are as a set, if none is there twice.
LEMMA RowSum ==
    ASSUME NEW row \in Seq(Ids), IsInjective(row)
    PROVE  /\ Sum([n \in DOMAIN row |-> Satoshis[row[n]]]) = Worth(Range(row))
           /\ Range(row) \in SUBSET Ids /\ IsFiniteSet(Range(row))
           /\ Len(row) = Cardinality(Range(row))
<1> DEFINE held == [n \in DOMAIN row |-> Satoshis[row[n]]]
           Image(T) == {row[n] : n \in T}
<1>1. PICK D : D = DOMAIN row
  OBVIOUS
<1>2. /\ IsFiniteSet(D) /\ Cardinality(D) = Len(row) /\ D = 1 .. Len(row)
      /\ row \in [D -> Ids] /\ Len(row) \in Nat
  <2>1. row \in Seq(Ids) /\ Len(row) \in Nat /\ D = 1 .. Len(row)
    BY <1>1
  <2>2. IsFiniteSet(1 .. Len(row)) /\ Cardinality(1 .. Len(row)) = Len(row)
    BY <2>1, FS_Interval
  <2> QED BY <2>1, <2>2
<1>3. \A a, b \in D : row[a] = row[b] => a = b
  BY <1>1 DEF IsInjective
<1>4. Range(row) = Image(D) /\ Image(D) \in SUBSET Ids
  BY <1>1, <1>2 DEF Range
<1>5. IsFiniteSet(Image(D)) /\ Cardinality(Image(D)) = Cardinality(D)
  <2>1. row \in Injection(D, Image(D)) /\ row \in Surjection(D, Image(D))
    BY <1>2, <1>3 DEF Injection, IsInjective, Surjection
  <2> HIDE DEF Image
  <2> QED BY <1>2, <2>1, FS_Surjection
<1>6. Sum(held) = Worth(Image(D))
  <2>1. held \in [D -> Int] /\ held \in Seq(Int) /\ DOMAIN held = D
    <3>1. held \in [D -> Int]
      BY <1>1, <1>2, ParamsAssumption
    <3> QED BY <1>1, <1>2, <3>1
  <2>2. PICK sum : sum = held
    OBVIOUS
  <2>3. PICK g : SumsOf(sum, D, g)
    BY <1>2, <2>1, <2>2, SumsExist
  <2>4. Sum(sum) = g[D]
    BY <2>1, <2>2, <2>3, SumIs
  <2> DEFINE Bad == {T \in SUBSET D : g[T] # Worth(Image(T))}
  <2>5. Bad = {}
    <3> SUFFICES ASSUME Bad # {} PROVE FALSE
      OBVIOUS
    <3>1. PICK T \in Bad : \A x \in T : T \ {x} \notin Bad
      <4>1. Bad \subseteq SUBSET D
        OBVIOUS
      <4> HIDE DEF Bad
      <4> QED BY <1>2, <4>1, SmallestSet
    <3>2. T \in SUBSET D /\ g[T] # Worth(Image(T))
      OBVIOUS
    <3>3. T # {}
      <4>1. g[{}] = 0
        BY <2>3 DEF SumsOf, AddsUp
      <4>2. T = {} => Image(T) = {}
        OBVIOUS
      <4> QED BY <3>2, <4>1, <4>2, WorthAdds
    <3>4. PICK x \in T : TRUE
      BY <3>3
    <3>5. g[T] = sum[x] + g[T \ {x}]
      BY <2>3, <3>2, AnyIsLast
    <3>6. g[T \ {x}] = Worth(Image(T \ {x}))
      BY <3>1, <3>2, <3>4
    <3>7. /\ Image(T) \in SUBSET Ids /\ row[x] \in Image(T)
          /\ Image(T \ {x}) = Image(T) \ {row[x]}
      BY <1>2, <1>3, <3>2, <3>4
    <3>8. Worth(Image(T)) = Satoshis[row[x]] + Worth(Image(T \ {x}))
      BY <3>7, WorthAdds
    <3>9. sum[x] = Satoshis[row[x]]
      BY <1>1, <2>2, <3>2
    <3> QED BY <3>2, <3>5, <3>6, <3>8, <3>9
  <2> QED BY <2>2, <2>4, <2>5
<1> QED
  BY <1>2, <1>4, <1>5, <1>6

\* The inputs are worth what the outputs are that were allocated.
LEMMA FundingIs ==
    ASSUME Inv
    PROVE  /\ Funding = Sum(fixedInputs) + Worth(Range(allocated))
           /\ Range(allocated) \in SUBSET Ids /\ IsFiniteSet(Range(allocated))
           /\ Len(allocated) = Cardinality(Range(allocated))
<1>1. allocated \in Seq(Ids) /\ IsInjective(allocated)
  BY DEF Inv, TypeOK, AllocatedAreInputs
<1> QED
  BY <1>1, RowSum DEF Funding

-----------------------------------------------------------------------------
(* What spending more leaves.                                              *)

LEMMA SizeSteps ==
    /\ TransactionInputSize(UnlockingScriptLength) \in Nat
    /\ \A i, o \in Nat :
         /\ TransactionSize(i, o) \in Nat
         /\ TransactionSize(i + 1, o) <=
              TransactionSize(i, o) + TransactionInputSize(UnlockingScriptLength) + 2
         /\ TransactionSize(i, o) <= TransactionSize(i, o + 1)
<1>1. \A n \in Nat : /\ VarUintSize(n) \in Nat /\ VarUintSize(n + 1) \in Nat
                     /\ VarUintSize(n) <= VarUintSize(n + 1)
                     /\ VarUintSize(n + 1) <= VarUintSize(n) + 2
  BY DEF VarUintSize
<1>2. UnlockingScriptLength \in Nat /\ LockingScriptLength \in Nat
  BY ParamsAssumption
<1>3. PICK a \in Nat : a = TransactionInputSize(UnlockingScriptLength)
  BY <1>1, <1>2 DEF TransactionInputSize
<1>4. PICK b \in Nat : b = TransactionOutputSize(LockingScriptLength)
  BY <1>1, <1>2 DEF TransactionOutputSize
<1>5. ASSUME NEW i \in Nat, NEW o \in Nat
      PROVE  /\ TransactionSize(i, o) \in Nat
             /\ TransactionSize(i + 1, o) <= TransactionSize(i, o) + a + 2
             /\ TransactionSize(i, o) <= TransactionSize(i, o + 1)
  <2>1. PICK x \in Nat, y \in Nat : x = i * a /\ y = o * b
    OBVIOUS
  <2>2. (i + 1) * a = x + a /\ (o + 1) * b = y + b
    BY <2>1
  <2>3. /\ TransactionSize(i, o) = 4 + VarUintSize(i) + x + VarUintSize(o) + y + 4
        /\ TransactionSize(i + 1, o) = 4 + VarUintSize(i + 1) + (x + a) + VarUintSize(o) + y + 4
        /\ TransactionSize(i, o + 1) = 4 + VarUintSize(i) + x + VarUintSize(o + 1) + (y + b) + 4
    BY <1>3, <1>4, <2>1, <2>2 DEF TransactionSize
  <2>4. PICK u, v, w, t : /\ u = VarUintSize(i) /\ v = VarUintSize(i + 1)
                          /\ w = VarUintSize(o) /\ t = VarUintSize(o + 1)
    OBVIOUS
  <2>5. {u, v, w, t} \subseteq Nat /\ v <= u + 2 /\ w <= t
    BY <1>1, <2>4
  <2> QED BY <2>1, <2>3, <2>4, <2>5
<1> QED
  BY <1>3, <1>5

\* A fee grows by no more than what is enough for the bytes that are added.
LEMMA FeeSteps ==
    ASSUME NEW a \in Nat, NEW b \in Nat, NEW c \in Nat, NEW s \in Nat,
           b <= a + c, c * SatsPerKb <= s * 1000
    PROVE  FeeOf(b) <= FeeOf(a) + s
<1>1. PICK r \in Nat : r = SatsPerKb
  BY ParamsAssumption
<1>2. PICK d \in Nat : a + c = b + d
  <2>1. a + c - b \in Nat /\ a + c = b + (a + c - b)
    OBVIOUS
  <2> QED BY <2>1
<1>3. PICK x \in Nat, y \in Nat, z \in Nat, e \in Nat :
         x = a * r /\ y = b * r /\ z = c * r /\ e = d * r
  OBVIOUS
<1>4. x + z = y + e
  <2>1. (a + c) * r = x + z /\ (b + d) * r = y + e
    BY <1>3
  <2> QED BY <1>2, <2>1
<1>5. y <= x + 1000 * s
  BY <1>1, <1>3, <1>4
<1>6. (y + 999) \div 1000 <= (x + 999) \div 1000 + s
  BY <1>5
<1> QED
  BY <1>1, <1>3, <1>6 DEF FeeOf

LEMMA FeeInt == \A a \in Nat : FeeOf(a) \in Int
<1> SUFFICES ASSUME NEW a \in Nat PROVE FeeOf(a) \in Int
  OBVIOUS
<1>1. PICK x \in Nat : x = a * SatsPerKb
  BY ParamsAssumption
<1> QED
  BY <1>1 DEF FeeOf

LEMMA LeftIs ==
    ASSUME NEW S, NEW n
    PROVE  Left(S, n) = (Sum(fixedInputs) + Worth(S)) - Sum(fixedOutputs)
                          - FeeOf(TransactionSize(Len(fixedInputs) + Cardinality(S),
                                                  Len(fixedOutputs) + n))
BY DEF Left, Spending

LEMMA LeftType ==
    ASSUME ChangeInv, NEW S \in SUBSET Ids, NEW n \in Nat
    PROVE  Left(S, n) \in Int
<1>1. IsFiniteSet(S) /\ Cardinality(S) \in Nat
  BY ParamsAssumption, FS_Subset, FS_CardinalityType
<1>2. Sum(fixedInputs) \in Int /\ Sum(fixedOutputs) \in Int
  <2>1. fixedInputs \in Seq(Int) /\ fixedOutputs \in Seq(Int)
    BY DEF ChangeInv
  <2> QED BY <2>1, SumType
<1>3. Worth(S) \in Int
  BY WorthAdds
<1>4. PICK i \in Nat, o \in Nat : i = Len(fixedInputs) + Cardinality(S) /\ o = Len(fixedOutputs) + n
  <2>1. Len(fixedInputs) \in Nat /\ Len(fixedOutputs) \in Nat
    BY DEF ChangeInv
  <2> QED BY <1>1, <2>1
<1>5. FeeOf(TransactionSize(i, o)) \in Int
  <2>1. TransactionSize(i, o) \in Nat
    BY SizeSteps
  <2> QED BY <2>1, FeeInt
<1> QED
  BY <1>2, <1>3, <1>4, <1>5, LeftIs

\* An output that is worth the fee of spending it leaves no less.
LEMMA LeftAdds ==
    ASSUME ChangeInv, NEW S \in SUBSET Ids, NEW x \in S, x \notin Dust, NEW n \in Nat
    PROVE  Left(S \ {x}, n) <= Left(S, n)
<1>1. IsFiniteSet(S) /\ Cardinality(S) = Cardinality(S \ {x}) + 1 /\ Cardinality(S \ {x}) \in Nat
  <2>1. IsFiniteSet(S) /\ IsFiniteSet(S \ {x}) /\ x \in S
    BY ParamsAssumption, FS_Subset
  <2>2. Cardinality(S \ {x}) = Cardinality(S) - 1
    BY <2>1, FS_RemoveElement
  <2> QED BY <2>1, <2>2, FS_CardinalityType
<1>2. PICK i \in Nat, o \in Nat : /\ i = Len(fixedInputs) + Cardinality(S \ {x})
                                  /\ i + 1 = Len(fixedInputs) + Cardinality(S)
                                  /\ o = Len(fixedOutputs) + n
  BY <1>1 DEF ChangeInv
<1>3. PICK s \in Nat : s = Satoshis[x] /\ x \in Ids
  BY ParamsAssumption
<1>4. PICK c \in Nat : c = TransactionInputSize(UnlockingScriptLength) + 2
  BY SizeSteps
<1>5. c * SatsPerKb <= s * 1000
  <2>1. ~(s * 1000 < c * SatsPerKb)
    BY <1>3, <1>4 DEF Dust
  <2>2. c * SatsPerKb \in Nat
    BY ParamsAssumption
  <2> QED BY <2>1, <2>2
<1>6. PICK a, b : a = TransactionSize(i, o) /\ b = TransactionSize(i + 1, o)
  OBVIOUS
<1>7. a \in Nat /\ b \in Nat /\ b <= a + c
  <2>1. i + 1 \in Nat
    OBVIOUS
  <2>2. a \in Nat /\ b \in Nat
    BY <1>6, <2>1, SizeSteps
  <2>3. b <= a + TransactionInputSize(UnlockingScriptLength) + 2
    BY <1>6, SizeSteps
  <2> QED BY <1>4, <2>2, <2>3, SizeSteps
<1>p. PICK p, q : p = FeeOf(a) /\ q = FeeOf(b)
  OBVIOUS
<1>8. p \in Int /\ q \in Int /\ q <= p + s
  <2>1. p \in Int /\ q \in Int
    BY <1>7, <1>p, FeeInt
  <2> QED BY <1>5, <1>7, <1>p, <2>1, FeeSteps
<1>9. PICK u \in Int, v \in Int, w \in Int, z \in Int :
         u = Sum(fixedInputs) /\ v = Sum(fixedOutputs) /\ w = Worth(S \ {x}) /\ z = Worth(S)
  <2>1. fixedInputs \in Seq(Int) /\ fixedOutputs \in Seq(Int)
    BY DEF ChangeInv
  <2>2. Worth(S) \in Int /\ Worth(S \ {x}) \in Int
    BY WorthAdds
  <2> QED BY <2>1, <2>2, SumType
<1>10. z = s + w
  <2>1. Worth(S) = Satoshis[x] + Worth(S \ {x})
    BY WorthAdds
  <2> QED BY <1>3, <1>9, <2>1
<1>11. Left(S, n) = (u + z) - v - q /\ Left(S \ {x}, n) = (u + w) - v - p
  BY <1>2, <1>6, <1>p, <1>9, LeftIs
<1> QED
  BY <1>8, <1>10, <1>11

\* If all of them are, nothing leaves more than all of them.
LEMMA LeftGrows ==
    ASSUME ChangeInv, NEW A \in SUBSET Ids, A \cap Dust = {}, NEW S \in SUBSET A, NEW n \in Nat
    PROVE  Left(S, n) <= Left(A, n)
<1> DEFINE Bad == {T \in SUBSET (A \ S) : Left(S \cup T, n) < Left(S, n)}
<1>1. \A T \in SUBSET (A \ S) : Left(S \cup T, n) \in Int
  <2> SUFFICES ASSUME NEW T \in SUBSET (A \ S) PROVE Left(S \cup T, n) \in Int
    OBVIOUS
  <2>1. S \cup T \in SUBSET Ids
    OBVIOUS
  <2> QED BY <2>1, LeftType
<1>2. Left(S, n) \in Int
  BY LeftType
<1>3. Bad = {}
  <2> SUFFICES ASSUME Bad # {} PROVE FALSE
    OBVIOUS
  <2>1. PICK T \in Bad : \A x \in T : T \ {x} \notin Bad
    <3>1. Bad \subseteq SUBSET (A \ S) /\ IsFiniteSet(A \ S)
      BY ParamsAssumption, FS_Subset
    <3> HIDE DEF Bad
    <3> QED BY <3>1, SmallestSet
  <2>2. T \in SUBSET (A \ S) /\ Left(S \cup T, n) < Left(S, n)
    OBVIOUS
  <2>3. T # {}
    <3>1. T = {} => S \cup T = S
      OBVIOUS
    <3> QED BY <1>2, <2>2, <3>1
  <2>4. PICK x \in T : TRUE
    BY <2>3
  <2>5. ~(Left(S \cup (T \ {x}), n) < Left(S, n)) /\ T \ {x} \in SUBSET (A \ S)
    BY <2>1, <2>2, <2>4
  <2>6. S \cup (T \ {x}) = (S \cup T) \ {x}
    BY <2>2, <2>4
  <2>7. Left((S \cup T) \ {x}, n) <= Left(S \cup T, n)
    <3>1. S \cup T \in SUBSET Ids /\ x \in S \cup T /\ x \notin Dust
      BY <2>2, <2>4
    <3> QED BY <3>1, LeftAdds
  <2>8. Left((S \cup T) \ {x}, n) \in Int /\ Left(S \cup T, n) \in Int
    BY <1>1, <2>2, <2>5, <2>6
  <2> QED BY <1>2, <2>2, <2>5, <2>6, <2>7, <2>8
<1>4. S \cup (A \ S) = A /\ A \ S \in SUBSET (A \ S)
  OBVIOUS
<1>5. ~(Left(A, n) < Left(S, n))
  BY <1>3, <1>4
<1>6. Left(A, n) \in Int
  BY LeftType
<1> QED
  BY <1>2, <1>5, <1>6

\* One more output leaves no more.
LEMMA LeftOutput ==
    ASSUME ChangeInv, NEW S \in SUBSET Ids
    PROVE  Left(S, 1) <= Left(S, 0)
<1>1. IsFiniteSet(S) /\ Cardinality(S) \in Nat
  BY ParamsAssumption, FS_Subset, FS_CardinalityType
<1>2. PICK i \in Nat, o \in Nat : i = Len(fixedInputs) + Cardinality(S) /\ o = Len(fixedOutputs)
  BY <1>1 DEF ChangeInv
<1>3. PICK a, b : a = TransactionSize(i, o) /\ b = TransactionSize(i, o + 1)
  OBVIOUS
<1>n. a \in Nat /\ b \in Nat /\ a <= b
  <2>1. o + 1 \in Nat
    OBVIOUS
  <2> QED BY <1>3, <2>1, SizeSteps
<1>4. PICK p, q : p = FeeOf(a) /\ q = FeeOf(b)
  OBVIOUS
<1>5. p \in Int /\ q \in Int /\ p <= q
  <2>1. p \in Int /\ q \in Int
    BY <1>n, <1>4, FeeInt
  <2>2. a <= b + 0 /\ 0 * SatsPerKb <= 0 * 1000
    BY <1>n, ParamsAssumption
  <2>3. p <= q + 0
    BY <1>n, <1>4, <2>2, FeeSteps
  <2> QED BY <2>1, <2>3
<1>6. PICK u \in Int, v \in Int, w \in Int :
         u = Sum(fixedInputs) /\ v = Sum(fixedOutputs) /\ w = Worth(S)
  <2>1. fixedInputs \in Seq(Int) /\ fixedOutputs \in Seq(Int)
    BY DEF ChangeInv
  <2> QED BY <2>1, SumType, WorthAdds
<1>7. Left(S, 1) = (u + w) - v - q /\ Left(S, 0) = (u + w) - v - p
  <2>1. o + 0 = o
    OBVIOUS
  <2> QED BY <1>2, <1>3, <1>4, <1>6, <2>1, LeftIs
<1> QED
  BY <1>5, <1>7

-----------------------------------------------------------------------------
(* Giving up.                                                              *)

Had == {i \in Ids : change[i] # "other"}

\* No output is left over the fee, unless outputs are being removed; the first output is no
\* larger than a first output may be.  The last output is removed only if it cannot be had
\* with all that is there, and what is short then has all of that.
GiveUpInv ==
    /\ stage = "grow" => ~removing
    /\ stage \in {"grow", "release"} /\ ~removing => allocated = <<>>
    /\ stage \notin {"distribute", "done"} /\ outputs # <<>> => outputs[1] <= ChangeFirstSatoshis
    /\ stage \in {"release", "fund", "funded", "check", "insufficient"}
         /\ ~removing /\ outputs = <<>> => FeeExcessNow <= 0
    /\ stage = "insufficient" => Insufficient
    /\ taken = 0 =>
         /\ removing /\ outputs = <<>> => Left(Had, 1) < ChangeFirstSatoshis
         /\ stage = "funded" => FeeExcessNow >= 0 \/ Free = {}
         /\ stage \in {"check", "insufficient"} /\ FeeExcessNow < 0 => outputs = <<>> /\ Free = {}

\* All that is there is spent.
LEMMA AllSpent ==
    ASSUME Inv, Free = {}
    PROVE  Range(allocated) = Had
BY DEF Inv, TypeOK, AllocatedAreInputs, Free, Had

LEMMA SmallSums ==
    /\ Sum(<<>>) = 0
    /\ \A seq \in Seq(Int) : Len(seq) = 1 => Sum(seq) = seq[1]
<1>1. Sum(<<>>) = 0
  <2>1. PICK seq : seq = <<>>
    OBVIOUS
  <2>2. seq \in Seq(Int) /\ DOMAIN seq = {}
    BY <2>1
  <2>3. PICK g : SumsOf(seq, DOMAIN seq, g)
    BY <2>2, FiniteDomain, SumsExist
  <2>4. Sum(seq) = g[{}] /\ g[{}] = 0
    <3>1. Sum(seq) = g[DOMAIN seq]
      BY <2>2, <2>3, SumIs
    <3>2. g[{}] = 0
      BY <2>3 DEF SumsOf, AddsUp
    <3> QED BY <2>2, <3>1, <3>2
  <2> QED BY <2>1, <2>4
<1>2. ASSUME NEW seq \in Seq(Int), Len(seq) = 1
      PROVE  Sum(seq) = seq[1]
  <2>1. PICK D : D = DOMAIN seq
    OBVIOUS
  <2>2. D = {1} /\ seq[1] \in Int
    BY <1>2, <2>1
  <2>3. PICK g : SumsOf(seq, D, g)
    BY <2>1, FiniteDomain, SumsExist
  <2>4. Sum(seq) = g[D]
    BY <2>1, <2>3, SumIs
  <2>5. g[D] = seq[1] + g[D \ {1}]
    <3>1. PICK s : s = seq
      OBVIOUS
    <3>2. SumsOf(s, D, g) /\ D \in SUBSET D /\ 1 \in D
      BY <2>2, <2>3, <3>1
    <3>3. g[D] = s[1] + g[D \ {1}]
      BY <3>2, AnyIsLast
    <3> QED BY <3>1, <3>3
  <2>6. g[D \ {1}] = 0
    <3>1. D \ {1} = {}
      BY <2>2
    <3> QED BY <2>3, <3>1 DEF SumsOf, AddsUp
  <2> QED BY <2>2, <2>4, <2>5, <2>6
<1> QED
  BY <1>1, <1>2

\* Without change outputs, the excess is what spending the inputs leaves.
LEMMA ExcessIsLeft ==
    ASSUME Inv, ChangeInv, outputs = <<>>
    PROVE  FeeExcessNow = Left(Range(allocated), 0)
<1>1. PICK f, w, v : f = Sum(fixedInputs) /\ w = Worth(Range(allocated)) /\ v = Sum(fixedOutputs)
  OBVIOUS
<1>2. f \in Int /\ w \in Int /\ v \in Int
  <2>1. fixedInputs \in Seq(Int) /\ fixedOutputs \in Seq(Int)
    BY DEF ChangeInv
  <2> QED BY <1>1, <2>1, SumType, FundingIs, WorthAdds
<1>3. Funding = f + w /\ Spending = v /\ Sum(outputs) = 0
  BY <1>1, FundingIs, SmallSums DEF Spending
<1>4. PICK i \in Nat, o \in Nat : /\ i = Len(fixedInputs) + Cardinality(Range(allocated))
                                  /\ o = Len(fixedOutputs)
  <2>1. Len(fixedInputs) \in Nat /\ Len(fixedOutputs) \in Nat /\ Len(allocated) \in Nat
    BY DEF ChangeInv, Inv, TypeOK
  <2> QED BY <2>1, FundingIs
<1>5. Size(0, 0) = TransactionSize(i, o) /\ o + 0 = o
  <2>1. Len(fixedInputs) + Len(allocated) + 0 = i /\ Len(fixedOutputs) + Len(outputs) + 0 = o
    BY <1>4, FundingIs
  <2> QED BY <2>1 DEF Size
<1>6. PICK fee : fee = FeeOf(TransactionSize(i, o)) /\ fee \in Int
  BY SizeSteps, FeeInt
<1>7. Left(Range(allocated), 0) = (f + w) - v - fee
  BY <1>1, <1>4, <1>5, <1>6, LeftIs
<1>8. FeeExcessNow = ((f + w) - v - 0) - fee
  BY <1>3, <1>5, <1>6 DEF FeeExcessNow, FeeExcess, Fee, FeeTarget
<1> QED
  BY <1>2, <1>6, <1>7, <1>8

\* If all outputs are removed, not even the first is paid for by all that is there.
LEMMA LastPopped ==
    ASSUME Inv, ChangeInv, GiveUpInv, stage = "funded", FeeExcessNow < 0, outputs # <<>>,
           Free = {}, Popped = Len(outputs)
    PROVE  Left(Had, 1) < ChangeFirstSatoshis
<1>1. PICK l \in Nat \ {0} : l = Len(outputs)
  BY DEF ChangeInv
<1>2. outputs \in Seq(Int) /\ outputs[1] \in Int /\ outputs[1] <= ChangeFirstSatoshis
  BY <1>1 DEF ChangeInv, GiveUpInv
<1>3. PICK f, w, v : f = Sum(fixedInputs) /\ w = Worth(Range(allocated)) /\ v = Sum(fixedOutputs)
  OBVIOUS
<1>4. f \in Int /\ w \in Int /\ v \in Int
  <2>1. fixedInputs \in Seq(Int) /\ fixedOutputs \in Seq(Int)
    BY DEF ChangeInv
  <2> QED BY <1>3, <2>1, SumType, FundingIs, WorthAdds
<1>5. Funding = f + w /\ Spending = v
  BY <1>3, FundingIs DEF Spending
<1>6. PICK i \in Nat, o \in Nat : /\ i = Len(fixedInputs) + Cardinality(Range(allocated))
                                  /\ o = Len(fixedOutputs)
  <2>1. Len(fixedInputs) \in Nat /\ Len(fixedOutputs) \in Nat /\ Len(allocated) \in Nat
    BY DEF ChangeInv, Inv, TypeOK
  <2> QED BY <2>1, FundingIs
<1>7. PICK fee : fee = FeeOf(TransactionSize(i, o + 1)) /\ fee \in Int
  <2>1. o + 1 \in Nat
    OBVIOUS
  <2>2. TransactionSize(i, o + 1) \in Nat
    BY <2>1, SizeSteps
  <2> QED BY <2>2, FeeInt
<1>8. Left(Had, 1) = (f + w) - v - fee
  BY <1>3, <1>6, <1>7, LeftIs, AllSpent
<1>9. (f + w) - v - outputs[1] - fee < 0
  <2>1. CASE l = 1
    <3>1. Size(0, 0) = TransactionSize(i, o + 1)
      <4>1. /\ Len(fixedInputs) + Len(allocated) + 0 = i
            /\ Len(fixedOutputs) + Len(outputs) + 0 = o + 1
        BY <1>1, <1>6, <2>1, FundingIs
      <4> QED BY <4>1 DEF Size
    <3>2. Sum(outputs) = outputs[1]
      BY <1>1, <1>2, <2>1, SmallSums
    <3> QED
      BY <1>5, <1>7, <3>1, <3>2 DEF FeeExcessNow, FeeExcess, Fee, FeeTarget
  <2>2. CASE l # 1
    <3>1. PICK kept : kept = SubSeq(outputs, 1, Len(outputs) - (l - 1))
      OBVIOUS
    <3>2. kept \in Seq(Int) /\ Len(kept) = 1 /\ kept[1] = outputs[1]
      <4>1. Len(outputs) - (l - 1) = 1
        BY <1>1
      <4> QED BY <1>1, <1>2, <3>1, <4>1, SubSeqProperties
    <3>3. FeeTarget(0, -(l - 1)) = fee
      <4>1. /\ Len(fixedInputs) + Len(allocated) + 0 = i
            /\ Len(fixedOutputs) + Len(outputs) + (-(l - 1)) = o + 1
        BY <1>1, <1>6, FundingIs
      <4> QED BY <1>7, <4>1 DEF FeeTarget, Size
    <3>4. ExcessWithout(l - 1) = Funding - Spending - Sum(kept) - FeeTarget(0, -(l - 1))
      BY <3>1 DEF ExcessWithout
    <3>5. ExcessWithout(l - 1) = (f + w) - v - outputs[1] - fee
      BY <1>5, <3>2, <3>3, <3>4, SmallSums
    <3>6. ~(ExcessWithout(l - 1) >= 0)
      <4> DEFINE S == {n \in 1 .. Len(outputs) : n = Len(outputs) \/ ExcessWithout(n) >= 0}
      <4>1. S \subseteq Nat /\ l \in S
        BY <1>1
      <4>2. \E x \in S : \A y \in S : x <= y
        <5> HIDE DEF S
        <5> QED BY <4>1, LeastNumber
      <4>3. \A y \in S : Min(S) <= y
        <5> HIDE DEF S
        <5> QED BY <4>2 DEF Min
      <4>4. Min(S) = l
        BY <1>1 DEF Popped
      <4>5. l - 1 \in 1 .. l /\ ~(l <= l - 1)
        BY <2>2
      <4> QED BY <1>1, <4>3, <4>4, <4>5
    <3> QED BY <1>2, <1>4, <1>7, <3>5, <3>6
  <2> QED BY <2>1, <2>2
<1> QED
  BY <1>2, <1>4, <1>7, <1>8, <1>9, ParamsAssumption

\* The excess depends on inputs and outputs only.
LEMMA ExcessStays ==
    ASSUME UNCHANGED <<params, allocated, outputs>>
    PROVE  FeeExcessNow' = FeeExcessNow
BY DEF FeeExcessNow, FeeExcess, Fee, Funding, Spending, FeeTarget, FeeOf, Size, params

LEMMA LeftStays ==
    ASSUME UNCHANGED params, Had' = Had
    PROVE  Left(Had, 1)' = Left(Had, 1)
BY DEF Left, Spending, params

LEMMA ExcessType ==
    ASSUME Inv, ChangeInv
    PROVE  FeeExcessNow \in Int
BY FeeType DEF FeeExcessNow, FeeExcess

\* An input that brings no output has brought no more than the fee.
LEMMA FundWithLeaves ==
    ASSUME Inv, ChangeInv, ~removing, NEW i \in Free, NEW ao, FundWith(i, ao), Inv', ChangeInv',
           UNCHANGED <<params, removing>>, outputs' = <<>>
    PROVE  FeeExcessNow' <= 0
<1>1. PICK more : more = Fee + Satoshis[i] - FeeTarget(1, 0)
  OBVIOUS
<1>2. /\ i \in Ids /\ change[i] = "free" /\ Satoshis[i] \in Int /\ more \in Int
  BY <1>1, FeeType, ParamsAssumption DEF Free
<1>3. outputs' = IF MayAddOutput(more) /\ (ao = 1 \/ outputs = <<>>)
                 THEN Append(outputs, Min({more, NextOutput})) ELSE outputs
  BY <1>1 DEF FundWith
<1>4. outputs = <<>> /\ ~MayAddOutput(more)
  <2>1. ASSUME MayAddOutput(more)
        PROVE  Append(outputs, Min({more, NextOutput})) # <<>>
    <3>1. PICK x : x = Min({more, NextOutput})
      OBVIOUS
    <3>2. x \in Nat \ {0}
      BY <1>2, <2>1, <3>1, MinOfTwo, ParamsAssumption DEF MayAddOutput, NextOutput
    <3>3. outputs \in Seq(Nat \ {0}) /\ Len(outputs) \in Nat
      BY DEF ChangeInv
    <3>4. Len(Append(outputs, x)) = Len(outputs) + 1
      BY <3>2, <3>3, AppendProperties
    <3>5. Append(outputs, x) # <<>>
      <4>1. PICK longer : longer = Append(outputs, x)
        OBVIOUS
      <4>2. Len(longer) > 0
        BY <3>3, <3>4, <4>1
      <4>3. longer # <<>>
        BY <4>2
      <4> QED BY <4>1, <4>3
    <3> QED BY <3>1, <3>5
  <2> QED BY <1>3, <2>1
<1>5. more <= 0
  BY <1>2, <1>4 DEF MayAddOutput
<1>6. PICK f, w, w2, v : /\ f = Sum(fixedInputs) /\ v = Sum(fixedOutputs)
                         /\ w = Worth(Range(allocated)) /\ w2 = Worth(Range(allocated'))
  OBVIOUS
<1>7. f \in Int /\ w \in Int /\ v \in Int /\ w2 = w + Satoshis[i]
  <2>1. fixedInputs \in Seq(Int) /\ fixedOutputs \in Seq(Int)
    BY DEF ChangeInv
  <2>2. /\ Range(allocated) = {j \in Ids : change[j] = "mine"}
        /\ Range(allocated') = {j \in Ids : change'[j] = "mine"}
    BY DEF Inv, AllocatedAreInputs
  <2>3. Range(allocated') \in SUBSET Ids /\ i \in Range(allocated')
        /\ Range(allocated') \ {i} = Range(allocated)
    <3>1. change \in [Ids -> {"free", "mine", "other"}] /\ change' = [change EXCEPT ![i] = "mine"]
      BY DEF Inv, TypeOK, FundWith
    <3> QED BY <1>2, <2>2, <3>1
  <2>4. Worth(Range(allocated')) = Satoshis[i] + Worth(Range(allocated))
    BY <2>3, WorthAdds
  <2>5. w \in Int
    BY <1>6, <2>2, WorthAdds
  <2> QED BY <1>2, <1>6, <2>1, <2>4, <2>5, SumType
<1>8. Fee = (f + w) - v - 0
  <2>1. Funding = f + w /\ Spending = v /\ Sum(outputs) = 0
    BY <1>4, <1>6, FundingIs, SmallSums DEF Spending
  <2> QED BY <2>1 DEF Fee
<1>9. Fee' = (f + w2) - v - 0
  <2>1. Funding' = f + w2
    <3>1. allocated' \in Seq(Ids) /\ IsInjective(allocated')
      BY DEF Inv, TypeOK, AllocatedAreInputs
    <3>2. Sum([n \in DOMAIN allocated' |-> Satoshis[allocated'[n]]]) = w2
      BY <1>6, <3>1, RowSum
    <3> QED BY <1>6, <3>2 DEF Funding, params
  <2>2. Spending' = v /\ Sum(outputs') = 0
    BY <1>6, SmallSums DEF Spending, params
  <2> QED BY <2>1, <2>2 DEF Fee
<1>10. FeeTarget(0, 0)' = FeeTarget(1, 0)
  <2>1. Len(allocated') = Len(allocated) + 1 /\ Len(allocated) \in Nat /\ Len(fixedInputs) \in Nat
    <3>1. allocated \in Seq(Ids) /\ allocated' = Append(allocated, i)
      BY DEF Inv, TypeOK, FundWith
    <3> QED BY <1>2, <3>1 DEF ChangeInv
  <2>2. Len(fixedInputs) + Len(allocated') + 0 = Len(fixedInputs) + Len(allocated) + 1
    BY <2>1
  <2> QED BY <1>4, <2>2 DEF FeeTarget, Size, params
<1>11. FeeExcessNow' = more
  <2>1. FeeExcessNow' = Fee' - FeeTarget(0, 0)'
    BY DEF FeeExcessNow, FeeExcess
  <2>2. PICK t \in Int, s \in Int : t = FeeTarget(1, 0) /\ s = Satoshis[i]
    BY <1>2, FeeType
  <2>3. more = (((f + w) - v - 0) + s) - t
    BY <1>1, <1>7, <1>8, <2>2
  <2>4. FeeExcessNow' = ((f + w2) - v - 0) - t
    BY <1>9, <1>10, <2>1, <2>2
  <2> QED BY <1>7, <2>2, <2>3, <2>4
<1> QED
  BY <1>5, <1>11

LEMMA GiveUpStart == Init => GiveUpInv
BY DEF Init, GiveUpInv

LEMMA GrowGivesUp ==
    ASSUME Inv, ChangeInv, GiveUpInv, Grow
    PROVE  GiveUpInv'
<1>1. /\ stage = "grow" /\ ~removing /\ allocated = <<>> /\ FeeExcessNow \in Int
      /\ UNCHANGED <<params, change, allocated, removing, taken>>
  BY ExcessType DEF Grow, GiveUpInv
<1>2. CASE stage' = "grow" /\ outputs' = Append(outputs, NextOutput)
  <2>1. outputs'[1] <= ChangeFirstSatoshis
    <3>1. outputs \in Seq(Nat \ {0}) /\ NextOutput \in Nat \ {0} /\ ChangeFirstSatoshis \in Nat
      BY ParamsAssumption DEF ChangeInv, NextOutput
    <3>2. CASE outputs = <<>>
      BY <1>2, <3>1, <3>2 DEF NextOutput
    <3>3. CASE outputs # <<>>
      <4>1. 1 \in 1 .. Len(outputs) /\ outputs[1] <= ChangeFirstSatoshis
        BY <1>1, <3>1, <3>3 DEF GiveUpInv
      <4> QED BY <1>2, <3>1, <4>1, AppendProperties
    <3> QED BY <3>2, <3>3
  <2> QED BY <1>1, <1>2, <2>1 DEF GiveUpInv
<1>3. CASE ~Wanted /\ stage' = "release" /\ UNCHANGED outputs
  <2>1. outputs = <<>> => FeeExcessNow <= 0
    BY <1>1, <1>3 DEF Wanted
  <2>2. FeeExcessNow' = FeeExcessNow
    BY <1>1, <1>3, ExcessStays
  <2> QED BY <1>1, <1>3, <2>1, <2>2 DEF GiveUpInv
<1> QED
  BY <1>2, <1>3 DEF Grow

\* As long as no other call interferes, the outputs that are there stay the same.
LEMMA ReleaseGivesUp ==
    ASSUME Inv, ChangeInv, GiveUpInv, ReleaseInput
    PROVE  GiveUpInv'
<1>1. /\ stage = "release" /\ UNCHANGED <<params, outputs, removing, excess, taken>>
      /\ stage' \in {"release", "fund"}
  BY DEF ReleaseInput
<1>2. CASE allocated # <<>>
  <2>1. removing
    BY <1>1, <1>2 DEF GiveUpInv
  <2>2. Had' = Had
    <3>1. allocated[Len(allocated)] \in Range(allocated)
      <4>1. Len(allocated) \in DOMAIN allocated
        BY <1>2 DEF Inv, TypeOK
      <4> QED BY <4>1 DEF Range
    <3>2. PICK i \in Ids : change[i] = "mine" /\ change' = [change EXCEPT ![i] = "free"]
      BY <1>2, <3>1 DEF Inv, AllocatedAreInputs, ReleaseInput, Released
    <3> QED BY <3>2 DEF Inv, TypeOK, Had
  <2>3. Left(Had, 1)' = Left(Had, 1)
    BY <1>1, <2>2, LeftStays
  <2> QED BY <1>1, <2>1, <2>3 DEF GiveUpInv
<1>3. CASE UNCHANGED <<change, allocated>>
  <2>1. FeeExcessNow' = FeeExcessNow
    BY <1>1, <1>3, ExcessStays
  <2>2. Left(Had, 1)' = Left(Had, 1)
    BY <1>1, <1>3, LeftStays DEF Had
  <2>3. ~removing => allocated' = <<>>
    BY <1>1, <1>3 DEF GiveUpInv
  <2> QED BY <1>1, <1>3, <2>1, <2>2, <2>3 DEF GiveUpInv
<1> QED
  BY <1>2, <1>3 DEF ReleaseInput

LEMMA FundGivesUp ==
    ASSUME Inv, ChangeInv, GiveUpInv, Inv', ChangeInv', Fund
    PROVE  GiveUpInv'
<1>1. stage = "fund" /\ UNCHANGED <<params, removing, excess, taken>>
  BY DEF Fund
<1>2. ASSUME NEW i \in Free, NEW ao, FundWith(i, ao), stage' = "fund"
      PROVE  GiveUpInv'
  <2>1. i \in Ids /\ change[i] = "free" /\ Had' = Had
    BY <1>2 DEF Free, FundWith, Inv, TypeOK, Had
  <2>2. Left(Had, 1)' = Left(Had, 1)
    BY <1>1, <2>1, LeftStays
  <2>3. PICK more \in Int : more = Fee + Satoshis[i] - FeeTarget(1, 0)
    BY <2>1, FeeType, ParamsAssumption
  <2>4. PICK x : x = Min({more, NextOutput})
    OBVIOUS
  <2>5. outputs' = outputs \/ (MayAddOutput(more) /\ outputs' = Append(outputs, x))
    BY <1>2, <2>3, <2>4 DEF FundWith
  <2>6. MayAddOutput(more) => ~removing /\ x \in Nat \ {0} /\ x <= NextOutput
    BY <2>4, MinOfTwo, ParamsAssumption DEF MayAddOutput, NextOutput
  <2>7. removing => outputs' = outputs
    BY <2>5, <2>6
  <2>8. outputs' # <<>> => outputs'[1] <= ChangeFirstSatoshis
    <3>1. CASE outputs' = outputs
      BY <1>1, <3>1 DEF GiveUpInv
    <3>2. CASE MayAddOutput(more) /\ outputs' = Append(outputs, x)
      <4>1. outputs \in Seq(Nat \ {0}) /\ x \in Nat \ {0} /\ x <= NextOutput
        BY <2>6, <3>2 DEF ChangeInv
      <4>2. CASE outputs = <<>>
        BY <3>2, <4>1, <4>2 DEF NextOutput
      <4>3. CASE outputs # <<>>
        <5>1. 1 \in 1 .. Len(outputs) /\ outputs[1] <= ChangeFirstSatoshis
          BY <1>1, <4>1, <4>3 DEF GiveUpInv
        <5> QED BY <3>2, <4>1, <5>1, AppendProperties
      <4> QED BY <4>2, <4>3
    <3> QED BY <2>5, <3>1, <3>2
  <2>9. ~removing /\ outputs' = <<>> => FeeExcessNow' <= 0
    BY <1>1, <1>2, FundWithLeaves
  <2> QED BY <1>1, <1>2, <2>2, <2>7, <2>8, <2>9 DEF GiveUpInv
<1>3. ASSUME UNCHANGED <<change, allocated, outputs>>, stage' = "funded",
             FeeExcessNow >= 0 \/ Free = {}
      PROVE  GiveUpInv'
  <2>1. FeeExcessNow' = FeeExcessNow
    BY <1>1, <1>3, ExcessStays
  <2>2. Left(Had, 1)' = Left(Had, 1) /\ Free' = Free
    BY <1>1, <1>3, LeftStays DEF Had, Free
  <2> QED BY <1>1, <1>3, <2>1, <2>2 DEF GiveUpInv
<1>4. \/ /\ UNCHANGED <<change, allocated, outputs>> /\ stage' = "funded"
         /\ FeeExcessNow >= 0 \/ Free = {}
      \/ stage' = "fund" /\ \E i \in Free, ao \in {0, 1} : FundWith(i, ao)
  BY <1>1, ClosestIsFree DEF Fund
<1> QED
  BY <1>2, <1>3, <1>4

\* Popping ends at the first excess that is not negative, or with no outputs.
LEMMA PoppedIs ==
    ASSUME Inv, ChangeInv, outputs # <<>>
    PROVE  /\ Popped \in 1 .. Len(outputs)
           /\ ExcessWithout(Popped) < 0 => Popped = Len(outputs)
<1> DEFINE S == {n \in 1 .. Len(outputs) : n = Len(outputs) \/ ExcessWithout(n) >= 0}
<1>1. outputs \in Seq(Nat \ {0}) /\ Len(outputs) \in Nat \ {0}
  BY DEF ChangeInv
<1>2. S \subseteq Nat /\ Len(outputs) \in S
  BY <1>1
<1>3. Popped \in S
  <2>1. Min(S) \in S
    <3> HIDE DEF S
    <3> QED BY <1>2, SmallestIn
  <2> QED BY <2>1 DEF Popped
<1>4. PICK l, p : l = Len(outputs) /\ p = Popped
  OBVIOUS
<1>5. l \in Nat /\ p \in 1 .. l /\ (p = l \/ ExcessWithout(p) >= 0)
  BY <1>1, <1>3, <1>4
<1>6. ExcessWithout(p) \in Int
  <2>1. PICK kept : kept = SubSeq(outputs, 1, Len(outputs) - p)
    OBVIOUS
  <2>2. kept \in Seq(Int)
    <3>1. kept \in Seq(Nat \ {0})
      BY <1>4, <2>1, PoppedStays
    <3> QED BY <3>1
  <2>3. FeeTarget(0, -p) \in Int
    <3>1. PICK i \in Nat, o \in Nat : /\ i = Len(fixedInputs) + Len(allocated) + 0
                                      /\ o = Len(fixedOutputs) + Len(outputs) + (-p)
      <4>1. /\ Len(fixedInputs) \in Nat /\ Len(allocated) \in Nat /\ Len(fixedOutputs) \in Nat
            /\ l + (-p) \in Nat
        BY <1>5 DEF ChangeInv, Inv, TypeOK
      <4>2. Len(fixedOutputs) + l + (-p) \in Nat
        BY <1>5, <4>1
      <4> QED BY <1>4, <4>1, <4>2
    <3>2. FeeTarget(0, -p) = FeeOf(TransactionSize(i, o))
      BY <3>1 DEF FeeTarget, Size
    <3> QED BY <3>2, SizeSteps, FeeInt
  <2>4. ExcessWithout(p) = Funding - Spending - Sum(kept) - FeeTarget(0, -p)
    BY <2>1 DEF ExcessWithout
  <2> QED BY <2>2, <2>3, <2>4, FeeType, SumType
<1> QED
  BY <1>4, <1>5, <1>6

LEMMA StarveGivesUp ==
    ASSUME Inv, ChangeInv, GiveUpInv, Starve
    PROVE  GiveUpInv'
<1>1. stage = "funded" /\ UNCHANGED <<params, change, allocated, excess, taken>>
  BY DEF Starve
<1>2. CASE /\ FeeExcessNow >= 0 \/ outputs = <<>>
           /\ stage' = "check" /\ UNCHANGED <<removing, outputs>>
  <2>1. FeeExcessNow' = FeeExcessNow /\ FeeExcessNow \in Int
    BY <1>1, <1>2, ExcessStays, ExcessType
  <2>2. Left(Had, 1)' = Left(Had, 1) /\ Free' = Free
    BY <1>1, LeftStays DEF Had, Free
  <2>3. /\ outputs' # <<>> => outputs'[1] <= ChangeFirstSatoshis
        /\ ~removing' /\ outputs' = <<>> => FeeExcessNow' <= 0
        /\ taken' = 0 =>
             /\ removing' /\ outputs' = <<>> => Left(Had, 1)' < ChangeFirstSatoshis
             /\ FeeExcessNow' < 0 => outputs' = <<>> /\ Free' = {}
    <3>1. FeeExcessNow < 0 => outputs = <<>>
      BY <1>2, <2>1
    <3>2. taken = 0 /\ FeeExcessNow < 0 => Free = {}
      BY <1>1, <2>1 DEF GiveUpInv
    <3> QED BY <1>1, <1>2, <2>1, <2>2, <3>1, <3>2 DEF GiveUpInv
  <2> QED BY <1>2, <2>3 DEF GiveUpInv
<1>3. ASSUME FeeExcessNow < 0, outputs # <<>>, removing' = TRUE,
             outputs' = SubSeq(outputs, 1, Len(outputs) - Popped),
             stage' = IF ExcessWithout(Popped) < 0 THEN "check" ELSE "release"
      PROVE  GiveUpInv'
  <2>1. PICK l, p : l = Len(outputs) /\ p = Popped
    OBVIOUS
  <2>2. /\ l \in Nat \ {0} /\ p \in 1 .. l /\ outputs \in Seq(Nat \ {0})
        /\ ExcessWithout(p) < 0 => p = l
    BY <1>3, <2>1, PoppedIs DEF ChangeInv
  <2>3. PICK m \in 0 .. l : m = l - p
    BY <2>2
  <2>s. PICK new : new = SubSeq(outputs, 1, m) /\ new = outputs'
    BY <1>3, <2>1, <2>3
  <2>4. new \in Seq(Nat \ {0}) /\ Len(new) = m /\ (m > 0 => new[1] = outputs[1])
    BY <2>1, <2>2, <2>s, SubSeqProperties
  <2>5. (outputs' = <<>>) <=> (p = l)
    <3>1. (new = <<>>) <=> (m = 0)
      BY <2>4
    <3>2. (m = 0) <=> (p = l)
      BY <2>2, <2>3
    <3> QED BY <2>s, <3>1, <3>2
  <2>6. outputs' # <<>> => outputs'[1] <= ChangeFirstSatoshis
    <3>1. outputs[1] <= ChangeFirstSatoshis
      BY <1>1, <1>3 DEF GiveUpInv
    <3>2. new # <<>> => m > 0
      BY <2>4
    <3> QED BY <2>4, <2>s, <3>1, <3>2
  <2>7. taken = 0 => Free = {}
    BY <1>1, <1>3, ExcessType DEF GiveUpInv
  <2>8. taken = 0 /\ outputs' = <<>> => Left(Had, 1) < ChangeFirstSatoshis
    BY <1>1, <1>3, <2>1, <2>5, <2>7, LastPopped
  <2>9. Left(Had, 1)' = Left(Had, 1) /\ Free' = Free
    BY <1>1, LeftStays DEF Had, Free
  <2>10. stage' = "check" => outputs' = <<>>
    BY <1>3, <2>1, <2>2, <2>5
  <2> QED BY <1>1, <1>3, <2>6, <2>7, <2>8, <2>9, <2>10 DEF GiveUpInv
<1>4. CASE FeeExcessNow >= 0 \/ outputs = <<>>
  BY <1>2, <1>4 DEF Starve
<1>5. CASE ~(FeeExcessNow >= 0 \/ outputs = <<>>)
  <2>1. FeeExcessNow < 0
    BY <1>5, ExcessType
  <2> QED BY <1>3, <1>5, <2>1 DEF Starve
<1> QED
  BY <1>4, <1>5

LEMMA GiveUpStep == Inv /\ ChangeInv /\ GiveUpInv /\ Inv' /\ ChangeInv' /\ [Next]_vars => GiveUpInv'
<1> SUFFICES ASSUME Inv, ChangeInv, GiveUpInv, Inv', ChangeInv', [Next]_vars
             PROVE  GiveUpInv'
  OBVIOUS
<1>1. CASE Check
  <2>1. /\ stage = "check" /\ UNCHANGED <<params, change, allocated, outputs, removing, taken>>
        /\ stage' = IF Insufficient THEN "insufficient" ELSE "distribute"
    BY <1>1 DEF Check
  <2>2. FeeExcessNow' = FeeExcessNow
    BY <2>1, ExcessStays
  <2>3. Left(Had, 1)' = Left(Had, 1) /\ Free' = Free
    BY <2>1, LeftStays DEF Had, Free
  <2>4. stage' = "insufficient" => Insufficient'
    BY <2>1, <2>2 DEF Insufficient
  <2> QED BY <2>1, <2>2, <2>3, <2>4 DEF GiveUpInv
<1>2. CASE Distribute
  <2>1. /\ stage = "distribute" /\ stage' = stage /\ outputs # <<>>
        /\ UNCHANGED <<params, change, allocated, removing, taken>>
    BY <1>2 DEF Distribute
  <2>2. outputs' # <<>>
    <3>1. PICK k, n : outputs' = [outputs EXCEPT ![k] = @ + n]
      BY <1>2 DEF Distribute, Give
    <3>2. DOMAIN outputs' = DOMAIN outputs /\ DOMAIN outputs # {}
      BY <2>1, <3>1 DEF ChangeInv
    <3> QED BY <3>2
  <2> QED BY <2>1, <2>2 DEF GiveUpInv
<1>3. CASE Finish
  <2>1. /\ stage' \in {"done", "internal"}
        /\ UNCHANGED <<params, change, allocated, outputs, removing, taken>>
    BY <1>3 DEF Finish
  <2>2. stage' = "done"
    BY <2>1 DEF ChangeInv
  <2>3. Left(Had, 1)' = Left(Had, 1)
    BY <2>1, LeftStays DEF Had
  <2> QED BY <2>1, <2>2, <2>3 DEF GiveUpInv
<1>4. CASE OtherTakes
  <2>1. UNCHANGED <<params, allocated, outputs, removing, excess, stage>> /\ taken' # 0
    BY <1>4 DEF OtherTakes, Inv, TypeOK
  <2>2. FeeExcessNow' = FeeExcessNow
    BY <2>1, ExcessStays
  <2>3. Insufficient' <=> Insufficient
    BY <2>1, <2>2 DEF Insufficient
  <2> QED BY <2>1, <2>2, <2>3 DEF GiveUpInv
<1>5. CASE UNCHANGED vars
  <2>1. UNCHANGED <<params, change, allocated, outputs, removing, excess, stage, taken>>
    BY <1>5 DEF vars
  <2>2. FeeExcessNow' = FeeExcessNow
    BY <2>1, ExcessStays
  <2>3. Left(Had, 1)' = Left(Had, 1) /\ Free' = Free
    BY <2>1, LeftStays DEF Had, Free
  <2>4. Insufficient' <=> Insufficient
    BY <2>1, <2>2 DEF Insufficient
  <2> QED BY <2>1, <2>2, <2>3, <2>4 DEF GiveUpInv
<1> QED
  BY <1>1, <1>2, <1>3, <1>4, <1>5, GrowGivesUp, ReleaseGivesUp, FundGivesUp, StarveGivesUp
  DEF Next, Step

\* What gives up has tried all that is there.
LEMMA GivenUp == Inv /\ ChangeInv /\ GiveUpInv => GivesUpRightly
<1> SUFFICES ASSUME Inv, ChangeInv, GiveUpInv, stage = "insufficient", taken = 0,
                    Had \cap Dust = {}, NEW S \in SUBSET Had
             PROVE  /\ Left(S, 1) < ChangeFirstSatoshis
                    /\ FeeExcessNow < 0 => Left(S, 0) < 0
  BY DEF GivesUpRightly, Had
<1>1. Had \in SUBSET Ids /\ ChangeFirstSatoshis \in Nat
  BY ParamsAssumption DEF Had
<1>2. /\ Left(S, 0) <= Left(Had, 0) /\ Left(S, 1) <= Left(Had, 1) /\ Left(Had, 1) <= Left(Had, 0)
  BY <1>1, LeftGrows, LeftOutput
<1>3. {Left(S, 0), Left(S, 1), Left(Had, 0), Left(Had, 1)} \subseteq Int
  BY <1>1, LeftType
<1>4. CASE FeeExcessNow < 0
  <2>1. outputs = <<>> /\ Free = {}
    BY <1>4 DEF GiveUpInv
  <2>2. Left(Had, 0) < 0
    BY <1>4, <2>1, ExcessIsLeft, AllSpent
  <2> QED BY <1>1, <1>2, <1>3, <2>2
<1>5. CASE ~(FeeExcessNow < 0)
  <2>1. outputs = <<>> /\ FeeExcessNow > 0
    BY <1>5 DEF GiveUpInv, Insufficient
  <2>2. removing
    BY <2>1, ExcessType DEF GiveUpInv
  <2>3. Left(Had, 1) < ChangeFirstSatoshis
    BY <2>1, <2>2 DEF GiveUpInv
  <2> QED BY <1>1, <1>2, <1>3, <1>5, <2>3
<1> QED
  BY <1>4, <1>5

\* WERR_INSUFFICIENT_FUNDS is thrown only when it must be: as long as no other call takes
\* outputs and each is worth the fee of spending it, no choice of the outputs that are there
\* leaves enough for a change output, and if the fee is not covered, none covers it.
THEOREM GivingUpIsRight == Spec => []GivesUpRightly
<1>1. Init => Inv /\ ChangeInv /\ GiveUpInv
  BY InitInv, ChangeStart, GiveUpStart
<1>2. Inv /\ ChangeInv /\ GiveUpInv /\ [Next]_vars => (Inv /\ ChangeInv /\ GiveUpInv)'
  BY StepInv, ChangeStep, GiveUpStep
<1> QED
  BY <1>1, <1>2, GivenUp, PTL DEF Spec
=============================================================================

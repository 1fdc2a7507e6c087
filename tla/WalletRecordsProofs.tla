-------------------------- MODULE WalletRecordsProofs --------------------------
(***************************************************************************)
(* Proofs about the records of an internalized transaction, for any number *)
(* of users, managers, calls and outputs: they keep their types, a user    *)
(* has one transactions row of it, what a call said that it stored is      *)
(* listed, an output is spendable while no action spends it, what is       *)
(* listed has a proof or a req, and the purge takes only what is spent.    *)
(***************************************************************************)
EXTENDS WalletRecords, WellFoundedInduction, FiniteSetTheorems, TLAPS

\* A call that is about to store an output has one left to store.
SomeLeft == \A c \in Calls : call[c].stage = "store" => call[c].left # {}

\* A call that is past its first step knows what it was asked for, and one that is past
\* its setup knows its row and the baskets it found.
Informed ==
    \A c \in Calls :
        /\ Running(c) => call[c].want \in Wants[c]
        /\ call[c].stage \in {"find", "insert", "req", "label", "store", "tag", "return"} =>
               call[c].row \in Rows /\ call[c].found \in [Vouts -> Baskets]

Typed == TypeOK /\ SomeLeft /\ Informed
-----------------------------------------------------------------------------
\* A nonempty set of numbers has a least member.
LEMMA LeastMember ==
    ASSUME NEW S, S \subseteq Nat, S # {}
    PROVE  Min(S) \in S
<1>1. PICK x \in S : \A y \in S : ~(<<y, x>> \in OpToRel(<, Nat))
  BY WFMin, NatLessThanWellFounded, Zenon
<1>2. \A y \in S : ~(y < x)
  BY <1>1, Zenon DEF OpToRel
<1>3. \A y \in S : x <= y
  BY <1>2
<1> QED
  BY <1>3 DEF Min

\* The output that is stored next is one of those left.
LEMMA NextIsLeft ==
    ASSUME Typed, NEW c \in Calls, call[c].stage = "store"
    PROVE  NextToStore(c) \in call[c].left /\ NextToStore(c) \in Vouts
<1>1. call[c].left \subseteq Vouts /\ call[c].left # {} /\ Vouts \subseteq Nat
  BY CallsAssumption DEF Typed, TypeOK, SomeLeft, CallType
<1> DEFINE payments == {v \in call[c].left : call[c].want[v] = "payment"}
           S == IF payments # {} THEN payments ELSE call[c].left
<1>2. S # {} /\ S \subseteq Nat /\ S \subseteq call[c].left
  BY <1>1
<1>3. Min(S) \in S
  <2> HIDE DEF S
  <2> QED
    BY <1>2, LeastMember
<1> QED
  BY <1>1, <1>2, <1>3 DEF NextToStore
-----------------------------------------------------------------------------
\* The initial states are typed.
LEMMA InitTyped == Init => Typed
<1> SUFFICES ASSUME Init PROVE Typed
  OBVIOUS
<1>1. call \in [Calls -> CallType]
  BY DEF Init, NoCall, CallType
<1>2. txs \in [Rows -> TxType] /\ req \in ReqType /\ proof \in BOOLEAN
  BY DEF Init, TxType, ReqType, NoTx, NoReq, Rows
<1>3. outs \in [Outputs -> OutType]
  BY DEF Init, OutType, NoOut, Change, Baskets
<1>4. purge \in PurgeType
  BY DEF Init, NoPurge, PurgeType
<1>5. TypeOK
  BY <1>1, <1>2, <1>3, <1>4, CallsAssumption DEF Init, TypeOK, NoSpend
<1> QED
  BY <1>5 DEF Init, Typed, SomeLeft, Informed, NoCall, Running

\* A call that goes on, keeps what it knows and stores nothing without cause stays typed.
LEMMA CallStep ==
    ASSUME Typed, NEW c \in Calls, NEW k \in CallType,
           call' = [call EXCEPT ![c] = k],
           k.stage = "store" => k.left # {},
           k.stage \notin {"idle", "returned", "threw"} => k.want \in Wants[c],
           k.stage \in {"find", "insert", "req", "label", "store", "tag", "return"} =>
               k.row \in Rows /\ k.found \in [Vouts -> Baskets]
    PROVE  call' \in [Calls -> CallType] /\ SomeLeft' /\ Informed'
<1>1. call \in [Calls -> CallType]
  BY DEF Typed, TypeOK
<1>2. call' \in [Calls -> CallType] /\ \A d \in Calls : call'[d] = IF d = c THEN k ELSE call[d]
  BY <1>1
<1> QED
  BY <1>2 DEF Typed, SomeLeft, Informed, Running

\* The stages of a call that knows its row.
Placed == {"find", "insert", "req", "label", "store", "tag", "return"}

\* The same for a call whose stage alone changes.
LEMMA GotoStep ==
    ASSUME Typed, NEW c \in Calls, NEW stage \in Placed \cup {"returned", "threw"},
           Goto(c, stage), Running(c),
           stage = "store" => call[c].left # {},
           stage \in Placed => call[c].stage \in Placed
    PROVE  call' \in [Calls -> CallType] /\ SomeLeft' /\ Informed'
<1> DEFINE k == [call[c] EXCEPT !.stage = stage]
<1>1. call[c] \in CallType
  BY DEF Typed, TypeOK
<1>2. /\ k \in CallType /\ k.stage = stage /\ k.want = call[c].want
      /\ k.row = call[c].row /\ k.found = call[c].found /\ k.left = call[c].left
  BY <1>1 DEF CallType, Placed
<1>3. call' = [call EXCEPT ![c] = k]
  BY DEF Goto
<1>4. call[c].want \in Wants[c]
  BY DEF Typed, Informed
<1>5. stage \in Placed => call[c].row \in Rows /\ call[c].found \in [Vouts -> Baskets]
  BY DEF Typed, Informed, Placed
<1> HIDE DEF k
<1> QED
  BY <1>2, <1>3, <1>4, <1>5, CallStep DEF Placed

\* The first steps of a call keep the types.
LEMMA SetupSteps ==
    ASSUME Typed, NEW c \in Calls,
           \/ Begin(c) \/ SetupThrows(c) \/ SetupMerge(c) \/ SetupNew(c) \/ FindTransaction(c)
    PROVE  Typed'
<1> USE CallsAssumption DEF Typed, TypeOK
<1>c. call[c] \in CallType
  OBVIOUS
<1>1. CASE Begin(c)
  <2>1. PICK w \in Wants[c] :
          /\ call' = [call EXCEPT ![c].stage = "setup", ![c].want = w]
          /\ expected' = [o \in Outputs |-> IF UserOf[o[1]] = UserOf[c] /\ w[o[2]] # "no"
                                            THEN "any" ELSE expected[o]]
    BY <1>1 DEF Begin
  <2>2. expected' \in [Outputs -> Baskets \cup {"any", "mixed", "tagged"}]
    BY <2>1
  <2> DEFINE k == [call[c] EXCEPT !.stage = "setup", !.want = w]
  <2>3. k \in CallType /\ k.stage = "setup" /\ k.want \in Wants[c]
    BY <1>c DEF CallType
  <2>4. call' = [call EXCEPT ![c] = k]
    BY <2>1
  <2>5. call' \in [Calls -> CallType] /\ SomeLeft' /\ Informed'
    <3> HIDE DEF k
    <3> QED BY <2>3, <2>4, CallStep
  <2> QED
    BY <1>1, <2>2, <2>5 DEF Begin, records
<1>2. CASE SetupThrows(c)
  <2>1. call' \in [Calls -> CallType] /\ SomeLeft' /\ Informed'
    BY <1>2, GotoStep DEF SetupThrows, Running, Placed
  <2> QED
    BY <1>2, <2>1 DEF SetupThrows, CallOnly, records
<1>3. CASE SetupMerge(c)
  <2>1. PICK r \in RowsOf(UserOf[c]) :
          call' = [call EXCEPT ![c].stage = "label", ![c].row = r,
                     ![c].found = [v \in Vouts |-> outs[<<r, v>>].basket],
                     ![c].left = {v \in Asked(c) : ~(call[c].want[v] = "payment" /\
                                   [x \in Vouts |-> outs[<<r, x>>].basket][v] = "default")}]
    BY <1>3 DEF SetupMerge
  <2> DEFINE found == [v \in Vouts |-> outs[<<r, v>>].basket]
             left == {v \in Asked(c) : ~(call[c].want[v] = "payment" /\ found[v] = "default")}
             k == [call[c] EXCEPT !.stage = "label", !.row = r, !.found = found, !.left = left]
  <2>2. r \in Rows /\ left \subseteq Vouts
    BY DEF RowsOf, Asked
  <2>3. found \in [Vouts -> Baskets]
    BY <2>2 DEF Outputs, OutType
  <2>4. call[c].want \in Wants[c]
    BY <1>3 DEF SetupMerge, Informed, Running
  <2>5. k \in CallType /\ k.stage = "label" /\ k.want = call[c].want /\ k.row = r /\ k.found = found
    <3> HIDE DEF found, left
    <3> QED BY <1>c, <2>2, <2>3 DEF CallType
  <2>6. call' = [call EXCEPT ![c] = k]
    BY <2>1
  <2>7. call' \in [Calls -> CallType] /\ SomeLeft' /\ Informed'
    <3> HIDE DEF k, found
    <3> QED BY <2>2, <2>3, <2>4, <2>5, <2>6, CallStep
  <2> QED
    BY <1>3, <2>7 DEF SetupMerge, CallOnly, records
<1>4. CASE SetupNew(c)
  <2> DEFINE found == [v \in Vouts |-> "none"]
             k == [call[c] EXCEPT !.stage = "find", !.row = c, !.left = Asked(c), !.found = found]
  <2>1. c \in Rows /\ Asked(c) \subseteq Vouts /\ found \in [Vouts -> Baskets]
    BY DEF Rows, Asked, Baskets
  <2>2. call[c].want \in Wants[c]
    BY <1>4 DEF SetupNew, Informed, Running
  <2>3. k \in CallType /\ k.stage = "find" /\ k.want = call[c].want /\ k.row = c /\ k.found = found
    <3> HIDE DEF found
    <3> QED BY <1>c, <2>1 DEF CallType
  <2>4. call' = [call EXCEPT ![c] = k]
    BY <1>4 DEF SetupNew
  <2>5. call' \in [Calls -> CallType] /\ SomeLeft' /\ Informed'
    <3> HIDE DEF k, found
    <3> QED BY <2>1, <2>2, <2>3, <2>4, CallStep
  <2> QED
    BY <1>4, <2>5 DEF SetupNew, CallOnly, records
<1>5. CASE FindTransaction(c)
  <2>1. call' \in [Calls -> CallType] /\ SomeLeft' /\ Informed'
    BY <1>5, GotoStep DEF FindTransaction, Running, Placed
  <2> QED
    BY <1>5, <2>1 DEF FindTransaction, CallOnly, records
<1> QED
  BY <1>1, <1>2, <1>3, <1>4, <1>5

\* What is stored is an output, and changes as one.
LEMMA OutputTypes ==
    /\ NoOut \in OutType /\ Change \in OutType /\ Custom \in OutType
    /\ \A x \in OutType, b \in {"default", "custom"}, change \in BOOLEAN :
           [x EXCEPT !.basket = b, !.change = change] \in OutType
    /\ \A x \in OutType : [x EXCEPT !.basket = "null"] \in OutType
    /\ \A x \in OutType, spendable \in BOOLEAN : [x EXCEPT !.spendable = spendable] \in OutType
    /\ \A x \in OutType : [x EXCEPT !.tagged = TRUE] \in OutType
BY DEF OutType, Baskets, NoOut, Change, Custom

\* A call that is cut off keeps the types.
LEMMA CutOffStep ==
    ASSUME Typed, NEW c \in Calls, CutOff(c)
    PROVE  Typed'
<1>1. call' \in [Calls -> CallType] /\ SomeLeft' /\ Informed'
  BY GotoStep DEF CutOff, Placed
<1>2. count.events \in 0 .. MaxEvents /\ count.events < MaxEvents
      /\ count' = [count EXCEPT !.events = count.events + 1]
      /\ count \in [events : 0 .. MaxEvents, purges : 0 .. MaxPurges]
  BY DEF CutOff, Typed, TypeOK
<1>3. count' \in [events : 0 .. MaxEvents, purges : 0 .. MaxPurges]
  BY <1>2, CallsAssumption
<1>4. unpursued' \subseteq Rows
  BY DEF CutOff, Typed, TypeOK, Rows
<1>5. UNCHANGED <<records, req, proof, spend, purge, expected>>
  BY DEF CutOff
<1> QED
  BY <1>1, <1>3, <1>4, <1>5 DEF Typed, TypeOK, records

\* So do the steps that write to storage, and the end of a call.
LEMMA StoreSteps ==
    ASSUME Typed, NEW c \in Calls,
           \/ InsertTransaction(c) \/ GetProvenOrReq(c) \/ AddLabels(c) \/ StoreOutput(c)
           \/ TagOutput(c) \/ Return(c) \/ CutOff(c)
    PROVE  Typed'
<1> USE CallsAssumption DEF Typed, TypeOK
<1>c. call[c] \in CallType /\ call[c].left \subseteq Vouts /\ c \in Rows
  BY DEF CallType, Rows
<1>1. CASE InsertTransaction(c)
  <2>1. call' \in [Calls -> CallType] /\ SomeLeft' /\ Informed'
    BY <1>1, GotoStep DEF InsertTransaction, Running, Placed
  <2>2. txs' \in [Rows -> TxType]
    BY <1>1, <1>c DEF InsertTransaction, TxType
  <2> QED
    BY <1>1, <2>1, <2>2 DEF InsertTransaction
<1>2. CASE GetProvenOrReq(c)
  <2>1. call' \in [Calls -> CallType] /\ SomeLeft' /\ Informed'
    BY <1>2, GotoStep DEF GetProvenOrReq, Running, Placed
  <2>2. req' \in ReqType
    BY <1>2, <1>c DEF GetProvenOrReq, Req, ReqType
  <2> QED
    BY <1>2, <2>1, <2>2 DEF GetProvenOrReq, records
<1>3. CASE AddLabels(c)
  <2>1. call[c].row \in Rows
    BY <1>3 DEF AddLabels, Informed
  <2>2. call' \in [Calls -> CallType] /\ SomeLeft' /\ Informed'
    BY <1>3, GotoStep DEF AddLabels, AfterStore, Running, Placed
  <2> QED
    BY <1>3, <2>1, <2>2 DEF AddLabels
<1>4. CASE StoreOutput(c)
  <2> DEFINE v == NextToStore(c)
             o == <<call[c].row, v>>
             left == call[c].left \ {v}
  <2>1. call[c].want \in Wants[c] /\ call[c].row \in Rows /\ call[c].found \in [Vouts -> Baskets]
    BY <1>4 DEF StoreOutput, Informed, Running
  <2>2. v \in Vouts /\ o \in Outputs
    BY <1>4, <2>1, NextIsLeft DEF StoreOutput, Outputs
  <2>3. outs' \in [Outputs -> OutType]
    <3>1. outs[o] \in OutType
      BY <2>2
    <3>2. /\ Change \in OutType /\ Custom \in OutType
          /\ Merged(o, "default", TRUE) \in OutType /\ Merged(o, "custom", FALSE) \in OutType
      <4> HIDE DEF o
      <4> QED BY <3>1, OutputTypes DEF Merged
    <3>3. \/ UNCHANGED outs
          \/ \E x \in OutType : outs' = [outs EXCEPT ![o] = x]
      <4> HIDE DEF Change, Custom
      <4> QED BY <1>4, <3>2 DEF StoreOutput
    <3> QED
      BY <3>3
  <2>4. call' \in [Calls -> CallType] /\ SomeLeft' /\ Informed'
    <3>1. CASE Goto(c, "threw")
      BY <1>4, <3>1, GotoStep DEF StoreOutput, Running, Placed
    <3>2. ASSUME NEW to \in {AfterStore(c, left), "tag"},
                 call' = [call EXCEPT ![c].left = left, ![c].stage = to]
          PROVE  call' \in [Calls -> CallType] /\ SomeLeft' /\ Informed'
      <4> DEFINE k == [call[c] EXCEPT !.left = left, !.stage = to]
      <4>1. left \subseteq Vouts /\ to \in {"store", "return", "tag"} /\ (to = "store" => left # {})
        BY <1>c DEF AfterStore
      <4>2. /\ k \in CallType /\ k.stage = to /\ k.left = left /\ k.want = call[c].want
            /\ k.row = call[c].row /\ k.found = call[c].found
        <5> HIDE DEF left
        <5> QED BY <1>c, <4>1 DEF CallType
      <4>3. call' = [call EXCEPT ![c] = k]
        BY <3>2
      <4> HIDE DEF k, left
      <4> QED
        BY <2>1, <4>1, <4>2, <4>3, CallStep
    <3> QED
      BY <1>4, <3>1, <3>2 DEF StoreOutput
  <2> QED
    BY <1>4, <2>3, <2>4 DEF StoreOutput
<1>5. CASE TagOutput(c)
  <2>1. call' \in [Calls -> CallType] /\ SomeLeft' /\ Informed'
    BY <1>5, GotoStep DEF TagOutput, AfterStore, Running, Placed
  <2>2. outs' \in [Outputs -> OutType]
    BY <1>5, OutputTypes DEF TagOutput
  <2> QED
    BY <1>5, <2>1, <2>2 DEF TagOutput
<1>6. CASE Return(c)
  <2>1. call' \in [Calls -> CallType] /\ SomeLeft' /\ Informed'
    BY <1>6, GotoStep DEF Return, Running, Placed
  <2>2. \A o \in Outputs : Delivered(c, o) \in Baskets \cup {"any", "mixed", "tagged"}
    BY DEF Delivered, Baskets
  <2> QED
    BY <1>6, <2>1, <2>2 DEF Return, records
<1>7. CASE CutOff(c)
  BY <1>7, CutOffStep
<1> QED
  BY <1>1, <1>2, <1>3, <1>4, <1>5, <1>6, <1>7

\* What is done to the records beside the calls keeps the types.
LEMMA OtherSteps ==
    ASSUME Typed,
           \/ \E u \in Users : \/ SpendIsSent(u) \/ SpendIsProven(u) \/ AbortSpend(u)
                               \/ \E o \in Outputs : AllocateChangeInput(u, o)
           \/ \E o \in Outputs : RelinquishOutput(o)
           \/ ProveReq \/ GiveUpReq
    PROVE  Typed'
<1> USE DEF Typed, TypeOK, records
<1>c. UNCHANGED call => SomeLeft' /\ Informed'
  BY DEF SomeLeft, Informed, Running
<1>1. ASSUME NEW u \in Users, NEW o \in Outputs, AllocateChangeInput(u, o)
      PROVE  Typed'
  <2>1. outs' \in [Outputs -> OutType]
    <3>1. [outs[o] EXCEPT !.spendable = FALSE] \in OutType
      BY OutputTypes
    <3>2. outs' = [outs EXCEPT ![o] = [outs[o] EXCEPT !.spendable = FALSE]]
      BY <1>1 DEF AllocateChangeInput
    <3> QED BY <3>1, <3>2
  <2>2. spend' \in [Users -> [status : {"none", "unsigned", "unproven", "proven", "failed"},
                             out : Outputs \cup {None}]]
    BY <1>1 DEF AllocateChangeInput
  <2> QED
    BY <1>1, <1>c, <2>1, <2>2 DEF AllocateChangeInput
<1>2. ASSUME NEW u \in Users, SpendIsSent(u) \/ SpendIsProven(u)
      PROVE  Typed'
  <2>1. spend' \in [Users -> [status : {"none", "unsigned", "unproven", "proven", "failed"},
                             out : Outputs \cup {None}]]
    BY <1>2 DEF SpendIsSent, SpendIsProven
  <2> QED
    BY <1>2, <1>c, <2>1 DEF SpendIsSent, SpendIsProven
<1>3. ASSUME NEW u \in Users, AbortSpend(u)
      PROVE  Typed'
  <2>1. spend' \in [Users -> [status : {"none", "unsigned", "unproven", "proven", "failed"},
                             out : Outputs \cup {None}]]
    BY <1>3 DEF AbortSpend
  <2>2. outs' \in [Outputs -> OutType]
    <3> DEFINE o == spend[u].out
    <3>1. CASE o \in Outputs
      <4>1. [outs[o] EXCEPT !.spendable = TRUE] \in OutType
        BY <3>1, OutputTypes
      <4>2. outs' \in {outs, [outs EXCEPT ![o] = [outs[o] EXCEPT !.spendable = TRUE]]}
        BY <1>3 DEF AbortSpend, Release
      <4> QED BY <4>1, <4>2
    <3>2. CASE o \notin Outputs
      <4>1. outs' = outs \/ outs' = [outs EXCEPT ![o] = [outs[o] EXCEPT !.spendable = TRUE]]
        BY <1>3 DEF AbortSpend, Release
      <4> HIDE DEF o
      <4> QED BY <3>2, <4>1
    <3> QED BY <3>1, <3>2
  <2> QED
    BY <1>3, <1>c, <2>1, <2>2 DEF AbortSpend
<1>4. ASSUME NEW o \in Outputs, RelinquishOutput(o)
      PROVE  Typed'
  <2>1. outs' \in [Outputs -> OutType]
    <3>1. [outs[o] EXCEPT !.basket = "null"] \in OutType
      BY OutputTypes
    <3>2. outs' = [outs EXCEPT ![o] = [outs[o] EXCEPT !.basket = "null"]]
      BY <1>4 DEF RelinquishOutput
    <3> QED BY <3>1, <3>2
  <2>2. expected' \in [Outputs -> Baskets \cup {"any", "mixed", "tagged"}]
    BY <1>4 DEF RelinquishOutput, Baskets
  <2>3. count' \in [events : 0 .. MaxEvents, purges : 0 .. MaxPurges]
    BY <1>4, CallsAssumption DEF RelinquishOutput
  <2> QED
    BY <1>4, <1>c, <2>1, <2>2, <2>3 DEF RelinquishOutput
<1>5. CASE ProveReq
  <2>1. [req EXCEPT !.status = "completed"] \in ReqType
    BY DEF ReqType
  <2>2. \A r \in Rows : [txs[r] EXCEPT !.proven = TRUE] \in TxType
    <3>1. \A x \in TxType : [x EXCEPT !.proven = TRUE] \in TxType
      BY DEF TxType
    <3> QED BY <3>1
  <2>3. txs' \in [Rows -> TxType]
    BY <1>5, <2>2 DEF ProveReq
  <2> QED
    BY <1>5, <1>c, <2>1, <2>3 DEF ProveReq
<1>6. CASE GiveUpReq
  <2>1. [req EXCEPT !.status = "invalid"] \in ReqType
    BY DEF ReqType
  <2> QED
    BY <1>6, <1>c, <2>1 DEF GiveUpReq
<1> QED
  BY <1>1, <1>2, <1>3, <1>4, <1>5, <1>6

\* The state of a purge changes as one.
LEMMA PurgeTypes ==
    /\ NoPurge \in PurgeType
    /\ [NoPurge EXCEPT !.stage = "failed"] \in PurgeType
    /\ [NoPurge EXCEPT !.stage = "utxos"] \in PurgeType
    /\ \A x \in PurgeType, needed \in BOOLEAN :
           [x EXCEPT !.stage = "select", !.needed = needed] \in PurgeType
    /\ \A x \in PurgeType, rows \in SUBSET Rows, stage \in {"orphans", "delete"} :
           [x EXCEPT !.rows = rows, !.stage = stage] \in PurgeType
    /\ \A x \in PurgeType, stage \in {"transactions", "orphans"} :
           [x EXCEPT !.stage = stage] \in PurgeType
BY DEF PurgeType, NoPurge

\* And so does the purge.
LEMMA PurgeSteps ==
    ASSUME Typed,
           \/ PurgeCompleted \/ PurgeFailed \/ PurgeUtxos \/ PurgeSelect \/ PurgeOutputs
           \/ PurgeTransactions \/ PurgeOrphans
    PROVE  Typed'
<1> USE DEF Typed, TypeOK, records, PurgeOnly
<1>c. UNCHANGED call => SomeLeft' /\ Informed'
  BY DEF SomeLeft, Informed, Running
<1>n. NoTx \in TxType /\ NoReq \in ReqType
  BY DEF NoTx, NoReq, TxType, ReqType
<1>b. PurgeBegin => count' \in [events : 0 .. MaxEvents, purges : 0 .. MaxPurges]
  BY CallsAssumption DEF PurgeBegin
<1>1. CASE PurgeCompleted
  <2>1. purge' \in PurgeType
    BY <1>1, PurgeTypes DEF PurgeCompleted
  <2> QED
    BY <1>1, <1>c, <1>n, <1>b, <2>1 DEF PurgeCompleted
<1>2. CASE PurgeFailed
  <2>1. purge' \in PurgeType
    BY <1>2, PurgeTypes DEF PurgeFailed
  <2>2. spend' \in [Users -> [status : {"none", "unsigned", "unproven", "proven", "failed"},
                             out : Outputs \cup {None}]]
    BY <1>2 DEF PurgeFailed, NoSpend
  <2>3. txs' \in [Rows -> TxType] /\ outs' \in [Outputs -> OutType]
    BY <1>2, <1>n, OutputTypes DEF PurgeFailed
  <2>4. req' \in ReqType /\ unpursued' \subseteq Rows /\ labelled' \subseteq Rows
    BY <1>2, <1>n DEF PurgeFailed
  <2>5. expected' \in [Outputs -> Baskets \cup {"any", "mixed", "tagged"}]
    BY <1>2 DEF PurgeFailed
  <2>6. count' \in [events : 0 .. MaxEvents, purges : 0 .. MaxPurges]
    BY <1>2, <1>b DEF PurgeFailed
  <2>7. UNCHANGED <<proof, call>>
    BY <1>2 DEF PurgeFailed
  <2> QED
    BY <1>c, <2>1, <2>2, <2>3, <2>4, <2>5, <2>6, <2>7
<1>3. CASE PurgeUtxos
  <2>1. purge' \in PurgeType
    <3>1. \/ purge' = NoPurge
          \/ \E needed \in BOOLEAN :
               purge' = [purge EXCEPT !.stage = "select", !.needed = needed]
      BY <1>3 DEF PurgeUtxos
    <3>2. \A needed \in BOOLEAN :
            [purge EXCEPT !.stage = "select", !.needed = needed] \in PurgeType
      BY PurgeTypes, Zenon
    <3> HIDE DEF Typed, TypeOK
    <3> QED BY <3>1, <3>2, PurgeTypes, Zenon
  <2> QED
    BY <1>3, <1>c, <2>1 DEF PurgeUtxos
<1>4. CASE PurgeSelect
  <2>1. SpentRows \subseteq Rows
    BY DEF SpentRows
  <2>2. purge' \in PurgeType
    <3>1. \E rows \in SUBSET Rows, stage \in {"orphans", "delete"} :
            purge' = [purge EXCEPT !.rows = rows, !.stage = stage]
      BY <1>4, <2>1 DEF PurgeSelect
    <3>2. \A rows \in SUBSET Rows, stage \in {"orphans", "delete"} :
            [purge EXCEPT !.rows = rows, !.stage = stage] \in PurgeType
      BY PurgeTypes, Zenon
    <3> HIDE DEF Typed, TypeOK
    <3> QED BY <3>1, <3>2, Zenon
  <2> QED
    BY <1>4, <1>c, <2>2 DEF PurgeSelect
<1>5. CASE PurgeOutputs
  <2>1. outs' \in [Outputs -> OutType]
    BY <1>5, OutputTypes DEF PurgeOutputs
  <2>2. expected' \in [Outputs -> Baskets \cup {"any", "mixed", "tagged"}]
    BY <1>5 DEF PurgeOutputs
  <2>3. purge' \in PurgeType
    BY <1>5, PurgeTypes DEF PurgeOutputs
  <2> QED
    BY <1>5, <1>c, <2>1, <2>2, <2>3 DEF PurgeOutputs
<1>6. CASE PurgeTransactions
  <2>1. txs' \in [Rows -> TxType]
    BY <1>6, <1>n DEF PurgeTransactions
  <2>2. purge' \in PurgeType
    BY <1>6, PurgeTypes DEF PurgeTransactions
  <2> QED
    BY <1>6, <1>c, <2>1, <2>2 DEF PurgeTransactions
<1>7. CASE PurgeOrphans
  <2>1. purge' \in PurgeType
    BY <1>7, PurgeTypes DEF PurgeOrphans
  <2> QED
    BY <1>7, <1>c, <2>1 DEF PurgeOrphans
<1> QED
  BY <1>1, <1>2, <1>3, <1>4, <1>5, <1>6, <1>7

\* Every step keeps the types.
LEMMA StepTyped == Typed /\ [Next]_vars => Typed'
<1> SUFFICES ASSUME Typed, [Next]_vars PROVE Typed'
  OBVIOUS
<1>1. CASE UNCHANGED vars
  BY <1>1 DEF Typed, TypeOK, SomeLeft, Informed, Running, vars, records
<1>2. CASE Next
  BY <1>2, SetupSteps, StoreSteps, OtherSteps, PurgeSteps DEF Next
<1> QED
  BY <1>1, <1>2

\* The records of a store keep their types, however many users internalize the transaction,
\* prove it, spend and relinquish its outputs, and while old records are purged.
THEOREM TypeCorrect == Spec => []TypeOK
<1>1. Typed => TypeOK
  BY DEF Typed
<1> QED
  BY InitTyped, StepTyped, <1>1, PTL DEF Spec
-----------------------------------------------------------------------------
(* One row.                                                                *)

\* A user's rows of the transaction are the same row.
SameRow == \A q, r \in Rows :
               UserOf[q] = UserOf[r] /\ txs[q].status # "none" /\ txs[r].status # "none" => q = r

\* Calls of one manager exclude each other.
OneCall == \A c, d \in Calls :
               Running(c) /\ Running(d) /\ ManagerOf[UserOf[c]] = ManagerOf[UserOf[d]] => c = d

\* What findOrInsertTransaction has not found is not there when it inserts.
NotThere == \A c \in Calls : call[c].stage = "insert" => RowsOf(UserOf[c]) = {}

RowInv == SameRow /\ OneCall /\ NotThere

\* It holds at first.
LEMMA InitRowInv == Init => RowInv
BY CallsAssumption DEF Init, RowInv, SameRow, OneCall, NotThere, NoTx, NoCall, Running

\* A step that adds no row, starts no call and lets none insert keeps it.
LEMMA KeepsRowInv ==
    ASSUME RowInv,
           \A r \in Rows : txs'[r].status # "none" => txs[r].status # "none",
           \A c \in Calls : Running(c)' => Running(c),
           \A c \in Calls : call'[c].stage = "insert" => call[c].stage = "insert"
    PROVE  RowInv'
BY DEF RowInv, SameRow, OneCall, NotThere, RowsOf

\* A call alone changes when it goes to another stage.
LEMMA OnlyCall ==
    ASSUME Typed, NEW c \in Calls, NEW stage, Goto(c, stage)
    PROVE  \A d \in Calls : call'[d].stage = IF d = c THEN stage ELSE call[d].stage
BY DEF Typed, TypeOK, CallType, Goto

\* The steps of a call keep it: one that begins has its manager to itself, and one that
\* inserts has found no row of its user.
LEMMA CallsKeepRowInv ==
    ASSUME Typed, RowInv, NEW c \in Calls,
           \/ Begin(c) \/ SetupThrows(c) \/ SetupMerge(c) \/ SetupNew(c) \/ FindTransaction(c)
           \/ InsertTransaction(c) \/ GetProvenOrReq(c) \/ AddLabels(c) \/ StoreOutput(c)
           \/ TagOutput(c) \/ Return(c) \/ CutOff(c)
    PROVE  RowInv'
<1>t. call \in [Calls -> CallType] /\ \A d \in Calls : call[d] \in CallType
  BY DEF Typed, TypeOK
<1>1. CASE Begin(c)
  <2>0. PICK w \in Wants[c] : call' = [call EXCEPT ![c].stage = "setup", ![c].want = w]
    BY <1>1 DEF Begin
  <2>1. \A d \in Calls : call'[d].stage = IF d = c THEN "setup" ELSE call[d].stage
    <3> DEFINE k == [call[c] EXCEPT !.stage = "setup", !.want = w]
    <3>1. k.stage = "setup"
      BY <1>t DEF CallType
    <3>2. call' = [call EXCEPT ![c] = k]
      BY <2>0
    <3> HIDE DEF k
    <3> QED BY <3>1, <3>2, <1>t
  <2>2. \A d \in Calls : Running(d) => ManagerOf[UserOf[d]] # ManagerOf[UserOf[c]]
    BY <1>1 DEF Begin, Free
  <2>3. UNCHANGED txs
    BY <1>1 DEF Begin, records
  <2> QED
    BY <2>1, <2>2, <2>3 DEF RowInv, SameRow, OneCall, NotThere, RowsOf, Running
<1>2. CASE FindTransaction(c)
  <2>1. \A d \in Calls : call'[d].stage = IF d = c
                                          THEN IF RowsOf(UserOf[c]) = {} THEN "insert" ELSE "threw"
                                          ELSE call[d].stage
    BY <1>2, OnlyCall DEF FindTransaction
  <2>2. UNCHANGED txs
    BY <1>2 DEF FindTransaction, CallOnly, records
  <2>3. Running(c)
    BY <1>2 DEF FindTransaction, Running
  <2> QED
    BY <2>1, <2>2, <2>3 DEF RowInv, SameRow, OneCall, NotThere, RowsOf, Running
<1>3. CASE InsertTransaction(c)
  <2>1. \A d \in Calls : call'[d].stage = IF d = c THEN "req" ELSE call[d].stage
    BY <1>3, OnlyCall DEF InsertTransaction
  <2>2. c \in Rows /\ RowsOf(UserOf[c]) = {}
    BY <1>3 DEF InsertTransaction, RowInv, NotThere, Rows
  <2>3. \A r \in Rows : r # c => txs'[r] = txs[r]
    BY <1>3 DEF InsertTransaction, Typed, TypeOK
  <2>4. Running(c)
    BY <1>3 DEF InsertTransaction, Running
  <2>5. SameRow'
    BY <2>2, <2>3 DEF RowInv, SameRow, RowsOf
  <2>6. OneCall'
    BY <2>1, <2>4 DEF RowInv, OneCall, Running
  <2>7. NotThere'
    <3> SUFFICES ASSUME NEW d \in Calls, call'[d].stage = "insert"
                 PROVE  RowsOf(UserOf[d])' = {}
      BY DEF NotThere
    <3>1. d # c /\ call[d].stage = "insert"
      BY <2>1
    <3>2. RowsOf(UserOf[d]) = {} /\ UserOf[d] # UserOf[c]
      BY <2>4, <3>1 DEF RowInv, NotThere, OneCall, Running
    <3> QED
      BY <2>3, <3>2 DEF RowsOf
  <2> QED
    BY <2>5, <2>6, <2>7 DEF RowInv
<1>4. CASE /\ \/ SetupThrows(c) \/ SetupMerge(c) \/ SetupNew(c)
              \/ GetProvenOrReq(c) \/ AddLabels(c) \/ StoreOutput(c)
              \/ TagOutput(c) \/ Return(c) \/ CutOff(c)
  <2>1. UNCHANGED txs
    BY <1>4 DEF SetupThrows, SetupMerge, SetupNew, GetProvenOrReq, AddLabels, StoreOutput,
                TagOutput, Return, CutOff, CallOnly, records
  <2>2. Running(c)
    BY <1>4 DEF SetupThrows, SetupMerge, SetupNew, GetProvenOrReq, AddLabels, StoreOutput,
                TagOutput, Return, CutOff, Running
  <2>3. \E k : call' = [call EXCEPT ![c] = k] /\ k.stage # "insert"
    <3>1. ASSUME NEW stage \in {"threw", "label", "store", "return", "returned", "tag"},
                 Goto(c, stage)
          PROVE  \E k : call' = [call EXCEPT ![c] = k] /\ k.stage # "insert"
      <4> DEFINE k == [call[c] EXCEPT !.stage = stage]
      <4>1. k.stage # "insert" /\ call' = [call EXCEPT ![c] = k]
        BY <1>t, <3>1 DEF CallType, Goto
      <4> HIDE DEF k
      <4> QED BY <4>1
    <3>2. ASSUME NEW r, NEW found, NEW left,
                 call' = [call EXCEPT ![c].stage = "label", ![c].row = r, ![c].found = found,
                                      ![c].left = left]
          PROVE  \E k : call' = [call EXCEPT ![c] = k] /\ k.stage # "insert"
      <4> DEFINE k == [call[c] EXCEPT !.stage = "label", !.row = r, !.found = found, !.left = left]
      <4>1. k.stage # "insert" /\ call' = [call EXCEPT ![c] = k]
        BY <1>t, <3>2 DEF CallType
      <4> HIDE DEF k
      <4> QED BY <4>1
    <3>3. ASSUME NEW r, NEW found, NEW left,
                 call' = [call EXCEPT ![c].stage = "find", ![c].row = r, ![c].left = left,
                                      ![c].found = found]
          PROVE  \E k : call' = [call EXCEPT ![c] = k] /\ k.stage # "insert"
      <4> DEFINE k == [call[c] EXCEPT !.stage = "find", !.row = r, !.left = left, !.found = found]
      <4>1. k.stage # "insert" /\ call' = [call EXCEPT ![c] = k]
        BY <1>t, <3>3 DEF CallType
      <4> HIDE DEF k
      <4> QED BY <4>1
    <3>4. ASSUME NEW left, NEW stage \in {"store", "return", "tag"},
                 call' = [call EXCEPT ![c].left = left, ![c].stage = stage]
          PROVE  \E k : call' = [call EXCEPT ![c] = k] /\ k.stage # "insert"
      <4> DEFINE k == [call[c] EXCEPT !.left = left, !.stage = stage]
      <4>1. k.stage # "insert" /\ call' = [call EXCEPT ![c] = k]
        BY <1>t, <3>4 DEF CallType
      <4> HIDE DEF k
      <4> QED BY <4>1
    <3>5. CASE SetupMerge(c)
      <4>1. PICK r \in RowsOf(UserOf[c]) :
              call' = [call EXCEPT ![c].stage = "label", ![c].row = r,
                         ![c].found = [v \in Vouts |-> outs[<<r, v>>].basket],
                         ![c].left = {v \in Asked(c) : ~(call[c].want[v] = "payment" /\
                                       [x \in Vouts |-> outs[<<r, x>>].basket][v] = "default")}]
        BY <3>5 DEF SetupMerge
      <4> DEFINE found == [v \in Vouts |-> outs[<<r, v>>].basket]
                 left == {v \in Asked(c) : ~(call[c].want[v] = "payment" /\ found[v] = "default")}
      <4>2. call' = [call EXCEPT ![c].stage = "label", ![c].row = r, ![c].found = found,
                                 ![c].left = left]
        BY <4>1
      <4> HIDE DEF found, left
      <4> QED BY <3>2, <4>2
    <3>6. CASE SetupNew(c)
      BY <3>3, <3>6 DEF SetupNew
    <3>7. CASE StoreOutput(c)
      BY <3>1, <3>4, <3>7 DEF StoreOutput, AfterStore
    <3>8. CASE SetupThrows(c) \/ GetProvenOrReq(c) \/ Return(c) \/ CutOff(c)
      BY <3>1, <3>8 DEF SetupThrows, GetProvenOrReq, Return, CutOff
    <3>9. CASE AddLabels(c) \/ TagOutput(c)
      BY <3>1, <3>9 DEF AddLabels, TagOutput, AfterStore
    <3> QED
      BY <1>4, <3>5, <3>6, <3>7, <3>8, <3>9
  <2>4. \A d \in Calls : /\ call'[d].stage = "insert" => call[d].stage = "insert"
                         /\ d # c => call'[d] = call[d]
    BY <1>t, <2>3
  <2> QED
    BY <2>1, <2>2, <2>3, <2>4, KeepsRowInv DEF Running
<1> QED
  BY <1>1, <1>2, <1>3, <1>4

\* Nothing else adds a row or starts a call.
LEMMA OthersKeepRowInv ==
    ASSUME Typed, RowInv,
           \/ \E u \in Users : \/ SpendIsSent(u) \/ SpendIsProven(u) \/ AbortSpend(u)
                               \/ \E o \in Outputs : AllocateChangeInput(u, o)
           \/ \E o \in Outputs : RelinquishOutput(o)
           \/ ProveReq \/ GiveUpReq
           \/ PurgeCompleted \/ PurgeFailed \/ PurgeUtxos \/ PurgeSelect \/ PurgeOutputs
           \/ PurgeTransactions \/ PurgeOrphans
    PROVE  RowInv'
<1>1. UNCHANGED call
  BY DEF SpendIsSent, SpendIsProven, AbortSpend, AllocateChangeInput, RelinquishOutput, ProveReq,
         GiveUpReq, PurgeCompleted, PurgeFailed, PurgeUtxos, PurgeSelect, PurgeOutputs,
         PurgeTransactions, PurgeOrphans, PurgeOnly
<1>2. \A r \in Rows : txs'[r].status # "none" => txs[r].status # "none"
  <2>1. CASE UNCHANGED txs
    BY <2>1
  <2>2. CASE ProveReq
    BY <2>2 DEF ProveReq
  <2>3. CASE PurgeFailed \/ PurgeTransactions
    BY <2>3 DEF PurgeFailed, PurgeTransactions, NoTx
  <2>4. \/ UNCHANGED txs \/ ProveReq \/ PurgeFailed \/ PurgeTransactions
    BY DEF SpendIsSent, SpendIsProven, AbortSpend, AllocateChangeInput, RelinquishOutput,
           GiveUpReq, PurgeCompleted, PurgeUtxos, PurgeSelect, PurgeOutputs,
           PurgeOrphans, PurgeOnly, records
  <2> QED
    BY <2>1, <2>2, <2>3, <2>4
<1> QED
  BY <1>1, <1>2, KeepsRowInv DEF Running

\* Every step keeps it.
LEMMA StepRowInv == Typed /\ RowInv /\ [Next]_vars => RowInv'
<1> SUFFICES ASSUME Typed, RowInv, [Next]_vars PROVE RowInv'
  OBVIOUS
<1>1. CASE UNCHANGED vars
  BY <1>1, KeepsRowInv DEF vars, records, Running
<1>2. CASE Next
  BY <1>2, CallsKeepRowInv, OthersKeepRowInv DEF Next
<1> QED
  BY <1>1, <1>2

\* A set whose members are all the same has at most one.
LEMMA AtMostOne ==
    ASSUME NEW S, \A x, y \in S : x = y
    PROVE  Cardinality(S) <= 1
<1>1. CASE S = {}
  BY <1>1, FS_EmptySet
<1>2. CASE S # {}
  <2>1. PICK x \in S : S = {x}
    BY <1>2
  <2> QED
    BY <2>1, FS_Singleton
<1> QED
  BY <1>1, <1>2

\* A user has at most one transactions row of a transaction, whatever calls, proofs, spending
\* and purges interleave: the find and the insert are apart and no unique key protects the
\* row, but the calls of one user share a manager, whose lock keeps them apart.
THEOREM OneRowOfATxid == Spec => []OneRow
<1>1. Init => Typed /\ RowInv
  BY InitTyped, InitRowInv
<1>2. (Typed /\ RowInv) /\ [Next]_vars => (Typed /\ RowInv)'
  BY StepTyped, StepRowInv
<1>3. Typed /\ RowInv => OneRow
  BY AtMostOne DEF RowInv, SameRow, OneRow, RowsOf
<1> QED
  BY <1>1, <1>2, <1>3, PTL DEF Spec
-----------------------------------------------------------------------------
(* What the steps of a call change, field by field.                        *)

Becomes(c, stage, want, row, found, left) ==
    /\ \A d \in Calls : d # c => call'[d] = call[d]
    /\ call'[c].stage = stage /\ call'[c].want = want /\ call'[c].row = row
    /\ call'[c].found = found /\ call'[c].left = left

\* A call that goes to another stage keeps what it knows.
Moves(c, stage) == Becomes(c, stage, call[c].want, call[c].row, call[c].found, call[c].left)

LEMMA GotoMoves ==
    ASSUME Typed, NEW c \in Calls, NEW stage, Goto(c, stage)
    PROVE  Moves(c, stage)
BY DEF Typed, TypeOK, CallType, Goto, Moves, Becomes

\* It learns what it is asked for when it begins.
LEMMA BeginMoves ==
    ASSUME Typed, NEW c \in Calls, Begin(c)
    PROVE  \E w \in Wants[c] :
             /\ Becomes(c, "setup", w, call[c].row, call[c].found, call[c].left)
             /\ \A o \in Outputs : expected'[o] = IF UserOf[o[1]] = UserOf[c] /\ w[o[2]] # "no"
                                                  THEN "any" ELSE expected[o]
<1>t. call \in [Calls -> CallType] /\ call[c] \in CallType
  BY DEF Typed, TypeOK
<1>1. PICK w \in Wants[c] :
        /\ call' = [call EXCEPT ![c].stage = "setup", ![c].want = w]
        /\ expected' = [o \in Outputs |-> IF UserOf[o[1]] = UserOf[c] /\ w[o[2]] # "no"
                                          THEN "any" ELSE expected[o]]
  BY DEF Begin
<1>2. Becomes(c, "setup", w, call[c].row, call[c].found, call[c].left)
  BY <1>t, <1>1 DEF CallType, Becomes
<1> QED
  BY <1>1, <1>2

\* It learns its row and the baskets there are in the setup.
LEMMA MergeMoves ==
    ASSUME Typed, NEW c \in Calls, SetupMerge(c)
    PROVE  \E r, found, left :
             /\ r \in RowsOf(UserOf[c])
             /\ Becomes(c, "label", call[c].want, r, found, left)
             /\ txs[r].status \in TxStatusOk
             /\ \A v \in Vouts : found[v] = outs[<<r, v>>].basket
             /\ left = {v \in Asked(c) : ~(call[c].want[v] = "payment" /\ found[v] = "default")}
<1>t. call \in [Calls -> CallType] /\ call[c] \in CallType
  BY DEF Typed, TypeOK
<1>1. PICK r \in RowsOf(UserOf[c]) :
        /\ txs[r].status \in {"completed", "unproven", "nosend"}
        /\ call' = [call EXCEPT ![c].stage = "label", ![c].row = r,
                   ![c].found = [v \in Vouts |-> outs[<<r, v>>].basket],
                   ![c].left = {v \in Asked(c) : ~(call[c].want[v] = "payment" /\
                                 [x \in Vouts |-> outs[<<r, x>>].basket][v] = "default")}]
  BY DEF SetupMerge
<1> DEFINE found == [v \in Vouts |-> outs[<<r, v>>].basket]
           left == {v \in Asked(c) : ~(call[c].want[v] = "payment" /\ found[v] = "default")}
<1>2. call' = [call EXCEPT ![c].stage = "label", ![c].row = r, ![c].found = found,
                           ![c].left = left]
  BY <1>1
<1>3. \A v \in Vouts : found[v] = outs[<<r, v>>].basket
  OBVIOUS
<1>4. left = {v \in Asked(c) : ~(call[c].want[v] = "payment" /\ found[v] = "default")}
  OBVIOUS
<1> HIDE DEF found, left
<1>5. Becomes(c, "label", call[c].want, r, found, left)
  BY <1>t, <1>2 DEF CallType, Becomes
<1>6. r \in RowsOf(UserOf[c]) /\ txs[r].status \in TxStatusOk
  BY <1>1 DEF TxStatusOk
<1> QED
  BY <1>3, <1>4, <1>5, <1>6, Zenon

LEMMA NewMoves ==
    ASSUME Typed, NEW c \in Calls, SetupNew(c)
    PROVE  \E found : /\ Becomes(c, "find", call[c].want, c, found, Asked(c))
                      /\ \A v \in Vouts : found[v] = "none"
<1>t. call \in [Calls -> CallType] /\ call[c] \in CallType
  BY DEF Typed, TypeOK
<1> DEFINE found == [v \in Vouts |-> "none"]
<1>1. call' = [call EXCEPT ![c].stage = "find", ![c].row = c, ![c].left = Asked(c),
                           ![c].found = found]
  BY DEF SetupNew
<1>2. \A v \in Vouts : found[v] = "none"
  OBVIOUS
<1> HIDE DEF found
<1>3. Becomes(c, "find", call[c].want, c, found, Asked(c))
  BY <1>t, <1>1 DEF CallType, Becomes
<1> QED
  BY <1>2, <1>3

\* It stores one of the outputs left, or throws.
LEMMA StoreMoves ==
    ASSUME Typed, NEW c \in Calls, StoreOutput(c)
    PROVE  \E v \in call[c].left :
             LET o == <<call[c].row, v>>
                 payment == call[c].want[v] = "payment"
                 left == call[c].left \ {v}
             IN  /\ v \in Vouts /\ o \in Outputs
                 /\ \A p \in Outputs : p # o => outs'[p] = outs[p]
                 /\ \/ /\ call[c].found[v] = "none" /\ ~Stored(o)
                       /\ outs'[o] = IF payment THEN Change ELSE Custom
                       /\ Becomes(c, IF payment THEN AfterStore(c, left) ELSE "tag",
                                  call[c].want, call[c].row, call[c].found, left)
                    \/ outs' = outs /\ Moves(c, "threw")
                    \/ /\ call[c].found[v] # "none"
                       /\ outs'[o].spendable = outs[o].spendable
                       /\ outs'[o].tagged = outs[o].tagged
                       /\ outs'[o].basket = IF Stored(o)
                                            THEN IF payment THEN "default" ELSE "custom"
                                            ELSE outs[o].basket
                       /\ outs'[o].change = IF Stored(o) THEN payment ELSE outs[o].change
                       /\ Becomes(c, AfterStore(c, left), call[c].want, call[c].row, call[c].found,
                                  left)
<1> DEFINE v == NextToStore(c)
           o == <<call[c].row, v>>
           payment == call[c].want[v] = "payment"
           left == call[c].left \ {v}
<1>t. /\ call \in [Calls -> CallType] /\ call[c] \in CallType
      /\ outs \in [Outputs -> OutType] /\ call[c].row \in Rows
  BY DEF Typed, TypeOK, Informed, StoreOutput
<1>1. v \in call[c].left /\ v \in Vouts
  BY NextIsLeft DEF StoreOutput
<1>2. o \in Outputs
  BY <1>t, <1>1 DEF Outputs
<1>3. ASSUME NEW stage, call' = [call EXCEPT ![c].left = left, ![c].stage = stage]
      PROVE  Becomes(c, stage, call[c].want, call[c].row, call[c].found, left)
  <2> HIDE DEF left, v
  <2> QED
    BY <1>t, <1>3 DEF CallType, Becomes
<1>4. CASE /\ call[c].found[v] = "none" /\ ~Stored(o)
           /\ outs' = [outs EXCEPT ![o] = IF payment THEN Change ELSE Custom]
           /\ call' = [call EXCEPT ![c].left = left,
                            ![c].stage = IF payment THEN AfterStore(c, left) ELSE "tag"]
  <2>1. outs'[o] = (IF payment THEN Change ELSE Custom) /\ \A p \in Outputs : p # o => outs'[p] = outs[p]
    BY <1>t, <1>2, <1>4
  <2>2. Becomes(c, IF payment THEN AfterStore(c, left) ELSE "tag",
                call[c].want, call[c].row, call[c].found, left)
    BY <1>3, <1>4
  <2> QED
    BY <1>1, <1>2, <1>4, <2>1, <2>2
<1>5. CASE Goto(c, "threw") /\ UNCHANGED outs
  BY <1>1, <1>2, <1>5, GotoMoves
<1>6. CASE /\ call[c].found[v] # "none"
           /\ outs' = IF Stored(o)
                      THEN [outs EXCEPT ![o] = IF payment THEN Merged(o, "default", TRUE)
                                               ELSE Merged(o, "custom", FALSE)]
                      ELSE outs
           /\ call' = [call EXCEPT ![c].left = left, ![c].stage = AfterStore(c, left)]
  <2>1. Becomes(c, AfterStore(c, left), call[c].want, call[c].row, call[c].found, left)
    BY <1>3, <1>6
  <2>2. /\ \A p \in Outputs : p # o => outs'[p] = outs[p]
        /\ outs'[o].spendable = outs[o].spendable
        /\ outs'[o].tagged = outs[o].tagged
        /\ outs'[o].basket = IF Stored(o) THEN IF payment THEN "default" ELSE "custom"
                                           ELSE outs[o].basket
        /\ outs'[o].change = IF Stored(o) THEN payment ELSE outs[o].change
    <3> HIDE DEF v, left
    <3>1. outs[o] \in OutType
      BY <1>t, <1>2
    <3> HIDE DEF o, payment
    <3>2. CASE Stored(o)
      <4>1. payment \in BOOLEAN
        BY DEF payment
      <4>2. CASE payment
        BY <1>t, <1>2, <1>6, <3>1, <3>2, <4>2 DEF Merged, OutType
      <4>3. CASE ~payment
        BY <1>t, <1>2, <1>6, <3>1, <3>2, <4>1, <4>3 DEF Merged, OutType
      <4> QED
        BY <4>2, <4>3
    <3>3. CASE ~Stored(o)
      BY <1>6, <3>3
    <3> QED
      BY <3>2, <3>3
  <2> QED
    BY <1>1, <1>2, <1>6, <2>1, <2>2
<1> QED
  BY <1>4, <1>5, <1>6 DEF StoreOutput

\* What a call does after it has stored what it does.
LEMMA AfterStoring ==
    ASSUME NEW c \in Calls, NEW left
    PROVE  \/ AfterStore(c, left) = "return" /\ left = {}
           \/ AfterStore(c, left) = "store"
BY DEF AfterStore

CallActs(c) ==
    \/ Begin(c) \/ SetupThrows(c) \/ SetupMerge(c) \/ SetupNew(c) \/ FindTransaction(c)
    \/ InsertTransaction(c) \/ GetProvenOrReq(c) \/ AddLabels(c) \/ StoreOutput(c)
    \/ TagOutput(c) \/ Return(c) \/ CutOff(c)

\* A step of a call changes no other call, and is its first or the call runs.
LEMMA CallFrame ==
    ASSUME Typed, NEW c \in Calls, CallActs(c)
    PROVE  /\ \A d \in Calls : d # c => call'[d] = call[d]
           /\ Running(c) \/ Begin(c)
           /\ UNCHANGED <<spend, purge>>
           /\ \A r \in Rows : r # c => txs'[r] = txs[r]
<1>t. call \in [Calls -> CallType] /\ txs \in [Rows -> TxType]
  BY DEF Typed, TypeOK
<1>1. Running(c) \/ Begin(c)
  BY DEF CallActs, SetupThrows, SetupMerge, SetupNew, FindTransaction, InsertTransaction,
         GetProvenOrReq, AddLabels, StoreOutput, TagOutput, Return, CutOff, Running
<1>2. UNCHANGED <<spend, purge>>
  BY DEF CallActs, Begin, SetupThrows, SetupMerge, SetupNew, FindTransaction, InsertTransaction,
         GetProvenOrReq, AddLabels, StoreOutput, TagOutput, Return, CutOff, CallOnly
<1>3. \A r \in Rows : r # c => txs'[r] = txs[r]
  BY <1>t DEF CallActs, Begin, SetupThrows, SetupMerge, SetupNew, FindTransaction,
              InsertTransaction, GetProvenOrReq, AddLabels, StoreOutput, TagOutput, Return, CutOff,
              CallOnly, records
<1>4. ASSUME NEW stage, Goto(c, stage) PROVE \A d \in Calls : d # c => call'[d] = call[d]
  BY <1>4, GotoMoves DEF Moves, Becomes
<1> SUFFICES \A d \in Calls : d # c => call'[d] = call[d]
  BY <1>1, <1>2, <1>3
<1>5. CASE Begin(c)
  BY <1>5, BeginMoves DEF Becomes
<1>6. CASE SetupMerge(c)
  BY <1>6, MergeMoves DEF Becomes
<1>7. CASE SetupNew(c)
  BY <1>7, NewMoves DEF Becomes
<1>8. CASE StoreOutput(c)
  BY <1>8, StoreMoves DEF Moves, Becomes
<1>9. CASE SetupThrows(c) \/ FindTransaction(c) \/ InsertTransaction(c) \/ GetProvenOrReq(c)
           \/ AddLabels(c) \/ TagOutput(c) \/ Return(c) \/ CutOff(c)
  <2>1. \E stage : Goto(c, stage)
    BY <1>9, Zenon DEF SetupThrows, FindTransaction, InsertTransaction, GetProvenOrReq, AddLabels,
                TagOutput, Return, CutOff
  <2> QED
    BY <1>4, <2>1
<1> QED
  BY <1>5, <1>6, <1>7, <1>8, <1>9 DEF CallActs
-----------------------------------------------------------------------------
(* What the other steps change.                                            *)

OtherActs ==
    \/ \E u \in Users : \/ SpendIsSent(u) \/ SpendIsProven(u) \/ AbortSpend(u)
                        \/ \E o \in Outputs : AllocateChangeInput(u, o)
    \/ \E o \in Outputs : RelinquishOutput(o)
    \/ ProveReq \/ GiveUpReq
    \/ PurgeCompleted \/ PurgeFailed \/ PurgeUtxos \/ PurgeSelect \/ PurgeOutputs
    \/ PurgeTransactions \/ PurgeOrphans

\* No other step changes a call or starts the purge of a row.
LEMMA OtherCalls ==
    ASSUME OtherActs
    PROVE  UNCHANGED call
BY DEF OtherActs, SpendIsSent, SpendIsProven, AbortSpend, AllocateChangeInput, RelinquishOutput,
       ProveReq, GiveUpReq, PurgeCompleted, PurgeFailed, PurgeUtxos, PurgeSelect, PurgeOutputs,
       PurgeTransactions, PurgeOrphans, PurgeOnly

\* A row keeps its status and its label until the purge takes it.
LEMMA OtherRows ==
    ASSUME Typed, OtherActs, NEW r \in Rows
    PROVE  \/ txs'[r].status = txs[r].status /\ (r \in labelled => r \in labelled')
           \/ PurgeFailed /\ txs[r].status = "failed" /\ txs'[r].status = "none"
           \/ /\ PurgeTransactions /\ purge.stage = "transactions" /\ r \in purge.rows
              /\ txs'[r].status = "none"
<1>1. CASE UNCHANGED <<txs, labelled>>
  BY <1>1
<1>2. CASE ProveReq
  BY <1>2 DEF ProveReq, Typed, TypeOK, TxType
<1>3. CASE PurgeFailed
  BY <1>3 DEF PurgeFailed, FailedRows, NoTx
<1>4. CASE PurgeTransactions
  BY <1>4 DEF PurgeTransactions, NoTx
<1> QED
  BY <1>1, <1>2, <1>3, <1>4
     DEF OtherActs, SpendIsSent, SpendIsProven, AbortSpend, AllocateChangeInput, RelinquishOutput,
         GiveUpReq, PurgeCompleted, PurgeUtxos, PurgeSelect, PurgeOutputs, PurgeOrphans, PurgeOnly,
         records

\* An output keeps all but whether it is spendable until it is relinquished or purged.
LEMMA OtherOutputs ==
    ASSUME Typed, OtherActs, NEW o \in Outputs
    PROVE  \/ /\ outs'[o].basket = outs[o].basket /\ outs'[o].change = outs[o].change
              /\ outs'[o].tagged = outs[o].tagged /\ expected'[o] = expected[o]
           \/ /\ RelinquishOutput(o) /\ Stored(o) /\ outs'[o] = [outs[o] EXCEPT !.basket = "null"]
              /\ expected'[o] = IF \E c \in Calls : UserOf[c] = UserOf[o[1]] /\ Running(c)
                                THEN "mixed" ELSE "null"
           \/ /\ PurgeFailed /\ txs[o[1]].status = "failed"
              /\ outs'[o] = NoOut /\ expected'[o] = "any"
           \/ /\ PurgeOutputs /\ purge.stage = "delete" /\ o[1] \in purge.rows
              /\ outs'[o] = NoOut /\ expected'[o] = "any"
<1>t. outs \in [Outputs -> OutType] /\ expected \in [Outputs -> Baskets \cup {"any", "mixed", "tagged"}]
  BY DEF Typed, TypeOK
<1>o. \A p \in Outputs : p[1] \in Rows
  BY DEF Outputs
<1>1. CASE UNCHANGED <<outs, expected>>
  BY <1>1
<1>2. ASSUME NEW p, NEW x \in BOOLEAN, outs' = [outs EXCEPT ![p].spendable = x],
             UNCHANGED expected
      PROVE  /\ outs'[o].basket = outs[o].basket /\ outs'[o].change = outs[o].change
             /\ outs'[o].tagged = outs[o].tagged /\ expected'[o] = expected[o]
  <2>1. CASE o = p
    BY <1>t, <1>2, <2>1 DEF OutType
  <2>2. CASE o # p
    BY <1>t, <1>2, <2>2
  <2> QED
    BY <2>1, <2>2
<1>3. ASSUME NEW u \in Users, NEW p \in Outputs, AllocateChangeInput(u, p)
      PROVE  /\ outs'[o].basket = outs[o].basket /\ outs'[o].change = outs[o].change
             /\ outs'[o].tagged = outs[o].tagged /\ expected'[o] = expected[o]
  BY <1>2, <1>3 DEF AllocateChangeInput
<1>4. ASSUME NEW u \in Users, AbortSpend(u)
      PROVE  /\ outs'[o].basket = outs[o].basket /\ outs'[o].change = outs[o].change
             /\ outs'[o].tagged = outs[o].tagged /\ expected'[o] = expected[o]
  <2>1. CASE outs' = outs
    BY <1>4, <2>1 DEF AbortSpend
  <2>2. CASE outs' = [outs EXCEPT ![spend[u].out].spendable = TRUE]
    BY <1>2, <1>4, <2>2 DEF AbortSpend
  <2> QED
    BY <1>4, <2>1, <2>2 DEF AbortSpend, Release
<1>5. ASSUME NEW p \in Outputs, RelinquishOutput(p), p # o
      PROVE  /\ outs'[o].basket = outs[o].basket /\ outs'[o].change = outs[o].change
             /\ outs'[o].tagged = outs[o].tagged /\ expected'[o] = expected[o]
  BY <1>t, <1>5 DEF RelinquishOutput
<1>6. CASE RelinquishOutput(o)
  <2>1. o \in {p \in Outputs : p[2] = o[2] /\ Stored(p)}
    BY <1>6 DEF RelinquishOutput
  <2>2. /\ outs'[o] = [outs[o] EXCEPT !.basket = "null"]
        /\ expected'[o] = IF \E c \in Calls : UserOf[c] = UserOf[o[1]] /\ Running(c)
                          THEN "mixed" ELSE "null"
    BY <1>t, <1>6 DEF RelinquishOutput
  <2> QED
    BY <1>6, <2>1, <2>2
<1>7. CASE PurgeFailed
  BY <1>o, <1>7 DEF PurgeFailed, FailedRows
<1>8. CASE PurgeOutputs
  BY <1>8 DEF PurgeOutputs
<1>9. \/ UNCHANGED <<outs, expected>> \/ PurgeFailed \/ PurgeOutputs
      \/ \E p \in Outputs : RelinquishOutput(p)
      \/ \E u \in Users : AbortSpend(u) \/ \E p \in Outputs : AllocateChangeInput(u, p)
  BY DEF OtherActs, SpendIsSent, SpendIsProven, ProveReq, GiveUpReq, PurgeCompleted, PurgeUtxos,
         PurgeSelect, PurgeTransactions, PurgeOrphans, PurgeOnly, records
<1> QED
  BY <1>1, <1>3, <1>4, <1>5, <1>6, <1>7, <1>8, <1>9
-----------------------------------------------------------------------------
(* The invariant.                                                          *)

\* Only the old row is ever completed or failed, so that the purge takes no other.
OnlyOldEnds == \A r \in Rows : txs[r].status \in {"completed", "failed"} => r = OldRow
PurgesOld == purge.stage \in {"delete", "transactions"} => purge.rows \subseteq {OldRow}

\* While it runs, no call of its manager does.
PurgeIsAlone ==
    purge.stage # "idle" =>
        \A c \in Calls : ManagerOf[UserOf[c]] = MonitorManager => ~Running(c)

\* What it deletes is not spendable, then not there.
PurgesUnspendable ==
    \A o \in Outputs : o[1] \in purge.rows /\ PurgedAlone(o[1]) =>
        /\ purge.stage = "delete" => ~outs[o].spendable
        /\ purge.stage = "transactions" => ~Stored(o) /\ expected[o] = "any"

PurgeInv == OnlyOldEnds /\ PurgesOld /\ PurgeIsAlone /\ PurgesUnspendable

\* A call's own row is there once it is inserted, empty at first.
OwnRow ==
    \A c \in Calls :
        /\ call[c].stage \in {"idle", "setup", "find", "insert"} => txs[c].status = "none"
        /\ txs[c].status = "none" \/ call[c].stage = "req" => \A v \in Vouts : ~Stored(<<c, v>>)
        /\ call[c].stage \in {"find", "insert", "req"} =>
               /\ call[c].row = c /\ call[c].left = Asked(c)
               /\ \A v \in Vouts : call[c].found[v] = "none"

\* A call that has its row stores outputs of its user's row, which is listed.
Placing(c) == call[c].stage \in {"req", "label", "store", "tag", "return"}

PlacesOwn ==
    \A c \in Calls : Placing(c) =>
        /\ UserOf[call[c].row] = UserOf[c]
        /\ PurgedAlone(call[c].row) => txs[call[c].row].status \in TxStatusOk

PlaceInv == OwnRow /\ PlacesOwn

\* An action spends an output of its user.
SpendsOwn ==
    \A u \in Users :
        /\ spend[u].status = "none" <=> spend[u].out = None
        /\ spend[u].out # None => UserOf[spend[u].out[1]] = u

\* It is not of a failed row, and there unless it has been purged.
HeldIsThere ==
    \A o \in Outputs : Held(o) =>
        /\ txs[o[1]].status # "failed"
        /\ PurgedAlone(o[1]) /\ ~Stored(o) =>
               \/ o[1] = OldRow /\ txs[o[1]].status = "none"
               \/ purge.stage = "transactions" /\ o[1] \in purge.rows

SpendInv == SpendsOwn /\ HeldIsThere /\ SpendableIffFree

\* A row without a proof or a req is that of a call that has still to insert the req.
KnownInv ==
    /\ req.status = "completed" => proof
    /\ \A r \in Rows : txs[r].status \in TxStatusOk =>
           r \in unpursued \/ proof \/ req.status # "none" \/ (r \in Calls /\ call[r].stage = "req")

\* Change is in the default basket, what was inserted in its own.
ChangeIsDefault ==
    \A o \in Outputs : /\ outs[o].basket = "default" => outs[o].change
                       /\ outs[o].basket = "custom" => ~outs[o].change

\* Nothing is expected of an output that a call is asked to store.
AskedIsOpen ==
    \A c \in Calls : Running(c) =>
        \A o \in Outputs : UserOf[o[1]] = UserOf[c] /\ o[2] \in Asked(c) =>
            expected[o] \in {"any", "mixed"}

\* A call has stored what is not left as it was asked to, unless it was relinquished since.
Fits(c, v) ==
    LET o == <<call[c].row, v>>
    IN  IF call[c].want[v] = "payment" THEN outs[o].basket = "default"
        ELSE /\ outs[o].basket = "custom"
             /\ call[c].found[v] = "none" /\ call[c].stage # "tag" => outs[o].tagged

StoresAsked ==
    \A c \in Calls : Placing(c) /\ PurgedAlone(call[c].row) =>
        /\ call[c].stage \in {"store", "tag", "return"} => call[c].row \in labelled
        /\ call[c].left \subseteq Asked(c)
        /\ call[c].stage = "return" => call[c].left = {}
        /\ \A v \in Asked(c) \ call[c].left :
               expected[<<call[c].row, v>>] # "mixed" => Fits(c, v)
        /\ \A v \in call[c].left : call[c].found[v] # "none" => Stored(<<call[c].row, v>>)

AskedInv == ChangeIsDefault /\ AskedIsOpen /\ StoresAsked

\* What is expected of an output is so.
FoundInv ==
    \A o \in Outputs : PurgedAlone(o[1]) =>
        /\ expected[o] = "default" => outs[o].basket = "default"
        /\ expected[o] \in {"custom", "tagged"} => outs[o].basket = "custom"
        /\ expected[o] = "tagged" => outs[o].tagged
        /\ expected[o] = "null" => outs[o].basket = "null"
        /\ expected[o] \in {"default", "custom", "tagged"} =>
               o[1] \in labelled /\ txs[o[1]].status \in TxStatusOk

IInv == Typed /\ RowInv /\ PurgeInv /\ PlaceInv /\ SpendInv /\ KnownInv /\ AskedInv /\ FoundInv
-----------------------------------------------------------------------------
(* The initial states, and what the steps' proofs share.                   *)

LEMMA InitIInv == Init => IInv
<1> SUFFICES ASSUME Init PROVE IInv
  OBVIOUS
<1>1. Typed /\ RowInv
  BY InitTyped, InitRowInv
<1>2. \A c \in Calls : /\ call[c].stage = "idle" /\ ~Running(c) /\ ~Placing(c)
                       /\ c \in Rows /\ c # OldRow
  BY CallsAssumption DEF Init, NoCall, Running, Placing, Rows
<1>3. /\ purge.stage = "idle" /\ \A o \in Outputs : expected[o] = "any"
      /\ \A u \in Users : spend[u].status = "none" /\ spend[u].out = None
  BY DEF Init, NoPurge, NoSpend
<1>4. \A o \in Outputs : ~Held(o) /\ o[1] \in Rows
  BY <1>3, CallsAssumption DEF Held, Outputs
<1>5. PICK old \in {"none", "completed", "failed"} :
        /\ txs = [r \in Rows |-> IF r = OldRow /\ old # "none"
                                 THEN [status |-> old, proven |-> old = "completed"] ELSE NoTx]
        /\ outs = [o \in Outputs |-> IF o = OldOutput /\ old # "none" THEN Change ELSE NoOut]
        /\ proof = (old = "completed")
        /\ req = IF old = "failed" THEN [status |-> "invalid", notify |-> {OldRow}] ELSE NoReq
  BY DEF Init
<1>6. /\ \A r \in Rows : txs[r].status = IF r = OldRow THEN old ELSE "none"
      /\ \A o \in Outputs : \/ outs[o] = NoOut
                            \/ outs[o] = Change /\ o[1] = OldRow
  BY <1>5 DEF NoTx, OldOutput
<1>7. PurgeInv
  BY <1>2, <1>3, <1>6 DEF PurgeInv, OnlyOldEnds, PurgesOld, PurgeIsAlone, PurgesUnspendable
<1>8. PlaceInv
  BY <1>2, <1>6 DEF PlaceInv, OwnRow, PlacesOwn, Stored, NoOut, Outputs
<1>9. SpendInv
  BY <1>3, <1>4, <1>6 DEF SpendInv, SpendsOwn, HeldIsThere, SpendableIffFree, Stored, NoOut, Change
<1>10. KnownInv
  BY <1>5, <1>6 DEF KnownInv, TxStatusOk, NoReq
<1>11. AskedInv
  BY <1>2, <1>6 DEF AskedInv, ChangeIsDefault, AskedIsOpen, StoresAsked, NoOut, Change
<1>12. FoundInv
  BY <1>3 DEF FoundInv
<1> QED
  BY <1>1, <1>7, <1>8, <1>9, <1>10, <1>11, <1>12 DEF IInv

\* A call changes the status of no row but its own, when it inserts it.
LEMMA CallRows ==
    ASSUME Typed, NEW c \in Calls, CallActs(c), NEW r \in Rows
    PROVE  /\ \/ txs'[r].status = txs[r].status
              \/ r = c /\ InsertTransaction(c) /\ txs'[r].status = "unproven"
           /\ r \in labelled => r \in labelled'
<1>1. CASE InsertTransaction(c)
  BY <1>1 DEF InsertTransaction, Typed, TypeOK
<1>2. CASE AddLabels(c)
  BY <1>2 DEF AddLabels
<1>3. CASE ~InsertTransaction(c) /\ ~AddLabels(c)
  BY <1>3 DEF CallActs, Begin, SetupThrows, SetupMerge, SetupNew, FindTransaction,
              GetProvenOrReq, StoreOutput, TagOutput, Return, CutOff, CallOnly, records
<1> QED
  BY <1>1, <1>2, <1>3

\* It changes outputs of its row, and expects what it stored when it returns.
LEMMA CallOutputs ==
    ASSUME Typed, NEW c \in Calls, CallActs(c), NEW o \in Outputs
    PROVE  /\ \/ outs'[o] = outs[o]
              \/ /\ StoreOutput(c) /\ call[c].stage = "store"
                 /\ o[1] = call[c].row /\ o[2] \in call[c].left
              \/ /\ TagOutput(c) /\ call[c].stage = "tag"
                 /\ o[1] = call[c].row /\ o[2] \in Asked(c) \ call[c].left
                 /\ outs'[o] = [outs[o] EXCEPT !.tagged = TRUE]
           /\ \/ expected'[o] = expected[o]
              \/ Begin(c) /\ UserOf[o[1]] = UserOf[c] /\ expected'[o] = "any"
              \/ /\ Return(c) /\ call[c].stage = "return"
                 /\ o[1] = call[c].row /\ o[2] \in Asked(c) /\ expected'[o] = Delivered(c, o)
<1>1. CASE StoreOutput(c)
  <2>1. PICK v \in call[c].left :
          \A p \in Outputs : p # <<call[c].row, v>> => outs'[p] = outs[p]
    BY <1>1, StoreMoves
  <2>2. o = <<call[c].row, v>> => o[1] = call[c].row /\ o[2] = v
    OBVIOUS
  <2> QED
    BY <1>1, <2>1, <2>2 DEF StoreOutput
<1>2. CASE TagOutput(c)
  BY <1>2 DEF TagOutput
<1>3. CASE Begin(c)
  <2>1. PICK w \in Wants[c] :
          \A p \in Outputs : expected'[p] = IF UserOf[p[1]] = UserOf[c] /\ w[p[2]] # "no"
                                            THEN "any" ELSE expected[p]
    BY <1>3, BeginMoves
  <2> QED
    BY <1>3, <2>1 DEF Begin, records
<1>4. CASE Return(c)
  BY <1>4 DEF Return, records
<1>5. CASE UNCHANGED <<outs, expected>>
  BY <1>5
<1> QED
  BY <1>1, <1>2, <1>3, <1>4, <1>5
     DEF CallActs, SetupThrows, SetupMerge, SetupNew, FindTransaction, InsertTransaction,
         GetProvenOrReq, AddLabels, CutOff, CallOnly, records

\* The purge does not delete the row of a call that excludes it.
LEMMA RowIsSafe ==
    ASSUME PurgeInv, PlaceInv, NEW c \in Calls, Placing(c), PurgedAlone(call[c].row),
           purge.stage \in {"delete", "transactions"}
    PROVE  call[c].row \notin purge.rows
<1>1. UserOf[call[c].row] = UserOf[c] /\ Running(c)
  BY DEF PlaceInv, PlacesOwn, Placing, Running
<1> QED
  BY <1>1 DEF PurgeInv, PurgesOld, PurgeIsAlone, PurgedAlone

\* Two calls of a user do not run at once, so that only one stores in a row of its.
LEMMA OneWriter ==
    ASSUME RowInv, NEW c \in Calls, NEW d \in Calls, Running(c), Running(d),
           UserOf[c] = UserOf[d]
    PROVE  c = d
BY DEF RowInv, OneCall

\* A call that has its row runs.
LEMMA PlacingRuns == \A c \in Calls : Placing(c) => Running(c)
BY DEF Placing, Running
-----------------------------------------------------------------------------
(* The purge.                                                              *)

LEMMA CallsKeepPurgeInv ==
    ASSUME Typed, PurgeInv, PlaceInv, NEW c \in Calls, CallActs(c)
    PROVE  PurgeInv'
<1>1. UNCHANGED purge /\ \A d \in Calls : d # c => (Running(d)' <=> Running(d))
  BY CallFrame DEF Running
<1>2. OnlyOldEnds'
  BY CallRows DEF PurgeInv, OnlyOldEnds
<1>3. PurgesOld'
  BY <1>1 DEF PurgeInv, PurgesOld
<1>4. PurgeIsAlone'
  <2>1. CASE Begin(c)
    BY <1>1, <2>1 DEF PurgeInv, PurgeIsAlone, Begin, Free
  <2>2. CASE Running(c)
    BY <1>1, <2>2 DEF PurgeInv, PurgeIsAlone
  <2> QED
    BY <2>1, <2>2, CallFrame
<1>5. PurgesUnspendable'
  <2> SUFFICES ASSUME NEW o \in Outputs, o[1] \in purge.rows, PurgedAlone(o[1]),
                      purge.stage \in {"delete", "transactions"}
               PROVE  /\ purge.stage = "delete" => ~outs'[o].spendable
                      /\ purge.stage = "transactions" => ~Stored(o)' /\ expected'[o] = "any"
    BY <1>1 DEF PurgesUnspendable, PurgedAlone
  <2>1. Placing(c) => o[1] # call[c].row
    BY RowIsSafe
  <2>2. outs'[o] = outs[o]
    BY <2>1, CallOutputs DEF Placing
  <2>3. expected'[o] = expected[o] \/ expected'[o] = "any"
    BY <2>1, CallOutputs DEF Placing
  <2> QED
    BY <2>2, <2>3 DEF PurgeInv, PurgesUnspendable, Stored
<1> QED
  BY <1>2, <1>3, <1>4, <1>5 DEF PurgeInv

LEMMA OthersKeepPurgeInv ==
    ASSUME Typed, PurgeInv, SpendInv, OtherActs
    PROVE  PurgeInv'
<1>1. UNCHANGED call
  BY OtherCalls
<1>2. OnlyOldEnds'
  BY OtherRows DEF PurgeInv, OnlyOldEnds
<1>3. CASE UNCHANGED purge
  <2>1. PurgesOld' /\ PurgeIsAlone'
    BY <1>1, <1>3 DEF PurgeInv, PurgesOld, PurgeIsAlone, Running
  <2>2. PurgesUnspendable'
    <3> SUFFICES ASSUME NEW o \in Outputs, o[1] \in purge.rows, PurgedAlone(o[1]),
                        purge.stage \in {"delete", "transactions"}
                 PROVE  /\ purge.stage = "delete" => ~outs'[o].spendable
                        /\ purge.stage = "transactions" => ~Stored(o)' /\ expected'[o] = "any"
      BY <1>3 DEF PurgesUnspendable, PurgedAlone
    <3>1. o[1] = OldRow
      BY DEF PurgeInv, PurgesOld
    <3>2. ~PurgeFailed /\ ~PurgeOutputs
      BY <1>3 DEF PurgeFailed, PurgeOutputs, PurgeBegin, NoPurge, Typed, TypeOK, PurgeType
    <3>3. purge.stage = "transactions" => ~Stored(o)' /\ expected'[o] = "any"
      BY <3>2, OtherOutputs DEF PurgeInv, PurgesUnspendable, Stored
    <3>4. purge.stage = "delete" => ~outs'[o].spendable
      <4> SUFFICES ASSUME ~outs[o].spendable PROVE ~outs'[o].spendable
        BY DEF PurgeInv, PurgesUnspendable
      <4>t. outs \in [Outputs -> OutType]
        BY DEF Typed, TypeOK
      <4>1. ASSUME NEW u \in Users, NEW p \in Outputs, AllocateChangeInput(u, p)
            PROVE  ~outs'[o].spendable
        BY <4>t, <4>1 DEF AllocateChangeInput, OutType
      <4>2. ASSUME NEW u \in Users, AbortSpend(u)
            PROVE  ~outs'[o].spendable
        <5>1. spend[u].out # o
          <6> SUFFICES ASSUME spend[u].out = o PROVE FALSE
            OBVIOUS
          <6>1. UserOf[o[1]] = u
            BY CallsAssumption DEF SpendInv, SpendsOwn
          <6>2. ManagerOf[u] = MonitorManager
            BY <3>1, <6>1 DEF PurgedAlone
          <6> QED
            BY <4>2, <6>2 DEF AbortSpend, Free
        <5> QED
          BY <4>t, <4>2, <5>1 DEF AbortSpend, Release
      <4>3. ASSUME NEW p \in Outputs, RelinquishOutput(p)
            PROVE  ~outs'[o].spendable
        BY <4>t, <4>3 DEF RelinquishOutput, OutType
      <4>4. CASE UNCHANGED outs
        BY <4>4
      <4> QED
        BY <3>2, <4>1, <4>2, <4>3, <4>4
           DEF OtherActs, SpendIsSent, SpendIsProven, ProveReq, GiveUpReq, PurgeCompleted, PurgeUtxos,
               PurgeSelect, PurgeTransactions, PurgeOrphans, PurgeOnly, records
    <3> QED
      BY <3>3, <3>4
  <2> QED
    BY <1>2, <2>1, <2>2 DEF PurgeInv
<1>4. CASE PurgeCompleted \/ PurgeFailed
  <2>1. purge'.stage \in {"failed", "utxos"}
    BY <1>4 DEF PurgeCompleted, PurgeFailed, NoPurge
  <2>2. purge.stage # "idle" \/ PurgeBegin
    BY <1>4 DEF PurgeCompleted, PurgeFailed
  <2>3. PurgeIsAlone'
    BY <1>1, <2>2 DEF PurgeInv, PurgeIsAlone, PurgeBegin, Free, Running
  <2> QED
    BY <1>2, <2>1, <2>3 DEF PurgeInv, PurgesOld, PurgesUnspendable
<1>5. CASE PurgeUtxos \/ PurgeTransactions \/ PurgeOrphans
  <2>1. purge'.stage \in {"idle", "select", "orphans"} /\ purge.stage # "idle"
    <3>1. purge \in PurgeType
      BY DEF Typed, TypeOK
    <3>2. CASE PurgeUtxos
      <4>1. \/ purge' = NoPurge
            \/ \E needed : purge' = [purge EXCEPT !.stage = "select", !.needed = needed]
        BY <3>2 DEF PurgeUtxos
      <4>2. purge.stage = "utxos"
        BY <3>2 DEF PurgeUtxos
      <4>3. NoPurge.stage = "idle"
        BY DEF NoPurge
      <4>4. \A needed : [purge EXCEPT !.stage = "select", !.needed = needed].stage = "select"
        BY <3>1 DEF PurgeType
      <4>5. purge'.stage \in {"idle", "select"}
        BY <4>1, <4>3, <4>4
      <4> QED
        BY <4>2, <4>5
    <3>3. CASE PurgeTransactions
      BY <3>1, <3>3 DEF PurgeTransactions, PurgeType
    <3>4. CASE PurgeOrphans
      BY <3>4 DEF PurgeOrphans, NoPurge
    <3> QED
      BY <1>5, <3>2, <3>3, <3>4
  <2>2. PurgeIsAlone'
    BY <1>1, <2>1 DEF PurgeInv, PurgeIsAlone, Running
  <2> QED
    BY <1>2, <2>1, <2>2 DEF PurgeInv, PurgesOld, PurgesUnspendable
<1>6. CASE PurgeSelect
  <2>1. /\ purge.stage = "select" /\ UNCHANGED <<outs, expected>>
        /\ purge'.stage \in {"orphans", "delete"} /\ purge'.rows \subseteq SpentRows
    BY <1>6 DEF PurgeSelect, records, Typed, TypeOK, PurgeType, PurgeOnly
  <2>2. PurgesOld'
    BY <2>1 DEF PurgeInv, OnlyOldEnds, PurgesOld, SpentRows
  <2>3. PurgeIsAlone'
    BY <1>1, <2>1 DEF PurgeInv, PurgeIsAlone, Running
  <2>4. PurgesUnspendable'
    <3>1. \A o \in Outputs : o[1] \in SpentRows => ~outs[o].spendable
      BY DEF SpentRows, Outputs
    <3> QED
      BY <2>1, <3>1 DEF PurgesUnspendable
  <2> QED
    BY <1>2, <2>2, <2>3, <2>4 DEF PurgeInv
<1>7. CASE PurgeOutputs
  <2>1. /\ purge.stage = "delete" /\ purge'.stage = "transactions" /\ purge'.rows = purge.rows
    BY <1>7 DEF PurgeOutputs, Typed, TypeOK, PurgeType
  <2>2. \A o \in Outputs : o[1] \in purge.rows => outs'[o] = NoOut /\ expected'[o] = "any"
    BY <1>7 DEF PurgeOutputs
  <2>3. PurgesOld' /\ PurgeIsAlone'
    BY <1>1, <2>1 DEF PurgeInv, PurgesOld, PurgeIsAlone, Running
  <2>4. PurgesUnspendable'
    BY <2>1, <2>2 DEF PurgesUnspendable, Stored, NoOut
  <2> QED
    BY <1>2, <2>3, <2>4 DEF PurgeInv
<1>8. \/ UNCHANGED purge \/ PurgeCompleted \/ PurgeFailed \/ PurgeUtxos \/ PurgeTransactions
      \/ PurgeOrphans \/ PurgeSelect \/ PurgeOutputs
  BY DEF OtherActs, SpendIsSent, SpendIsProven, AbortSpend, AllocateChangeInput, RelinquishOutput,
         ProveReq, GiveUpReq
<1> QED
  BY <1>3, <1>4, <1>5, <1>6, <1>7, <1>8
-----------------------------------------------------------------------------
(* The rows of calls.                                                      *)

LEMMA CallsKeepPlaceInv ==
    ASSUME Typed, RowInv, PlaceInv, NEW c \in Calls, CallActs(c)
    PROVE  PlaceInv'
<1>f. /\ \A d \in Calls : d # c => call'[d] = call[d]
      /\ \A d \in Calls : d \in Rows /\ d # OldRow
  BY CallFrame, CallsAssumption DEF Rows
<1>1. ASSUME NEW d \in Calls, d # c
      PROVE  /\ call'[d].stage \in {"idle", "setup", "find", "insert"} => txs'[d].status = "none"
             /\ txs'[d].status = "none" \/ call'[d].stage = "req" =>
                    \A v \in Vouts : ~Stored(<<d, v>>)'
             /\ call'[d].stage \in {"find", "insert", "req"} =>
                    /\ call'[d].row = d /\ call'[d].left = Asked(d)'
                    /\ \A v \in Vouts : call'[d].found[v] = "none"
             /\ Placing(d)' => /\ UserOf[call'[d].row] = UserOf[d]
                               /\ PurgedAlone(call'[d].row) => txs'[call'[d].row].status \in TxStatusOk
  <2>1. call'[d] = call[d] /\ txs'[d].status = txs[d].status /\ Asked(d)' = Asked(d)
    BY <1>f, <1>1, CallRows DEF Asked
  <2>2. ASSUME txs[d].status = "none" \/ call[d].stage = "req", NEW v \in Vouts
        PROVE  ~Stored(<<d, v>>)'
    <3> DEFINE o == <<d, v>>
    <3>1. o \in Outputs /\ o[1] = d
      BY <1>f DEF Outputs
    <3>2. ~(call[c].stage = "store" /\ d = call[c].row)
      <4> SUFFICES ASSUME call[c].stage = "store", d = call[c].row PROVE FALSE
        OBVIOUS
      <4>1. UserOf[d] = UserOf[c] /\ txs[d].status \in TxStatusOk
        BY <1>f DEF PlaceInv, PlacesOwn, Placing, PurgedAlone
      <4>2. call[d].stage = "req"
        BY <2>2, <4>1 DEF TxStatusOk
      <4>3. Running(d) /\ Running(c)
        BY <4>2 DEF Running
      <4> QED
        BY <1>1, <4>1, <4>3, OneWriter
    <3>3. outs'[o].basket = outs[o].basket
      <4>1. outs[o] \in OutType
        BY <3>1 DEF Typed, TypeOK
      <4> HIDE DEF o
      <4>2. outs'[o] = outs[o] \/ outs'[o] = [outs[o] EXCEPT !.tagged = TRUE]
        BY <3>1, <3>2, CallOutputs
      <4> QED
        BY <4>1, <4>2 DEF OutType
    <3>4. outs[o].basket = "none"
      BY <2>2 DEF PlaceInv, OwnRow, Stored
    <3> QED
      BY <3>3, <3>4 DEF Stored
  <2>3. Placing(d) => /\ UserOf[call[d].row] = UserOf[d] /\ call[d].row \in Rows
                      /\ PurgedAlone(call[d].row) => txs[call[d].row].status \in TxStatusOk
    BY DEF PlaceInv, PlacesOwn, Placing, Typed, Informed
  <2>4. Placing(d) => /\ PurgedAlone(call[d].row) => txs'[call[d].row].status \in TxStatusOk
    BY <2>3, CallRows DEF TxStatusOk
  <2> QED
    BY <2>1, <2>2, <2>3, <2>4 DEF PlaceInv, OwnRow, Placing
<1>2. /\ call'[c].stage \in {"idle", "setup", "find", "insert"} => txs'[c].status = "none"
      /\ txs'[c].status = "none" \/ call'[c].stage = "req" => \A v \in Vouts : ~Stored(<<c, v>>)'
      /\ call'[c].stage \in {"find", "insert", "req"} =>
             /\ call'[c].row = c /\ call'[c].left = Asked(c)'
             /\ \A v \in Vouts : call'[c].found[v] = "none"
      /\ Placing(c)' => /\ UserOf[call'[c].row] = UserOf[c]
                        /\ PurgedAlone(call'[c].row) => txs'[call'[c].row].status \in TxStatusOk
  <2>i. /\ call[c].stage \in {"idle", "setup", "find", "insert"} => txs[c].status = "none"
        /\ txs[c].status = "none" \/ call[c].stage = "req" => \A v \in Vouts : ~Stored(<<c, v>>)
        /\ call[c].stage \in {"find", "insert", "req"} =>
               /\ call[c].row = c /\ call[c].left = Asked(c)
               /\ \A v \in Vouts : call[c].found[v] = "none"
        /\ Placing(c) => /\ UserOf[call[c].row] = UserOf[c] /\ call[c].row \in Rows
                         /\ PurgedAlone(call[c].row) => txs[call[c].row].status \in TxStatusOk
    BY DEF PlaceInv, OwnRow, PlacesOwn, Placing, Typed, Informed
  <2>1. CASE InsertTransaction(c)
    <3>1. Moves(c, "req") /\ call[c].stage = "insert" /\ UNCHANGED outs
      BY <2>1, GotoMoves DEF InsertTransaction
    <3>2. txs'[c].status = "unproven"
      BY <2>1, <1>f DEF InsertTransaction, Typed, TypeOK
    <3> QED
      BY <2>i, <3>1, <3>2 DEF Moves, Becomes, Asked, Stored, Placing, TxStatusOk
  <2>2. CASE ~InsertTransaction(c)
    <3>1. \A r \in Rows : txs'[r].status = txs[r].status
      BY <2>2, CallRows
    <3>2. UNCHANGED outs => \A v \in Vouts : Stored(<<c, v>>)' <=> Stored(<<c, v>>)
      BY DEF Stored
    <3>3. CASE Begin(c)
      <4>1. call'[c].stage = "setup" /\ call[c].stage = "idle" /\ UNCHANGED outs
        BY <3>3, BeginMoves DEF Begin, Becomes, records
      <4> QED
        BY <1>f, <2>i, <3>1, <3>2, <4>1 DEF Placing
    <3>4. CASE SetupMerge(c)
      <4>1. PICK r \in RowsOf(UserOf[c]) :
              call'[c].stage = "label" /\ call'[c].row = r /\ txs[r].status \in TxStatusOk
        BY <3>4, MergeMoves DEF Becomes
      <4>2. r \in Rows /\ UserOf[r] = UserOf[c]
        BY <4>1 DEF RowsOf
      <4>3. UNCHANGED outs /\ call[c].stage = "setup"
        BY <3>4 DEF SetupMerge, CallOnly, records
      <4> QED
        BY <1>f, <2>i, <3>1, <3>2, <4>1, <4>2, <4>3
    <3>5. CASE SetupNew(c)
      <4>1. PICK found : /\ Becomes(c, "find", call[c].want, c, found, Asked(c))
                         /\ \A v \in Vouts : found[v] = "none"
        BY <3>5, NewMoves
      <4>2. UNCHANGED outs /\ call[c].stage = "setup"
        BY <3>5 DEF SetupNew, CallOnly, records
      <4> QED
        BY <1>f, <2>i, <3>1, <3>2, <4>1, <4>2 DEF Becomes, Asked, Placing
    <3>6. CASE FindTransaction(c)
      <4>1. PICK stage \in {"insert", "threw"} : Moves(c, stage)
        BY <3>6, GotoMoves DEF FindTransaction
      <4>2. UNCHANGED outs /\ call[c].stage = "find"
        BY <3>6 DEF FindTransaction, CallOnly, records
      <4> QED
        BY <1>f, <2>i, <3>1, <3>2, <4>1, <4>2 DEF Moves, Becomes, Asked, Placing
    <3>7. CASE SetupThrows(c) \/ CutOff(c)
      <4>1. Moves(c, "threw") /\ UNCHANGED outs
        BY <3>7, GotoMoves DEF SetupThrows, CutOff, CallOnly, records
      <4> QED
        BY <1>f, <2>i, <3>1, <3>2, <4>1 DEF Moves, Becomes, Placing
    <3>8. CASE GetProvenOrReq(c) \/ AddLabels(c) \/ Return(c)
      <4>1. \E stage \in {"label", "store", "return", "returned"} : Moves(c, stage)
        BY <3>8, GotoMoves DEF GetProvenOrReq, AddLabels, Return, AfterStore
      <4>2. UNCHANGED outs /\ Placing(c)
        BY <3>8 DEF GetProvenOrReq, AddLabels, Return, Placing, records
      <4> QED
        BY <1>f, <2>i, <3>1, <3>2, <4>1, <4>2 DEF Moves, Becomes, Placing
    <3>9. CASE StoreOutput(c) \/ TagOutput(c)
      <4>1. call'[c].stage \in {"store", "tag", "return", "threw"} /\ call'[c].row = call[c].row
        <5>1. CASE StoreOutput(c)
          BY <5>1, StoreMoves DEF Moves, Becomes, AfterStore
        <5>2. CASE TagOutput(c)
          <6>1. PICK stage \in {"store", "return"} : Moves(c, stage)
            BY <5>2, GotoMoves DEF TagOutput, AfterStore
          <6> QED
            BY <6>1 DEF Moves, Becomes
        <5> QED
          BY <3>9, <5>1, <5>2
      <4>2. Placing(c) /\ call[c].stage \in {"store", "tag"}
        BY <3>9 DEF StoreOutput, TagOutput, Placing
      <4>3. ASSUME txs[c].status = "none", NEW v \in Vouts PROVE ~Stored(<<c, v>>)'
        <5> DEFINE o == <<c, v>>
        <5>1. o \in Outputs /\ o[1] = c /\ outs[o] \in OutType
          BY <1>f DEF Outputs, Typed, TypeOK
        <5>2. call[c].row # c
          BY <1>f, <2>i, <4>2, <4>3 DEF PurgedAlone, TxStatusOk
        <5>3. outs'[o] = outs[o]
          <6> HIDE DEF o
          <6> QED BY <5>1, <5>2, CallOutputs
        <5> QED
          BY <2>i, <4>3, <5>3 DEF Stored
      <4> QED
        BY <1>f, <2>i, <3>1, <4>1, <4>2, <4>3
    <3> QED
      BY <2>2, <3>3, <3>4, <3>5, <3>6, <3>7, <3>8, <3>9 DEF CallActs
  <2> QED
    BY <2>1, <2>2
<1> QED
  BY <1>1, <1>2 DEF PlaceInv, OwnRow, PlacesOwn, PurgedAlone

LEMMA OthersKeepPlaceInv ==
    ASSUME Typed, PurgeInv, PlaceInv, OtherActs
    PROVE  PlaceInv'
<1>1. UNCHANGED call
  BY OtherCalls
<1>2. ASSUME NEW r \in Rows, r # OldRow
      PROVE  txs'[r].status = txs[r].status
  BY <1>2, OtherRows DEF PurgeInv, OnlyOldEnds, PurgesOld
<1>3. OwnRow'
  <2> SUFFICES ASSUME NEW d \in Calls
               PROVE  /\ call[d].stage \in {"idle", "setup", "find", "insert"} =>
                             txs'[d].status = "none"
                      /\ txs'[d].status = "none" \/ call[d].stage = "req" =>
                             \A v \in Vouts : ~Stored(<<d, v>>)'
                      /\ call[d].stage \in {"find", "insert", "req"} =>
                             /\ call[d].row = d /\ call[d].left = Asked(d)'
                             /\ \A v \in Vouts : call[d].found[v] = "none"
    BY <1>1 DEF OwnRow
  <2>1. txs'[d].status = txs[d].status /\ Asked(d)' = Asked(d)
    BY <1>1, <1>2, CallsAssumption DEF Asked, Rows
  <2>2. ASSUME NEW v \in Vouts, ~Stored(<<d, v>>) PROVE ~Stored(<<d, v>>)'
    <3> DEFINE o == <<d, v>>
    <3>1. o \in Outputs /\ ~Stored(o)
      BY <2>2 DEF Outputs, Rows
    <3> HIDE DEF o
    <3>2. outs'[o].basket = outs[o].basket \/ outs'[o] = NoOut
      BY <3>1, OtherOutputs
    <3>3. outs'[o].basket = "none"
      BY <3>1, <3>2 DEF Stored, NoOut
    <3> QED
      BY <3>3 DEF Stored, o
  <2> QED
    BY <2>1, <2>2 DEF PlaceInv, OwnRow
<1>4. PlacesOwn'
  <2> SUFFICES ASSUME NEW d \in Calls, Placing(d)
               PROVE  /\ UserOf[call[d].row] = UserOf[d]
                      /\ PurgedAlone(call[d].row) => txs'[call[d].row].status \in TxStatusOk
    BY <1>1 DEF PlacesOwn, Placing, PurgedAlone
  <2>1. call[d].row \in Rows
    BY DEF Placing, Typed, Informed
  <2>2. ~(purge.stage = "transactions" /\ PurgedAlone(call[d].row) /\ call[d].row \in purge.rows)
    BY RowIsSafe
  <2> QED
    BY <2>1, <2>2, OtherRows DEF PlaceInv, PlacesOwn, TxStatusOk
<1> QED
  BY <1>3, <1>4 DEF PlaceInv
-----------------------------------------------------------------------------
(* The proof or the req.                                                   *)

LEMMA CallsKeepKnownInv ==
    ASSUME Typed, PlaceInv, KnownInv, NEW c \in Calls, CallActs(c)
    PROVE  KnownInv'
<1>f. /\ \A d \in Calls : d # c => call'[d] = call[d]
      /\ c \in Rows
  BY CallFrame DEF Rows
<1>1. UNCHANGED proof
  BY DEF CallActs, Begin, SetupThrows, SetupMerge, SetupNew, FindTransaction, InsertTransaction,
         GetProvenOrReq, AddLabels, StoreOutput, TagOutput, Return, CutOff, CallOnly
<1>2. CASE GetProvenOrReq(c)
  <2>1. proof \/ req'.status # "none"
    BY <1>2 DEF GetProvenOrReq, Req
  <2>2. req'.status = "completed" => req.status = "completed"
    BY <1>2 DEF GetProvenOrReq, Req
  <2> QED
    BY <1>1, <2>1, <2>2 DEF KnownInv
<1>3. CASE ~GetProvenOrReq(c)
  <2>1. UNCHANGED req /\ unpursued \subseteq unpursued'
    BY <1>3 DEF CallActs, Begin, SetupThrows, SetupMerge, SetupNew, FindTransaction,
         InsertTransaction, AddLabels, StoreOutput, TagOutput, Return, CutOff, CallOnly
  <2>2. CASE InsertTransaction(c)
    <3>1. call'[c].stage = "req"
      BY <2>2, GotoMoves DEF InsertTransaction, Moves, Becomes
    <3> QED
      BY <1>f, <1>1, <2>1, <3>1, CallRows DEF KnownInv
  <2>3. CASE ~InsertTransaction(c)
    <3>1. \A r \in Rows : txs'[r].status = txs[r].status
      BY <2>3, CallRows
    <3>2. call[c].stage = "req" => c \in unpursued'
      BY <1>3 DEF CallActs, Begin, SetupThrows, SetupMerge, SetupNew, FindTransaction,
         InsertTransaction, AddLabels, StoreOutput, TagOutput, Return, CutOff
    <3> QED
      BY <1>f, <1>1, <2>1, <3>1, <3>2 DEF KnownInv
  <2> QED
    BY <2>2, <2>3
<1> QED
  BY <1>2, <1>3

LEMMA OthersKeepKnownInv ==
    ASSUME Typed, KnownInv, OtherActs
    PROVE  KnownInv'
<1>1. UNCHANGED call
  BY OtherCalls
<1>2. \A r \in Rows : txs'[r].status \in TxStatusOk => txs[r].status = txs'[r].status
  BY OtherRows DEF TxStatusOk
<1>3. req \in ReqType
  BY DEF Typed, TypeOK
<1>4. CASE UNCHANGED <<req, proof, unpursued>>
  BY <1>1, <1>2, <1>4 DEF KnownInv
<1>5. CASE ProveReq \/ GiveUpReq
  <2>1. /\ UNCHANGED unpursued /\ req'.status # "none"
        /\ req'.status = "completed" => proof'
    BY <1>3, <1>5 DEF ProveReq, GiveUpReq, ReqType
  <2> QED
    BY <2>1 DEF KnownInv
<1>6. CASE PurgeCompleted
  <2>1. proof /\ UNCHANGED proof /\ req' = NoReq
    BY <1>6 DEF PurgeCompleted, KnownInv
  <2> QED
    BY <2>1 DEF KnownInv, NoReq
<1>7. CASE PurgeFailed
  <2>1. UNCHANGED proof
    BY <1>7 DEF PurgeFailed
  <2>2. CASE req.status = "invalid"
    <3>1. req' = NoReq /\ unpursued' = {r \in Rows : txs[r].status # "none"}
      BY <1>7, <2>2 DEF PurgeFailed
    <3> QED
      BY <1>2, <3>1 DEF KnownInv, NoReq, TxStatusOk
  <2>3. CASE req.status # "invalid"
    <3>1. UNCHANGED <<req, unpursued>>
      BY <1>7, <2>3 DEF PurgeFailed
    <3> QED
      BY <1>1, <1>2, <2>1, <3>1 DEF KnownInv
  <2> QED
    BY <2>2, <2>3
<1>8. CASE PurgeOrphans
  <2>1. UNCHANGED <<req, unpursued, txs>> /\ proof' = (proof /\ ~OrphanProof)
    BY <1>8 DEF PurgeOrphans, records
  <2>2. CASE OrphanProof
    BY <2>1, <2>2 DEF KnownInv, OrphanProof, TxStatusOk
  <2>3. CASE ~OrphanProof
    BY <1>1, <1>2, <2>1, <2>3 DEF KnownInv
  <2> QED
    BY <2>2, <2>3
<1> QED
  BY <1>4, <1>5, <1>6, <1>7, <1>8
     DEF OtherActs, SpendIsSent, SpendIsProven, AbortSpend, AllocateChangeInput, RelinquishOutput,
         PurgeUtxos, PurgeSelect, PurgeOutputs, PurgeTransactions, PurgeOnly
-----------------------------------------------------------------------------
(* What is held, and what is spendable.                                    *)

LEMMA CallsKeepSpendInv ==
    ASSUME Typed, PurgeInv, PlaceInv, SpendInv, NEW c \in Calls, CallActs(c)
    PROVE  SpendInv'
<1>1. UNCHANGED <<spend, purge>> /\ c # OldRow
  BY CallFrame, CallsAssumption
<1>2. \A o \in Outputs : Held(o)' <=> Held(o)
  BY <1>1 DEF Held
<1>3. ASSUME NEW o \in Outputs, Stored(o) PROVE Stored(o)' /\ outs'[o].spendable = outs[o].spendable
  <2>1. outs[o] \in OutType /\ outs[o].basket # "none"
    BY <1>3 DEF Typed, TypeOK, Stored
  <2>2. CASE outs'[o] = outs[o]
    BY <2>1, <2>2 DEF Stored
  <2>3. CASE outs'[o] = [outs[o] EXCEPT !.tagged = TRUE]
    BY <2>1, <2>3 DEF Stored, OutType
  <2>4. CASE StoreOutput(c)
    <3>1. PICK v \in call[c].left :
            LET p == <<call[c].row, v>>
            IN  /\ \A q \in Outputs : q # p => outs'[q] = outs[q]
                /\ \/ ~Stored(p)
                   \/ outs' = outs
                   \/ /\ outs'[p].spendable = outs[p].spendable
                      /\ outs'[p].basket \in {"default", "custom", outs[p].basket}
      BY <2>4, StoreMoves
    <3> QED
      BY <1>3, <3>1 DEF Stored
  <2> QED
    BY <2>2, <2>3, <2>4, CallOutputs
<1>4. SpendsOwn'
  BY <1>1 DEF SpendInv, SpendsOwn
<1>5. HeldIsThere'
  <2> SUFFICES ASSUME NEW o \in Outputs, Held(o)
               PROVE  /\ txs'[o[1]].status # "failed"
                      /\ PurgedAlone(o[1]) /\ ~Stored(o)' =>
                             \/ o[1] = OldRow /\ txs'[o[1]].status = "none"
                             \/ purge.stage = "transactions" /\ o[1] \in purge.rows
    BY <1>1, <1>2 DEF HeldIsThere, PurgedAlone
  <2>1. o[1] \in Rows
    BY DEF Outputs
  <2>2. txs'[o[1]].status # "failed"
    BY <2>1, CallRows DEF SpendInv, HeldIsThere
  <2>3. o[1] = OldRow => txs'[o[1]].status = txs[o[1]].status
    BY <1>1, <2>1, CallRows
  <2> QED
    BY <1>3, <2>2, <2>3 DEF SpendInv, HeldIsThere
<1>6. SpendableIffFree'
  <2> SUFFICES ASSUME NEW o \in Outputs, PurgedAlone(o[1]), Stored(o)'
               PROVE  outs'[o].spendable <=> ~Held(o)
    BY <1>2 DEF SpendableIffFree, PurgedAlone
  <2>1. CASE Stored(o)
    BY <1>3, <2>1 DEF SpendInv, SpendableIffFree
  <2>2. CASE ~Stored(o)
    <3>1. StoreOutput(c) /\ call[c].stage = "store" /\ o[1] = call[c].row
      <4>1. outs[o] \in OutType /\ outs[o].basket = "none" /\ outs'[o].basket # "none"
        BY <2>2 DEF Typed, TypeOK, Stored
      <4>2. outs'[o] # outs[o] /\ outs'[o] # [outs[o] EXCEPT !.tagged = TRUE]
        BY <4>1 DEF OutType
      <4> QED
        BY <4>2, CallOutputs
    <3>2. outs'[o].spendable
      <4>1. PICK v \in call[c].left :
              LET p == <<call[c].row, v>>
              IN  /\ \A q \in Outputs : q # p => outs'[q] = outs[q]
                  /\ \/ outs'[p] \in {Change, Custom}
                     \/ outs' = outs
                     \/ Stored(p) \/ outs'[p].basket = outs[p].basket
        BY <3>1, StoreMoves
      <4>2. outs'[o] \in {Change, Custom}
        BY <2>2, <4>1 DEF Stored
      <4> QED
        BY <4>2 DEF Change, Custom
    <3>3. ~Held(o)
      <4>1. Placing(c) /\ txs[o[1]].status # "none"
        BY <3>1 DEF Placing, PlaceInv, PlacesOwn, TxStatusOk
      <4>2. ~(purge.stage = "transactions" /\ o[1] \in purge.rows)
        BY <3>1, <4>1, RowIsSafe
      <4> QED
        BY <2>2, <4>1, <4>2 DEF SpendInv, HeldIsThere
    <3> QED
      BY <3>2, <3>3
  <2> QED
    BY <2>1, <2>2
<1> QED
  BY <1>4, <1>5, <1>6 DEF SpendInv

LEMMA SpendersKeepSpendInv ==
    ASSUME Typed, SpendInv, NEW u \in Users,
           \/ SpendIsSent(u) \/ SpendIsProven(u) \/ AbortSpend(u)
           \/ \E o \in Outputs : AllocateChangeInput(u, o)
    PROVE  SpendInv'
<1>t. /\ \A q \in Users : spend[q] \in [status : {"none", "unsigned", "unproven", "proven", "failed"},
                                        out : Outputs \cup {None}]
      /\ spend \in [Users -> [status : {"none", "unsigned", "unproven", "proven", "failed"},
                              out : Outputs \cup {None}]]
      /\ outs \in [Outputs -> OutType] /\ None \notin Outputs
  BY CallsAssumption DEF Typed, TypeOK
<1>p. UNCHANGED purge
  BY DEF SpendIsSent, SpendIsProven, AbortSpend, AllocateChangeInput
<1>1. CASE SpendIsSent(u) \/ SpendIsProven(u)
  <2>1. PICK status \in {"unproven", "proven"} : spend' = [spend EXCEPT ![u].status = status]
    BY <1>1 DEF SpendIsSent, SpendIsProven
  <2>2. spend[u].status \in {"unsigned", "unproven"} /\ UNCHANGED <<txs, outs>>
    BY <1>1 DEF SpendIsSent, SpendIsProven, records
  <2>3. /\ \A q \in Users : q # u => spend'[q] = spend[q]
        /\ spend'[u].status = status /\ spend'[u].out = spend[u].out
    BY <1>t, <2>1
  <2>4. \A o \in Outputs : Held(o)' <=> Held(o)
    BY <2>2, <2>3 DEF Held
  <2>5. SpendsOwn'
    BY <2>2, <2>3 DEF SpendInv, SpendsOwn
  <2> QED
    BY <1>p, <2>2, <2>4, <2>5 DEF SpendInv, HeldIsThere, SpendableIffFree, Stored, PurgedAlone
<1>2. ASSUME NEW p \in Outputs, AllocateChangeInput(u, p)
      PROVE  SpendInv'
  <2>1. /\ spend[u].status = "none" /\ UserOf[p[1]] = u /\ outs[p].spendable /\ Stored(p)
        /\ txs[p[1]].status \in {"completed", "unproven"} /\ UNCHANGED txs
        /\ outs' = [outs EXCEPT ![p].spendable = FALSE]
        /\ spend' = [spend EXCEPT ![u] = [status |-> "unsigned", out |-> p]]
    BY <1>2 DEF AllocateChangeInput, Stored
  <2>2. /\ \A q \in Users : q # u => spend'[q] = spend[q]
        /\ spend'[u].status = "unsigned" /\ spend'[u].out = p
    BY <1>t, <2>1
  <2>3. /\ \A o \in Outputs : o # p => outs'[o] = outs[o]
        /\ outs'[p].spendable = FALSE /\ outs'[p].basket = outs[p].basket
    BY <1>t, <2>1 DEF OutType
  <2>4. SpendsOwn'
    BY <1>t, <2>1, <2>2 DEF SpendInv, SpendsOwn
  <2>5. spend[u].out = None
    BY <2>1 DEF SpendInv, SpendsOwn
  <2>6. Held(p)' /\ \A o \in Outputs : o # p => (Held(o)' <=> Held(o))
    BY <1>t, <2>2, <2>5 DEF Held
  <2>7. \A o \in Outputs : Stored(o)' <=> Stored(o)
    BY <2>3 DEF Stored
  <2>8. HeldIsThere'
    BY <1>p, <2>1, <2>6, <2>7 DEF SpendInv, HeldIsThere, PurgedAlone
  <2>9. SpendableIffFree'
    BY <2>3, <2>6, <2>7 DEF SpendInv, SpendableIffFree, PurgedAlone
  <2> QED
    BY <2>4, <2>8, <2>9 DEF SpendInv
<1>3. CASE AbortSpend(u)
  <2>0. PICK p \in Outputs : p = spend[u].out
    BY <1>t, <1>3 DEF AbortSpend, SpendInv, SpendsOwn
  <2>1. /\ spend[u].status = "unsigned" /\ UNCHANGED txs /\ outs' = Release(p)
        /\ spend' = [spend EXCEPT ![u].status = "failed"]
    BY <1>3, <2>0 DEF AbortSpend
  <2>2. p \in Outputs /\ UserOf[p[1]] = u
    BY <1>t, <2>0, <2>1 DEF SpendInv, SpendsOwn
  <2>3. /\ \A q \in Users : q # u => spend'[q] = spend[q]
        /\ spend'[u].status = "failed" /\ spend'[u].out = p
    BY <1>t, <2>0, <2>1
  <2>4. SpendsOwn'
    BY <1>t, <2>2, <2>3 DEF SpendInv, SpendsOwn
  <2>5. \A q \in Users : q # u => spend[q].out # p
    BY <1>t, <2>2 DEF SpendInv, SpendsOwn
  <2>6. ~Held(p)' /\ \A o \in Outputs : o # p => (Held(o)' <=> Held(o))
    BY <2>0, <2>3, <2>5 DEF Held
  <2>7. \A o \in Outputs : o # p => outs'[o] = outs[o]
    BY <1>t, <2>1 DEF Release
  <2>8. outs'[p].basket = outs[p].basket /\ (Stored(p) => outs'[p].spendable)
    BY <1>t, <2>1, <2>2 DEF Release, OutType
  <2>9. \A o \in Outputs : Stored(o)' <=> Stored(o)
    BY <2>7, <2>8 DEF Stored
  <2>10. HeldIsThere'
    BY <1>p, <2>1, <2>6, <2>9 DEF SpendInv, HeldIsThere, PurgedAlone
  <2>11. SpendableIffFree'
    BY <2>6, <2>7, <2>8, <2>9 DEF SpendInv, SpendableIffFree, PurgedAlone
  <2> QED
    BY <2>4, <2>10, <2>11 DEF SpendInv
<1> QED
  BY <1>1, <1>2, <1>3

LEMMA OthersKeepSpendInv ==
    ASSUME Typed, PurgeInv, SpendInv, OtherActs
    PROVE  SpendInv'
<1>t. /\ spend \in [Users -> [status : {"none", "unsigned", "unproven", "proven", "failed"},
                              out : Outputs \cup {None}]]
      /\ outs \in [Outputs -> OutType] /\ None \notin Outputs
  BY CallsAssumption DEF Typed, TypeOK
<1>1. ASSUME NEW u \in Users,
             \/ SpendIsSent(u) \/ SpendIsProven(u) \/ AbortSpend(u)
             \/ \E o \in Outputs : AllocateChangeInput(u, o)
      PROVE  SpendInv'
  BY <1>1, SpendersKeepSpendInv
<1>2. CASE ~ \E u \in Users : \/ SpendIsSent(u) \/ SpendIsProven(u) \/ AbortSpend(u)
                              \/ \E o \in Outputs : AllocateChangeInput(u, o)
  <2>1. /\ \A o \in Outputs : Held(o)' <=> Held(o)
        /\ SpendsOwn'
    <3>1. CASE UNCHANGED spend
      BY <3>1 DEF Held, SpendInv, SpendsOwn
    <3>2. CASE PurgeFailed
      <4>1. \A u \in Users : \/ spend'[u] = spend[u]
                             \/ spend[u].status = "failed" /\ spend'[u] = NoSpend
        BY <3>2 DEF PurgeFailed
      <4> QED
        BY <1>t, <4>1 DEF Held, SpendInv, SpendsOwn, NoSpend
    <3> QED
      BY <1>2, <3>1, <3>2 DEF OtherActs, RelinquishOutput, ProveReq, GiveUpReq, PurgeCompleted,
           PurgeUtxos, PurgeSelect, PurgeOutputs, PurgeTransactions, PurgeOrphans, PurgeOnly
  <2>2. ASSUME NEW o \in Outputs
        PROVE  \/ outs'[o] = outs[o]
               \/ PurgeFailed /\ txs[o[1]].status = "failed" /\ outs'[o] = NoOut
               \/ /\ PurgeOutputs /\ purge.stage = "delete" /\ o[1] \in purge.rows
                  /\ outs'[o] = NoOut
               \/ Stored(o) /\ outs'[o] = [outs[o] EXCEPT !.basket = "null"]
    <3>1. CASE \E p \in Outputs : RelinquishOutput(p)
      <4>1. PICK p \in Outputs : RelinquishOutput(p)
        BY <3>1
      <4>2. Stored(p) /\ outs' = [outs EXCEPT ![p].basket = "null"]
        <5>1. p \in {q \in Outputs : q[2] = p[2] /\ Stored(q)}
          BY <4>1 DEF RelinquishOutput
        <5> QED
          BY <4>1, <5>1 DEF RelinquishOutput
      <4> QED
        BY <1>t, <4>2
    <3>2. CASE PurgeFailed \/ PurgeOutputs
      BY <3>2, OtherOutputs DEF PurgeFailed, PurgeOutputs, FailedRows, Outputs
    <3>3. CASE UNCHANGED outs
      BY <3>3
    <3> QED
      BY <1>2, <3>1, <3>2, <3>3 DEF OtherActs, ProveReq, GiveUpReq, PurgeCompleted,
           PurgeUtxos, PurgeSelect, PurgeTransactions, PurgeOrphans, PurgeOnly, records
  <2>3. HeldIsThere'
    <3> SUFFICES ASSUME NEW o \in Outputs, Held(o)
                 PROVE  /\ txs'[o[1]].status # "failed"
                        /\ PurgedAlone(o[1]) /\ ~Stored(o)' =>
                               \/ o[1] = OldRow /\ txs'[o[1]].status = "none"
                               \/ purge'.stage = "transactions" /\ o[1] \in purge'.rows
      BY <2>1 DEF HeldIsThere, PurgedAlone
    <3>1. o[1] \in Rows /\ txs[o[1]].status # "failed"
      BY DEF Outputs, SpendInv, HeldIsThere
    <3>2. txs'[o[1]].status # "failed"
      BY <3>1, OtherRows
    <3>3. ASSUME PurgedAlone(o[1]), ~Stored(o)'
          PROVE  \/ o[1] = OldRow /\ txs'[o[1]].status = "none"
                 \/ purge'.stage = "transactions" /\ o[1] \in purge'.rows
      <4>1. CASE PurgeOutputs
        <5>1. \/ ~Stored(o) \/ o[1] \in purge.rows
          BY <3>1, <3>3, <4>1, <2>2 DEF PurgeOutputs, Stored
        <5>2. purge'.stage = "transactions" /\ purge'.rows = purge.rows /\ purge.stage = "delete"
              /\ UNCHANGED txs
          BY <4>1 DEF PurgeOutputs, Typed, TypeOK, PurgeType
        <5> QED
          BY <3>3, <5>1, <5>2 DEF SpendInv, HeldIsThere
      <4>2. CASE ~PurgeOutputs
        <5>1. ~Stored(o)
          <6> SUFFICES ASSUME Stored(o) PROVE FALSE
            OBVIOUS
          <6>1. outs'[o] = outs[o] \/ outs'[o] = [outs[o] EXCEPT !.basket = "null"]
            BY <2>2, <3>1, <4>2
          <6> QED
            BY <1>t, <3>3, <6>1 DEF Stored, OutType
        <5>2. CASE o[1] = OldRow /\ txs[o[1]].status = "none"
          BY <3>1, <5>2, OtherRows
        <5>3. CASE purge.stage = "transactions" /\ o[1] \in purge.rows
          <6>1. CASE PurgeTransactions
            BY <3>1, <5>3, <6>1 DEF PurgeTransactions, PurgeInv, PurgesOld, NoTx
          <6>2. CASE UNCHANGED purge
            BY <5>3, <6>2
          <6> QED
            BY <1>2, <4>2, <5>3, <6>1, <6>2 DEF OtherActs, RelinquishOutput, ProveReq, GiveUpReq,
               PurgeCompleted, PurgeFailed, PurgeBegin, PurgeUtxos, PurgeSelect, PurgeOrphans
        <5> QED
          BY <3>3, <5>1, <5>2, <5>3 DEF SpendInv, HeldIsThere
      <4> QED
        BY <4>1, <4>2
    <3> QED
      BY <3>2, <3>3
  <2>4. SpendableIffFree'
    <3> SUFFICES ASSUME NEW o \in Outputs, PurgedAlone(o[1]), Stored(o)'
                 PROVE  outs'[o].spendable <=> ~Held(o)
      BY <2>1 DEF SpendableIffFree, PurgedAlone
    <3>1. outs'[o] = outs[o] \/ (Stored(o) /\ outs'[o] = [outs[o] EXCEPT !.basket = "null"])
      BY <2>2 DEF Stored, NoOut
    <3>2. Stored(o) /\ outs'[o].spendable = outs[o].spendable
      BY <1>t, <3>1 DEF Stored, OutType
    <3> QED
      BY <3>2 DEF SpendInv, SpendableIffFree
  <2> QED
    BY <2>1, <2>3, <2>4 DEF SpendInv
<1> QED
  BY <1>1, <1>2
-----------------------------------------------------------------------------
(* What is asked for.                                                      *)

LEMMA CallsKeepChange ==
    ASSUME Typed, ChangeIsDefault, NEW c \in Calls, CallActs(c)
    PROVE  ChangeIsDefault'
<1> SUFFICES ASSUME NEW o \in Outputs
             PROVE  /\ outs'[o].basket = "default" => outs'[o].change
                    /\ outs'[o].basket = "custom" => ~outs'[o].change
  BY DEF ChangeIsDefault
<1>1. outs[o] \in OutType
  BY DEF Typed, TypeOK
<1>2. CASE outs'[o] = outs[o] \/ outs'[o] = [outs[o] EXCEPT !.tagged = TRUE]
  BY <1>1, <1>2 DEF ChangeIsDefault, OutType
<1>3. CASE StoreOutput(c)
  <2>1. PICK v \in call[c].left :
          LET p == <<call[c].row, v>>
              payment == call[c].want[v] = "payment"
          IN  /\ \A q \in Outputs : q # p => outs'[q] = outs[q]
              /\ \/ outs'[p] = IF payment THEN Change ELSE Custom
                 \/ outs' = outs
                 \/ /\ outs'[p].basket = IF Stored(p) THEN IF payment THEN "default" ELSE "custom"
                                         ELSE outs[p].basket
                    /\ outs'[p].change = IF Stored(p) THEN payment ELSE outs[p].change
    BY <1>3, StoreMoves
  <2>2. \/ outs'[o] \in {outs[o], Change, Custom}
        \/ outs'[o].basket = "default" /\ outs'[o].change
        \/ outs'[o].basket = "custom" /\ ~outs'[o].change
        \/ outs'[o].basket = outs[o].basket /\ outs'[o].change = outs[o].change
    <3>1. CASE o # <<call[c].row, v>>
      BY <2>1, <3>1
    <3>2. CASE o = <<call[c].row, v>>
      <4>1. CASE call[c].want[v] = "payment"
        BY <2>1, <3>2, <4>1
      <4>2. CASE call[c].want[v] # "payment"
        BY <2>1, <3>2, <4>2
      <4> QED
        BY <4>1, <4>2
    <3> QED
      BY <3>1, <3>2
  <2>3. /\ Change.basket = "default" /\ Change.change
        /\ Custom.basket = "custom" /\ ~Custom.change
    BY DEF Change, Custom
  <2>4. /\ outs[o].basket = "default" => outs[o].change
        /\ outs[o].basket = "custom" => ~outs[o].change
    BY DEF ChangeIsDefault
  <2>5. CASE outs'[o] \in {outs[o], Change, Custom}
    BY <2>3, <2>4, <2>5
  <2> QED
    BY <2>2, <2>4, <2>5
<1> QED
  BY <1>2, <1>3, CallOutputs

LEMMA CallsKeepOpen ==
    ASSUME Typed, RowInv, PlaceInv, AskedInv, NEW c \in Calls, CallActs(c)
    PROVE  AskedIsOpen'
<1> SUFFICES ASSUME NEW d \in Calls, Running(d)', NEW o \in Outputs,
                    UserOf[o[1]] = UserOf[d], o[2] \in Asked(d)'
             PROVE  expected'[o] \in {"any", "mixed"}
  BY DEF AskedIsOpen
<1>1. CASE d # c
  <2>1. call'[d] = call[d]
    BY <1>1, CallFrame
  <2>2. Running(d) /\ o[2] \in Asked(d)
    BY <2>1 DEF Running, Asked
  <2>3. CASE Return(c) /\ call[c].stage = "return" /\ o[1] = call[c].row
    <3>1. UserOf[c] = UserOf[d] /\ Running(c)
      BY <2>3 DEF PlaceInv, PlacesOwn, Placing, Running
    <3> QED
      BY <1>1, <2>2, <3>1, OneWriter
  <2> QED
    BY <2>2, <2>3, CallOutputs DEF AskedInv, AskedIsOpen
<1>2. CASE d = c
  <2>1. CASE Begin(c)
    <3>1. PICK w \in Wants[c] :
            /\ Becomes(c, "setup", w, call[c].row, call[c].found, call[c].left)
            /\ \A p \in Outputs : expected'[p] = IF UserOf[p[1]] = UserOf[c] /\ w[p[2]] # "no"
                                                 THEN "any" ELSE expected[p]
      BY <2>1, BeginMoves
    <3> QED
      BY <1>2, <3>1 DEF Becomes, Asked
  <2>2. CASE ~Begin(c)
    <3>1. Running(c)
      BY <2>2, CallFrame
    <3>2. call'[c].want = call[c].want /\ (Return(c) => call'[c].stage = "returned")
      <4>1. CASE SetupMerge(c)
        BY <4>1, MergeMoves DEF Becomes, SetupMerge, Return
      <4>2. CASE SetupNew(c)
        BY <4>2, NewMoves DEF Becomes, SetupNew, Return
      <4>3. CASE StoreOutput(c)
        BY <4>3, StoreMoves DEF Moves, Becomes, StoreOutput, Return
      <4>4. CASE ~SetupMerge(c) /\ ~SetupNew(c) /\ ~StoreOutput(c)
        <5>1. \E stage : Goto(c, stage) /\ (Return(c) => stage = "returned")
          <6>1. CASE Return(c)
            BY <6>1 DEF Return
          <6>2. CASE ~Return(c)
            BY <2>2, <4>4, <6>2, Zenon DEF CallActs, SetupThrows, FindTransaction, InsertTransaction,
               GetProvenOrReq, AddLabels, TagOutput, CutOff
          <6> QED
            BY <6>1, <6>2
        <5> QED
          BY <5>1, GotoMoves DEF Moves, Becomes
      <4> QED
        BY <4>1, <4>2, <4>3, <4>4
    <3>3. ~Return(c)
      BY <1>2, <3>2 DEF Running
    <3>4. expected'[o] = expected[o] /\ o[2] \in Asked(c)
      BY <1>2, <2>2, <3>2, <3>3, CallOutputs DEF Asked
    <3> QED
      BY <1>2, <3>1, <3>4 DEF AskedInv, AskedIsOpen
  <2> QED
    BY <2>1, <2>2
<1> QED
  BY <1>1, <1>2

\* What a call has stored so far, as it will be said of the next state.
Stores(d) ==
    /\ call[d].stage \in {"store", "tag", "return"} => call[d].row \in labelled
    /\ call[d].left \subseteq Asked(d)
    /\ call[d].stage = "return" => call[d].left = {}
    /\ \A v \in Asked(d) \ call[d].left : expected[<<call[d].row, v>>] # "mixed" => Fits(d, v)
    /\ \A v \in call[d].left : call[d].found[v] # "none" => Stored(<<call[d].row, v>>)

\* Another call of the user does not run, and one of another user stores in another row.
LEMMA OtherCallsStores ==
    ASSUME Typed, RowInv, PlaceInv, NEW c \in Calls, CallActs(c), NEW d \in Calls, d # c,
           Placing(d), Stores(d)
    PROVE  Stores(d)'
<1>1. call'[d] = call[d]
  BY CallFrame
<1>2. /\ Running(d) /\ UserOf[call[d].row] = UserOf[d] /\ call[d].row \in Rows
      /\ call[d].left \subseteq Vouts
  BY DEF PlaceInv, PlacesOwn, Placing, Running, Typed, TypeOK, Informed, CallType
<1>3. ASSUME NEW v \in Vouts
      PROVE  LET o == <<call[d].row, v>>
             IN  outs'[o] = outs[o] /\ expected'[o] = expected[o]
  <2> DEFINE o == <<call[d].row, v>>
  <2>1. o \in Outputs /\ o[1] = call[d].row
    BY <1>2 DEF Outputs
  <2> HIDE DEF o
  <2>2. call[c].stage \in {"store", "tag", "return"} => o[1] # call[c].row
    <3> SUFFICES ASSUME call[c].stage \in {"store", "tag", "return"}, o[1] = call[c].row
                 PROVE  FALSE
      OBVIOUS
    <3>1. UserOf[call[c].row] = UserOf[c] /\ Running(c)
      BY DEF PlaceInv, PlacesOwn, Placing, Running
    <3> QED
      BY <1>2, <2>1, <3>1, OneWriter
  <2>3. Begin(c) => UserOf[o[1]] # UserOf[c]
    BY <1>2, <2>1 DEF Begin, Free
  <2>4. outs'[o] = outs[o] /\ expected'[o] = expected[o]
    BY <2>1, <2>2, <2>3, CallOutputs
  <2> QED
    BY <2>4 DEF o
<1>4. call[d].row \in labelled => call[d].row \in labelled'
  BY <1>2, CallRows
<1>5. Asked(d)' = Asked(d) /\ Asked(d) \subseteq Vouts
  BY <1>1 DEF Asked
<1>6. \A v \in Vouts : (Fits(d, v)' <=> Fits(d, v)) /\ (Stored(<<call[d].row, v>>)' <=> Stored(<<call[d].row, v>>))
  BY <1>1, <1>3 DEF Fits, Stored
<1> QED
  BY <1>1, <1>2, <1>3, <1>4, <1>5, <1>6 DEF Stores
\* A call stores what it was asked to, one output after the other.
LEMMA OwnStores ==
    ASSUME Typed, PlaceInv, AskedInv, NEW c \in Calls, CallActs(c),
           Placing(c)', PurgedAlone(call'[c].row)
    PROVE  Stores(c)'
<1>t. /\ call[c] \in CallType /\ call[c].left \subseteq Vouts /\ Asked(c) \subseteq Vouts
      /\ outs \in [Outputs -> OutType]
  BY DEF Typed, TypeOK, CallType, Asked
<1>s. Placing(c) /\ PurgedAlone(call[c].row) => Stores(c)
  BY DEF AskedInv, StoresAsked, Stores
<1>1. CASE InsertTransaction(c)
  <2>1. Moves(c, "req") /\ call[c].stage = "insert"
    BY <1>1, GotoMoves DEF InsertTransaction
  <2>2. call[c].left = Asked(c) /\ \A v \in Vouts : call[c].found[v] = "none"
    BY <2>1 DEF PlaceInv, OwnRow
  <2>3. Asked(c)' = Asked(c) /\ call'[c].left = Asked(c) /\ call'[c].stage = "req"
        /\ call'[c].found = call[c].found
    BY <2>1, <2>2 DEF Moves, Becomes, Asked
  <2> QED
    BY <1>t, <2>2, <2>3 DEF Stores
<1>2. CASE SetupMerge(c)
  <2>1. PICK r, found, left :
             /\ r \in RowsOf(UserOf[c])
             /\ Becomes(c, "label", call[c].want, r, found, left)
             /\ \A v \in Vouts : found[v] = outs[<<r, v>>].basket
             /\ left = {v \in Asked(c) : ~(call[c].want[v] = "payment" /\ found[v] = "default")}
    BY <1>2, MergeMoves
  <2>2. /\ Asked(c)' = Asked(c) /\ call'[c].left = left /\ call'[c].stage = "label"
        /\ call'[c].want = call[c].want /\ call'[c].row = r /\ call'[c].found = found
        /\ UNCHANGED outs
    BY <1>2, <2>1 DEF Becomes, Asked, SetupMerge, CallOnly, records
  <2>3. ASSUME NEW v \in Asked(c) \ left PROVE Fits(c, v)'
    BY <1>t, <2>1, <2>2, <2>3 DEF Fits
  <2>4. ASSUME NEW v \in left, found[v] # "none" PROVE Stored(<<r, v>>)'
    BY <1>t, <2>1, <2>2, <2>4 DEF Stored
  <2>5. left \subseteq Asked(c)
    BY <2>1
  <2> QED
    BY <2>2, <2>3, <2>4, <2>5 DEF Stores
<1>3. CASE GetProvenOrReq(c) \/ AddLabels(c) \/ TagOutput(c)
  <2>1. Placing(c) /\ call[c].stage \in {"req", "label", "tag"}
    BY <1>3 DEF GetProvenOrReq, AddLabels, TagOutput, Placing
  <2>2. PICK stage \in {"label", "store", "return"} :
          /\ Moves(c, stage)
          /\ stage = "return" => call[c].left = {}
          /\ GetProvenOrReq(c) => stage = "label"
          /\ AddLabels(c) \/ TagOutput(c) => stage # "label"
    <3>1. CASE GetProvenOrReq(c)
      BY <3>1, GotoMoves DEF GetProvenOrReq, AddLabels, TagOutput
    <3>2. CASE AddLabels(c)
      BY <3>2, GotoMoves DEF GetProvenOrReq, AddLabels, AfterStore
    <3>3. CASE TagOutput(c)
      BY <3>3, GotoMoves DEF GetProvenOrReq, TagOutput, AfterStore
    <3> QED
      BY <1>3, <3>1, <3>2, <3>3
  <2>3. /\ Asked(c)' = Asked(c) /\ call'[c].left = call[c].left /\ call'[c].stage = stage
        /\ call'[c].want = call[c].want /\ call'[c].row = call[c].row
        /\ call'[c].found = call[c].found
    BY <2>2 DEF Moves, Becomes, Asked
  <2>4. Stores(c) /\ call[c].row \in Rows
    BY <1>s, <2>1, <2>3 DEF Placing, Typed, Informed
  <2>5. stage \in {"store", "return"} => call[c].row \in labelled'
    <3>1. CASE GetProvenOrReq(c)
      BY <2>2, <3>1
    <3>2. CASE AddLabels(c)
      BY <3>2 DEF AddLabels
    <3>3. CASE TagOutput(c)
      BY <2>4, <3>3 DEF TagOutput, Stores
    <3> QED
      BY <1>3, <3>1, <3>2, <3>3
  <2>6. UNCHANGED expected
    BY <1>3 DEF GetProvenOrReq, AddLabels, TagOutput
  <2>7. ASSUME NEW v \in Vouts
        PROVE  LET o == <<call[c].row, v>>
               IN  /\ outs'[o].basket = outs[o].basket
                   /\ outs[o].tagged => outs'[o].tagged
                   /\ TagOutput(c) /\ v \in Asked(c) \ call[c].left /\ call[c].found[v] = "none"
                      /\ call[c].want[v] = "insertion" => outs'[o].tagged
    <3> DEFINE o == <<call[c].row, v>>
    <3>1. o \in Outputs /\ o[1] = call[c].row /\ o[2] = v /\ outs[o] \in OutType
      BY <1>t, <2>4 DEF Outputs
    <3> HIDE DEF o
    <3>2. CASE TagOutput(c)
      <4>1. outs'[o] = IF o[2] \in Asked(c) \ call[c].left
                          /\ call[c].found[o[2]] = "none" /\ call[c].want[o[2]] = "insertion"
                       THEN [outs[o] EXCEPT !.tagged = TRUE] ELSE outs[o]
        BY <3>1, <3>2 DEF TagOutput
      <4> QED
        BY <3>1, <4>1 DEF OutType, o
    <3>3. CASE ~TagOutput(c)
      <4>1. UNCHANGED outs
        BY <1>3, <3>3 DEF GetProvenOrReq, AddLabels, records
      <4> QED
        BY <3>3, <4>1 DEF o
    <3> QED
      BY <3>2, <3>3
  <2>8. ASSUME NEW v \in Asked(c) \ call[c].left, Fits(c, v) PROVE Fits(c, v)'
    <3>1. v \in Vouts /\ (call[c].want[v] # "payment" => call[c].want[v] = "insertion")
      <4>1. call[c].want \in [Vouts -> {"no", "payment", "insertion"}]
        BY <2>1, CallsAssumption DEF Typed, Informed, Running
      <4> QED
        BY <4>1 DEF Asked
    <3>2. CASE TagOutput(c)
      BY <2>3, <2>7, <2>8, <3>1, <3>2 DEF Fits
    <3>3. CASE ~TagOutput(c)
      <4>1. call[c].stage # "tag"
        BY <1>3, <3>3 DEF GetProvenOrReq, AddLabels
      <4> QED
        BY <2>3, <2>7, <2>8, <3>1, <4>1 DEF Fits
    <3> QED
      BY <3>2, <3>3
  <2>9. \A v \in Vouts : Stored(<<call[c].row, v>>)' <=> Stored(<<call[c].row, v>>)
    BY <2>3, <2>7 DEF Stored
  <2> QED
    BY <1>t, <2>2, <2>3, <2>4, <2>5, <2>6, <2>8, <2>9 DEF Stores
<1>4. CASE StoreOutput(c)
  <2>1. Placing(c) /\ call[c].stage = "store" /\ UNCHANGED <<labelled, expected>>
    BY <1>4 DEF StoreOutput, Placing
  <2>2. PICK v \in call[c].left :
             LET o == <<call[c].row, v>>
                 payment == call[c].want[v] = "payment"
                 left == call[c].left \ {v}
             IN  /\ v \in Vouts /\ o \in Outputs
                 /\ \A p \in Outputs : p # o => outs'[p] = outs[p]
                 /\ \/ /\ call[c].found[v] = "none" /\ ~Stored(o)
                       /\ outs'[o] = IF payment THEN Change ELSE Custom
                       /\ Becomes(c, IF payment THEN AfterStore(c, left) ELSE "tag",
                                  call[c].want, call[c].row, call[c].found, left)
                    \/ outs' = outs /\ Moves(c, "threw")
                    \/ /\ call[c].found[v] # "none"
                       /\ outs'[o].spendable = outs[o].spendable
                       /\ outs'[o].tagged = outs[o].tagged
                       /\ outs'[o].basket = IF Stored(o)
                                            THEN IF payment THEN "default" ELSE "custom"
                                            ELSE outs[o].basket
                       /\ outs'[o].change = IF Stored(o) THEN payment ELSE outs[o].change
                       /\ Becomes(c, AfterStore(c, left), call[c].want, call[c].row, call[c].found,
                                  left)
    BY <1>4, StoreMoves
  <2> DEFINE left == call[c].left \ {v}
             payment == call[c].want[v] = "payment"
             R == call[c].row
  <2>3. ~Moves(c, "threw")
    BY DEF Moves, Becomes, Placing
  <2>4. PICK stage \in {"tag", "return", "store"} :
          /\ Becomes(c, stage, call[c].want, call[c].row, call[c].found, left)
          /\ stage = "return" => left = {}
          /\ call[c].found[v] = "none" /\ ~payment => stage = "tag"
    BY <2>2, <2>3 DEF AfterStore
  <2>5. /\ Asked(c)' = Asked(c) /\ call'[c].left = left /\ call'[c].stage = stage
        /\ call'[c].want = call[c].want /\ call'[c].row = call[c].row
        /\ call'[c].found = call[c].found
    BY <2>4 DEF Becomes, Asked
  <2>6. Stores(c) /\ call[c].row \in Rows
    BY <1>s, <2>1, <2>5 DEF Placing, Typed, Informed
  <2>7. outs'[<<call[c].row, v>>].basket = IF payment THEN "default" ELSE "custom"
    <3>1. call[c].found[v] # "none" => Stored(<<call[c].row, v>>)
      BY <2>6 DEF Stores
    <3>2. Change.basket = "default" /\ Custom.basket = "custom"
      BY DEF Change, Custom
    <3> QED
      BY <2>2, <2>3, <3>1, <3>2
  <2>8. Fits(c, v)'
    BY <2>4, <2>5, <2>7 DEF Fits
  <2>9. ASSUME NEW w \in Vouts, w # v
        PROVE  outs'[<<call[c].row, w>>] = outs[<<call[c].row, w>>]
    <3>1. <<call[c].row, w>> \in Outputs /\ <<call[c].row, w>> # <<call[c].row, v>>
      BY <2>6, <2>9 DEF Outputs
    <3> QED
      BY <2>2, <3>1
  <2>10. ASSUME NEW w \in Asked(c) \ call[c].left, Fits(c, w) PROVE Fits(c, w)'
    <3>1. w \in Vouts /\ w # v
      BY <1>t, <2>2
    <3> QED
      BY <2>1, <2>5, <2>9, <2>10, <3>1 DEF Fits
  <2>11. ASSUME NEW w \in left, Stored(<<call[c].row, w>>) PROVE Stored(<<call[c].row, w>>)'
    <3>1. w \in Vouts /\ w # v
      BY <1>t
    <3> QED
      BY <2>5, <2>9, <2>11, <3>1 DEF Stored
  <2>12. call[c].row \in labelled'
    BY <2>1, <2>6 DEF Stores
  <2> HIDE DEF payment
  <2> QED
    BY <2>1, <2>4, <2>5, <2>6, <2>8, <2>10, <2>11, <2>12 DEF Stores
<1>5. CASE ~InsertTransaction(c) /\ ~SetupMerge(c) /\ ~GetProvenOrReq(c) /\ ~AddLabels(c)
           /\ ~TagOutput(c) /\ ~StoreOutput(c)
  <2>1. CASE Begin(c)
    BY <2>1, BeginMoves DEF Becomes, Placing
  <2>2. CASE SetupNew(c)
    BY <2>2, NewMoves DEF Becomes, Placing
  <2>3. CASE SetupThrows(c) \/ FindTransaction(c) \/ Return(c) \/ CutOff(c)
    <3>1. \E stage \in {"threw", "insert", "returned"} : Moves(c, stage)
      BY <2>3, GotoMoves DEF SetupThrows, FindTransaction, Return, CutOff
    <3> QED
      BY <3>1 DEF Moves, Becomes, Placing
  <2> QED
    BY <1>5, <2>1, <2>2, <2>3 DEF CallActs
<1> QED
  BY <1>1, <1>2, <1>3, <1>4, <1>5

LEMMA CallsKeepAskedInv ==
    ASSUME Typed, RowInv, PlaceInv, AskedInv, NEW c \in Calls, CallActs(c)
    PROVE  AskedInv'
<1>1. ChangeIsDefault' /\ AskedIsOpen'
  BY CallsKeepChange, CallsKeepOpen DEF AskedInv
<1>2. ASSUME NEW d \in Calls, Placing(d)', PurgedAlone(call'[d].row)
      PROVE  Stores(d)'
  <2>1. CASE d = c
    BY <1>2, <2>1, OwnStores
  <2>2. CASE d # c
    <3>1. call'[d] = call[d]
      BY <2>2, CallFrame
    <3>2. Placing(d) /\ Stores(d)
      BY <1>2, <3>1 DEF Placing, AskedInv, StoresAsked, Stores
    <3> QED
      BY <2>2, <3>2, OtherCallsStores
  <2> QED
    BY <2>1, <2>2
<1>3. StoresAsked'
  BY <1>2 DEF StoresAsked, Stores, PurgedAlone
<1> QED
  BY <1>1, <1>3 DEF AskedInv
LEMMA OthersKeepAskedInv ==
    ASSUME Typed, PurgeInv, PlaceInv, AskedInv, OtherActs
    PROVE  AskedInv'
<1>1. UNCHANGED call
  BY OtherCalls
<1>t. outs \in [Outputs -> OutType]
  BY DEF Typed, TypeOK
<1>2. ChangeIsDefault'
  <2> SUFFICES ASSUME NEW o \in Outputs
               PROVE  /\ outs'[o].basket = "default" => outs'[o].change
                      /\ outs'[o].basket = "custom" => ~outs'[o].change
    BY DEF ChangeIsDefault
  <2>1. \/ outs'[o].basket = outs[o].basket /\ outs'[o].change = outs[o].change
        \/ outs'[o] = [outs[o] EXCEPT !.basket = "null"] \/ outs'[o] = NoOut
    BY OtherOutputs
  <2>2. \/ outs'[o].basket = outs[o].basket /\ outs'[o].change = outs[o].change
        \/ outs'[o].basket \in {"null", "none"}
    BY <1>t, <2>1 DEF OutType, NoOut
  <2> QED
    BY <2>2 DEF AskedInv, ChangeIsDefault
<1>3. AskedIsOpen'
  <2> SUFFICES ASSUME NEW d \in Calls, Running(d), NEW o \in Outputs,
                      UserOf[o[1]] = UserOf[d], o[2] \in Asked(d)
               PROVE  expected'[o] \in {"any", "mixed"}
    BY <1>1 DEF AskedIsOpen, Running, Asked
  <2> QED
    BY OtherOutputs DEF AskedInv, AskedIsOpen
<1>4. StoresAsked'
  <2> SUFFICES ASSUME NEW d \in Calls, Placing(d), PurgedAlone(call[d].row)
               PROVE  Stores(d)'
    BY <1>1 DEF StoresAsked, Stores, Placing, PurgedAlone
  <2>1. /\ Running(d) /\ UserOf[call[d].row] = UserOf[d] /\ call[d].row \in Rows
        /\ call[d].left \subseteq Vouts /\ Asked(d) \subseteq Vouts
        /\ txs[call[d].row].status \in TxStatusOk
    BY DEF PlaceInv, PlacesOwn, Placing, Running, Typed, TypeOK, Informed, CallType, Asked
  <2>2. purge.stage \in {"delete", "transactions"} => call[d].row \notin purge.rows
    BY RowIsSafe
  <2>3. call[d].row \in labelled => call[d].row \in labelled'
    BY <2>1, <2>2, OtherRows DEF TxStatusOk
  <2>4. ASSUME NEW v \in Vouts
        PROVE  LET o == <<call[d].row, v>>
               IN  \/ /\ outs'[o].basket = outs[o].basket /\ outs'[o].tagged = outs[o].tagged
                      /\ expected'[o] = expected[o]
                   \/ Stored(o) /\ Stored(o)' /\ expected'[o] = "mixed"
    <3> DEFINE o == <<call[d].row, v>>
    <3>1. o \in Outputs /\ o[1] = call[d].row
      BY <2>1 DEF Outputs
    <3>2. ~(PurgeFailed /\ txs[o[1]].status = "failed")
      BY <2>1, <3>1 DEF TxStatusOk
    <3>3. ~(purge.stage = "delete" /\ o[1] \in purge.rows)
      BY <2>2, <3>1
    <3>4. CASE Stored(o) /\ outs'[o] = [outs[o] EXCEPT !.basket = "null"] /\ expected'[o] = "mixed"
      <4>1. outs'[o].basket = "null"
        BY <1>t, <3>1, <3>4 DEF OutType
      <4> QED
        BY <1>1, <3>4, <4>1 DEF Stored
    <3>5. \E c \in Calls : UserOf[c] = UserOf[o[1]] /\ Running(c)
      BY <2>1, <3>1
    <3>6. \/ /\ outs'[o].basket = outs[o].basket /\ outs'[o].tagged = outs[o].tagged
             /\ expected'[o] = expected[o]
          \/ Stored(o) /\ outs'[o] = [outs[o] EXCEPT !.basket = "null"] /\ expected'[o] = "mixed"
      <4> HIDE DEF o
      <4> QED BY <3>1, <3>2, <3>3, <3>5, OtherOutputs
    <3> QED
      BY <3>4, <3>6
  <2>5. Stores(d)
    BY DEF AskedInv, StoresAsked, Stores
  <2>6. Asked(d)' = Asked(d)
    BY <1>1 DEF Asked
  <2>7. ASSUME NEW v \in Asked(d) \ call[d].left,
               expected'[<<call[d].row, v>>] # "mixed"
        PROVE  Fits(d, v)'
    <3>1. v \in Vouts
      BY <2>1
    <3>2. Fits(d, v)
      BY <2>4, <2>5, <2>7, <3>1 DEF Stores
    <3> QED
      BY <1>1, <2>4, <2>7, <3>1, <3>2 DEF Fits
  <2>8. ASSUME NEW v \in call[d].left, Stored(<<call[d].row, v>>)
        PROVE  Stored(<<call[d].row, v>>)'
    <3>1. v \in Vouts
      BY <2>1
    <3> QED
      BY <1>1, <2>4, <2>8, <3>1 DEF Stored
  <2> QED
    BY <1>1, <2>3, <2>5, <2>6, <2>7, <2>8 DEF Stores
<1> QED
  BY <1>2, <1>3, <1>4 DEF AskedInv
-----------------------------------------------------------------------------
(* What is found.                                                          *)

\* What is expected of an output.
Found(o) ==
    /\ expected[o] = "default" => outs[o].basket = "default"
    /\ expected[o] \in {"custom", "tagged"} => outs[o].basket = "custom"
    /\ expected[o] = "tagged" => outs[o].tagged
    /\ expected[o] = "null" => outs[o].basket = "null"
    /\ expected[o] \in {"default", "custom", "tagged"} =>
           o[1] \in labelled /\ txs[o[1]].status \in TxStatusOk

LEMMA CallsKeepFoundInv ==
    ASSUME Typed, PlaceInv, AskedInv, FoundInv, NEW c \in Calls, CallActs(c)
    PROVE  FoundInv'
<1> SUFFICES ASSUME NEW o \in Outputs, PurgedAlone(o[1])
             PROVE  Found(o)'
  BY DEF FoundInv, Found, PurgedAlone
<1>1. Found(o)
  BY DEF FoundInv, Found
<1>2. /\ o[1] \in Rows /\ outs[o] \in OutType
      /\ o[1] \in labelled => o[1] \in labelled'
      /\ txs[o[1]].status \in TxStatusOk => txs'[o[1]].status \in TxStatusOk
  <2>1. o[1] \in Rows /\ outs[o] \in OutType
    BY DEF Outputs, Typed, TypeOK
  <2> QED
    BY <2>1, CallRows DEF TxStatusOk
<1>3. CASE /\ Return(c) /\ call[c].stage = "return" /\ o[1] = call[c].row
           /\ o[2] \in Asked(c) /\ expected'[o] = Delivered(c, o)
  <2>1. UNCHANGED <<records, outs>> /\ Placing(c) /\ Running(c)
    BY <1>3 DEF Return, Placing, Running, records
  <2>2. UserOf[o[1]] = UserOf[c] /\ txs[o[1]].status \in TxStatusOk
    BY <1>3, <2>1 DEF PlaceInv, PlacesOwn
  <2>3. expected[o] \in {"any", "mixed"}
    BY <1>3, <2>1, <2>2 DEF AskedInv, AskedIsOpen
  <2>4. /\ call[c].left = {} /\ call[c].row \in labelled
        /\ \A v \in Asked(c) : expected[<<call[c].row, v>>] # "mixed" => Fits(c, v)
    BY <1>3, <2>1 DEF AskedInv, StoresAsked
  <2>5. o = <<call[c].row, o[2]>>
    BY <1>3 DEF Outputs
  <2>6. expected[o] # "mixed" => Fits(c, o[2])
    BY <1>3, <2>4, <2>5
  <2>7. CASE expected[o] = "mixed"
    <3>1. expected'[o] = "any"
      BY <1>3, <2>7 DEF Delivered
    <3> QED
      BY <3>1 DEF Found
  <2>8. CASE expected[o] # "mixed"
    <3>1. IF call[c].want[o[2]] = "payment" THEN outs[o].basket = "default"
          ELSE /\ outs[o].basket = "custom"
               /\ call[c].found[o[2]] = "none" => outs[o].tagged
      BY <1>3, <2>5, <2>6, <2>8 DEF Fits
    <3>2. expected'[o] = IF call[c].want[o[2]] = "payment" THEN "default"
                         ELSE IF call[c].found[o[2]] = "none" THEN "tagged" ELSE "custom"
      BY <1>3, <2>8 DEF Delivered
    <3>3. o[1] \in labelled' /\ txs'[o[1]].status \in TxStatusOk /\ outs'[o] = outs[o]
      BY <1>2, <1>3, <2>1, <2>2, <2>4
    <3> QED
      BY <3>1, <3>2, <3>3 DEF Found
  <2> QED
    BY <2>7, <2>8
<1>4. CASE /\ StoreOutput(c) /\ call[c].stage = "store"
           /\ o[1] = call[c].row /\ o[2] \in call[c].left
  <2>1. UNCHANGED expected /\ Placing(c) /\ Running(c)
    BY <1>4 DEF StoreOutput, Placing, Running
  <2>2. UserOf[o[1]] = UserOf[c]
    BY <1>4, <2>1 DEF PlaceInv, PlacesOwn
  <2>3. call[c].left \subseteq Asked(c)
    BY <1>4, <2>1 DEF AskedInv, StoresAsked
  <2>4. expected[o] \in {"any", "mixed"}
    BY <1>4, <2>1, <2>2, <2>3 DEF AskedInv, AskedIsOpen
  <2> QED
    BY <2>1, <2>4 DEF Found
<1>5. CASE expected'[o] = "any"
  BY <1>5 DEF Found
<1>6. CASE /\ expected'[o] = expected[o]
           /\ outs'[o] = outs[o] \/ outs'[o] = [outs[o] EXCEPT !.tagged = TRUE]
  <2>1. outs'[o].basket = outs[o].basket /\ (outs[o].tagged => outs'[o].tagged)
    BY <1>2, <1>6 DEF OutType
  <2> QED
    BY <1>1, <1>2, <1>6, <2>1 DEF Found
<1> QED
  BY <1>3, <1>4, <1>5, <1>6, CallOutputs

LEMMA OthersKeepFoundInv ==
    ASSUME Typed, PurgeInv, FoundInv, OtherActs
    PROVE  FoundInv'
<1> SUFFICES ASSUME NEW o \in Outputs, PurgedAlone(o[1])
             PROVE  Found(o)'
  BY DEF FoundInv, Found, PurgedAlone
<1>1. Found(o)
  BY DEF FoundInv, Found
<1>2. o[1] \in Rows /\ outs[o] \in OutType
  BY DEF Outputs, Typed, TypeOK
<1>3. CASE expected'[o] \in {"any", "mixed"}
  BY <1>3 DEF Found
<1>4. CASE expected'[o] = "null" /\ outs'[o] = [outs[o] EXCEPT !.basket = "null"]
  <2>1. outs'[o].basket = "null"
    BY <1>2, <1>4 DEF OutType
  <2> QED
    BY <1>4, <2>1 DEF Found
<1>5. CASE /\ expected'[o] = expected[o] /\ outs'[o].basket = outs[o].basket
           /\ outs'[o].tagged = outs[o].tagged
  <2>1. expected[o] \in {"default", "custom", "tagged"} =>
            o[1] \in labelled' /\ txs'[o[1]].status \in TxStatusOk
    <3> SUFFICES ASSUME expected[o] \in {"default", "custom", "tagged"}
                 PROVE  o[1] \in labelled' /\ txs'[o[1]].status \in TxStatusOk
      OBVIOUS
    <3>1. o[1] \in labelled /\ txs[o[1]].status \in TxStatusOk
      BY <1>1 DEF Found
    <3>2. ~(purge.stage = "transactions" /\ o[1] \in purge.rows)
      BY DEF PurgeInv, PurgesUnspendable
    <3> QED
      BY <1>2, <3>1, <3>2, OtherRows DEF TxStatusOk
  <2> QED
    BY <1>1, <1>5, <2>1 DEF Found
<1> QED
  BY <1>3, <1>4, <1>5, OtherOutputs
-----------------------------------------------------------------------------
(* The invariance, and what follows.                                       *)

LEMMA StepIInv == IInv /\ [Next]_vars => IInv'
<1> SUFFICES ASSUME IInv, [Next]_vars PROVE IInv'
  OBVIOUS
<1>i. /\ Typed /\ RowInv /\ PurgeInv /\ PlaceInv /\ SpendInv /\ KnownInv /\ AskedInv /\ FoundInv
      /\ Typed' /\ RowInv'
  BY StepTyped, StepRowInv DEF IInv
<1>1. ASSUME NEW c \in Calls, CallActs(c) PROVE IInv'
  BY <1>i, <1>1, CallsKeepPurgeInv, CallsKeepPlaceInv, CallsKeepSpendInv, CallsKeepKnownInv,
     CallsKeepAskedInv, CallsKeepFoundInv DEF IInv
<1>2. CASE OtherActs
  BY <1>i, <1>2, OthersKeepPurgeInv, OthersKeepPlaceInv, OthersKeepSpendInv, OthersKeepKnownInv,
     OthersKeepAskedInv, OthersKeepFoundInv DEF IInv
<1>3. CASE UNCHANGED vars
  <2>1. UNCHANGED <<txs, outs, labelled, req, proof, call, spend, purge, count, expected, unpursued>>
    BY <1>3 DEF vars, records
  <2>2. \A o \in Outputs : (Held(o)' <=> Held(o)) /\ (Stored(o)' <=> Stored(o))
    BY <2>1 DEF Held, Stored
  <2>3. PurgeInv'
    BY <1>i, <2>1 DEF PurgeInv, OnlyOldEnds, PurgesOld, PurgeIsAlone, PurgesUnspendable, Running,
                      PurgedAlone, Stored
  <2>4. PlaceInv'
    BY <1>i, <2>1 DEF PlaceInv, OwnRow, PlacesOwn, Placing, PurgedAlone, Stored, Asked
  <2>5. SpendInv' /\ KnownInv'
    BY <1>i, <2>1, <2>2 DEF SpendInv, SpendsOwn, HeldIsThere, SpendableIffFree, PurgedAlone,
                            KnownInv
  <2>6. AskedInv' /\ FoundInv'
    BY <1>i, <2>1 DEF AskedInv, ChangeIsDefault, AskedIsOpen, StoresAsked, Asked, Running, Placing,
                      PurgedAlone, Stored, Fits, FoundInv
  <2> QED
    BY <1>i, <2>3, <2>4, <2>5, <2>6 DEF IInv
<1> QED
  BY <1>1, <1>2, <1>3 DEF Next, CallActs, OtherActs

LEMMA Invariance == Spec => []IInv
BY InitIInv, StepIInv, PTL DEF Spec

\* An output of a user whose manager runs the purge, or of a row that no purge takes, is
\* spendable exactly while no action that has not failed spends it: whatever calls store it
\* again, in which basket, and whichever actions are sent, given up and purged meanwhile.
THEOREM SpendableWhileFree == Spec => []SpendableIffFree
<1>1. IInv => SpendableIffFree
  BY DEF IInv, SpendInv
<1> QED
  BY Invariance, <1>1, PTL

\* Whatever is listed has a proof or a req, unless its call was cut off between the two
\* inserts or its req was purged: no order of proofs, purges and calls loses it otherwise.
THEOREM ListedHasProofOrReq == Spec => []ListedIsKnown
<1>1. IInv => ListedIsKnown
  <2> SUFFICES ASSUME IInv, NEW u \in Users, NEW basket \in {"default", "custom"},
                      NEW o \in ListOutputs(u, basket)
               PROVE  o[1] \in unpursued \/ proof \/ req.status # "none"
    BY DEF ListedIsKnown
  <2>1. /\ o \in Outputs /\ o[1] \in Rows /\ o[2] \in Vouts /\ o = <<o[1], o[2]>>
        /\ txs[o[1]].status \in TxStatusOk /\ Stored(o)
    BY DEF ListOutputs, Outputs, Stored
  <2>2. ~(o[1] \in Calls /\ call[o[1]].stage = "req")
    BY <2>1 DEF IInv, PlaceInv, OwnRow
  <2> QED
    BY <2>1, <2>2 DEF IInv, KnownInv
<1> QED
  BY Invariance, <1>1, PTL

\* What internalizeAction said that it stored is listed where it was asked to be, or held
\* by an action, for every interleaving of calls, proofs, spending and purges.
THEOREM WhatReturnedIsListed == Spec => []ReturnedIsListed
<1>1. IInv => ReturnedIsListed
  <2> SUFFICES ASSUME IInv, NEW o \in Outputs, PurgedAlone(o[1])
               PROVE  LET user == UserOf[o[1]]
                          Listed(basket) == o \in ListOutputs(user, basket) \/ Held(o)
                      IN  /\ expected[o] = "default" => Listed("default") /\ outs[o].change
                          /\ expected[o] \in {"custom", "tagged"} =>
                                 Listed("custom") /\ ~outs[o].change
                          /\ expected[o] = "tagged" => o \in ListTagged(user, "custom") \/ Held(o)
                          /\ expected[o] \in {"default", "custom", "tagged"} =>
                                 o[1] \in ListActions(user)
                          /\ expected[o] = "null" => outs[o].basket = "null"
    BY DEF ReturnedIsListed
  <2>1. Found(o)
    BY DEF IInv, FoundInv, Found
  <2>2. /\ outs[o].basket = "default" => outs[o].change
        /\ outs[o].basket = "custom" => ~outs[o].change
    BY DEF IInv, AskedInv, ChangeIsDefault
  <2>3. Stored(o) => outs[o].spendable \/ Held(o)
    BY DEF IInv, SpendInv, SpendableIffFree
  <2>4. ASSUME NEW basket \in {"default", "custom"}, outs[o].basket = basket,
               txs[o[1]].status \in TxStatusOk
        PROVE  o \in ListOutputs(UserOf[o[1]], basket) \/ Held(o)
    BY <2>3, <2>4 DEF ListOutputs, Stored
  <2>5. o[1] \in labelled /\ txs[o[1]].status \in TxStatusOk => o[1] \in ListActions(UserOf[o[1]])
    BY DEF ListActions
  <2> QED
    BY <2>1, <2>2, <2>4, <2>5 DEF Found, ListTagged
<1> QED
  BY Invariance, <1>1, PTL

\* The purge takes no output of its manager's users that nobody spends, though it reads
\* what is spendable in one step and deletes in another.
THEOREM PurgeTakesSpentOnly == Spec => PurgedIsHeld
<1>1. IInv /\ [Next]_vars =>
          [\A o \in Outputs : /\ PurgedAlone(o[1])
                              /\ Stored(o) /\ outs'[o].basket = "none"
                              /\ txs[o[1]].status # "failed"
                              => Held(o)]_vars
  <2> SUFFICES ASSUME IInv, Next, NEW o \in Outputs, PurgedAlone(o[1]), Stored(o),
                      outs'[o].basket = "none", txs[o[1]].status # "failed"
               PROVE  Held(o)
    OBVIOUS
  <2>t. Typed /\ outs[o] \in OutType
    BY DEF IInv, Typed, TypeOK
  <2>1. ASSUME NEW c \in Calls, CallActs(c) PROVE FALSE
    <3>1. CASE outs'[o] = outs[o] \/ outs'[o] = [outs[o] EXCEPT !.tagged = TRUE]
      BY <2>t, <3>1 DEF Stored, OutType
    <3>2. CASE StoreOutput(c)
      <4>1. PICK v \in call[c].left :
              LET p == <<call[c].row, v>>
              IN  /\ \A q \in Outputs : q # p => outs'[q] = outs[q]
                  /\ \/ outs'[p] \in {Change, Custom} \/ outs' = outs
                     \/ outs'[p].basket \in {"default", "custom"}
                     \/ outs'[p].basket = outs[p].basket
        BY <2>t, <3>2, StoreMoves
      <4>2. Change.basket = "default" /\ Custom.basket = "custom"
        BY DEF Change, Custom
      <4> QED
        BY <4>1, <4>2 DEF Stored
    <3> QED
      BY <2>t, <2>1, <3>1, <3>2, CallOutputs
  <2>2. CASE OtherActs
    <3>1. outs'[o] = [outs[o] EXCEPT !.basket = "null"] => outs'[o].basket = "null"
      BY <2>t DEF OutType
    <3>2. purge.stage = "delete" /\ o[1] \in purge.rows
      BY <2>2, <2>t, <3>1, OtherOutputs DEF Stored
    <3>3. ~outs[o].spendable
      BY <3>2 DEF IInv, PurgeInv, PurgesUnspendable
    <3> QED
      BY <3>3 DEF IInv, SpendInv, SpendableIffFree
  <2> QED
    BY <2>1, <2>2 DEF Next, CallActs, OtherActs
<1> QED
  BY Invariance, <1>1, PTL DEF Spec, PurgedIsHeld
=============================================================================

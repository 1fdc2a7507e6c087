------------------------ MODULE NetworkServicesProofs ------------------------
(***************************************************************************)
(* Proofs that a call of the network services fails only when all of the   *)
(* services have failed it, and that exchange rates stay known, for any    *)
(* number of callers, services and retries.                                *)
(***************************************************************************)
EXTENDS NetworkServices, TLAPS

\* The next t services from i on, around the collection.
Ahead(i, t) == {x \in ServiceIds : (i <= x /\ x < i + t) \/ x + ServiceCount < i + t}

\* What has failed a call that is over is all that there was to ask.
AllFailed(c) ==
    CASE c.op \in InTurn -> c.failed = ServiceIds
      [] c.op = "postBeef" -> c.failed = {0, 1} \X ServiceIds
      [] c.op = "fiat" -> c.failed = ServiceIds /\ c.known = "none"
      [] OTHER -> c.failed # {}

\* A call whose index nobody else has moved asks the service at the index, and those that
\* have not failed it yet are the ones it has tries left for.
InTurnInv(ix, c) ==
    c.asked # {} /\ ~c.moved /\ c.op \in InTurn =>
        /\ c.asked = {ix[c.op]}
        /\ c.tries \in 1 .. ServiceCount
        /\ ServiceIds \ c.failed \subseteq Ahead(ix[c.op], c.tries)

\* A call for exchange rates goes by an index of its own.
FiatInv(c) ==
    c.asked # {} /\ c.op = "fiat" =>
        ~c.chaintracks /\ \E i \in ServiceIds :
            /\ c.asked = {i}
            /\ c.tries \in 1 .. ServiceCount
            /\ ServiceIds \ c.failed \subseteq Ahead(i, c.tries)

\* Of a beef that no service took, those it was posted to and its transactions were posted
\* to have failed, but for the ones that have not answered.
PostInv(c) ==
    c.asked # {} /\ c.op = "postBeef" /\ c.answer # "good" =>
        /\ c.retry = 0 => {0} \X (ServiceIds \ c.asked) \subseteq c.failed
        /\ c.retry = 1 => /\ {0} \X ServiceIds \subseteq c.failed
                          /\ {1} \X (ServiceIds \ c.asked) \subseteq c.failed

FailedType(c) ==
    /\ c.op = "postBeef" => c.failed \subseteq {0, 1} \X ServiceIds
    /\ c.op # "postBeef" => c.failed \subseteq ServiceIds

EndInv(c) == c.answer = "bad" => c.asked = {} /\ (~c.moved => AllFailed(c))

CallInv(ix, c) ==
    InTurnInv(ix, c) /\ FiatInv(c) /\ PostInv(c) /\ FailedType(c) /\ EndInv(c)

ServicesInv == TypeOK /\ \A k \in Callers : CallInv(index, call[k])
-----------------------------------------------------------------------------
(* The services in turn.                                                   *)

\* The next service is one of them.
LEMMA AfterIsNext ==
    ASSUME NEW i \in ServiceIds
    PROVE  After(i) \in ServiceIds /\ After(i) = IF i + 1 = ServiceCount THEN 0 ELSE i + 1
<1>1. ServiceCount \in Nat /\ ServiceCount > 0 /\ i \in Nat /\ i < ServiceCount
  BY ServicesAssumption DEF ServiceIds
<1>2. CASE i + 1 = ServiceCount
  <2>1. ServiceCount % ServiceCount = 0
    BY <1>1
  <2> QED BY <1>1, <1>2, <2>1 DEF After, ServiceIds
<1>3. CASE i + 1 < ServiceCount
  <2>1. (i + 1) % ServiceCount = i + 1
    BY <1>1, <1>3
  <2> QED BY <1>1, <1>3, <2>1 DEF After, ServiceIds
<1> QED
  BY <1>1, <1>2, <1>3

\* All of the services are ahead at first.
LEMMA AllAhead ==
    ASSUME NEW i \in ServiceIds
    PROVE  Ahead(i, ServiceCount) = ServiceIds
BY ServicesAssumption DEF Ahead, ServiceIds

\* When one has failed, the others that were ahead are so of the next one.
LEMMA AheadOfNext ==
    ASSUME NEW i \in ServiceIds, NEW t \in Nat
    PROVE  Ahead(i, t) \ {i} \subseteq Ahead(After(i), t - 1)
BY AfterIsNext, ServicesAssumption DEF Ahead, ServiceIds

\* The last one.
LEMMA LastAhead ==
    ASSUME NEW i \in ServiceIds
    PROVE  Ahead(i, 1) = {i}
BY ServicesAssumption DEF Ahead, ServiceIds
-----------------------------------------------------------------------------
(* Changes of one call.                                                    *)

\* A call that keeps the invariant, with the indices as they are.
LEMMA OneCall ==
    ASSUME ServicesInv, NEW k \in Callers, NEW c \in CallType, CallInv(index, c),
           call' = [call EXCEPT ![k] = c], UNCHANGED index, rates' \in Rates
    PROVE  ServicesInv'
<1>1. call' \in [Callers -> CallType] /\ \A j \in Callers : call'[j] = IF j = k THEN c ELSE call[j]
  BY DEF ServicesInv, TypeOK
<1>2. \A j \in Callers : CallInv(index, call'[j])
  BY <1>1, Zenon DEF ServicesInv
<1>3. TypeOK'
  BY <1>1 DEF ServicesInv, TypeOK
<1> QED
  BY <1>2, <1>3, Zenon DEF ServicesInv

\* A call that is marked because its index was moved keeps it, whatever the index is.
LEMMA MarkedCall ==
    ASSUME NEW c \in CallType, NEW ix, NEW ix2, CallInv(ix, c), c.op \in InTurn
    PROVE  [c EXCEPT !.moved = TRUE] \in CallType /\ CallInv(ix2, [c EXCEPT !.moved = TRUE])
<1> DEFINE m == [c EXCEPT !.moved = TRUE]
<1>1. /\ m \in CallType /\ m.moved /\ m.op = c.op /\ m.asked = c.asked /\ m.failed = c.failed
      /\ m.answer = c.answer
  BY DEF CallType
<1>2. m.op # "fiat" /\ m.op # "postBeef"
  BY <1>1 DEF InTurn
<1> HIDE DEF m
<1>3. CallInv(ix2, m)
  BY <1>1, <1>2 DEF CallInv, InTurnInv, FiatInv, PostInv, FailedType, EndInv
<1> QED
  BY <1>1, <1>3 DEF m

\* A call that keeps the invariant, and moves the index of a collection.
LEMMA OneCallMoves ==
    ASSUME ServicesInv, NEW k \in Callers, NEW c \in CallType, NEW op \in InTurn,
           NEW i \in ServiceIds, index' = [index EXCEPT ![op] = i], CallInv(index', c),
           call' = Moved([call EXCEPT ![k] = c], k, op), UNCHANGED rates
    PROVE  ServicesInv'
<1> DEFINE Marked(j) == j # k /\ call[j].op = op /\ call[j].asked # {}
<1>1. index' \in [InTurn -> ServiceIds]
  BY DEF ServicesInv, TypeOK
<1>2. call \in [Callers -> CallType]
  BY DEF ServicesInv, TypeOK
<1>3. call' = [j \in Callers |-> IF j = k THEN c
                                 ELSE IF Marked(j) THEN [call[j] EXCEPT !.moved = TRUE]
                                 ELSE call[j]]
  BY <1>2 DEF Moved
<1>4. ASSUME NEW j \in Callers
      PROVE  call'[j] \in CallType /\ CallInv(index', call'[j])
  <2>1. CASE j = k
    BY <1>3, <2>1, Zenon
  <2>2. CASE Marked(j)
    <3>1. call[j] \in CallType /\ CallInv(index, call[j]) /\ call[j].op \in InTurn
      BY <1>2, <2>2 DEF ServicesInv
    <3>2. call'[j] = [call[j] EXCEPT !.moved = TRUE]
      BY <1>3, <2>2
    <3> QED
      BY <3>1, <3>2, MarkedCall
  <2>3. CASE j # k /\ ~Marked(j)
    <3>1. call'[j] = call[j] /\ call[j] \in CallType
      BY <1>2, <1>3, <2>3
    <3>2. CallInv(index, call[j])
      BY DEF ServicesInv
    <3>3. InTurnInv(index', call[j])
      <4>1. CASE call[j].op = op
        BY <2>3, <4>1 DEF InTurnInv
      <4>2. CASE call[j].op # op
        <5>1. call[j].op \in InTurn => index'[call[j].op] = index[call[j].op]
          BY <4>2 DEF ServicesInv, TypeOK
        <5> QED
          BY <3>2, <5>1, Zenon DEF CallInv, InTurnInv
      <4> QED BY <4>1, <4>2
    <3> QED
      BY <3>1, <3>2, <3>3, Zenon DEF CallInv
  <2> QED
    BY <2>1, <2>2, <2>3
<1>5. TypeOK'
  <2>1. call' \in [Callers -> CallType]
    <3> HIDE DEF Marked
    <3> QED BY <1>3, <1>4
  <2> QED BY <1>1, <2>1 DEF ServicesInv, TypeOK
<1> QED
  BY <1>4, <1>5, Zenon DEF ServicesInv

\* No call keeps it.
LEMMA NoCallInv == NoCall \in CallType /\ \A ix : CallInv(ix, NoCall)
<1>1. /\ NoCall \in CallType /\ NoCall.asked = {} /\ NoCall.answer = "none"
      /\ NoCall.failed = {} /\ NoCall.op = "none"
  BY ServicesAssumption DEF NoCall, CallType, Rates, ServiceIds
<1>2. \A ix : InTurnInv(ix, NoCall)
  BY <1>1 DEF InTurnInv
<1>3. FiatInv(NoCall) /\ PostInv(NoCall) /\ FailedType(NoCall) /\ EndInv(NoCall)
  BY <1>1 DEF FiatInv, PostInv, FailedType, EndInv
<1> QED
  BY <1>1, <1>2, <1>3 DEF CallInv

\* A call that fails.
LEMMA FailedCall ==
    ASSUME NEW c, c.op \in Ops, c.known \in Rates, c.moved \in BOOLEAN,
           FailedType(c), ~c.moved => AllFailed(c)
    PROVE  Failed(c) \in CallType /\ \A ix : CallInv(ix, Failed(c))
<1> DEFINE f == Failed(c)
<1>0. c.failed \subseteq ServiceIds \cup ({0, 1} \X ServiceIds)
  BY DEF FailedType
<1>1. /\ f \in CallType /\ f.op = c.op /\ f.asked = {} /\ f.failed = c.failed
      /\ f.moved = c.moved /\ f.known = c.known /\ f.answer = "bad"
  <2>1. /\ f.op = c.op /\ f.asked = {} /\ f.failed = c.failed
        /\ f.moved = c.moved /\ f.known = c.known /\ f.answer = "bad"
    BY DEF Failed, NoCall
  <2>3. f \in CallType
    BY <1>0, NoCallInv DEF Failed, CallType
  <2> QED BY <2>1, <2>3
<1> HIDE DEF f
<1>2. FailedType(f) /\ EndInv(f)
  BY <1>1 DEF FailedType, EndInv, AllFailed
<1>3. \A ix : CallInv(ix, f)
  BY <1>1, <1>2 DEF CallInv, InTurnInv, FiatInv, PostInv
<1> QED
  BY <1>1, <1>3 DEF f

\* A call that returns.
LEMMA ReturnStep ==
    ASSUME ServicesInv, NEW k \in Callers, Return(k), UNCHANGED index, rates' \in Rates
    PROVE  ServicesInv'
BY NoCallInv, OneCall DEF Return
-----------------------------------------------------------------------------
(* The steps.                                                              *)

\* A call that starts has all of its services to ask.
LEMMA StartStep ==
    ASSUME ServicesInv, NEW k \in Callers, NEW op \in Ops, Start(k, op)
    PROVE  ServicesInv'
<1>t. /\ index \in [InTurn -> ServiceIds] /\ rates \in Rates
      /\ ServiceCount \in Nat \ {0} /\ 0 \in ServiceIds
  BY ServicesAssumption DEF ServicesInv, TypeOK, ServiceIds
<1>1. CASE op \in InTurn /\ \E useNext \in BOOLEAN : StartInTurn(k, op, useNext)
  <2>1. PICK useNext \in BOOLEAN : StartInTurn(k, op, useNext)
    BY <1>1
  <2> DEFINE i == IF useNext THEN After(index[op]) ELSE index[op]
             c == [NoCall EXCEPT !.op = op, !.asked = {i}, !.tries = ServiceCount]
  <2>2. i \in ServiceIds
    BY <1>1, <1>t, AfterIsNext
  <2>3. /\ index' = [index EXCEPT ![op] = i]
        /\ call' = IF useNext THEN Moved([call EXCEPT ![k] = c], k, op)
                   ELSE [call EXCEPT ![k] = c]
        /\ UNCHANGED rates
    BY <2>1 DEF StartInTurn
  <2>4. /\ c.op = op /\ c.asked = {i} /\ c.tries = ServiceCount /\ c.failed = {}
        /\ c.answer = "none" /\ ~c.moved
    BY DEF NoCall
  <2>5. c \in CallType
    BY <1>t, <2>2, NoCallInv DEF CallType
  <2>6. index'[op] = i
    BY <1>1, <1>t, <2>3
  <2> HIDE DEF i, c
  <2>7. op # "fiat" /\ op # "postBeef"
    BY <1>1 DEF InTurn
  <2>8. CallInv(index', c)
    <3>1. InTurnInv(index', c)
      BY <1>t, <2>2, <2>4, <2>6, AllAhead DEF InTurnInv
    <3> QED
      BY <2>4, <2>7, <3>1 DEF CallInv, FiatInv, PostInv, FailedType, EndInv
  <2>9. CASE useNext
    BY <1>1, <2>2, <2>3, <2>5, <2>8, <2>9, OneCallMoves
  <2>10. CASE ~useNext
    <3>1. index' = index
      BY <1>1, <1>t, <2>3, <2>10 DEF i
    <3> QED
      BY <1>t, <2>3, <2>5, <2>8, <2>10, <3>1, OneCall
  <2> QED
    BY <2>9, <2>10
<1>2. CASE StartHeader(k) /\ op = "header"
  <2> DEFINE c == [NoCall EXCEPT !.op = "header", !.asked = {0}, !.chaintracks = TRUE,
                                 !.invocations = Invocations]
  <2>1. c.op = "header" /\ c.failed = {} /\ c.answer = "none"
    BY DEF NoCall
  <2>2. c \in CallType
    BY <1>t, NoCallInv, ServicesAssumption DEF CallType, Ops
  <2>3. call' = [call EXCEPT ![k] = c] /\ UNCHANGED <<index, rates>>
    BY <1>2 DEF StartHeader, Begin
  <2> HIDE DEF c
  <2>4. CallInv(index, c)
    BY <2>1 DEF CallInv, InTurnInv, FiatInv, PostInv, FailedType, EndInv, InTurn
  <2> QED
    BY <1>t, <2>2, <2>3, <2>4, OneCall
<1>3. CASE StartVerify(k) /\ op = "verify"
  <2> DEFINE c == [NoCall EXCEPT !.op = "verify", !.asked = {0}, !.chaintracks = TRUE,
                                 !.tries = MaxRetries]
  <2>1. c.op = "verify" /\ c.failed = {} /\ c.answer = "none"
    BY DEF NoCall
  <2>2. c \in CallType
    BY <1>t, NoCallInv, ServicesAssumption DEF CallType, Ops
  <2>3. call' = [call EXCEPT ![k] = c] /\ UNCHANGED <<index, rates>>
    BY <1>3 DEF StartVerify, Begin
  <2> HIDE DEF c
  <2>4. CallInv(index, c)
    BY <2>1 DEF CallInv, InTurnInv, FiatInv, PostInv, FailedType, EndInv, InTurn
  <2> QED
    BY <1>t, <2>2, <2>3, <2>4, OneCall
<1>4. CASE StartPostBeef(k) /\ op = "postBeef"
  <2> DEFINE c == [NoCall EXCEPT !.op = "postBeef", !.asked = ServiceIds]
  <2>1. /\ c.op = "postBeef" /\ c.asked = ServiceIds /\ c.failed = {} /\ c.answer = "none"
        /\ c.retry = 0
    BY DEF NoCall
  <2>2. c \in CallType
    BY <1>t, NoCallInv DEF CallType, Ops
  <2>3. call' = [call EXCEPT ![k] = c] /\ UNCHANGED <<index, rates>>
    BY <1>4 DEF StartPostBeef, Begin
  <2> HIDE DEF c
  <2>4. CallInv(index, c)
    BY <2>1 DEF CallInv, InTurnInv, FiatInv, PostInv, FailedType, EndInv, InTurn
  <2> QED
    BY <1>t, <2>2, <2>3, <2>4, OneCall
<1>5. CASE StartFiat(k) /\ op = "fiat"
  <2> DEFINE c == [NoCall EXCEPT !.op = "fiat", !.known = rates, !.tries = ServiceCount,
                                 !.asked = {0}]
  <2>1. /\ c.op = "fiat" /\ c.asked = {0} /\ c.tries = ServiceCount /\ c.failed = {}
        /\ c.answer = "none" /\ ~c.chaintracks
    BY DEF NoCall
  <2>2. c \in CallType
    BY <1>t, NoCallInv DEF CallType, Ops
  <2>3. (Return(k) \/ call' = [call EXCEPT ![k] = c]) /\ UNCHANGED <<index, rates>>
    BY <1>5 DEF StartFiat, Begin
  <2> HIDE DEF c
  <2>4. CallInv(index, c)
    <3>1. FiatInv(c)
      BY <1>t, <2>1, AllAhead DEF FiatInv
    <3> QED
      BY <2>1, <3>1 DEF CallInv, InTurnInv, PostInv, FailedType, EndInv, InTurn
  <2> QED
    BY <1>t, <2>2, <2>3, <2>4, OneCall, ReturnStep
<1> QED
  BY <1>1, <1>2, <1>3, <1>4, <1>5 DEF Start

\* What such a call becomes is a call.
LEMMA FailingTypes ==
    ASSUME NEW c \in CallType, NEW failed \in SUBSET ServiceIds, NEW i \in ServiceIds
    PROVE  LET now(tries) == [c EXCEPT !.failed = failed, !.tries = tries, !.resets = 0,
                                       !.chaintracks = FALSE]
           IN  /\ \A tries \in Nat : [now(tries) EXCEPT !.asked = {i}] \in CallType
               /\ \A tries : [now(tries) EXCEPT !.asked = {i}, !.tries = ServiceCount,
                                                !.retry = 1] \in CallType
<1> DEFINE now(tries) == [c EXCEPT !.failed = failed, !.tries = tries, !.resets = 0,
                                   !.chaintracks = FALSE]
<1>t. ServiceCount \in Nat /\ 0 \in 0 .. Resends
  BY ServicesAssumption
<1>1. ASSUME NEW tries \in Nat
      PROVE  now(tries) \in CallType
  BY <1>t DEF CallType
<1>2. ASSUME NEW tries \in Nat
      PROVE  [now(tries) EXCEPT !.asked = {i}] \in CallType
  <2> DEFINE n == now(tries)
  <2>1. n \in CallType
    BY <1>1
  <2> HIDE DEF now, n
  <2>2. [n EXCEPT !.asked = {i}] \in CallType
    BY <2>1 DEF CallType
  <2> QED
    BY <2>2 DEF n
<1>3. ASSUME NEW tries
      PROVE  [now(tries) EXCEPT !.asked = {i}, !.tries = ServiceCount, !.retry = 1] \in CallType
  <2> DEFINE n == [now(0) EXCEPT !.asked = {i}]
  <2>1. n \in CallType
    BY <1>2
  <2>2. [now(tries) EXCEPT !.asked = {i}, !.tries = ServiceCount, !.retry = 1] =
          [n EXCEPT !.tries = ServiceCount, !.retry = 1]
    BY DEF CallType
  <2> HIDE DEF now, n
  <2>3. [n EXCEPT !.tries = ServiceCount, !.retry = 1] \in CallType
    BY <1>t, <2>1 DEF CallType
  <2> QED
    BY <2>2, <2>3
<1> QED
  BY <1>2, <1>3

\* A call of one of the collections, when the service it asks fails.
LEMMA ServiceFailsStep ==
    ASSUME ServicesInv, NEW k \in Callers, call[k].op \in InTurn, Waiting(k), ServiceFails(k)
    PROVE  ServicesInv'
<1> DEFINE c == call[k]
           i == After(index[c.op])
           failed == c.failed \cup c.asked
           now == [c EXCEPT !.failed = @ \cup c.asked, !.tries = TriesLeft(c), !.resets = 0,
                            !.chaintracks = FALSE]
<1>t. /\ index \in [InTurn -> ServiceIds] /\ rates \in Rates
      /\ ServiceCount \in Nat \ {0} /\ Resends \in Nat
  BY ServicesAssumption DEF ServicesInv, TypeOK
<1>c. c \in CallType /\ CallInv(index, c) /\ c.op \in InTurn /\ c.asked # {}
  BY DEF ServicesInv, TypeOK, Waiting
<1>o. c.op # "fiat" /\ c.op # "postBeef" /\ c.op \in Ops
  BY <1>c DEF InTurn, Ops
<1>f. failed \subseteq ServiceIds
  BY <1>c, <1>o DEF CallInv, FailedType, CallType
<1>i. i \in ServiceIds /\ index[c.op] \in ServiceIds
  BY <1>t, <1>c, AfterIsNext
<1>1. index' = [index EXCEPT ![c.op] = i] /\ UNCHANGED rates /\ index'[c.op] = i
  BY <1>t, <1>c DEF ServiceFails
<1>2. /\ now.failed = failed /\ now.tries = c.tries - 1 /\ now.asked = c.asked /\ now.op = c.op
      /\ now.moved = c.moved /\ now.known = c.known /\ now.answer = c.answer
      /\ now.resets = 0 /\ now.chaintracks = FALSE /\ now.invocations = c.invocations
      /\ now.retry = c.retry
  BY <1>c DEF CallType, TriesLeft
\* What has not failed is ahead of the next service.
<1>3. ~c.moved => /\ c.tries \in 1 .. ServiceCount
                  /\ ServiceIds \ failed \subseteq Ahead(i, c.tries - 1)
  <2> SUFFICES ASSUME ~c.moved
               PROVE  /\ c.tries \in 1 .. ServiceCount
                      /\ ServiceIds \ failed \subseteq Ahead(i, c.tries - 1)
    OBVIOUS
  <2>1. /\ c.asked = {index[c.op]} /\ c.tries \in 1 .. ServiceCount
        /\ ServiceIds \ c.failed \subseteq Ahead(index[c.op], c.tries)
    BY <1>c DEF CallInv, InTurnInv
  <2>2. c.tries \in Nat
    BY <2>1
  <2>3. Ahead(index[c.op], c.tries) \ {index[c.op]} \subseteq Ahead(i, c.tries - 1)
    BY <1>i, <2>2, AheadOfNext
  <2> QED
    BY <2>1, <2>3
<1>4. ~c.moved /\ ~(c.tries > 1) => failed = ServiceIds
  <2> SUFFICES ASSUME ~c.moved, ~(c.tries > 1) PROVE failed = ServiceIds
    OBVIOUS
  <2>1. c.tries = 1
    BY <1>3
  <2>2. c.asked = {index[c.op]} /\ ServiceIds \ c.failed \subseteq Ahead(index[c.op], 1)
    BY <1>c, <2>1 DEF CallInv, InTurnInv
  <2> QED
    BY <1>f, <1>i, <2>2, LastAhead
<1>5. CASE c.tries > 1
  <2> DEFINE n == [now EXCEPT !.asked = {i}]
  <2>1. call' = Moved([call EXCEPT ![k] = n], k, c.op)
    BY <1>5 DEF ServiceFails
  <2>2. /\ n \in CallType /\ n.failed = failed /\ n.tries = c.tries - 1 /\ n.asked = {i}
        /\ n.op = c.op /\ n.moved = c.moved /\ n.answer = c.answer
    <3>1. c.tries - 1 \in Nat
      BY <1>c, <1>5 DEF CallType
    <3>2. n \in CallType
      BY <1>c, <1>f, <1>i, <3>1, FailingTypes DEF TriesLeft
    <3> HIDE DEF now, i
    <3> QED BY <1>2, <3>2 DEF CallType
  <2> HIDE DEF n
  <2>3. n.answer # "bad"
    BY <1>c, <2>2 DEF CallInv, EndInv
  <2>4. InTurnInv(index', n)
    <3>1. ASSUME ~c.moved PROVE c.tries - 1 \in 1 .. ServiceCount
      BY <1>3, <1>5, <1>t, <3>1
    <3> QED
      BY <1>1, <1>3, <2>2, <3>1 DEF InTurnInv
  <2>5. CallInv(index', n)
    BY <1>f, <1>o, <2>2, <2>3, <2>4 DEF CallInv, FiatInv, PostInv, FailedType, EndInv
  <2> HIDE DEF c, i
  <2> QED
    BY <1>1, <1>c, <1>i, <2>1, <2>2, <2>5, OneCallMoves
<1>6. CASE ~(c.tries > 1) /\ c.op = "utxoStatus" /\ c.retry = 0
  <2> DEFINE n == [now EXCEPT !.asked = {i}, !.tries = ServiceCount, !.retry = 1]
  <2>1. call' = Moved([call EXCEPT ![k] = n], k, c.op)
    BY <1>6 DEF ServiceFails
  <2>2. /\ n.failed = failed /\ n.tries = ServiceCount /\ n.asked = {i}
        /\ n.op = c.op /\ n.moved = c.moved /\ n.answer = c.answer
    <3> HIDE DEF i
    <3> QED BY <1>c DEF CallType
  <2>3. n \in CallType
    BY <1>c, <1>f, <1>i, FailingTypes DEF TriesLeft
  <2> HIDE DEF n
  <2>4. n.answer # "bad"
    BY <1>c, <2>2 DEF CallInv, EndInv
  <2>5. InTurnInv(index', n)
    BY <1>1, <1>4, <1>6, <1>t, <2>2 DEF InTurnInv
  <2>6. CallInv(index', n)
    BY <1>f, <1>o, <2>2, <2>4, <2>5 DEF CallInv, FiatInv, PostInv, FailedType, EndInv
  <2> HIDE DEF c, i
  <2> QED
    BY <1>1, <1>c, <1>i, <2>1, <2>3, <2>6, OneCallMoves
<1>7. CASE ~(c.tries > 1) /\ ~(c.op = "utxoStatus" /\ c.retry = 0)
  <2>1. call' = Moved([call EXCEPT ![k] = Failed(now)], k, c.op)
    BY <1>7 DEF ServiceFails
  <2>2. c.known \in Rates /\ c.moved \in BOOLEAN
    BY <1>c DEF CallType
  <2> HIDE DEF now
  <2>3. FailedType(now)
    BY <1>2, <1>f, <1>o DEF FailedType
  <2>4. ~now.moved => AllFailed(now)
    BY <1>2, <1>4, <1>7, <1>c, <1>o DEF AllFailed
  <2>5. Failed(now) \in CallType /\ CallInv(index', Failed(now))
    BY <1>2, <1>o, <2>2, <2>3, <2>4, FailedCall
  <2> HIDE DEF c, i
  <2> QED
    BY <1>1, <1>c, <1>i, <2>1, <2>5, OneCallMoves
<1> QED
  BY <1>5, <1>6, <1>7

\* A call whose counts alone change.
LEMMA CountsChange ==
    ASSUME ServicesInv, NEW k \in Callers, NEW c \in CallType,
           c.op = call[k].op, c.asked = call[k].asked, c.failed = call[k].failed,
           c.moved = call[k].moved, c.answer = call[k].answer, c.known = call[k].known,
           c.retry = call[k].retry,
           c.op \in InTurn => c.tries = call[k].tries,
           c.op # "fiat",
           call' = [call EXCEPT ![k] = c], UNCHANGED <<index, rates>>
    PROVE  ServicesInv'
<1>1. CallInv(index, call[k]) /\ rates \in Rates
  BY DEF ServicesInv, TypeOK
<1>2. InTurnInv(index, c) /\ FailedType(c) /\ PostInv(c)
  BY <1>1 DEF CallInv, InTurnInv, FailedType, PostInv
<1>3. FiatInv(c) /\ EndInv(c)
  BY <1>1 DEF CallInv, FiatInv, EndInv, AllFailed
<1> QED
  BY <1>1, <1>2, <1>3, OneCall DEF CallInv

\* What asks chaintracks, and a request that is sent again.
LEMMA ChaintracksSteps ==
    ASSUME ServicesInv, NEW k \in Callers,
           \/ ProofFound(k) \/ Reset(k) \/ ChaintracksAnswers(k) \/ TrackerFails(k)
           \/ ChaintracksFails(k)
    PROVE  ServicesInv'
<1> DEFINE c == call[k]
<1>t. /\ c \in CallType /\ CallInv(index, c) /\ rates \in Rates
      /\ Invocations \in Nat /\ 0 \in 0 .. Resends /\ 0 \in ServiceIds
  BY ServicesAssumption DEF ServicesInv, TypeOK, ServiceIds
<1>1. CASE ProofFound(k)
  <2> DEFINE n == [c EXCEPT !.chaintracks = TRUE, !.invocations = Invocations, !.resets = 0]
  <2>1. call' = [call EXCEPT ![k] = n] /\ UNCHANGED <<index, rates>> /\ c.op = "merklePath"
    BY <1>1 DEF ProofFound
  <2>2. /\ n \in CallType /\ n.op = c.op /\ n.asked = c.asked /\ n.failed = c.failed
        /\ n.moved = c.moved /\ n.answer = c.answer /\ n.known = c.known /\ n.retry = c.retry
        /\ n.tries = c.tries
    BY <1>t DEF CallType
  <2> HIDE DEF n
  <2> QED
    BY <2>1, <2>2, CountsChange
<1>2. CASE Reset(k)
  <2> DEFINE n == [c EXCEPT !.resets = @ + 1]
  <2>1. call' = [call EXCEPT ![k] = n] /\ UNCHANGED <<index, rates>>
    BY <1>2 DEF Reset
  <2>2. c.op # "fiat"
    BY <1>2, <1>t DEF Reset, Waiting, CallInv, FiatInv
  <2>3. c.resets + 1 \in 0 .. Resends
    <3>1. Resends \in Nat /\ c.resets \in 0 .. Resends /\ c.resets < Resends
      BY <1>2, <1>t, ServicesAssumption DEF Reset, CallType
    <3> QED BY <3>1
  <2>4. /\ n \in CallType /\ n.op = c.op /\ n.asked = c.asked /\ n.failed = c.failed
        /\ n.moved = c.moved /\ n.answer = c.answer /\ n.known = c.known /\ n.retry = c.retry
        /\ n.tries = c.tries
    <3> DEFINE m == c.resets + 1
    <3> HIDE DEF m
    <3>1. n = [c EXCEPT !.resets = m]
      BY DEF m
    <3> QED
      BY <1>t, <2>3, <3>1 DEF m, CallType
  <2> HIDE DEF n
  <2> QED
    BY <2>1, <2>2, <2>4, CountsChange
<1>3. CASE ChaintracksAnswers(k)
  BY <1>3, <1>t, ReturnStep DEF ChaintracksAnswers
<1>4. ASSUME Fails(k), c.op \in {"header", "verify"}, UNCHANGED <<index, rates>>
      PROVE  ServicesInv'
  <2> DEFINE f == Failed(c)
             n == [f EXCEPT !.failed = {0}]
  <2>1. call' = [call EXCEPT ![k] = n]
    BY <1>4 DEF Fails
  <2>2. f \in CallType /\ f.op = c.op /\ f.asked = {} /\ f.moved = c.moved /\ f.answer = "bad"
    <3>1. f.op = c.op /\ f.asked = {} /\ f.moved = c.moved /\ f.answer = "bad"
      BY DEF Failed, NoCall
    <3>2. f \in CallType
      BY <1>t, <1>4, NoCallInv DEF Failed, CallType
    <3> QED BY <3>1, <3>2
  <2> HIDE DEF f
  <2>3. /\ n \in CallType /\ n.op = c.op /\ n.asked = {} /\ n.failed = {0} /\ n.moved = c.moved
        /\ n.answer = "bad"
    BY <1>t, <2>2 DEF CallType
  <2> HIDE DEF n
  <2>4. CallInv(index, n)
    <3>1. AllFailed(n)
      BY <1>4, <2>3 DEF AllFailed, InTurn
    <3> QED
      BY <1>4, <1>t, <2>3, <3>1 DEF CallInv, InTurnInv, FiatInv, PostInv, FailedType, EndInv
  <2> QED
    BY <1>t, <1>4, <2>1, <2>3, <2>4, OneCall
<1>5. CASE TrackerFails(k)
  <2>1. CASE c.tries > 1
    <3> DEFINE n == [c EXCEPT !.tries = TriesLeft(c), !.resets = 0]
    <3>1. call' = [call EXCEPT ![k] = n] /\ UNCHANGED <<index, rates>> /\ c.op = "verify"
      BY <1>5, <2>1 DEF TrackerFails
    <3>2. c.tries - 1 \in Nat
      BY <1>t, <2>1 DEF CallType
    <3>3. /\ n \in CallType /\ n.op = c.op /\ n.asked = c.asked /\ n.failed = c.failed
          /\ n.moved = c.moved /\ n.answer = c.answer /\ n.known = c.known /\ n.retry = c.retry
      <4> DEFINE m == c.tries - 1
      <4> HIDE DEF m
      <4>1. n = [c EXCEPT !.tries = m, !.resets = 0]
        BY DEF m, TriesLeft
      <4>2. m \in Nat
        BY <3>2 DEF m
      <4> HIDE DEF n
      <4> QED
        BY <1>t, <4>1, <4>2 DEF CallType
    <3> HIDE DEF n
    <3> QED
      BY <3>1, <3>3, CountsChange DEF InTurn
  <2>2. CASE ~(c.tries > 1)
    BY <1>4, <1>5, <2>2 DEF TrackerFails
  <2> QED
    BY <2>1, <2>2
<1>6. CASE ChaintracksFails(k)
  <2>1. CASE /\ c.invocations > 1
             /\ call' = [call EXCEPT ![k].invocations = @ - 1, ![k].resets = 0]
             /\ UNCHANGED <<index, rates>>
    <3> DEFINE n == [c EXCEPT !.invocations = @ - 1, !.resets = 0]
    <3>1. call' = [call EXCEPT ![k] = n] /\ UNCHANGED <<index, rates>> /\ c.op # "fiat"
      BY <1>6, <2>1 DEF ChaintracksFails
    <3>2. c.invocations - 1 \in Nat
      BY <1>t, <2>1 DEF CallType
    <3>3. /\ n \in CallType /\ n.op = c.op /\ n.asked = c.asked /\ n.failed = c.failed
          /\ n.moved = c.moved /\ n.answer = c.answer /\ n.known = c.known /\ n.retry = c.retry
          /\ n.tries = c.tries
      <4> DEFINE m == c.invocations - 1
      <4> HIDE DEF m
      <4>1. n = [c EXCEPT !.invocations = m, !.resets = 0]
        BY DEF m
      <4>2. m \in Nat
        BY <3>2 DEF m
      <4> HIDE DEF n
      <4> QED
        BY <1>t, <4>1, <4>2 DEF CallType
    <3> HIDE DEF n
    <3> QED
      BY <3>1, <3>3, CountsChange
  <2>2. CASE c.op = "header" /\ Fails(k) /\ UNCHANGED <<index, rates>>
    BY <1>4, <2>2
  <2>3. CASE c.op = "merklePath" /\ ServiceFails(k)
    BY <1>6, <2>3, ServiceFailsStep DEF ChaintracksFails, InTurn
  <2> QED
    BY <1>6, <2>1, <2>2, <2>3 DEF ChaintracksFails
<1> QED
  BY <1>1, <1>2, <1>3, <1>5, <1>6

\* A service answers what a beef is posted with, or its transactions: a service that does not
\* take it has failed, and one that does makes the call good.
LEMMA AnsweredStep ==
    ASSUME ServicesInv, NEW k \in Callers, call[k].op = "postBeef", NEW s \in call[k].asked,
           NEW result \in {"success", "error"},
           call' = Answered(k, s, result), UNCHANGED <<index, rates>>
    PROVE  ServicesInv'
<1> DEFINE c == call[k]
           asked == c.asked \ {s}
           failed == IF result = "success" THEN c.failed ELSE c.failed \cup {<<c.retry, s>>}
           answer == IF result = "success" THEN "good" ELSE c.answer
           now == [c EXCEPT !.asked = @ \ {s},
                            !.failed = IF result = "success" THEN @ ELSE @ \cup {<<c.retry, s>>},
                            !.answer = IF result = "success" THEN "good" ELSE @]
           again == [now EXCEPT !.asked = ServiceIds, !.retry = 1, !.tries = ServiceCount]
           over == Failed(now)
<1>t. /\ c \in CallType /\ CallInv(index, c) /\ rates \in Rates
      /\ ServiceCount \in Nat \ {0} /\ 0 \in ServiceIds
  BY ServicesAssumption DEF ServicesInv, TypeOK, ServiceIds
<1>1. /\ c.retry \in {0, 1} /\ s \in ServiceIds /\ asked \subseteq ServiceIds
      /\ answer \in {"none", "good", "bad"}
  BY <1>t DEF CallType
<1>2. failed \subseteq {0, 1} \X ServiceIds
  BY <1>1, <1>t DEF CallInv, FailedType
<1>3. now = [c EXCEPT !.asked = asked, !.failed = failed, !.answer = answer]
  OBVIOUS
<1>4. /\ now \in CallType /\ now.op = "postBeef" /\ now.asked = asked /\ now.failed = failed
      /\ now.answer = answer /\ now.retry = c.retry /\ now.moved = c.moved /\ now.known = c.known
  <2> HIDE DEF now, asked, failed, answer
  <2> QED
    BY <1>t, <1>1, <1>2, <1>3 DEF CallType
<1>5. answer # "bad"
  BY <1>t DEF CallInv, EndInv
\* Of those that have answered none took it, unless the call is good.
<1>6. answer # "good" =>
        /\ c.retry = 0 => {0} \X (ServiceIds \ asked) \subseteq failed
        /\ c.retry = 1 => /\ {0} \X ServiceIds \subseteq failed
                          /\ {1} \X (ServiceIds \ asked) \subseteq failed
  BY <1>t DEF CallInv, PostInv
<1>a. \E new : /\ call' = [call EXCEPT ![k] = new]
               /\ asked # {} => new = now
               /\ asked = {} /\ answer = "good" => new = NoCall
               /\ asked = {} /\ answer # "good" /\ c.retry = 0 => new = again
               /\ asked = {} /\ answer # "good" /\ c.retry = 1 => new = over
  <2> DEFINE new == IF now.asked # {} THEN now
                    ELSE IF now.answer = "good" THEN NoCall
                    ELSE IF c.retry = 0 THEN again ELSE over
  <2>1. call' = [call EXCEPT ![k] = new]
    BY DEF Answered
  <2> HIDE DEF now, asked, answer, again, over
  <2>2. /\ asked # {} => new = now
        /\ asked = {} /\ answer = "good" => new = NoCall
        /\ asked = {} /\ answer # "good" /\ c.retry = 0 => new = again
        /\ asked = {} /\ answer # "good" /\ c.retry = 1 => new = over
    BY <1>4
  <2> HIDE DEF new
  <2> QED BY <2>1, <2>2
<1> HIDE DEF over
<1>7. CASE asked # {}
  <2>1. call' = [call EXCEPT ![k] = now]
    <3> HIDE DEF now, asked, failed, answer, again
    <3> QED BY <1>7, <1>a
  <2> HIDE DEF now, asked, failed, answer
  <2>2. CallInv(index, now)
    BY <1>2, <1>4, <1>5, <1>6 DEF CallInv, InTurnInv, FiatInv, PostInv, FailedType, EndInv, InTurn
  <2> QED
    BY <1>t, <1>4, <2>1, <2>2, OneCall
<1>8. CASE asked = {} /\ answer = "good"
  <2>1. Return(k)
    <3> HIDE DEF now, asked, failed, answer, again
    <3> QED BY <1>8, <1>a DEF Return
  <2> QED
    BY <1>t, <2>1, ReturnStep
<1>9. CASE asked = {} /\ answer # "good" /\ c.retry = 0
  <2> DEFINE n == again
  <2>1. call' = [call EXCEPT ![k] = n]
    <3> HIDE DEF now, asked, failed, answer, again
    <3> QED BY <1>9, <1>a
  <2> HIDE DEF now
  <2>2. /\ n \in CallType /\ n.op = "postBeef" /\ n.asked = ServiceIds /\ n.failed = failed
        /\ n.answer = answer /\ n.retry = 1
    <3> HIDE DEF asked, failed, answer
    <3> QED BY <1>t, <1>4 DEF CallType
  <2> HIDE DEF n
  <2>3. {0} \X ServiceIds \subseteq failed
    BY <1>6, <1>9
  <2> HIDE DEF asked, failed, answer
  <2>4. CallInv(index, n)
    BY <1>2, <1>5, <2>2, <2>3
       DEF CallInv, InTurnInv, FiatInv, PostInv, FailedType, EndInv, InTurn
  <2> QED
    BY <1>t, <2>1, <2>2, <2>4, OneCall
<1>10. CASE asked = {} /\ answer # "good" /\ c.retry = 1
  <2>1. call' = [call EXCEPT ![k] = Failed(now)]
    <3>1. call' = [call EXCEPT ![k] = over]
      <4> HIDE DEF now, asked, failed, answer, again
      <4> QED BY <1>10, <1>a
    <3> QED BY <3>1 DEF over
  <2>2. failed = {0, 1} \X ServiceIds
    BY <1>2, <1>6, <1>10
  <2>3. c.known \in Rates /\ c.moved \in BOOLEAN
    BY <1>t DEF CallType
  <2> HIDE DEF now, failed
  <2>4. FailedType(now) /\ AllFailed(now) /\ now.op \in Ops
    BY <1>4, <2>2 DEF FailedType, AllFailed, Ops, InTurn
  <2>5. Failed(now) \in CallType /\ CallInv(index, Failed(now))
    BY <1>4, <2>3, <2>4, FailedCall
  <2> QED
    BY <1>t, <2>1, <2>5, OneCall
<1> QED
  BY <1>1, <1>7, <1>8, <1>9, <1>10

\* A source transaction that no service has moves the index of rawTx under others.
LEMMA SourceStep ==
    ASSUME ServicesInv, NEW k \in Callers, SourceFails(k)
    PROVE  ServicesInv'
<1> DEFINE c == call[k]
           m == c.tries - 1
           n == [c EXCEPT !.tries = m]
<1>1. c \in CallType /\ CallInv(index, c) /\ c.op = "postBeef" /\ m \in Nat
  BY DEF SourceFails, ServicesInv, TypeOK, CallType
<1>2. /\ n \in CallType /\ n.op = c.op /\ n.asked = c.asked /\ n.failed = c.failed
      /\ n.moved = c.moved /\ n.answer = c.answer /\ n.retry = c.retry
  <2> HIDE DEF m
  <2> QED BY <1>1 DEF CallType
<1>3. /\ call' = Moved([call EXCEPT ![k] = n], k, "rawTx") /\ UNCHANGED rates
      /\ index' = [index EXCEPT !["rawTx"] = After(index["rawTx"])]
  BY DEF SourceFails
<1>4. "rawTx" \in InTurn /\ After(index["rawTx"]) \in ServiceIds
  BY AfterIsNext DEF ServicesInv, TypeOK, InTurn
<1> HIDE DEF n
<1>5. CallInv(index', n)
  BY <1>1, <1>2 DEF CallInv, InTurnInv, FiatInv, PostInv, FailedType, EndInv, AllFailed, InTurn
<1> QED
  BY <1>2, <1>3, <1>4, <1>5, OneCallMoves

\* A service that has no exchange rates.
LEMMA FiatStep ==
    ASSUME ServicesInv, NEW k \in Callers, FailFiat(k)
    PROVE  ServicesInv'
<1> DEFINE c == call[k]
           failed == c.failed \cup c.asked
           asked == {After(i) : i \in c.asked}
           now == [c EXCEPT !.failed = @ \cup c.asked, !.tries = TriesLeft(c)]
<1>t. c \in CallType /\ CallInv(index, c) /\ rates \in Rates /\ c.op = "fiat" /\ c.asked # {}
  BY DEF ServicesInv, TypeOK, FailFiat, Waiting
<1>1. PICK i \in ServiceIds : /\ c.asked = {i} /\ c.tries \in 1 .. ServiceCount
                              /\ ServiceIds \ c.failed \subseteq Ahead(i, c.tries)
  BY <1>t DEF CallInv, FiatInv
<1>2. c.tries \in Nat /\ ServiceCount \in Nat
  BY <1>t, ServicesAssumption DEF CallType
<1>3. /\ asked = {After(i)} /\ After(i) \in ServiceIds /\ failed \subseteq ServiceIds
      /\ ServiceIds \ failed \subseteq Ahead(After(i), c.tries - 1)
  <2>1. Ahead(i, c.tries) \ {i} \subseteq Ahead(After(i), c.tries - 1)
    BY <1>2, AheadOfNext
  <2>2. failed \subseteq ServiceIds
    BY <1>t, <1>1 DEF CallInv, FailedType
  <2> QED
    BY <1>1, <2>1, <2>2, AfterIsNext
<1>4. /\ now.failed = failed /\ now.tries = c.tries - 1 /\ now.op = c.op /\ now.moved = c.moved
      /\ now.known = c.known /\ now.answer = c.answer /\ now.chaintracks = c.chaintracks
      /\ now.asked = c.asked
  BY <1>t DEF CallType, TriesLeft
<1>5. CASE c.tries > 1
  <2> DEFINE n == [now EXCEPT !.asked = {After(x) : x \in @}]
  <2>1. call' = [call EXCEPT ![k] = n] /\ UNCHANGED <<index, rates>>
    BY <1>5 DEF FailFiat, Begin
  <2>2. now \in CallType
    <3> DEFINE m == c.tries - 1
    <3>1. m \in Nat
      BY <1>2, <1>5
    <3> HIDE DEF m, failed
    <3>2. now = [c EXCEPT !.failed = failed, !.tries = m]
      BY DEF m, failed, TriesLeft
    <3> HIDE DEF now
    <3> QED BY <1>t, <1>3, <3>1, <3>2 DEF CallType
  <2>3. n = [now EXCEPT !.asked = asked]
    <3> HIDE DEF now
    <3> QED BY <1>4
  <2> HIDE DEF now, n, asked, failed
  <2>4. /\ n \in CallType /\ n.failed = failed /\ n.tries = c.tries - 1 /\ n.op = c.op
        /\ n.asked = asked /\ n.answer = c.answer /\ n.chaintracks = c.chaintracks
    BY <1>3, <1>4, <2>2, <2>3 DEF CallType
  <2>5. n.answer # "bad" /\ ~n.chaintracks
    BY <1>t, <2>4 DEF CallInv, EndInv, FiatInv
  <2>6. FiatInv(n)
    <3>1. c.tries - 1 \in 1 .. ServiceCount
      BY <1>1, <1>2, <1>5
    <3> QED
      BY <1>3, <2>4, <2>5, <3>1 DEF FiatInv
  <2>7. CallInv(index, n)
    BY <1>t, <1>3, <2>4, <2>5, <2>6 DEF CallInv, InTurnInv, PostInv, FailedType, EndInv, InTurn
  <2> QED
    BY <1>t, <2>1, <2>4, <2>7, OneCall
<1>6. CASE ~(c.tries > 1) /\ c.known = "none"
  <2>1. call' = [call EXCEPT ![k] = Failed(now)] /\ UNCHANGED <<index, rates>>
    BY <1>6 DEF FailFiat, Begin
  <2>2. failed = ServiceIds
    <3>1. c.tries = 1
      BY <1>1, <1>2, <1>6
    <3> QED
      BY <1>1, <1>3, <3>1, LastAhead
  <2>3. c.known \in Rates /\ c.moved \in BOOLEAN
    BY <1>t DEF CallType
  <2> HIDE DEF now, failed
  <2>4. FailedType(now) /\ AllFailed(now) /\ now.op \in Ops
    BY <1>t, <1>4, <1>6, <2>2 DEF FailedType, AllFailed, Ops, InTurn
  <2>5. Failed(now) \in CallType /\ CallInv(index, Failed(now))
    BY <1>4, <2>3, <2>4, FailedCall
  <2> QED
    BY <1>t, <2>1, <2>5, OneCall
<1>7. CASE ~(c.tries > 1) /\ c.known # "none"
  <2>1. Return(k) /\ rates' = c.known /\ UNCHANGED index
    BY <1>7 DEF FailFiat, RatesWithout
  <2> QED
    BY <1>t, <2>1, ReturnStep DEF CallType
<1> QED
  BY <1>5, <1>6, <1>7
-----------------------------------------------------------------------------
\* The initial state has no call.
LEMMA InitServices == Init => ServicesInv
BY NoCallInv, ServicesAssumption DEF Init, ServicesInv, TypeOK, ServiceIds, Rates

\* Every step keeps the invariant.
LEMMA StepServices == ServicesInv /\ [Next]_vars => ServicesInv'
<1> SUFFICES ASSUME ServicesInv, [Next]_vars PROVE ServicesInv'
  OBVIOUS
<1>1. ASSUME NEW k \in Callers, NEW op \in Ops, Start(k, op) PROVE ServicesInv'
  BY <1>1, StartStep
<1>2. ASSUME NEW k \in Callers, Answer(k) PROVE ServicesInv'
  <2>1. CASE Succeed(k) \/ SucceedFiat(k)
    BY <2>1, ReturnStep DEF Succeed, SucceedFiat, ServicesInv, TypeOK, Rates
  <2>2. CASE FailInTurn(k)
    BY <2>2, ServiceFailsStep DEF FailInTurn, AsksService
  <2>3. CASE \/ ProofFound(k) \/ Reset(k) \/ ChaintracksAnswers(k) \/ TrackerFails(k)
             \/ ChaintracksFails(k)
    BY <2>3, ChaintracksSteps
  <2>4. CASE SourceFails(k)
    BY <2>4, SourceStep
  <2>5. CASE \E s \in ServiceIds : AnswerPostBeef(k, s) \/ AnswerPostTxs(k, s)
    BY <2>5, AnsweredStep DEF AnswerPostBeef, AnswerPostTxs, BeefResults, TxsResults
  <2>6. CASE FailFiat(k)
    BY <2>6, FiatStep
  <2> QED
    BY <1>2, <2>1, <2>2, <2>3, <2>4, <2>5, <2>6 DEF Answer
<1>3. CASE Age
  BY <1>3, Zenon DEF Age, ServicesInv, TypeOK, Rates
<1>4. CASE UNCHANGED vars
  BY <1>4, Zenon DEF vars, ServicesInv, TypeOK
<1> QED
  BY <1>1, <1>2, <1>3, <1>4 DEF Next

\* Indices, rates and calls keep their types, however many callers share them.
THEOREM TypeCorrect == Spec => []TypeOK
<1>1. ServicesInv => TypeOK
  BY DEF ServicesInv
<1> QED
  BY InitServices, StepServices, <1>1, PTL DEF Spec

\* A call fails only when each of the services has failed it, for any number of services and
\* callers: the index that it goes by may wrap around, but reaches each of them, unless
\* another call of its kind moves it.
THEOREM FailsOnlyIfAllFailed == Spec => []FailsIfAllFail
<1>1. ServicesInv => FailsIfAllFail
  BY Zenon DEF ServicesInv, CallInv, EndInv, AllFailed, FailsIfAllFail
<1> QED
  BY InitServices, StepServices, <1>1, PTL DEF Spec

\* Exchange rates that were known once stay known, whichever calls began without them.
THEOREM RatesAreKept == Spec => RatesStayKnown
<1> DEFINE Kept == rates # "none" => rates' # "none"
<1>1. ASSUME NEW k \in Callers, NEW op \in Ops, Start(k, op) PROVE Kept
  BY <1>1 DEF Start, StartInTurn, StartHeader, StartVerify, StartPostBeef, StartFiat
<1>2. ASSUME NEW k \in Callers, Answer(k) PROVE Kept
  <2>1. SucceedFiat(k) => Kept
    BY DEF SucceedFiat
  <2>2. FailFiat(k) => Kept
    BY DEF FailFiat, RatesWithout
  <2> QED
    BY <1>2, <2>1, <2>2
       DEF Answer, Succeed, ProofFound, FailInTurn, ServiceFails, Reset, ChaintracksAnswers,
           TrackerFails, ChaintracksFails, SourceFails, AnswerPostBeef, AnswerPostTxs
<1>3. Age => Kept
  BY DEF Age
<1>4. [Next]_vars => [Kept]_rates
  BY <1>1, <1>2, <1>3 DEF Next, vars
<1> QED
  BY InitServices, StepServices, <1>4, PTL DEF Spec, RatesStayKnown
=============================================================================

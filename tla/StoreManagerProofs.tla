-------------------------- MODULE StoreManagerProofs --------------------------
(***************************************************************************)
(* Proofs that the stores of a WalletStorageManager are one store to its   *)
(* callers, that a call has the user id of the store it works on, and that *)
(* every switch is recorded where the next manager will read it, for any   *)
(* number of stores, callers and switches.  The lock's invariant is taken  *)
(* from StorageManagerLockProofs.                                          *)
(***************************************************************************)
EXTENDS StoreManager, SequenceTheorems, TLAPS

LP == INSTANCE StorageManagerLockProofs

Inside == {"work", "record", "copy", "done", "swapped"}

StoreTypes ==
    /\ stores \in Seq(Stores) /\ 0 < Len(stores) /\ Len(stores) <= MaxStores
    /\ records \in [Stores -> SUBSET Records]
    /\ now \in Nat \ {0}
    /\ activeIn \in [Stores -> Stores \cup {None}] /\ rowTime \in [Stores -> 0 .. now]
    /\ authIds \in Seq(Nat) /\ auth \in [Callers -> DOMAIN authIds]
    /\ step \in [Callers -> Steps] /\ on \in [Callers -> Stores \cup {None}]
    /\ index \in [Syncs -> 0 .. Len(stores)] /\ key \in [Syncs -> Stores \cup {None}]
    /\ todo \in [Syncs -> Seq(Stores)]
    /\ crossed \in BOOLEAN /\ halfway \in BOOLEAN

\* A call is at work while the lock says that it runs.
InsideRuns == \A c \in Callers : pc[c] = "run" <=> step[c] \in Inside

\* A call that asks for the user id knows whom it asks.
Asking == \A c \in Callers : step[c] = "ask" => on[c] \in Stores

\* The active store has all that is recorded anywhere.
ActiveHasAll == \A s \in Stores : records[s] \subseteq records[Active]

\* A switch copies to the store that it makes active, or is still to do so.
Copied ==
    \A c \in Syncs :
        Switching(c) /\ step[c] = "copy" =>
            \/ records[stores[index[c]]] = records[Active]
            \/ \E n \in DOMAIN todo[c] : todo[c][n] = stores[index[c]]

StoreInv ==
    /\ LP!IInv
    /\ StoreTypes
    /\ InsideRuns
    /\ Asking
    /\ authIds # <<>> /\ \A c \in Syncs : index[c] # 1
    /\ RunsOnActive
    /\ ActiveHasAll
    /\ Copied
-----------------------------------------------------------------------------
(* The lock.                                                               *)

\* The lock's steps keep its invariant, and so does leaving it alone.
LEMMA LockSteps ==
    ASSUME LP!IInv,
           \/ \E c \in Callers :
                \/ Lock!Call(c) \/ Lock!TakeSync(c) \/ Lock!TakeProvider(c)
                \/ Lock!EnterReader(c) \/ Lock!EnterWriter(c) \/ Lock!EnterExclusive(c)
                \/ Lock!RefuseProvider(c) \/ Lock!Leave(c)
           \/ UNCHANGED lockVars
    PROVE  LP!IInv'
<1>1. [LP!Next]_LP!vars
  BY DEF Callers, Lock!Callers, LP!Callers, LP!Next, Lock!Call, LP!Call, Lock!TakeSync,
         LP!TakeSync, Lock!TakeProvider, LP!TakeProvider, Lock!EnterReader, LP!EnterReader,
         Lock!EnterWriter, LP!EnterWriter, Lock!EnterExclusive, LP!EnterExclusive,
         Lock!RefuseProvider, LP!RefuseProvider, Lock!Leave, LP!Leave, Lock!Blocked, LP!Blocked,
         Lock!Proceed, LP!Proceed, Lock!Drained, LP!Drained, LP!vars, lockVars
<1>2. LP!IsFiniteSet(Readers) /\ LP!IsFiniteSet(Writers)
  BY StoresAssumption, Zenon DEF IsFiniteSet, LP!IsFiniteSet
<1> QED
  BY <1>1, <1>2, StoresAssumption, LP!NextIInv

\* Where a call is in the lock.
LEMMA PcTyped == LP!IInv => pc \in [Callers -> {"out", "wait", "drain", "run"}]
BY DEF LP!IInv, LP!Typed, Callers, Lock!Callers, LP!Callers

\* A Sync call runs alone.
LEMMA RunsAlone ==
    ASSUME LP!IInv, NEW c \in Syncs, pc[c] = "run", NEW d \in Callers, pc[d] = "run"
    PROVE  d = c
<1>1. LP!IsFiniteSet(Readers) /\ LP!IsFiniteSet(Writers)
  BY StoresAssumption, Zenon DEF IsFiniteSet, LP!IsFiniteSet
<1>2. LP!ExclusiveRunsAlone
  BY <1>1, StoresAssumption, LP!InvariantAlone
<1> QED
  BY <1>2 DEF LP!ExclusiveRunsAlone, LP!Running, LP!Callers, Callers, Lock!Callers

\* The lock's types.
LEMMA LockTypes == LP!IInv => Lock!TypeOK
<1>1. LP!IsFiniteSet(Readers) /\ LP!IsFiniteSet(Writers)
  BY StoresAssumption, Zenon DEF IsFiniteSet, LP!IsFiniteSet
<1>2. LP!IInv => LP!TypeOK
  BY <1>1, StoresAssumption, LP!InvariantTypes
<1> QED
  BY <1>2 DEF LP!TypeOK, Lock!TypeOK, LP!Callers, Lock!Callers

\* A Sync is a caller.
LEMMA CallersAre == Syncs \subseteq Callers /\ Writers \subseteq Callers /\ Providers \subseteq Callers
BY DEF Callers, Lock!Callers

\* The active store is one of the stores.
LEMMA ActiveIsStore == StoreTypes => Active \in Stores /\ Active = stores[1]
BY DEF StoreTypes, Active
-----------------------------------------------------------------------------
\* The initial states satisfy the invariant.
LEMMA InitStoreInv == Init => StoreInv
<1> SUFFICES ASSUME Init PROVE StoreInv
  OBVIOUS
<1>1. LP!IInv
  <2>1. LP!IsFiniteSet(Readers) /\ LP!IsFiniteSet(Writers)
    BY StoresAssumption, Zenon DEF IsFiniteSet, LP!IsFiniteSet
  <2>2. LP!Init
    BY DEF Init, Lock!Init, LP!Init, Lock!Callers, LP!Callers
  <2> QED
    BY <2>1, <2>2, StoresAssumption, LP!InitIInv
<1>2. StoreTypes
  <2>1. stores \in Seq(Stores) /\ 0 < Len(stores) /\ Len(stores) <= MaxStores
    BY StoresAssumption DEF Init
  <2>2. authIds \in Seq(Nat) /\ auth \in [Callers -> DOMAIN authIds]
    <3>1. authIds = <<0>> /\ DOMAIN authIds = {1}
      BY DEF Init
    <3>2. authIds \in Seq(Nat)
      BY <3>1
    <3> QED BY <3>1, <3>2 DEF Init
  <2>3. index \in [Syncs -> 0 .. Len(stores)]
    BY <2>1 DEF Init
  <2>4. todo \in [Syncs -> Seq(Stores)]
    BY DEF Init
  <2>5. rowTime \in [Stores -> 0 .. now] /\ now \in Nat \ {0}
    BY DEF Init
  <2>6. /\ records \in [Stores -> SUBSET Records] /\ activeIn \in [Stores -> Stores \cup {None}]
        /\ key \in [Syncs -> Stores \cup {None}] /\ on \in [Callers -> Stores \cup {None}]
        /\ step \in [Callers -> Steps] /\ crossed \in BOOLEAN /\ halfway \in BOOLEAN
    BY DEF Init, Steps
  <2> QED
    BY <2>1, <2>2, <2>3, <2>4, <2>5, <2>6 DEF StoreTypes
<1>3. InsideRuns /\ RunsOnActive
  BY DEF Init, Lock!Init, InsideRuns, RunsOnActive, Lock!Running, Inside, Callers
<1>4. Active \in Stores
  BY <1>2, ActiveIsStore
<1> QED
  BY <1>1, <1>2, <1>3, <1>4
     DEF Init, StoreInv, Asking, ActiveHasAll, Copied, Switching
-----------------------------------------------------------------------------
(* Before the lock.                                                        *)

\* A step of a call that is not inside changes nothing that is recorded.
LEMMA OutsideStep ==
    ASSUME StoreInv, NEW c \in Callers, step[c] \notin Inside,
           StoreTypes', LP!IInv', authIds' # <<>>,
           UNCHANGED <<pc, stores, records, todo>>,
           \A d \in Callers : d # c => step'[d] = step[d] /\ on'[d] = on[d],
           step'[c] \notin Inside, step'[c] = "ask" => on'[c] \in Stores,
           \A d \in Syncs : index'[d] # 1 /\ (d # c => index'[d] = index[d])
    PROVE  StoreInv'
<1>1. InsideRuns' /\ Asking'
  BY DEF StoreInv, InsideRuns, Asking
<1>2. RunsOnActive'
  <2>1. pc[c] # "run"
    BY DEF StoreInv, InsideRuns
  <2> QED
    BY <2>1 DEF StoreInv, RunsOnActive, Lock!Running, Active, Callers
<1>3. ActiveHasAll'
  BY DEF StoreInv, ActiveHasAll, Active
<1>4. Copied'
  BY CallersAre DEF StoreInv, Copied, Switching, Active, Inside
<1> QED
  BY <1>1, <1>2, <1>3, <1>4 DEF StoreInv

\* The key that is read is a store's.
LEMMA KeyTypes ==
    ASSUME StoreTypes, NEW c \in Callers, NEW i \in 0 .. Len(stores)
    PROVE  KeyOf(c, i) \in [Syncs -> Stores \cup {None}]
BY SMTT(20) DEF StoreTypes, KeyOf

\* getAuth, and findIndex before it.
LEMMA CallStep ==
    ASSUME StoreInv, NEW c \in Callers, Call(c)
    PROVE  StoreInv'
<1>t. StoreTypes /\ Active \in Stores
  BY ActiveIsStore DEF StoreInv
<1>1. /\ step[c] = "idle" /\ step' \in [Callers -> Steps] /\ on' \in [Callers -> Stores \cup {None}]
      /\ \A d \in Callers : d # c => step'[d] = step[d] /\ on'[d] = on[d]
      /\ step'[c] \in {"ready", "ask"} /\ (step'[c] = "ask" => on'[c] \in Stores)
  <2>1. step[c] = "idle"
    BY DEF Call
  <2>2. \/ step' = [step EXCEPT ![c] = "ready"] /\ UNCHANGED on
        \/ step' = [step EXCEPT ![c] = "ask"] /\ on' = [on EXCEPT ![c] = Active]
    BY DEF Call, GetAuth
  <2> QED
    BY <1>t, <2>1, <2>2 DEF StoreTypes, Steps
<1>2. CurrentAuth \in DOMAIN authIds
  BY DEF StoreInv, StoreTypes, CurrentAuth
<1>3. auth' \in [Callers -> DOMAIN authIds]
  BY <1>t, <1>2 DEF Call, GetAuth, StoreTypes
<1>4. index' \in [Syncs -> 0 .. Len(stores)] /\ \A d \in Syncs : index'[d] # 1 /\ (d # c => index'[d] = index[d])
  <2>1. index \in [Syncs -> 0 .. Len(stores)] /\ \A d \in Syncs : index[d] # 1
    BY <1>t DEF StoreInv, StoreTypes
  <2>2. \/ index' = index
        \/ \E i \in 2 .. Len(stores) : index' = [index EXCEPT ![c] = i]
    BY DEF Call, FindIndex
  <2>3. Len(stores) \in Nat
    BY <1>t DEF StoreTypes
  <2>4. CASE index' = index
    BY <2>1, <2>4
  <2>5. CASE \E i \in 2 .. Len(stores) : index' = [index EXCEPT ![c] = i]
    <3>1. PICK i \in 2 .. Len(stores) : index' = [index EXCEPT ![c] = i]
      BY <2>5
    <3>2. i \in 0 .. Len(stores) /\ i # 1
      BY <2>3
    <3> HIDE <2>3
    <3> QED
      BY <2>1, <3>1, <3>2
  <2> QED
    BY <2>2, <2>4, <2>5
<1>5. key' \in [Syncs -> Stores \cup {None}]
  <2>1. Len(stores) \in Nat
    BY <1>t DEF StoreTypes
  <2>2. \A i \in 0 .. Len(stores) : KeyOf(c, i) \in [Syncs -> Stores \cup {None}]
    BY <1>t, KeyTypes
  <2> QED
    BY <1>t, <2>1, <2>2 DEF Call, GetAuth, StoreTypes
<1>6. UNCHANGED <<lockVars, stores, dbVars, authIds, todo, crossed, halfway>>
  BY DEF Call
<1>7. StoreTypes'
  BY <1>t, <1>1, <1>3, <1>4, <1>5, <1>6 DEF StoreTypes, dbVars
<1>8. LP!IInv'
  BY <1>6, LockSteps DEF StoreInv
<1> QED
  BY <1>1, <1>4, <1>6, <1>7, <1>8, OutsideStep DEF StoreInv, Inside, lockVars, dbVars

\* The answer to getAuth.
LEMMA AnsweredStep ==
    ASSUME StoreInv, NEW c \in Callers, Answered(c)
    PROVE  StoreInv'
<1>t. StoreTypes
  BY DEF StoreInv
<1>1. step[c] = "ask" /\ on[c] \in Stores
  BY DEF Answered, StoreInv, Asking
<1>2. CurrentAuth \in DOMAIN authIds
  BY DEF StoreInv, StoreTypes, CurrentAuth
<1>3. /\ authIds' \in Seq(Nat) /\ DOMAIN authIds' = DOMAIN authIds /\ authIds' # <<>>
  <2>1. UserIdIn[on[c]] \in Nat
    BY <1>1, StoresAssumption
  <2>2. authIds \in Seq(Nat) /\ authIds # <<>> /\ auth[c] \in DOMAIN authIds
    BY <1>t DEF StoreTypes, StoreInv
  <2>3. authIds' = [authIds EXCEPT ![CurrentAuth] = UserIdIn[on[c]], ![auth[c]] = UserIdIn[on[c]]]
    BY DEF Answered
  <2> QED
    BY <1>2, <2>1, <2>2, <2>3
<1>4. auth' \in [Callers -> DOMAIN authIds']
  BY <1>t, <1>2, <1>3 DEF Answered, StoreTypes
<1>5. rowTime' \in [Stores -> 0 .. now]
  BY <1>t, <1>1 DEF Answered, StoreTypes, RowTime
<1>6. /\ step' \in [Callers -> Steps] /\ on' \in [Callers -> Stores \cup {None}]
      /\ \A d \in Callers : d # c => step'[d] = step[d] /\ on'[d] = on[d]
      /\ step'[c] = "ready"
  BY <1>t DEF Answered, StoreTypes, Steps
<1>7. key' \in [Syncs -> Stores \cup {None}]
  <2>1. 0 \in 0 .. Len(stores)
    BY <1>t DEF StoreTypes
  <2>2. c \in Syncs => index[c] \in 0 .. Len(stores)
    BY <1>t DEF StoreTypes
  <2> QED
    BY <1>t, <2>1, <2>2, KeyTypes DEF Answered
<1>8. UNCHANGED <<lockVars, stores, records, activeIn, now, index, todo, crossed, halfway>>
  BY DEF Answered
<1>9. StoreTypes'
  BY <1>t, <1>3, <1>4, <1>5, <1>6, <1>7, <1>8 DEF StoreTypes
<1>10. LP!IInv'
  BY <1>8, LockSteps DEF StoreInv
<1> QED
  BY <1>1, <1>3, <1>6, <1>8, <1>9, <1>10, OutsideStep DEF StoreInv, Inside, lockVars
-----------------------------------------------------------------------------
(* In and out.                                                             *)

\* A call that begins to wait or to drain.
LEMMA WaitStep ==
    ASSUME StoreInv, NEW c \in Callers, Wait(c)
    PROVE  StoreInv'
<1>1. LP!IInv'
  BY LockSteps DEF Wait, StoreInv
<1>2. /\ pc[c] \in {"out", "wait"} /\ pc'[c] \in {"wait", "drain"}
      /\ \A d \in Callers : d # c => pc'[d] = pc[d]
  BY PcTyped DEF Wait, Lock!Call, Lock!TakeSync, Lock!TakeProvider, Lock!Proceed, StoreInv
<1>3. UNCHANGED <<stores, dbVars, authIds, callVars, crossed, halfway>> /\ step[c] = "ready"
  BY DEF Wait
<1>4. StoreTypes' /\ Asking' /\ ActiveHasAll' /\ Copied'
  BY <1>3 DEF StoreInv, StoreTypes, Asking, ActiveHasAll, Copied, Active, Switching, dbVars, callVars
<1>5. InsideRuns'
  BY <1>2, <1>3 DEF StoreInv, InsideRuns, Inside, callVars
<1>6. RunsOnActive'
  BY <1>2, <1>3 DEF StoreInv, RunsOnActive, Lock!Running, Active, Callers, callVars
<1> QED
  BY <1>1, <1>3, <1>4, <1>5, <1>6 DEF StoreInv, callVars

\* A call that gets the lock works on the active store.
LEMMA EnterStep ==
    ASSUME StoreInv, NEW c \in Callers, Enter(c)
    PROVE  StoreInv'
<1>t. StoreTypes /\ Active \in Stores
  BY ActiveIsStore DEF StoreInv
<1>1. LP!IInv'
  BY LockSteps DEF Enter, StoreInv
<1>2. pc'[c] = "run" /\ \A d \in Callers : d # c => pc'[d] = pc[d]
  BY PcTyped DEF Enter, Lock!EnterReader, Lock!EnterWriter, Lock!EnterExclusive, Lock!Proceed, StoreInv
<1>3. /\ UNCHANGED <<stores, dbVars, authIds, auth, index, key, todo, crossed, halfway>>
      /\ step[c] = "ready" /\ step' = [step EXCEPT ![c] = "work"] /\ on' = [on EXCEPT ![c] = Active]
  BY DEF Enter
<1>4. /\ step' \in [Callers -> Steps] /\ on' \in [Callers -> Stores \cup {None}]
      /\ \A d \in Callers : d # c => step'[d] = step[d] /\ on'[d] = on[d]
      /\ step'[c] = "work" /\ on'[c] = Active
  BY <1>t, <1>3 DEF StoreTypes, Steps
<1>5. StoreTypes'
  BY <1>t, <1>3, <1>4 DEF StoreTypes, dbVars
<1>6. InsideRuns' /\ Asking'
  BY <1>2, <1>3, <1>4 DEF StoreInv, InsideRuns, Inside, Asking
<1>7. RunsOnActive'
  BY <1>2, <1>3, <1>4 DEF StoreInv, RunsOnActive, Lock!Running, Active, Callers
<1>8. ActiveHasAll' /\ Copied'
  BY <1>3, <1>4, CallersAre DEF StoreInv, ActiveHasAll, Copied, Active, Switching, dbVars
<1> QED
  BY <1>1, <1>3, <1>5, <1>6, <1>7, <1>8 DEF StoreInv

\* A StorageProvider call is refused on a remote store.
LEMMA RefuseStep ==
    ASSUME StoreInv, NEW c \in Callers, Refuse(c)
    PROVE  StoreInv'
<1>t. StoreTypes
  BY DEF StoreInv
<1>1. LP!IInv'
  BY LockSteps DEF Refuse, StoreInv
<1>2. pc'[c] = "out" /\ \A d \in Callers : d # c => pc'[d] = pc[d]
  BY PcTyped DEF Refuse, Lock!RefuseProvider, StoreInv
<1>3. /\ UNCHANGED <<stores, dbVars, authIds, auth, on, index, key, todo, crossed, halfway>>
      /\ step[c] = "ready" /\ step' = [step EXCEPT ![c] = "idle"]
  BY DEF Refuse
<1>4. /\ step' \in [Callers -> Steps] /\ step'[c] = "idle"
      /\ \A d \in Callers : d # c => step'[d] = step[d]
  BY <1>t, <1>3 DEF StoreTypes, Steps
<1>5. StoreTypes'
  BY <1>t, <1>3, <1>4 DEF StoreTypes, dbVars
<1>6. InsideRuns' /\ Asking'
  BY <1>2, <1>3, <1>4 DEF StoreInv, InsideRuns, Inside, Asking
<1>7. RunsOnActive'
  BY <1>2, <1>3, <1>4 DEF StoreInv, RunsOnActive, Lock!Running, Active, Callers
<1>8. ActiveHasAll' /\ Copied'
  BY <1>3, <1>4, CallersAre DEF StoreInv, ActiveHasAll, Copied, Active, Switching, dbVars
<1> QED
  BY <1>1, <1>3, <1>5, <1>6, <1>7, <1>8 DEF StoreInv

\* A call that returns gives the lock back.
LEMMA LeaveStep ==
    ASSUME StoreInv, NEW c \in Callers, Leave(c)
    PROVE  StoreInv'
<1>t. StoreTypes
  BY DEF StoreInv
<1>1. LP!IInv'
  BY LockSteps DEF Leave, StoreInv
<1>2. pc'[c] = "out" /\ \A d \in Callers : d # c => pc'[d] = pc[d]
  BY PcTyped DEF Leave, Lock!Leave, StoreInv
<1>3. /\ UNCHANGED <<stores, dbVars, authIds, todo, crossed, halfway>>
      /\ step' = [step EXCEPT ![c] = "idle"] /\ on' = [on EXCEPT ![c] = None]
  BY DEF Leave
<1>4. /\ step' \in [Callers -> Steps] /\ step'[c] = "idle" /\ on' \in [Callers -> Stores \cup {None}]
      /\ \A d \in Callers : d # c => step'[d] = step[d] /\ on'[d] = on[d]
  BY <1>t, <1>3 DEF StoreTypes, Steps
<1>5. /\ index' \in [Syncs -> 0 .. Len(stores)]
      /\ \A d \in Syncs : index'[d] # 1 /\ (d # c => index'[d] = index[d])
  <2>1. Len(stores) \in Nat
    BY <1>t DEF StoreTypes
  <2>2. index \in [Syncs -> 0 .. Len(stores)] /\ \A d \in Syncs : index[d] # 1
    BY <1>t DEF StoreInv, StoreTypes
  <2>3. index' = IF c \in Syncs THEN [index EXCEPT ![c] = 0] ELSE index
    BY DEF Leave
  <2>4. 0 \in 0 .. Len(stores)
    BY <2>1
  <2> QED
    BY <2>2, <2>3, <2>4
<1>6. key' \in [Syncs -> Stores \cup {None}]
  BY <1>t DEF Leave, StoreTypes
<1>7. auth' \in [Callers -> DOMAIN authIds]
  <2>1. 1 \in DOMAIN authIds
    BY <1>t DEF StoreInv, StoreTypes
  <2> QED
    BY <1>t, <2>1 DEF Leave, StoreTypes
<1>8. StoreTypes'
  BY <1>t, <1>3, <1>4, <1>5, <1>6, <1>7 DEF StoreTypes, dbVars
<1>9. InsideRuns' /\ Asking'
  BY <1>2, <1>3, <1>4 DEF StoreInv, InsideRuns, Inside, Asking
<1>10. RunsOnActive'
  BY <1>2, <1>3, <1>4 DEF StoreInv, RunsOnActive, Lock!Running, Active, Callers
<1>11. ActiveHasAll' /\ Copied'
  BY <1>3, <1>4, <1>5, CallersAre DEF StoreInv, ActiveHasAll, Copied, Active, Switching, dbVars
<1> QED
  BY <1>1, <1>3, <1>5, <1>8, <1>9, <1>10, <1>11 DEF StoreInv
-----------------------------------------------------------------------------
(* Inside.                                                                 *)

\* A step of a call that stays inside and on its store.
LEMMA InsideStep ==
    ASSUME StoreInv, NEW c \in Callers, step[c] \in Inside, LockOnly,
           StoreTypes', authIds' # <<>>,
           step'[c] \in Inside \ {"swapped"}, step[c] # "swapped",
           \A d \in Callers : d # c => step'[d] = step[d],
           ActiveHasAll', Copied'
    PROVE  StoreInv'
<1>1. LP!IInv'
  BY LockSteps DEF StoreInv, LockOnly
<1>2. InsideRuns' /\ Asking'
  BY DEF StoreInv, InsideRuns, Asking, LockOnly, lockVars, Inside
<1>3. RunsOnActive'
  BY DEF StoreInv, RunsOnActive, LockOnly, lockVars, Lock!Running, Active, Callers
<1> QED
  BY <1>1, <1>2, <1>3 DEF StoreInv, LockOnly

\* A call inside is on the active store, unless it has switched.
LEMMA OnActive ==
    ASSUME StoreInv, NEW c \in Callers, step[c] \in Inside \ {"swapped"}
    PROVE  on[c] = Active /\ Active \in Stores /\ pc[c] = "run"
BY ActiveIsStore DEF StoreInv, InsideRuns, RunsOnActive, Lock!Running, Callers

\* While any call runs, no Sync call but itself copies.
LEMMA NoneCopies ==
    ASSUME StoreInv, NEW c \in Callers, step[c] \in Inside, NEW d \in Syncs, step[d] = "copy"
    PROVE  d = c
<1>1. pc[c] = "run" /\ pc[d] = "run" /\ d \in Callers
  BY CallersAre DEF StoreInv, InsideRuns, Inside
<1> QED
  BY <1>1, RunsAlone DEF StoreInv

\* A writer, a StorageProvider call and syncFromReader record on the active store.
LEMMA RecordStep ==
    ASSUME StoreInv, NEW c \in Callers, Record(c) \/ SyncFromReader(c)
    PROVE  /\ StoreInv'
           /\ \/ UNCHANGED records[Active]
              \/ \E r \in Records : records'[Active] = records[Active] \cup {r}
<1>t. StoreTypes
  BY DEF StoreInv
<1>1. step[c] = "work" /\ step' = [step EXCEPT ![c] = "done"] /\ LockOnly
  BY DEF Record, SyncFromReader
<1>2. on[c] = Active /\ Active \in Stores
  BY <1>1, OnActive DEF Inside
<1>3. \/ records' = records
      \/ \E r \in Records : records' = [records EXCEPT ![Active] = @ \cup {r}]
  BY <1>2 DEF Record, SyncFromReader, Records
<1>4. UNCHANGED <<activeIn, rowTime, now, authIds, todo, crossed, halfway>>
  BY DEF Record, SyncFromReader
<1>5. /\ step' \in [Callers -> Steps] /\ step'[c] = "done"
      /\ \A d \in Callers : d # c => step'[d] = step[d]
  BY <1>t, <1>1 DEF StoreTypes, Steps
<1>6. /\ records' \in [Stores -> SUBSET Records] /\ records[Active] \subseteq records'[Active]
      /\ \A s \in Stores : s # Active => records'[s] = records[s]
  <2>1. records \in [Stores -> SUBSET Records]
    BY <1>t DEF StoreTypes
  <2>2. CASE records' = records
    BY <2>1, <2>2
  <2>3. CASE \E r \in Records : records' = [records EXCEPT ![Active] = @ \cup {r}]
    <3>1. PICK r \in Records : records' = [records EXCEPT ![Active] = @ \cup {r}]
      BY <2>3
    <3> DEFINE x == records[Active] \cup {r}
    <3>2. x \in SUBSET Records /\ records[Active] \subseteq x /\ records' = [records EXCEPT ![Active] = x]
      BY <1>2, <2>1, <3>1
    <3> HIDE DEF x
    <3> QED
      BY <1>2, <2>1, <3>2
  <2> QED
    BY <1>3, <2>2, <2>3
<1>7. StoreTypes'
  BY <1>t, <1>1, <1>4, <1>5, <1>6 DEF StoreTypes, LockOnly
<1>8. Active' = Active
  BY <1>1 DEF LockOnly, Active
<1>9. ActiveHasAll'
  BY <1>6, <1>8 DEF StoreInv, ActiveHasAll
<1>10. Copied'
  <2>1. \A d \in Syncs : step'[d] # "copy"
    BY <1>1, <1>5, NoneCopies, CallersAre DEF Inside
  <2> QED
    BY <2>1 DEF Copied
<1>11. StoreInv'
  BY <1>1, <1>4, <1>5, <1>7, <1>9, <1>10, InsideStep DEF Inside, StoreInv
<1> QED
  BY <1>2, <1>3, <1>8, <1>11, <1>t DEF StoreTypes

\* A step that copies nothing and changes nothing recorded.
LEMMA RecordActiveStep ==
    ASSUME StoreInv, NEW c \in Callers, RecordActive(c)
    PROVE  StoreInv' /\ UNCHANGED <<records, stores>>
<1>t. StoreTypes
  BY DEF StoreInv
<1>1. /\ step[c] = "work" /\ step' = [step EXCEPT ![c] = "record"] /\ LockOnly /\ c \in Syncs
      /\ UNCHANGED <<records, authIds, todo, crossed, halfway>> /\ now' = now + 1
  BY DEF RecordActive, Switching
<1>2. on[c] = Active /\ Active \in Stores
  BY <1>1, OnActive DEF Inside
<1>3. /\ step' \in [Callers -> Steps] /\ step'[c] = "record"
      /\ \A d \in Callers : d # c => step'[d] = step[d]
  BY <1>t, <1>1 DEF StoreTypes, Steps
<1>4. activeIn' \in [Stores -> Stores \cup {None}]
  BY <1>t, <1>1 DEF RecordActive, StoreTypes
<1>5. now' \in Nat \ {0} /\ rowTime' \in [Stores -> 0 .. now']
  <2>1. now \in Nat \ {0} /\ rowTime \in [Stores -> 0 .. now]
    BY <1>t DEF StoreTypes
  <2> DEFINE t == now + 1
  <2>2. t \in Nat \ {0} /\ 0 .. now \subseteq 0 .. t /\ t \in 0 .. t /\ now' = t
    BY <1>1, <2>1
  <2>3. rowTime' = rowTime \/ rowTime' = [rowTime EXCEPT ![on[c]] = t]
    BY DEF RecordActive
  <2> HIDE DEF t
  <2> QED
    BY <2>1, <2>2, <2>3
<1>6. StoreTypes'
  BY <1>t, <1>1, <1>3, <1>4, <1>5 DEF StoreTypes, LockOnly
<1>7. ActiveHasAll'
  BY <1>1 DEF StoreInv, ActiveHasAll, Active, LockOnly
<1>8. Copied'
  <2>1. \A d \in Syncs : step'[d] # "copy"
    BY <1>1, <1>3, NoneCopies, CallersAre DEF Inside
  <2> QED
    BY <2>1 DEF Copied
<1>9. StoreInv'
  BY <1>1, <1>3, <1>6, <1>7, <1>8, InsideStep DEF Inside, StoreInv
<1> QED
  BY <1>1, <1>9 DEF LockOnly

\* updateBackups begins with all the backups, the store to switch to among them.
LEMMA UpdateBackupsStep ==
    ASSUME StoreInv, NEW c \in Callers, UpdateBackups(c)
    PROVE  StoreInv' /\ UNCHANGED <<records, stores>>
<1>t. StoreTypes
  BY DEF StoreInv
<1>1. /\ step[c] \in {"work", "record"} /\ step' = [step EXCEPT ![c] = "copy"] /\ LockOnly
      /\ c \in Syncs /\ todo' = [todo EXCEPT ![c] = Tail(stores)]
      /\ UNCHANGED <<records, activeIn, now, crossed, halfway>>
  BY DEF UpdateBackups, Switching, Backups
<1>2. on[c] = Active /\ Active \in Stores
  BY <1>1, OnActive DEF Inside
<1>3. /\ step' \in [Callers -> Steps] /\ step'[c] = "copy"
      /\ \A d \in Callers : d # c => step'[d] = step[d]
  BY <1>t, <1>1 DEF StoreTypes, Steps
<1>4. Tail(stores) \in Seq(Stores) /\ todo' \in [Syncs -> Seq(Stores)] /\ todo'[c] = Tail(stores)
  BY <1>t, <1>1 DEF StoreTypes
<1>5. /\ authIds' \in Seq(Nat) /\ DOMAIN authIds' = DOMAIN authIds /\ authIds' # <<>>
  <2>1. UserIdIn[Active] \in Nat
    BY <1>2, StoresAssumption
  <2>2. authIds' = authIds \/ authIds' = [authIds EXCEPT ![CurrentAuth] = UserIdIn[Active]]
    BY DEF UpdateBackups
  <2> QED
    BY <1>t, <2>1, <2>2, SMTT(20) DEF StoreTypes, StoreInv, CurrentAuth
<1>6. rowTime' \in [Stores -> 0 .. now]
  BY <1>t, <1>2 DEF UpdateBackups, StoreTypes, RowTime
<1>7. StoreTypes'
  BY <1>t, <1>1, <1>3, <1>4, <1>5, <1>6 DEF StoreTypes, LockOnly
<1>8. ActiveHasAll'
  BY <1>1 DEF StoreInv, ActiveHasAll, Active, LockOnly
<1>9. Copied'
  <2> SUFFICES ASSUME NEW d \in Syncs, Switching(d)', step'[d] = "copy"
               PROVE  \E n \in DOMAIN todo'[d] : todo'[d][n] = stores'[index'[d]]
    BY DEF Copied
  <2>1. d = c
    BY <1>1, <1>3, NoneCopies, CallersAre DEF Inside
  <2>2. index[c] \in 2 .. Len(stores) /\ UNCHANGED <<stores, index>>
    BY <1>t, <1>1, <2>1 DEF Switching, StoreInv, StoreTypes, LockOnly
  <2>3. /\ index[c] - 1 \in DOMAIN Tail(stores) /\ Tail(stores)[index[c] - 1] = stores[index[c]]
    <3>1. stores \in Seq(Stores) /\ stores # <<>> /\ Len(stores) \in Nat
      BY <1>t DEF StoreTypes
    <3>2. /\ Len(Tail(stores)) = Len(stores) - 1 /\ Tail(stores) \in Seq(Stores)
          /\ \A n \in 1 .. Len(Tail(stores)) : Tail(stores)[n] = stores[n + 1]
      BY <3>1, HeadTailProperties
    <3>3. index[c] - 1 \in 1 .. Len(Tail(stores)) /\ (index[c] - 1) + 1 = index[c]
      BY <2>2, <3>1, <3>2
    <3> QED
      BY <3>2, <3>3
  <2> QED
    BY <1>4, <2>1, <2>2, <2>3
<1>10. StoreInv'
  BY <1>1, <1>3, <1>5, <1>7, <1>8, <1>9, InsideStep DEF Inside, StoreInv
<1> QED
  BY <1>1, <1>10 DEF LockOnly

\* The next backup gets all that the active store has.
LEMMA SyncToWriterStep ==
    ASSUME StoreInv, NEW c \in Syncs, SyncToWriter(c)
    PROVE  StoreInv' /\ records'[Active] = records[Active] /\ UNCHANGED stores
<1>t. StoreTypes /\ c \in Callers
  BY CallersAre DEF StoreInv
<1> DEFINE s == Head(todo[c])
<1>1. /\ step[c] = "copy" /\ todo[c] # <<>> /\ LockOnly
      /\ UNCHANGED <<now, authIds, step, crossed, halfway>>
      /\ todo' = [todo EXCEPT ![c] = Tail(@)]
      /\ records' = [records EXCEPT ![s] = @ \cup records[on[c]]]
  BY DEF SyncToWriter
<1>2. on[c] = Active /\ Active \in Stores
  BY <1>t, <1>1, OnActive DEF Inside
<1>3. /\ s \in Stores /\ s = todo[c][1] /\ Tail(todo[c]) \in Seq(Stores)
      /\ \A n \in DOMAIN todo[c] : n # 1 => /\ n - 1 \in DOMAIN Tail(todo[c])
                                           /\ Tail(todo[c])[n - 1] = todo[c][n]
  <2>1. todo[c] \in Seq(Stores) /\ todo[c] # <<>> /\ Len(todo[c]) \in Nat
    BY <1>t, <1>1 DEF StoreTypes
  <2>2. /\ Len(Tail(todo[c])) = Len(todo[c]) - 1 /\ Tail(todo[c]) \in Seq(Stores)
        /\ \A n \in 1 .. Len(Tail(todo[c])) : Tail(todo[c])[n] = todo[c][n + 1]
        /\ Head(todo[c]) \in Stores
    BY <2>1, HeadTailProperties
  <2>3. \A n \in DOMAIN todo[c] : n # 1 => /\ n - 1 \in DOMAIN Tail(todo[c])
                                          /\ Tail(todo[c])[n - 1] = todo[c][n]
    <3> SUFFICES ASSUME NEW n \in DOMAIN todo[c], n # 1
                 PROVE  n - 1 \in DOMAIN Tail(todo[c]) /\ Tail(todo[c])[n - 1] = todo[c][n]
      OBVIOUS
    <3>1. n - 1 \in 1 .. Len(Tail(todo[c])) /\ (n - 1) + 1 = n
      BY <2>1, <2>2
    <3> QED
      BY <2>2, <3>1
  <2>4. s = todo[c][1]
    BY <2>1
  <2> QED
    BY <2>2, <2>3, <2>4
<1>4. /\ records' \in [Stores -> SUBSET Records]
      /\ \A r \in Stores : records'[r] = IF r = s THEN records[s] \cup records[Active] ELSE records[r]
  <2>1. records[s] \cup records[Active] \subseteq Records
    BY <1>t, <1>2, <1>3 DEF StoreTypes
  <2> QED
    BY <1>t, <1>1, <1>2, <1>3, <2>1 DEF StoreTypes
<1>5. records'[Active] = records[Active] /\ records'[s] = records[Active]
  BY <1>2, <1>3, <1>4 DEF StoreInv, ActiveHasAll
<1>6. activeIn' \in [Stores -> Stores \cup {None}] /\ rowTime' \in [Stores -> 0 .. now]
  <2>1. activeIn[on[c]] \in Stores \cup {None} /\ RowTime(s) \in 0 .. now /\ now \in Nat
    BY <1>t, <1>2, <1>3 DEF StoreTypes, RowTime
  <2> QED
    BY <1>t, <1>3, <2>1, SMTT(20) DEF SyncToWriter, StoreTypes
<1>7. todo' \in [Syncs -> Seq(Stores)] /\ todo'[c] = Tail(todo[c])
  BY <1>t, <1>1, <1>3 DEF StoreTypes
<1> HIDE DEF s
<1>8. StoreTypes'
  BY <1>t, <1>1, <1>4, <1>6, <1>7 DEF StoreTypes, LockOnly
<1>9. Active' = Active
  BY <1>1 DEF LockOnly, Active
<1>10. ActiveHasAll'
  BY <1>2, <1>4, <1>5, <1>9 DEF StoreInv, ActiveHasAll
<1>11. Copied'
  <2> SUFFICES ASSUME NEW d \in Syncs, Switching(d)', step'[d] = "copy"
               PROVE  \/ records'[stores'[index'[d]]] = records'[Active']
                      \/ \E n \in DOMAIN todo'[d] : todo'[d][n] = stores'[index'[d]]
    BY DEF Copied
  <2>1. d = c /\ UNCHANGED <<stores, index>>
    BY <1>t, <1>1, NoneCopies DEF Inside, LockOnly
  <2> DEFINE x == stores[index[c]]
  <2>2. x \in Stores
    BY <1>t, <2>1 DEF Switching, StoreTypes
  <2>3. records[x] = records[Active] \/ \E n \in DOMAIN todo[c] : todo[c][n] = x
    BY <1>1, <2>1 DEF StoreInv, Copied, Switching
  <2>4. CASE records[x] = records[Active] \/ x = s
    BY <1>4, <1>5, <1>9, <2>1, <2>2, <2>4
  <2>5. CASE x # s /\ \E n \in DOMAIN todo[c] : todo[c][n] = x
    <3>1. PICK n \in DOMAIN todo[c] : todo[c][n] = x /\ n # 1
      BY <1>3, <2>5
    <3>2. n - 1 \in DOMAIN todo'[c] /\ todo'[c][n - 1] = x
      BY <1>3, <1>7, <3>1
    <3> QED
      BY <2>1, <3>2
  <2> QED
    BY <2>3, <2>4, <2>5
<1>12. StoreInv'
  BY <1>t, <1>1, <1>8, <1>10, <1>11, InsideStep DEF Inside, StoreInv
<1> QED
  BY <1>1, <1>5, <1>12 DEF LockOnly

\* A backup that fails ends the call.
LEMMA BackupFailsStep ==
    ASSUME StoreInv, NEW c \in Syncs, BackupFails(c)
    PROVE  StoreInv' /\ UNCHANGED <<records, stores>>
<1>t. StoreTypes /\ c \in Callers
  BY CallersAre DEF StoreInv
<1>1. /\ step[c] = "copy" /\ LockOnly /\ step' = [step EXCEPT ![c] = "done"]
      /\ todo' = [todo EXCEPT ![c] = <<>>] /\ halfway' = (halfway \/ Switching(c))
      /\ UNCHANGED <<dbVars, authIds, crossed>>
  BY DEF BackupFails
<1>2. /\ step' \in [Callers -> Steps] /\ step'[c] = "done"
      /\ \A d \in Callers : d # c => step'[d] = step[d]
  BY <1>t, <1>1 DEF StoreTypes, Steps
<1>3. todo' \in [Syncs -> Seq(Stores)]
  BY <1>t, <1>1 DEF StoreTypes
<1>4. halfway' \in BOOLEAN
  BY <1>1
<1>5. StoreTypes'
  BY <1>t, <1>1, <1>2, <1>3, <1>4 DEF StoreTypes, LockOnly, dbVars
<1>6. ActiveHasAll'
  BY <1>1 DEF StoreInv, ActiveHasAll, Active, LockOnly, dbVars
<1>7. Copied'
  <2>1. \A d \in Syncs : step'[d] # "copy"
    BY <1>t, <1>1, <1>2, NoneCopies DEF Inside
  <2> QED
    BY <2>1 DEF Copied
<1>8. StoreInv'
  BY <1>t, <1>1, <1>2, <1>5, <1>6, <1>7, InsideStep DEF Inside, StoreInv
<1> QED
  BY <1>1, <1>8 DEF LockOnly, dbVars

\* The store that becomes active has what the old one has, and no other call runs.
LEMMA SetActiveStep ==
    ASSUME StoreInv, NEW c \in Syncs, SetActive(c)
    PROVE  StoreInv' /\ UNCHANGED records /\ records[Active'] = records[Active]
<1>t. StoreTypes /\ c \in Callers
  BY CallersAre DEF StoreInv
<1>1. /\ step[c] = "copy" /\ todo[c] = <<>> /\ step' = [step EXCEPT ![c] = "swapped"]
      /\ stores' = [stores EXCEPT ![1] = stores[index[c]], ![index[c]] = stores[1]]
      /\ authIds' = Append(authIds, 0) /\ halfway' = FALSE /\ Switching(c)
      /\ UNCHANGED <<lockVars, dbVars, auth, on, index, key, todo>>
  BY DEF SetActive, Swap
<1>2. index[c] \in 2 .. Len(stores) /\ Len(stores) \in Nat
  <2>1. index[c] \in 0 .. Len(stores) /\ Len(stores) \in Nat
    BY <1>t DEF StoreTypes
  <2>2. index[c] # 1 /\ index[c] > 0
    BY <1>1 DEF Switching, StoreInv
  <2> QED
    BY <2>1, <2>2
<1>3. /\ stores' \in Seq(Stores) /\ Len(stores') = Len(stores) /\ stores'[1] = stores[index[c]]
  <2>1. stores \in Seq(Stores) /\ 1 \in 1 .. Len(stores) /\ index[c] \in 1 .. Len(stores)
    BY <1>t, <1>2 DEF StoreTypes
  <2>2. stores[1] \in Stores /\ stores[index[c]] \in Stores
    BY <2>1, ElementOfSeq
  <2> DEFINE q == [stores EXCEPT ![1] = stores[index[c]]]
  <2>3. q \in Seq(Stores) /\ Len(q) = Len(stores) /\ q[1] = stores[index[c]]
    BY <2>1, <2>2, ExceptSeq
  <2>4. stores' = [q EXCEPT ![index[c]] = stores[1]]
    BY <1>1
  <2> HIDE DEF q
  <2>5. /\ [q EXCEPT ![index[c]] = stores[1]] \in Seq(Stores)
        /\ Len([q EXCEPT ![index[c]] = stores[1]]) = Len(q)
        /\ \A j \in 1 .. Len(q) :
             [q EXCEPT ![index[c]] = stores[1]][j] = IF j = index[c] THEN stores[1] ELSE q[j]
    BY <2>1, <2>2, <2>3, ExceptSeq
  <2>6. index[c] # 1
    BY <1>1, <1>2
  <2> QED
    BY <2>1, <2>3, <2>4, <2>5, <2>6
<1>4. records[stores[index[c]]] = records[Active]
  BY <1>1 DEF StoreInv, Copied
<1>5. Active' = stores[index[c]] /\ Active \in Stores /\ Active' \in Stores
  <2>1. Active \in Stores /\ stores'[1] \in Stores
    BY <1>t, <1>2, <1>3, ActiveIsStore, ElementOfSeq
  <2>2. Active' = stores'[1]
    BY <1>2, <1>3 DEF Active
  <2> QED
    BY <1>3, <2>1, <2>2
<1>6. /\ step' \in [Callers -> Steps] /\ step'[c] = "swapped"
      /\ \A d \in Callers : d # c => step'[d] = step[d]
  BY <1>t, <1>1 DEF StoreTypes, Steps
<1>7. /\ authIds' \in Seq(Nat) /\ authIds' # <<>> /\ DOMAIN authIds \subseteq DOMAIN authIds'
  <2>1. authIds \in Seq(Nat) /\ Len(authIds) \in Nat /\ 0 \in Nat
    BY <1>t DEF StoreTypes
  <2>2. authIds' \in Seq(Nat) /\ authIds' # <<>> /\ Len(authIds') = Len(authIds) + 1
    BY <1>1, <2>1, AppendProperties
  <2>3. DOMAIN authIds = 1 .. Len(authIds) /\ DOMAIN authIds' = 1 .. Len(authIds')
    BY <2>1, <2>2
  <2> QED
    BY <2>1, <2>2, <2>3
<1>8. StoreTypes'
  <2>1. crossed' \in BOOLEAN
    BY <1>t DEF SetActive, StoreTypes
  <2>2. auth' \in [Callers -> DOMAIN authIds']
    BY <1>t, <1>1, <1>7 DEF StoreTypes
  <2>3. index' \in [Syncs -> 0 .. Len(stores')]
    BY <1>t, <1>1, <1>3 DEF StoreTypes
  <2> QED
    BY <1>t, <1>1, <1>3, <1>6, <1>7, <2>1, <2>2, <2>3 DEF StoreTypes, dbVars
<1>9. LP!IInv'
  BY <1>1, LockSteps DEF StoreInv
<1>10. \A d \in Callers : step[d] \in Inside => d = c
  BY <1>t, <1>1, RunsAlone DEF StoreInv, InsideRuns, Inside
<1>11. InsideRuns' /\ Asking'
  BY <1>1, <1>6 DEF StoreInv, InsideRuns, Asking, lockVars, Inside
<1>12. RunsOnActive'
  <2>1. \A d \in Callers : pc'[d] = "run" => d = c
    BY <1>1, <1>10 DEF StoreInv, InsideRuns, lockVars
  <2> QED
    BY <1>6, <2>1 DEF RunsOnActive, Lock!Running, Callers
<1>13. ActiveHasAll'
  BY <1>1, <1>4, <1>5 DEF StoreInv, ActiveHasAll, dbVars
<1>14. Copied'
  <2>1. \A d \in Syncs : step'[d] # "copy"
    BY <1>6, <1>10, CallersAre DEF Inside
  <2> QED
    BY <2>1 DEF Copied
<1> QED
  BY <1>1, <1>4, <1>5, <1>7, <1>8, <1>9, <1>11, <1>12, <1>13, <1>14 DEF StoreInv, dbVars

\* A store that is added comes last.
LEMMA AddStep ==
    ASSUME StoreInv, NEW s \in Stores, AddWalletStorageProvider(s)
    PROVE  StoreInv' /\ UNCHANGED records /\ Active' = Active
<1>t. StoreTypes
  BY DEF StoreInv
<1>1. /\ stores' = Append(stores, s) /\ Len(stores) < MaxStores
      /\ UNCHANGED <<lockVars, dbVars, authIds, callVars, crossed, halfway>>
  BY DEF AddWalletStorageProvider
<1>2. /\ stores' \in Seq(Stores) /\ Len(stores') = Len(stores) + 1 /\ Len(stores') <= MaxStores
      /\ \A n \in 1 .. Len(stores) : stores'[n] = stores[n]
  BY <1>t, <1>1, StoresAssumption DEF StoreTypes
<1>3. Active' = Active
  BY <1>t, <1>2 DEF StoreTypes, Active
<1>4. StoreTypes'
  <2>1. index' \in [Syncs -> 0 .. Len(stores')]
    BY <1>t, <1>1, <1>2 DEF StoreTypes, callVars
  <2> QED
    BY <1>t, <1>1, <1>2, <2>1 DEF StoreTypes, dbVars, callVars
<1>5. LP!IInv'
  BY <1>1, LockSteps DEF StoreInv
<1>6. InsideRuns' /\ Asking' /\ RunsOnActive' /\ ActiveHasAll'
  BY <1>1, <1>3
     DEF StoreInv, InsideRuns, Asking, RunsOnActive, Lock!Running, ActiveHasAll, lockVars, dbVars,
         callVars
<1>7. Copied'
  <2>1. \A c \in Syncs : Switching(c) => stores'[index[c]] = stores[index[c]]
    BY <1>t, <1>2 DEF StoreTypes, Switching
  <2>2. UNCHANGED <<records, index, step, todo>>
    BY <1>1 DEF dbVars, callVars
  <2> SUFFICES ASSUME NEW c \in Syncs, Switching(c), step[c] = "copy"
               PROVE  \/ records[stores[index[c]]] = records[Active]
                      \/ \E n \in DOMAIN todo[c] : todo[c][n] = stores[index[c]]
    BY <1>3, <2>1, <2>2 DEF Copied, Switching
  <2> QED
    BY Zenon DEF StoreInv, Copied
<1> QED
  BY <1>1, <1>3, <1>4, <1>5, <1>6, <1>7 DEF StoreInv, dbVars, callVars
-----------------------------------------------------------------------------
\* Every step keeps the invariant, and what the active store has stays or grows by one call's
\* record.
LEMMA StepStoreInv ==
    ASSUME StoreInv, [Next]_vars
    PROVE  /\ StoreInv'
           /\ \/ records'[Active'] = records[Active]
              \/ \E r \in Records : records'[Active'] = records[Active] \cup {r}
<1> DEFINE Grows == \/ records'[Active'] = records[Active]
                    \/ \E r \in Records : records'[Active'] = records[Active] \cup {r}
<1> SUFFICES StoreInv' /\ Grows
  OBVIOUS
<1>1. ASSUME NEW c \in Callers, Call(c) PROVE StoreInv' /\ Grows
  BY <1>1, CallStep DEF Call, dbVars, Active
<1>2. ASSUME NEW c \in Callers, Answered(c) PROVE StoreInv' /\ Grows
  BY <1>2, AnsweredStep DEF Answered, Active
<1>3. ASSUME NEW c \in Callers, Wait(c) PROVE StoreInv' /\ Grows
  BY <1>3, WaitStep DEF Wait, dbVars, Active
<1>4. ASSUME NEW c \in Callers, Enter(c) PROVE StoreInv' /\ Grows
  BY <1>4, EnterStep DEF Enter, dbVars, Active
<1>5. ASSUME NEW c \in Callers, Refuse(c) PROVE StoreInv' /\ Grows
  BY <1>5, RefuseStep DEF Refuse, dbVars, Active
<1>6. ASSUME NEW c \in Callers, Leave(c) PROVE StoreInv' /\ Grows
  BY <1>6, LeaveStep DEF Leave, dbVars, Active
<1>7. ASSUME NEW c \in Callers, Record(c) \/ SyncFromReader(c) PROVE StoreInv' /\ Grows
  <2>1. UNCHANGED stores
    BY <1>7 DEF Record, SyncFromReader, LockOnly
  <2> QED
    BY <1>7, <2>1, RecordStep DEF Active
<1>8. ASSUME NEW c \in Callers, RecordActive(c) \/ UpdateBackups(c) PROVE StoreInv' /\ Grows
  BY <1>8, RecordActiveStep, UpdateBackupsStep DEF Active
<1>9. ASSUME NEW c \in Callers, SyncToWriter(c) \/ BackupFails(c) \/ SetActive(c)
      PROVE  StoreInv' /\ Grows
  <2>1. c \in Syncs
    BY <1>9 DEF SyncToWriter, BackupFails, SetActive, Switching
  <2> QED
    BY <1>9, <2>1, SyncToWriterStep, BackupFailsStep, SetActiveStep DEF Active
<1>10. ASSUME NEW s \in Stores, AddWalletStorageProvider(s) PROVE StoreInv' /\ Grows
  BY <1>10, AddStep
<1>11. CASE UNCHANGED vars
  <2>1. LP!IInv'
    BY <1>11, LockSteps DEF StoreInv, vars
  <2>2. UNCHANGED <<pc, stores, records, authIds, step, on, index, todo>>
    BY <1>11 DEF vars, lockVars, dbVars, callVars
  <2>3. StoreTypes'
    BY <1>11 DEF vars, dbVars, callVars, StoreInv, StoreTypes
  <2>4. (InsideRuns /\ Asking /\ RunsOnActive /\ ActiveHasAll /\ Copied)'
    BY <2>2 DEF StoreInv, InsideRuns, Asking, RunsOnActive, Lock!Running, ActiveHasAll, Copied,
                Switching, Active
  <2> QED
    BY <2>1, <2>2, <2>3, <2>4 DEF StoreInv, Active
<1> QED
  BY <1>1, <1>2, <1>3, <1>4, <1>5, <1>6, <1>7, <1>8, <1>9, <1>10, <1>11 DEF Next
-----------------------------------------------------------------------------
(* The user id and the recorded switch.                                    *)

\* Until a switch crosses a call, whoever needs the user id has the one of the active store;
\* the call that has switched has that of the old one.
OwnIds ==
    /\ \A c \in Providers : step[c] # "ask"
    /\ ~crossed =>
        /\ authIds[CurrentAuth] \in {0, UserIdIn[Active]}
        /\ \A c \in Callers \ Providers :
             /\ step[c] \notin {"idle", "swapped"} => auth[c] = CurrentAuth
             /\ step[c] = "ask" => on[c] = Active
             /\ step[c] \notin {"idle", "ask", "swapped"} => authIds[CurrentAuth] # 0
             /\ step[c] = "swapped" => /\ auth[c] # CurrentAuth
                                       /\ authIds[auth[c]] = UserIdIn[on[c]]

\* The ids there are, and those of the stores.
LEMMA IdTypes ==
    ASSUME StoreInv
    PROVE  /\ CurrentAuth \in DOMAIN authIds /\ UserIdIn[Active] # 0
           /\ \A s \in Stores : UserIdIn[s] \in Nat \ {0}
<1>1. StoreTypes /\ Active \in Stores
  BY ActiveIsStore DEF StoreInv
<1>2. authIds # <<>> /\ authIds \in Seq(Nat)
  BY DEF StoreInv, StoreTypes
<1>3. CurrentAuth \in DOMAIN authIds
  BY <1>2 DEF CurrentAuth
<1>4. \A s \in Stores : UserIdIn[s] \in Nat \ {0}
  BY StoresAssumption
<1> QED
  BY <1>1, <1>3, <1>4

LEMMA InitOwnIds == Init => OwnIds
BY CallersAre DEF Init, OwnIds, CurrentAuth

\* A step that leaves the ids and the stores alone.
LEMMA KeepsOwnIds ==
    ASSUME StoreInv, OwnIds, NEW c \in Callers,
           UNCHANGED <<authIds, crossed>>, Active' = Active,
           \A d \in Callers : d # c => step'[d] = step[d] /\ on'[d] = on[d] /\ auth'[d] = auth[d],
           c \in Providers => step'[c] # "ask",
           c \notin Providers =>
               \/ step'[c] = "idle"
               \/ /\ step[c] = "idle" /\ auth'[c] = CurrentAuth
                  /\ \/ step'[c] = "ask" /\ on'[c] = Active
                     \/ step'[c] = "ready" /\ authIds[CurrentAuth] # 0
               \/ /\ step[c] \notin {"idle", "ask", "swapped"} /\ auth'[c] = auth[c]
                  /\ step'[c] \notin {"idle", "ask", "swapped"}
    PROVE  OwnIds'
BY CallersAre DEF OwnIds, CurrentAuth

\* A call begins.
LEMMA CallOwnIds ==
    ASSUME StoreInv, OwnIds, NEW c \in Callers, Call(c)
    PROVE  OwnIds'
<1>t. StoreTypes
  BY DEF StoreInv
<1>1. step[c] = "idle" /\ UNCHANGED <<authIds, stores, crossed>>
  BY DEF Call
<1>2. CASE c \in Providers /\ step' = [step EXCEPT ![c] = "ready"] /\ UNCHANGED <<auth, on>>
  BY <1>t, <1>1, <1>2, KeepsOwnIds DEF StoreTypes, Active
<1>3. CASE c \notin Providers /\ \E i \in 0 .. Len(stores) : GetAuth(c, i)
  <2>1. /\ auth' = [auth EXCEPT ![c] = CurrentAuth]
        /\ \/ /\ authIds[CurrentAuth] # 0
              /\ step' = [step EXCEPT ![c] = "ready"]
              /\ UNCHANGED on
           \/ step' = [step EXCEPT ![c] = "ask"] /\ on' = [on EXCEPT ![c] = Active]
    BY <1>3 DEF GetAuth
  <2>2. /\ auth'[c] = CurrentAuth
        /\ \/ step'[c] = "ask" /\ on'[c] = Active
           \/ step'[c] = "ready" /\ authIds[CurrentAuth] # 0
        /\ \A d \in Callers : d # c => step'[d] = step[d] /\ on'[d] = on[d] /\ auth'[d] = auth[d]
    BY <1>t, <2>1 DEF StoreTypes
  <2> QED
    BY <1>1, <1>3, <2>2, KeepsOwnIds DEF Active
<1> QED
  <2>1. 0 \in 0 .. Len(stores) /\ \A i \in 1 .. Len(stores) : i \in 0 .. Len(stores)
    BY <1>t DEF StoreTypes
  <2> QED
    BY <1>2, <1>3, <2>1, StoresAssumption DEF Call

\* The answer is the active store's, since it was asked.
LEMMA AnsweredOwnIds ==
    ASSUME StoreInv, OwnIds, NEW c \in Callers, Answered(c)
    PROVE  OwnIds'
<1>t. StoreTypes
  BY DEF StoreInv
<1>1. /\ step[c] = "ask"
      /\ authIds' = [authIds EXCEPT ![CurrentAuth] = UserIdIn[on[c]], ![auth[c]] = UserIdIn[on[c]]]
      /\ auth' = [auth EXCEPT ![c] = CurrentAuth]
      /\ step' = [step EXCEPT ![c] = "ready"] /\ on' = [on EXCEPT ![c] = None]
      /\ UNCHANGED <<stores, crossed>>
  BY DEF Answered
<1>2. c \notin Providers
  BY <1>1 DEF OwnIds
<1>3. CASE crossed
  BY <1>t, <1>1, <1>3, CallersAre DEF OwnIds, StoreTypes
<1>4. CASE ~crossed
  <2>1. on[c] = Active /\ auth[c] = CurrentAuth
    BY <1>1, <1>2, <1>4 DEF OwnIds
  <2>2. authIds' = [authIds EXCEPT ![CurrentAuth] = UserIdIn[Active]]
    BY <1>1, <2>1
  <2>3. /\ CurrentAuth' = CurrentAuth /\ authIds'[CurrentAuth] = UserIdIn[Active]
        /\ \A n \in DOMAIN authIds : n # CurrentAuth => authIds'[n] = authIds[n]
    BY <1>t, <2>2, IdTypes DEF StoreTypes, CurrentAuth
  <2>4. \A d \in Callers : auth[d] \in DOMAIN authIds
    BY <1>t DEF StoreTypes
  <2>5. /\ step'[c] = "ready" /\ auth'[c] = CurrentAuth
        /\ \A d \in Callers : d # c => step'[d] = step[d] /\ on'[d] = on[d] /\ auth'[d] = auth[d]
    BY <1>t, <1>1 DEF StoreTypes
  <2> QED
    BY <1>1, <1>4, <2>3, <2>4, <2>5, IdTypes, CallersAre DEF OwnIds, Active
<1> QED
  BY <1>3, <1>4

\* The call that gets the lock, is refused, returns or works on.
LEMMA StepsOwnIds ==
    ASSUME StoreInv, OwnIds, NEW c \in Callers,
           \/ Wait(c) \/ Enter(c) \/ Refuse(c) \/ Leave(c) \/ Record(c) \/ SyncFromReader(c)
           \/ RecordActive(c) \/ SyncToWriter(c) \/ BackupFails(c)
    PROVE  OwnIds'
<1>t. StoreTypes
  BY DEF StoreInv
<1>1. UNCHANGED <<stores, authIds, crossed>>
  BY DEF Wait, Enter, Refuse, Leave, Record, SyncFromReader, RecordActive, SyncToWriter,
         BackupFails, LockOnly, dbVars, callVars
<1>2. CASE Wait(c)
  BY <1>1, <1>2, CallersAre DEF Wait, callVars, OwnIds, CurrentAuth, Active
<1>3. CASE SyncToWriter(c)
  BY <1>1, <1>3, CallersAre DEF SyncToWriter, LockOnly, OwnIds, CurrentAuth, Active
<1>4. CASE Refuse(c) \/ Leave(c)
  <2>1. /\ step'[c] = "idle"
        /\ \A d \in Callers : d # c => step'[d] = step[d] /\ on'[d] = on[d] /\ auth'[d] = auth[d]
    BY <1>t, <1>4 DEF Refuse, Leave, StoreTypes
  <2> QED
    BY <1>1, <2>1, KeepsOwnIds DEF Active
<1>5. CASE Enter(c) \/ Record(c) \/ SyncFromReader(c) \/ RecordActive(c) \/ BackupFails(c)
  <2>1. \E place \in {"work", "done", "record"} : step' = [step EXCEPT ![c] = place]
    BY <1>5 DEF Enter, Record, SyncFromReader, RecordActive, BackupFails
  <2>2. step[c] \in {"ready", "work", "copy"} /\ UNCHANGED auth
    BY <1>5 DEF Enter, Record, SyncFromReader, RecordActive, BackupFails, LockOnly
  <2>3. \A d \in Callers : d # c => on'[d] = on[d]
    BY <1>t, <1>5 DEF Enter, Record, SyncFromReader, RecordActive, BackupFails, LockOnly, StoreTypes
  <2>4. /\ step'[c] \in {"work", "done", "record"}
        /\ \A d \in Callers : d # c => step'[d] = step[d]
    BY <1>t, <2>1 DEF StoreTypes
  <2> QED
    BY <1>1, <2>2, <2>3, <2>4, KeepsOwnIds DEF Active
<1> QED
  BY <1>2, <1>3, <1>4, <1>5

\* updateBackups asks the active store.
LEMMA UpdateBackupsOwnIds ==
    ASSUME StoreInv, OwnIds, NEW c \in Callers, UpdateBackups(c)
    PROVE  OwnIds'
<1>t. StoreTypes
  BY DEF StoreInv
<1>1. /\ step[c] \in {"work", "record"} /\ step' = [step EXCEPT ![c] = "copy"]
      /\ UNCHANGED <<stores, on, auth, crossed>>
      /\ \/ UNCHANGED authIds
         \/ /\ authIds[CurrentAuth] = 0
            /\ authIds' = [authIds EXCEPT ![CurrentAuth] = UserIdIn[Active]]
  BY DEF UpdateBackups, LockOnly
<1>2. step'[c] = "copy" /\ \A d \in Callers : d # c => step'[d] = step[d]
  BY <1>t, <1>1 DEF StoreTypes
<1>3. CASE UNCHANGED authIds
  BY <1>1, <1>2, <1>3, KeepsOwnIds DEF Active
<1>4. CASE authIds' = [authIds EXCEPT ![CurrentAuth] = UserIdIn[Active]]
  <2>1. /\ CurrentAuth' = CurrentAuth /\ authIds'[CurrentAuth] = UserIdIn[Active]
        /\ \A n \in DOMAIN authIds : n # CurrentAuth => authIds'[n] = authIds[n]
    BY <1>t, <1>4, IdTypes DEF StoreTypes, CurrentAuth
  <2>2. \A d \in Callers : auth[d] \in DOMAIN authIds
    BY <1>t DEF StoreTypes
  <2> QED
    BY <1>1, <1>2, <2>1, <2>2, IdTypes, CallersAre DEF OwnIds, Active
<1> QED
  BY <1>1, <1>3, <1>4

\* A switch that crosses no call finds the others idle.
LEMMA SetActiveOwnIds ==
    ASSUME StoreInv, OwnIds, NEW c \in Callers, SetActive(c)
    PROVE  OwnIds'
<1>t. StoreTypes
  BY DEF StoreInv
<1>1. /\ c \in Syncs /\ step[c] = "copy" /\ step' = [step EXCEPT ![c] = "swapped"]
      /\ authIds' = Append(authIds, 0) /\ UNCHANGED <<auth, on>>
      /\ crossed' = (crossed \/ \E d \in Callers \ {c} : step[d] # "idle")
  BY DEF SetActive, Swap, Switching
<1>2. step'[c] = "swapped" /\ \A d \in Callers : d # c => step'[d] = step[d]
  BY <1>t, <1>1 DEF StoreTypes
<1>3. \A d \in Providers : step'[d] # "ask"
  BY <1>1, <1>2, CallersAre DEF OwnIds
<1>4. CASE crossed'
  BY <1>3, <1>4 DEF OwnIds
<1>5. CASE ~crossed'
  <2>1. ~crossed /\ \A d \in Callers \ {c} : step'[d] = "idle"
    BY <1>1, <1>2, <1>5
  <2>2. /\ CurrentAuth' = CurrentAuth + 1 /\ authIds'[CurrentAuth'] = 0
        /\ \A n \in DOMAIN authIds : n # CurrentAuth' /\ authIds'[n] = authIds[n]
    <3>1. authIds \in Seq(Nat) /\ authIds' = Append(authIds, 0)
      BY <1>t, <1>1 DEF StoreTypes
    <3> QED
      BY <3>1 DEF CurrentAuth
  <2>3. auth[c] = CurrentAuth /\ authIds[CurrentAuth] = UserIdIn[Active] /\ on[c] = Active
    <3>1. c \notin Providers
      BY <1>1, StoresAssumption
    <3> QED
      BY <1>1, <2>1, <3>1, OnActive DEF OwnIds, Inside
  <2>4. auth'[c] # CurrentAuth' /\ authIds'[auth'[c]] = UserIdIn[on'[c]]
    BY <1>1, <2>2, <2>3, IdTypes
  <2> QED
    BY <1>2, <1>3, <2>1, <2>2, <2>4 DEF OwnIds
<1> QED
  BY <1>4, <1>5

\* Every step keeps it.
LEMMA StepOwnIds ==
    ASSUME StoreInv, OwnIds, [Next]_vars
    PROVE  OwnIds'
<1>1. ASSUME NEW s \in Stores, AddWalletStorageProvider(s) PROVE OwnIds'
  <2>1. Active' = Active
    BY <1>1, AddStep
  <2> QED
    BY <1>1, <2>1 DEF AddWalletStorageProvider, callVars, OwnIds, CurrentAuth
<1>2. CASE UNCHANGED vars
  BY <1>2 DEF vars, callVars, OwnIds, CurrentAuth, Active
<1> QED
  BY <1>1, <1>2, CallOwnIds, AnsweredOwnIds, StepsOwnIds, UpdateBackupsOwnIds, SetActiveOwnIds
     DEF Next

\* What it says of the calls that run.
LEMMA ActsForItsOwn ==
    ASSUME StoreInv, OwnIds, ~crossed, NEW c \in Callers \ Providers, step[c] \in Inside
    PROVE  ForOwnUser(c)
<1>1. CASE step[c] = "swapped"
  BY <1>1 DEF OwnIds, ForOwnUser, ActsFor
<1>2. CASE step[c] # "swapped"
  BY <1>2, OnActive DEF OwnIds, ForOwnUser, ActsFor, Inside
<1> QED
  BY <1>1, <1>2

InList(s) == \E n \in DOMAIN stores : stores[n] = s
ToCopy(c, s) == \E n \in DOMAIN todo[c] : todo[c][n] = s
MidSwitch(c) == Switching(c) /\ step[c] \in {"record", "copy"}

\* A store has a users row of the wallet only if it is in the list, and so have the stores
\* still to be copied to.
RowsAreListed ==
    /\ \A s \in Stores : /\ rowTime[s] = 0 => activeIn[s] = None
                         /\ ~InList(s) => rowTime[s] = 0
    /\ \A c \in Syncs : \A s \in Stores : ToCopy(c, s) => InList(s)

\* setActive knows the store that it makes active.
KeysRead ==
    \A c \in Syncs : /\ step[c] = "idle" => index[c] = 0
                     /\ Switching(c) /\ step[c] \notin {"idle", "ask", "swapped"} =>
                            key[c] = stores[index[c]]

\* While a switch is under way the active store names the next one in the newest row of all;
\* the others name it, or nobody, or have an older row and are still to be copied to.
UnderWay ==
    \A c \in Syncs : MidSwitch(c) =>
        /\ activeIn[Active] = key[c] /\ rowTime[Active] = now
        /\ \A s \in Stores : \/ activeIn[s] = key[c]
                             \/ activeIn[s] = None /\ s # key[c]
                             \/ rowTime[s] < now /\ (step[c] = "record" \/ ToCopy(c, s))

\* Before and after it the active store names itself, and the others name it or nobody.
Settled ==
    \/ halfway
    \/ \E c \in Syncs : MidSwitch(c)
    \/ /\ now > 1 => activeIn[Active] = Active
       /\ \A s \in Stores : activeIn[s] \in {None, Active}

RowsTold == crossed \/ (RowsAreListed /\ KeysRead /\ UnderWay /\ Settled)

LEMMA InitRowsTold == Init => RowsTold
BY DEF Init, RowsTold, RowsAreListed, KeysRead, UnderWay, Settled, MidSwitch, Switching, ToCopy

\* The active store is in the list, and in time for a new row.
LEMMA ActiveIsListed ==
    ASSUME StoreTypes
    PROVE  Active \in Stores /\ InList(Active) /\ RowTime(Active) # 0
<1>1. Active \in Stores /\ Active = stores[1] /\ 1 \in DOMAIN stores
  BY ActiveIsStore DEF StoreTypes
<1> QED
  BY <1>1 DEF InList, RowTime, StoreTypes

\* A switch that is under way is the only call inside.
LEMMA OneSwitch ==
    ASSUME StoreInv, NEW c \in Callers, step[c] \in Inside
    PROVE  \A d \in Syncs : MidSwitch(d) => d = c
<1> SUFFICES ASSUME NEW d \in Syncs, MidSwitch(d) PROVE d = c
  OBVIOUS
<1>1. d \in Callers /\ pc[d] = "run" /\ pc[c] = "run"
  BY CallersAre DEF MidSwitch, StoreInv, InsideRuns, Inside
<1> QED
  BY <1>1, RunsAlone DEF StoreInv

\* A step that writes no row but perhaps a first one in the active store, and of no switch
\* that is under way.
LEMMA KeepsRowsTold ==
    ASSUME StoreInv, RowsTold, NEW c \in Callers,
           UNCHANGED <<stores, activeIn, now, crossed>>, halfway => halfway',
           \A s \in Stores : rowTime'[s] = rowTime[s] \/ (s = Active /\ rowTime'[s] = RowTime(s)),
           \A d \in Callers : d # c => step'[d] = step[d],
           \A d \in Syncs : d # c => index'[d] = index[d] /\ key'[d] = key[d] /\ todo'[d] = todo[d],
           c \in Syncs => /\ MidSwitch(c) => halfway'
                          /\ ~MidSwitch(c)'
                          /\ \A s \in Stores : ToCopy(c, s)' => InList(s)
                          /\ step'[c] = "idle" => index'[c] = 0
                          /\ Switching(c)' /\ step'[c] \notin {"idle", "ask", "swapped"} =>
                                 key'[c] = stores[index'[c]]
    PROVE  RowsTold'
<1> SUFFICES ASSUME ~crossed PROVE (RowsAreListed /\ KeysRead /\ UnderWay /\ Settled)'
  BY DEF RowsTold
<1>t. StoreTypes /\ now # 0 /\ Active \in Stores /\ InList(Active) /\ RowTime(Active) # 0
  BY ActiveIsListed DEF StoreInv, StoreTypes
<1>1. RowsAreListed /\ KeysRead /\ UnderWay /\ Settled
  BY DEF RowsTold
<1>2. Active' = Active /\ \A s : InList(s)' = InList(s)
  BY DEF Active, InList
<1>3. \A d \in Syncs : d # c => /\ MidSwitch(d)' = MidSwitch(d) /\ step'[d] = step[d]
                                /\ \A s : ToCopy(d, s)' = ToCopy(d, s)
  BY CallersAre DEF MidSwitch, Switching, ToCopy
<1>4. RowsAreListed'
  BY <1>t, <1>1, <1>2, <1>3 DEF RowsAreListed
<1>5. KeysRead'
  BY <1>1, <1>3 DEF KeysRead, Switching
<1>6. UnderWay'
  <2> SUFFICES ASSUME NEW d \in Syncs, MidSwitch(d)'
               PROVE  /\ activeIn[Active] = key[d] /\ rowTime'[Active] = now
                      /\ \A s \in Stores : \/ activeIn[s] = key[d]
                                           \/ activeIn[s] = None /\ s # key[d]
                                           \/ /\ rowTime'[s] < now
                                              /\ step[d] = "record" \/ ToCopy(d, s)
    BY <1>2, <1>3 DEF UnderWay
  <2>1. d # c /\ MidSwitch(d)
    BY <1>3
  <2>2. activeIn[Active] = key[d] /\ rowTime[Active] = now
    BY <1>1, <2>1 DEF UnderWay
  <2>3. \A s \in Stores : rowTime'[s] = rowTime[s]
    BY <1>t, <2>2 DEF RowTime
  <2> QED
    BY <1>t, <1>1, <2>1, <2>2, <2>3 DEF UnderWay
<1>7. Settled'
  BY <1>1, <1>2, <1>3 DEF Settled
<1> QED
  BY <1>4, <1>5, <1>6, <1>7

\* A call begins: the key is read at once, or when the answer is there.
LEMMA CallRowsTold ==
    ASSUME StoreInv, OwnIds, RowsTold, NEW c \in Callers, Call(c) \/ Answered(c)
    PROVE  RowsTold'
<1>t. StoreTypes
  BY DEF StoreInv
<1>1. UNCHANGED <<stores, activeIn, now, crossed, halfway, todo>> /\ step[c] \in {"idle", "ask"}
  BY DEF Call, Answered, dbVars
<1>2. crossed \/ RowsAreListed
  BY DEF RowsTold
<1>3. CASE crossed
  BY <1>1, <1>3 DEF RowsTold
<1>4. CASE ~crossed /\ Call(c)
  <2>1. /\ UNCHANGED rowTime
        /\ \/ step' = [step EXCEPT ![c] = "ask"] /\ UNCHANGED key
           \/ step' = [step EXCEPT ![c] = "ready"]
    BY <1>4 DEF Call, GetAuth, dbVars
  <2>2. /\ step'[c] \in {"ask", "ready"} /\ \A d \in Callers : d # c => step'[d] = step[d]
    BY <1>t, <2>1 DEF StoreTypes
  <2>3. ASSUME c \in Syncs
        PROVE  /\ \A d \in Syncs : d # c => index'[d] = index[d] /\ key'[d] = key[d]
               /\ Switching(c)' /\ step'[c] # "ask" => key'[c] = stores[index'[c]]
    <3>1. CASE GetAuth(c, 0) /\ UNCHANGED index
      <4>1. step[c] = "idle"
        BY <1>4 DEF Call
      <4>2. index[c] = 0
        BY <1>4, <2>3, <4>1 DEF RowsTold, KeysRead
      <4>3. UNCHANGED key
        BY <3>1 DEF GetAuth, KeyOf
      <4> QED
        BY <3>1, <4>2, <4>3 DEF Switching
    <3>2. CASE \E i \in 1 .. Len(stores) : FindIndex(c, i) /\ GetAuth(c, i)
      <4>1. PICK i \in 1 .. Len(stores) : FindIndex(c, i) /\ GetAuth(c, i)
        BY <3>2
      <4>2. index' = [index EXCEPT ![c] = i] /\ i > 0
        BY <1>t, <4>1 DEF FindIndex, StoreTypes
      <4>3. \/ key' = key /\ step' = [step EXCEPT ![c] = "ask"]
            \/ key' = [key EXCEPT ![c] = stores[i]]
        BY <2>3, <4>1, <4>2 DEF GetAuth, KeyOf
      <4> QED
        BY <1>t, <2>3, <4>2, <4>3 DEF StoreTypes
    <3>3. c \notin Providers
      BY <2>3, StoresAssumption
    <3> QED
      BY <1>4, <3>1, <3>2, <3>3 DEF Call
  <2>4. ~MidSwitch(c)' /\ step'[c] \notin {"idle", "swapped"}
    BY <2>2 DEF MidSwitch
  <2>5. c \in Syncs => \A s \in Stores : ToCopy(c, s)' => InList(s)
    BY <1>1, <1>2, <1>4 DEF RowsAreListed, ToCopy
  <2>6. ~MidSwitch(c)
    BY <1>1 DEF MidSwitch
  <2>7. \A d \in Syncs : d # c => index'[d] = index[d] /\ key'[d] = key[d]
    <3>1. c \notin Syncs => UNCHANGED <<index, key>>
      BY <1>4 DEF Call, GetAuth, KeyOf
    <3> QED
      BY <2>3, <3>1
  <2> QED
    BY <1>1, <2>1, <2>2, <2>3, <2>4, <2>5, <2>6, <2>7, KeepsRowsTold
<1>5. CASE ~crossed /\ Answered(c)
  <2>1. on[c] = Active
    <3>1. c \notin Providers
      BY <1>5 DEF OwnIds, Answered
    <3> QED
      BY <1>5, <3>1 DEF OwnIds, Answered
  <2>2. step'[c] = "ready" /\ \A d \in Callers : d # c => step'[d] = step[d]
    BY <1>t, <1>5 DEF Answered, StoreTypes
  <2>3. \A s \in Stores : rowTime'[s] = rowTime[s] \/ (s = Active /\ rowTime'[s] = RowTime(s))
    BY <1>t, <1>5, <2>1 DEF Answered, StoreTypes
  <2>4. UNCHANGED index
    BY <1>5 DEF Answered
  <2>5. c \in Syncs => (Switching(c)' => key'[c] = stores[index'[c]])
    BY <1>t, <1>5, <2>4 DEF Answered, KeyOf, Switching, StoreTypes
  <2>6. \A d \in Syncs : d # c => key'[d] = key[d]
    BY <1>t, <1>5 DEF Answered, KeyOf, StoreTypes
  <2>7. ~MidSwitch(c) /\ ~MidSwitch(c)'
    BY <1>1, <2>2 DEF MidSwitch
  <2>8. c \in Syncs => \A s \in Stores : ToCopy(c, s)' => InList(s)
    BY <1>1, <1>2, <1>5 DEF RowsAreListed, ToCopy
  <2> QED
    BY <1>1, <2>2, <2>3, <2>4, <2>5, <2>6, <2>7, <2>8, KeepsRowsTold
<1> QED
  BY <1>3, <1>4, <1>5

\* A call gets the lock, records or returns.
LEMMA StepsRowsTold ==
    ASSUME StoreInv, RowsTold, NEW c \in Callers,
           \/ Wait(c) \/ Enter(c) \/ Refuse(c) \/ Leave(c) \/ Record(c) \/ SyncFromReader(c)
           \/ BackupFails(c)
    PROVE  RowsTold'
<1>t. StoreTypes
  BY DEF StoreInv
<1>1. UNCHANGED <<stores, activeIn, rowTime, now, crossed>> /\ (halfway => halfway')
  <2>1. UNCHANGED <<stores, activeIn, rowTime, now, crossed>>
    BY DEF Wait, Enter, Refuse, Leave, Record, SyncFromReader, BackupFails, LockOnly, dbVars
  <2>2. UNCHANGED halfway \/ halfway' = (halfway \/ Switching(c))
    BY Zenon DEF Wait, Enter, Refuse, Leave, Record, SyncFromReader, BackupFails
  <2> QED
    BY <1>t, <2>1, <2>2 DEF StoreTypes
<1>2. CASE crossed
  BY <1>1, <1>2 DEF RowsTold
<1>3. CASE Wait(c)
  BY <1>1, <1>3 DEF Wait, callVars, RowsTold, RowsAreListed, KeysRead, UnderWay, Settled,
                    InList, ToCopy, MidSwitch, Switching, Active
<1>4. CASE Leave(c)
  <2>1. /\ step' = [step EXCEPT ![c] = "idle"] /\ UNCHANGED todo
        /\ index' = IF c \in Syncs THEN [index EXCEPT ![c] = 0] ELSE index
        /\ key' = IF c \in Syncs THEN [key EXCEPT ![c] = None] ELSE key
        /\ step[c] \in {"work", "done", "swapped"} \/ ~Switching(c)
    BY <1>4 DEF Leave
  <2>2. step'[c] = "idle" /\ \A d \in Callers : d # c => step'[d] = step[d]
    BY <1>t, <2>1 DEF StoreTypes
  <2>3. \A d \in Syncs : /\ d # c => index'[d] = index[d] /\ key'[d] = key[d]
                         /\ d = c => index'[d] = 0
    BY <1>t, <2>1 DEF StoreTypes
  <2>4. ~MidSwitch(c) /\ ~MidSwitch(c)'
    BY <2>1, <2>2 DEF MidSwitch
  <2>5. ~crossed /\ c \in Syncs => \A s \in Stores : ToCopy(c, s)' => InList(s)
    BY <2>1 DEF RowsTold, RowsAreListed, ToCopy
  <2> QED
    BY <1>1, <1>2, <2>1, <2>2, <2>3, <2>4, <2>5, KeepsRowsTold
<1>5. CASE ~crossed /\ (Enter(c) \/ Refuse(c) \/ Record(c) \/ SyncFromReader(c) \/ BackupFails(c))
  <2>1. /\ UNCHANGED <<index, key>>
        /\ UNCHANGED todo \/ (c \in Syncs /\ todo' = [todo EXCEPT ![c] = <<>>])
        /\ \E place \in {"idle", "work", "done"} : /\ step' = [step EXCEPT ![c] = place]
                                                   /\ place = "idle" => c \notin Syncs
        /\ step[c] \in {"ready", "work"} \/ (Switching(c) => halfway') \/ c \notin Syncs
        /\ step[c] \notin {"idle", "ask", "swapped"}
    BY <1>5, StoresAssumption
       DEF Enter, Refuse, Record, SyncFromReader, BackupFails, LockOnly, Lock!RefuseProvider
  <2>2. /\ step'[c] \in {"idle", "work", "done"} /\ (step'[c] = "idle" => c \notin Syncs)
        /\ \A d \in Callers : d # c => step'[d] = step[d]
    BY <1>t, <2>1 DEF StoreTypes
  <2>3. c \in Syncs => \A s \in Stores : ToCopy(c, s)' => InList(s)
    <3>1. CASE UNCHANGED todo
      BY <1>5, <3>1 DEF RowsTold, RowsAreListed, ToCopy
    <3>2. CASE c \in Syncs /\ todo' = [todo EXCEPT ![c] = <<>>]
      BY <1>t, <3>2 DEF StoreTypes, ToCopy
    <3> QED
      BY <2>1, <3>1, <3>2
  <2>4. \A d \in Syncs : d # c => todo'[d] = todo[d]
    BY <1>t, <2>1 DEF StoreTypes
  <2>5. (MidSwitch(c) /\ c \in Syncs => halfway') /\ ~MidSwitch(c)'
    BY <2>1, <2>2 DEF MidSwitch
  <2>6. c \in Syncs /\ Switching(c)' => key'[c] = stores[index'[c]]
    BY <1>5, <2>1 DEF RowsTold, KeysRead, Switching
  <2> QED
    BY <1>1, <2>1, <2>2, <2>3, <2>4, <2>5, <2>6, KeepsRowsTold
<1> QED
  BY <1>2, <1>3, <1>4, <1>5

\* setActive writes its store to the row of the active one, which is then the newest.
LEMMA RecordActiveRowsTold ==
    ASSUME StoreInv, OwnIds, RowsTold, NEW c \in Callers, RecordActive(c)
    PROVE  RowsTold'
<1>t. StoreTypes /\ now \in Nat /\ Active \in Stores /\ InList(Active)
  BY ActiveIsListed DEF StoreInv, StoreTypes
<1>1. /\ Switching(c) /\ c \in Syncs /\ step[c] = "work" /\ now' = now + 1
      /\ step' = [step EXCEPT ![c] = "record"]
      /\ UNCHANGED <<stores, index, key, todo, crossed, halfway>>
  BY DEF RecordActive, Switching, LockOnly
<1>2. CASE crossed
  BY <1>1, <1>2 DEF RowsTold
<1>3. CASE ~crossed
  <2>1. RowsAreListed /\ KeysRead
    BY <1>3 DEF RowsTold
  <2>2. on[c] = Active /\ ForOwnUser(c)
    <3>1. c \notin Providers
      BY <1>1, StoresAssumption
    <3> QED
      BY <1>1, <1>3, <3>1, OnActive, ActsForItsOwn DEF Inside
  <2>3. /\ activeIn' = [activeIn EXCEPT ![Active] = key[c]]
        /\ rowTime' = [rowTime EXCEPT ![Active] = now + 1]
    BY <2>2 DEF RecordActive
  <2>4. /\ activeIn'[Active] = key[c] /\ rowTime'[Active] = now + 1
        /\ \A s \in Stores : s # Active => /\ activeIn'[s] = activeIn[s] /\ rowTime'[s] = rowTime[s]
                                           /\ rowTime[s] < now + 1
    BY <1>t, <2>3 DEF StoreTypes
  <2>5. step'[c] = "record" /\ \A d \in Callers : d # c => step'[d] = step[d]
    BY <1>t, <1>1 DEF StoreTypes
  <2>6. Active' = Active /\ \A s : InList(s)' = InList(s)
    BY <1>1 DEF Active, InList
  <2>7. \A d \in Syncs : MidSwitch(d)' => d = c
    BY <1>1, <2>5, OneSwitch, CallersAre DEF MidSwitch, Switching, Inside
  <2>8. RowsAreListed'
    BY <1>t, <1>1, <2>1, <2>4, <2>6 DEF RowsAreListed, ToCopy
  <2>9. KeysRead'
    BY <1>1, <2>1, <2>5, CallersAre DEF KeysRead, Switching
  <2>10. UnderWay'
    BY <1>1, <2>4, <2>5, <2>6, <2>7 DEF UnderWay
  <2>11. Settled'
    BY <1>1, <2>5 DEF Settled, MidSwitch, Switching
  <2> QED
    BY <2>8, <2>9, <2>10, <2>11 DEF RowsTold
<1> QED
  BY <1>2, <1>3

\* The backups of a switch are all but the active store.
LEMMA UpdateBackupsRowsTold ==
    ASSUME StoreInv, RowsTold, NEW c \in Callers, UpdateBackups(c)
    PROVE  RowsTold'
<1>t. StoreTypes /\ now # 0 /\ Active \in Stores /\ InList(Active) /\ RowTime(Active) # 0
  BY ActiveIsListed DEF StoreInv, StoreTypes
<1>1. /\ c \in Syncs /\ step' = [step EXCEPT ![c] = "copy"]
      /\ todo' = [todo EXCEPT ![c] = Tail(stores)]
      /\ step[c] = "record" \/ (~Switching(c) /\ step[c] = "work")
      /\ UNCHANGED <<stores, index, key, activeIn, now, crossed, halfway>>
      /\ UNCHANGED rowTime \/ rowTime' = [rowTime EXCEPT ![Active] = RowTime(Active)]
  BY DEF UpdateBackups, Switching, Backups, LockOnly
<1>2. CASE crossed
  BY <1>1, <1>2 DEF RowsTold
<1>3. (RowsAreListed /\ KeysRead /\ UnderWay /\ Settled) \/ crossed
  BY DEF RowsTold
<1>4. step'[c] = "copy" /\ \A d \in Callers : d # c => step'[d] = step[d]
  BY <1>t, <1>1 DEF StoreTypes
<1>5. \A s \in Stores : rowTime'[s] = rowTime[s] \/ (s = Active /\ rowTime'[s] = RowTime(s))
  BY <1>t, <1>1 DEF StoreTypes
<1>6. /\ \A d \in Syncs : d # c => todo'[d] = todo[d]
      /\ \A s : ToCopy(c, s)' => InList(s)
      /\ \A s : InList(s) => s = Active \/ ToCopy(c, s)'
  <2>1. stores \in Seq(Stores) /\ stores # <<>> /\ Len(stores) \in Nat /\ Active = stores[1]
    BY <1>t, ActiveIsStore DEF StoreTypes
  <2>2. /\ Len(Tail(stores)) = Len(stores) - 1 /\ Tail(stores) \in Seq(Stores)
        /\ \A n \in 1 .. Len(Tail(stores)) : Tail(stores)[n] = stores[n + 1]
    BY <2>1, HeadTailProperties
  <2>3. /\ \A n \in DOMAIN Tail(stores) : n + 1 \in DOMAIN stores /\ Tail(stores)[n] = stores[n + 1]
        /\ \A n \in DOMAIN stores : n # 1 => /\ n - 1 \in DOMAIN Tail(stores)
                                             /\ Tail(stores)[n - 1] = stores[n]
    <3>1. DOMAIN Tail(stores) = 1 .. (Len(stores) - 1) /\ DOMAIN stores = 1 .. Len(stores)
      BY <2>1, <2>2
    <3>2. \A n \in DOMAIN stores : n # 1 => /\ n - 1 \in DOMAIN Tail(stores) /\ (n - 1) + 1 = n
      BY <2>1, <3>1
    <3> QED
      BY <2>1, <2>2, <3>1, <3>2
  <2>4. todo'[c] = Tail(stores) /\ \A d \in Syncs : d # c => todo'[d] = todo[d]
    BY <1>t, <1>1 DEF StoreTypes
  <2> QED
    BY <2>1, <2>3, <2>4 DEF InList, ToCopy
<1>7. CASE ~crossed /\ ~Switching(c)
  <2>1. ~MidSwitch(c) /\ ~MidSwitch(c)' /\ ~Switching(c)'
    BY <1>1, <1>7 DEF MidSwitch, Switching
  <2> QED
    BY <1>1, <1>4, <1>5, <1>6, <2>1, KeepsRowsTold
<1>8. CASE ~crossed /\ Switching(c)
  <2>1. MidSwitch(c) /\ MidSwitch(c)' /\ step[c] = "record"
    BY <1>1, <1>4, <1>8 DEF MidSwitch, Switching
  <2>2. activeIn[Active] = key[c] /\ rowTime[Active] = now
    BY <1>1, <1>3, <1>8, <2>1 DEF UnderWay
  <2>3. \A s \in Stores : rowTime'[s] = rowTime[s]
    BY <1>t, <1>5, <2>2 DEF RowTime
  <2>4. Active' = Active /\ \A s : InList(s)' = InList(s)
    BY <1>1 DEF Active, InList
  <2>5. RowsAreListed'
    BY <1>1, <1>3, <1>6, <1>8, <2>3, <2>4 DEF RowsAreListed, ToCopy
  <2>6. KeysRead'
    BY <1>1, <1>3, <1>4, <1>8, <2>1, CallersAre DEF KeysRead, Switching, MidSwitch
  <2>7. InList(key[c])
    <3>1. key[c] = stores[index[c]] /\ index[c] > 0
      BY <1>1, <1>3, <1>8, <2>1 DEF KeysRead, MidSwitch, Switching
    <3>2. index[c] \in DOMAIN stores
      BY <1>t, <1>1, <3>1 DEF StoreTypes
    <3> QED
      BY <3>1, <3>2 DEF InList
  <2>8. \A s \in Stores : \/ activeIn[s] = key[c]
                          \/ activeIn[s] = None /\ s # key[c]
                          \/ rowTime[s] < now /\ ToCopy(c, s)'
    <3> SUFFICES ASSUME NEW s \in Stores, activeIn[s] # key[c], activeIn[s] = None => s = key[c]
                 PROVE  rowTime[s] < now /\ ToCopy(c, s)'
      OBVIOUS
    <3>1. rowTime[s] < now
      BY <1>1, <1>3, <1>8, <2>1 DEF UnderWay
    <3>2. InList(s)
      BY <1>3, <1>8, <2>7 DEF RowsAreListed
    <3> QED
      BY <1>6, <2>2, <3>1, <3>2
  <2>9. \A d \in Syncs : MidSwitch(d)' => d = c
    BY <1>1, <1>4, <2>1, OneSwitch, CallersAre DEF MidSwitch, Switching, Inside
  <2>10. UnderWay'
    BY <1>1, <2>2, <2>3, <2>4, <2>8, <2>9, <1>t DEF UnderWay
  <2>11. Settled'
    BY <1>1, <2>1 DEF Settled
  <2> QED
    BY <2>5, <2>6, <2>10, <2>11 DEF RowsTold
<1> QED
  BY <1>2, <1>7, <1>8

\* A backup that is copied to gets the active store's row, unless it has one as new that says
\* the same.
LEMMA SyncToWriterRowsTold ==
    ASSUME StoreInv, RowsTold, NEW c \in Callers, SyncToWriter(c)
    PROVE  RowsTold'
<1>t. StoreTypes /\ now \in Nat \ {0} /\ Active \in Stores /\ InList(Active)
  BY ActiveIsListed DEF StoreInv, StoreTypes
<1> DEFINE s == Head(todo[c])
<1>1. /\ c \in Syncs /\ step[c] = "copy" /\ todo[c] # <<>> /\ todo' = [todo EXCEPT ![c] = Tail(@)]
      /\ UNCHANGED <<stores, index, key, now, step, crossed, halfway>>
  BY DEF SyncToWriter, LockOnly
<1>2. CASE crossed
  BY <1>1, <1>2 DEF RowsTold
<1>3. (RowsAreListed /\ KeysRead /\ UnderWay /\ Settled) \/ crossed
  BY DEF RowsTold
<1>4. /\ s \in Stores /\ ToCopy(c, s)
      /\ \A x : ToCopy(c, x)' => ToCopy(c, x)
      /\ \A x : ToCopy(c, x) => x = s \/ ToCopy(c, x)'
      /\ \A d \in Syncs : d # c => todo'[d] = todo[d]
  <2>1. todo[c] \in Seq(Stores) /\ todo[c] # <<>> /\ Len(todo[c]) \in Nat
    BY <1>t, <1>1 DEF StoreTypes
  <2>2. /\ Len(Tail(todo[c])) = Len(todo[c]) - 1 /\ Tail(todo[c]) \in Seq(Stores)
        /\ \A n \in 1 .. Len(Tail(todo[c])) : Tail(todo[c])[n] = todo[c][n + 1]
        /\ Head(todo[c]) \in Stores
    BY <2>1, HeadTailProperties
  <2>3. /\ \A n \in DOMAIN Tail(todo[c]) : n + 1 \in DOMAIN todo[c] /\ Tail(todo[c])[n] = todo[c][n + 1]
        /\ \A n \in DOMAIN todo[c] : n # 1 => /\ n - 1 \in DOMAIN Tail(todo[c])
                                              /\ Tail(todo[c])[n - 1] = todo[c][n]
    <3>1. DOMAIN Tail(todo[c]) = 1 .. (Len(todo[c]) - 1) /\ DOMAIN todo[c] = 1 .. Len(todo[c])
      BY <2>1, <2>2
    <3>2. \A n \in DOMAIN todo[c] : n # 1 => /\ n - 1 \in DOMAIN Tail(todo[c]) /\ (n - 1) + 1 = n
      BY <2>1, <3>1
    <3> QED
      BY <2>1, <2>2, <3>1, <3>2
  <2>4. todo'[c] = Tail(todo[c]) /\ \A d \in Syncs : d # c => todo'[d] = todo[d]
    BY <1>t, <1>1 DEF StoreTypes
  <2>5. s = todo[c][1] /\ 1 \in DOMAIN todo[c] /\ s \in Stores
    BY <2>1, <2>2
  <2> HIDE DEF s
  <2>6. ToCopy(c, s)
    BY <2>5 DEF ToCopy
  <2>7. \A x : ToCopy(c, x)' => ToCopy(c, x)
    BY <2>3, <2>4 DEF ToCopy
  <2>8. \A x : ToCopy(c, x) => x = s \/ ToCopy(c, x)'
    BY <2>3, <2>4, <2>5 DEF ToCopy
  <2> QED
    BY <2>4, <2>5, <2>6, <2>7, <2>8
<1>5. on[c] = Active
  BY <1>1, OnActive DEF Inside
<1>6. /\ \A x \in Stores : x # s => activeIn'[x] = activeIn[x] /\ rowTime'[x] = rowTime[x]
      /\ \/ /\ UserMerged(Active, s)
            /\ activeIn'[s] = activeIn[Active] /\ rowTime'[s] = now
         \/ /\ ~UserMerged(Active, s)
            /\ activeIn'[s] = activeIn[s] /\ rowTime'[s] = RowTime(s)
  <2>1. /\ activeIn' = IF UserMerged(Active, s)
                       THEN [activeIn EXCEPT ![s] = activeIn[Active]] ELSE activeIn
        /\ rowTime' = [rowTime EXCEPT ![s] = IF UserMerged(Active, s) THEN now ELSE RowTime(s)]
    BY <1>5 DEF SyncToWriter
  <2> HIDE DEF s
  <2> QED
    BY <1>t, <1>4, <2>1 DEF StoreTypes
<1>7. Active' = Active /\ \A x : InList(x)' = InList(x)
  BY <1>1 DEF Active, InList
<1>8. \A d \in Syncs : /\ MidSwitch(d)' = MidSwitch(d)
                       /\ d # c => \A x : ToCopy(d, x)' = ToCopy(d, x)
  BY <1>1, <1>4 DEF MidSwitch, Switching, ToCopy
<1> HIDE DEF s
<1>9. CASE ~crossed
  <2>1. RowsAreListed'
    <3>1. InList(s) /\ rowTime'[s] # 0
      BY <1>t, <1>1, <1>3, <1>4, <1>6, <1>9 DEF RowsAreListed, RowTime
    <3> QED
      BY <1>1, <1>3, <1>4, <1>6, <1>7, <1>8, <1>9, <3>1 DEF RowsAreListed
  <2>2. KeysRead'
    BY <1>1, <1>3, <1>9 DEF KeysRead, Switching
  <2>3. activeIn'[Active] = activeIn[Active]
    BY <1>t, <1>6
  <2>4. UnderWay'
    <3> SUFFICES ASSUME NEW d \in Syncs, MidSwitch(d)
                 PROVE  /\ activeIn'[Active] = key[d] /\ rowTime'[Active] = now
                        /\ \A x \in Stores : \/ activeIn'[x] = key[d]
                                             \/ activeIn'[x] = None /\ x # key[d]
                                             \/ rowTime'[x] < now /\ (step[d] = "record" \/ ToCopy(d, x)')
      BY <1>1, <1>7, <1>8 DEF UnderWay
    <3>1. d = c
      BY <1>1, OneSwitch DEF Inside
    <3>2. /\ activeIn[Active] = key[c] /\ rowTime[Active] = now
          /\ \A x \in Stores : \/ activeIn[x] = key[c]
                               \/ activeIn[x] = None /\ x # key[c]
                               \/ rowTime[x] < now /\ ToCopy(c, x)
      BY <1>1, <1>3, <1>9, <3>1 DEF UnderWay
    <3>3. key[c] # None
      <4>1. key[c] = stores[index[c]] /\ index[c] > 0
        BY <1>1, <1>3, <1>9, <3>1 DEF KeysRead, MidSwitch, Switching
      <4>2. index[c] \in 1 .. Len(stores) /\ stores \in Seq(Stores)
        BY <1>t, <1>1, <4>1 DEF StoreTypes
      <4>3. stores[index[c]] \in Stores
        BY <4>2
      <4> QED
        BY <4>1, <4>3, StoresAssumption
    <3>4. activeIn'[s] = key[c]
      <4>1. CASE UserMerged(Active, s)
        BY <1>6, <3>2, <4>1
      <4>2. CASE ~UserMerged(Active, s)
        <5>1. ~(rowTime[Active] > RowTime(s)) /\ activeIn[s] # None
          BY <3>2, <3>3, <4>2 DEF UserMerged
        <5>2. rowTime[s] # 0
          BY <1>3, <1>4, <1>9, <5>1 DEF RowsAreListed
        <5>3. ~(rowTime[s] < now)
          BY <3>2, <5>1, <5>2 DEF RowTime
        <5> QED
          BY <1>4, <1>6, <3>2, <4>2, <5>1, <5>3
      <4> QED
        BY <4>1, <4>2
    <3>5. rowTime'[Active] = now
      BY <1>t, <1>6, <3>2 DEF RowTime
    <3> QED
      BY <1>4, <1>6, <2>3, <3>1, <3>2, <3>4, <3>5
  <2>5. Settled'
    <3>1. CASE halfway \/ \E d \in Syncs : MidSwitch(d)
      BY <1>1, <1>8, <3>1 DEF Settled
    <3>2. CASE /\ now > 1 => activeIn[Active] = Active
               /\ \A x \in Stores : activeIn[x] \in {None, Active}
      <4>1. \A x \in Stores : activeIn'[x] \in {None, Active}
        BY <1>t, <1>6, <3>2
      <4> QED
        BY <1>1, <1>7, <2>3, <3>2, <4>1 DEF Settled
    <3> QED
      BY <1>3, <1>9, <3>1, <3>2 DEF Settled
  <2> QED
    BY <2>1, <2>2, <2>4, <2>5 DEF RowsTold
<1> QED
  BY <1>2, <1>9

\* When all backups are done, every store names the new active one, or nobody.
LEMMA SetActiveRowsTold ==
    ASSUME StoreInv, RowsTold, NEW c \in Callers, SetActive(c)
    PROVE  RowsTold'
<1>t. StoreTypes
  BY DEF StoreInv
<1>1. /\ Switching(c) /\ c \in Syncs /\ step[c] = "copy" /\ todo[c] = <<>>
      /\ stores' = [stores EXCEPT ![1] = stores[index[c]], ![index[c]] = stores[1]]
      /\ step' = [step EXCEPT ![c] = "swapped"]
      /\ crossed' = (crossed \/ \E d \in Callers \ {c} : step[d] # "idle")
      /\ UNCHANGED <<dbVars, index, key, todo>>
  BY DEF SetActive, Switching
<1>2. step'[c] = "swapped" /\ \A d \in Callers : d # c => step'[d] = step[d]
  BY <1>t, <1>1 DEF StoreTypes
<1>3. CASE crossed'
  BY <1>3 DEF RowsTold
<1>4. CASE ~crossed'
  <2>1. ~crossed /\ \A d \in Callers \ {c} : step[d] = "idle"
    BY <1>1, <1>4
  <2>2. RowsAreListed /\ KeysRead /\ UnderWay
    BY <2>1 DEF RowsTold
  <2>3. /\ index[c] \in DOMAIN stores /\ 1 \in DOMAIN stores /\ index[c] # 1
        /\ DOMAIN stores' = DOMAIN stores
        /\ stores'[1] = stores[index[c]] /\ stores'[index[c]] = stores[1]
        /\ \A n \in DOMAIN stores : n # 1 /\ n # index[c] => stores'[n] = stores[n]
    <3>1. index[c] \in 1 .. Len(stores) /\ index[c] # 1 /\ Len(stores) \in Nat /\ Len(stores) > 0
      <4>1. index[c] \in 0 .. Len(stores) /\ Len(stores) \in Nat /\ Len(stores) > 0
        BY <1>t, <1>1 DEF StoreTypes
      <4>2. index[c] # 1 /\ index[c] > 0
        BY <1>1 DEF Switching, StoreInv
      <4> QED
        BY <4>1, <4>2
    <3>2. DOMAIN stores = 1 .. Len(stores) /\ stores = [n \in 1 .. Len(stores) |-> stores[n]]
      BY <1>t DEF StoreTypes
    <3> QED
      BY <1>1, <3>1, <3>2
  <2>4. Active' = stores[index[c]]
    <3>1. stores' # <<>>
      BY <2>3
    <3> QED
      BY <2>3 DEF Active
  <2>5. key[c] = Active'
    BY <1>1, <2>2, <2>4 DEF KeysRead
  <2>6. \A s : InList(s) => InList(s)'
    <3> SUFFICES ASSUME NEW n \in DOMAIN stores PROVE \E m \in DOMAIN stores : stores'[m] = stores[n]
      BY <2>3 DEF InList
    <3> QED
      BY <2>3
  <2>7. \A d \in Syncs : ~MidSwitch(d)'
    BY <1>2, <2>1, CallersAre DEF MidSwitch
  <2>8. RowsAreListed'
    BY <1>1, <2>2, <2>6 DEF RowsAreListed, ToCopy, dbVars
  <2>9. KeysRead'
    BY <1>1, <1>2, <2>1, <2>2, CallersAre DEF KeysRead
  <2>10. UnderWay'
    BY <2>7 DEF UnderWay
  <2>11. Settled'
    <3>1. Active' \in Stores
      BY <1>t, <2>3, <2>4 DEF StoreTypes
    <3>2. \A s \in Stores : activeIn[s] = key[c] \/ (activeIn[s] = None /\ s # key[c])
      BY <1>1, <2>2 DEF UnderWay, MidSwitch, ToCopy
    <3> QED
      BY <1>1, <2>5, <3>1, <3>2 DEF Settled, dbVars
  <2> QED
    BY <2>8, <2>9, <2>10, <2>11 DEF RowsTold
<1> QED
  BY <1>3, <1>4

\* A store that is added has no row.
LEMMA AddRowsTold ==
    ASSUME StoreInv, RowsTold, NEW s \in Stores, AddWalletStorageProvider(s)
    PROVE  RowsTold'
<1>t. StoreTypes
  BY DEF StoreInv
<1>1. /\ stores' = Append(stores, s) /\ UNCHANGED <<dbVars, callVars, crossed, halfway>>
  BY DEF AddWalletStorageProvider
<1>2. Active' = Active
  BY AddStep
<1>3. \A n \in DOMAIN stores : n \in DOMAIN stores' /\ stores'[n] = stores[n]
  BY <1>t, <1>1 DEF StoreTypes
<1>4. \A x : InList(x) => InList(x)'
  BY <1>3 DEF InList
<1>5. RowsAreListed => RowsAreListed'
  BY <1>1, <1>4 DEF RowsAreListed, ToCopy, dbVars, callVars
<1>6. KeysRead => KeysRead'
  <2>1. \A c \in Syncs : Switching(c) => index[c] \in DOMAIN stores
    BY <1>t DEF Switching, StoreTypes
  <2> QED
    BY <1>1, <1>3, <2>1 DEF KeysRead, Switching, callVars
<1>7. (UnderWay => UnderWay') /\ (Settled => Settled')
  BY <1>1, <1>2 DEF UnderWay, Settled, MidSwitch, Switching, ToCopy, dbVars, callVars
<1> QED
  BY <1>1, <1>5, <1>6, <1>7 DEF RowsTold

\* Every step keeps it.
LEMMA StepRowsTold ==
    ASSUME StoreInv, OwnIds, RowsTold, [Next]_vars
    PROVE  RowsTold'
<1>1. CASE UNCHANGED vars
  BY <1>1 DEF vars, dbVars, callVars, RowsTold, RowsAreListed, KeysRead, UnderWay, Settled,
              InList, ToCopy, MidSwitch, Switching, Active
<1> QED
  BY <1>1, CallRowsTold, StepsRowsTold, RecordActiveRowsTold, UpdateBackupsRowsTold,
     SyncToWriterRowsTold, SetActiveRowsTold, AddRowsTold DEF Next

-----------------------------------------------------------------------------
\* The invariant holds in every reachable state.
LEMMA Invariance == Spec => []StoreInv
<1>1. StoreInv /\ [Next]_vars => StoreInv'
  BY StepStoreInv
<1> QED
  BY InitStoreInv, <1>1, PTL DEF Spec

\* Every variable keeps its type: an index never leaves the list of stores, and a call's user id
\* object is always one of the manager's.
THEOREM TypeCorrect == Spec => []TypeOK
<1>1. StoreInv => TypeOK
  BY LockTypes DEF StoreInv, StoreTypes, TypeOK
<1> QED
  BY Invariance, <1>1, PTL

\* A call that holds the lock works on the store that is active, whatever switches happen.
THEOREM CallsRunOnActive == Spec => []RunsOnActive
<1>1. StoreInv => RunsOnActive
  BY DEF StoreInv
<1> QED
  BY Invariance, <1>1, PTL

\* A call reads and writes as the wallet's user of the store it is on, as long as no switch has
\* crossed another call: whatever it asked, and whenever it was answered.
THEOREM CallsAreForTheOwnUser == Spec => []OwnUserUnlessCrossed
<1>1. StoreInv /\ OwnIds => OwnUserUnlessCrossed
  BY ActsForItsOwn
     DEF OwnUserUnlessCrossed, StoreInv, InsideRuns, Lock!Running, Callers
<1>2. StoreInv /\ OwnIds /\ [Next]_vars => OwnIds'
  BY StepOwnIds
<1> QED
  BY Invariance, InitOwnIds, <1>1, <1>2, PTL DEF Spec

\* When no switch or backup is under way and the last switch did not fail half-way, the active
\* store names itself, and every other store names it or nobody.
THEOREM SwitchesAreRecorded == Spec => []SwitchIsRecorded
<1>1. RowsTold => SwitchIsRecorded
  BY DEF RowsTold, Settled, MidSwitch, SwitchIsRecorded
<1>2. StoreInv /\ OwnIds /\ [Next]_vars => OwnIds'
  BY StepOwnIds
<1>3. StoreInv /\ OwnIds /\ RowsTold /\ [Next]_vars => RowsTold'
  BY StepRowsTold
<1> QED
  BY Invariance, InitOwnIds, InitRowsTold, <1>1, <1>2, <1>3, PTL DEF Spec

\* Backing up, switching and adding stores lose and add nothing: the records of the active store
\* are those of a single store.
THEOREM StoresAreOneStore == Spec => OneLogicalStore
<1>1. Init => Promise!Init
  <2> SUFFICES ASSUME Init PROVE records[Active] = {}
    BY DEF Promise!Init
  <2>1. Active \in Stores
    BY InitStoreInv, ActiveIsStore DEF StoreInv
  <2> QED
    BY <2>1 DEF Init
<1>2. StoreInv /\ [Next]_vars => [Promise!Next]_(records[Active])
  BY StepStoreInv DEF Promise!Next, Promise!Record
<1> QED
  BY Invariance, <1>1, <1>2, PTL DEF Spec, OneLogicalStore, Promise!Spec
=============================================================================

----------------------- MODULE StorageManagerLockProofs -----------------------
(***************************************************************************)
(* Proofs that the lock of WalletStorageManager excludes what it should,   *)
(* for any number of callers of each kind.  The inductive invariant ties   *)
(* the two counters and the two flags to the calls that are inside.        *)
(***************************************************************************)
EXTENDS StorageManagerLock, FiniteSetTheorems, TLAPS

RunningReaders == {c \in Readers : pc[c] = "run"}
RunningWriters == {c \in Writers : pc[c] = "run"}
Holding(c) == pc[c] \in {"drain", "run"}

\* The types without the counters, which only counting can bound.
Typed ==
    /\ syncLocked \in BOOLEAN
    /\ storageProviderLocked \in BOOLEAN
    /\ pc \in [Callers -> {"out", "wait", "drain", "run"}]

\* The counters count.
Counted ==
    /\ readerCount = Cardinality(RunningReaders)
    /\ writerCount = Cardinality(RunningWriters)

\* A flag is set exactly while one call of its kind drains or runs.
Flags ==
    /\ \A c \in Readers \cup Writers : pc[c] # "drain"
    /\ \A c \in Syncs : Holding(c) => syncLocked
    /\ \A c \in Providers : Holding(c) => storageProviderLocked
    /\ \A c, d \in Syncs : Holding(c) /\ Holding(d) => c = d
    /\ \A c, d \in Providers : Holding(c) /\ Holding(d) => c = d

\* While an exclusive call runs, nothing else is inside.
Alone ==
    /\ \A c \in Syncs \cup Providers : pc[c] = "run" => readerCount = 0 /\ writerCount = 0
    /\ \A c \in Syncs, d \in Providers : ~(pc[c] = "run" /\ pc[d] = "run")

Single == IsSingleWriter => writerCount \in {0, 1}

IInv == Typed /\ Counted /\ Flags /\ Alone /\ Single
-----------------------------------------------------------------------------
\* The sets that are counted are finite.
LEMMA RunningFinite ==
    /\ IsFiniteSet(RunningReaders) /\ IsFiniteSet(RunningWriters)
    /\ Cardinality(RunningReaders) \in Nat /\ Cardinality(RunningWriters) \in Nat
<1>1. RunningReaders \subseteq Readers /\ RunningWriters \subseteq Writers
  BY DEF RunningReaders, RunningWriters
<1>2. IsFiniteSet(RunningReaders) /\ IsFiniteSet(RunningWriters)
  BY <1>1, CallersAssumption, FS_Subset
<1> QED
  BY <1>2, FS_CardinalityType

\* The initial states satisfy the invariant.
LEMMA InitIInv == Init => IInv
<1> SUFFICES ASSUME Init PROVE IInv
  OBVIOUS
<1>1. Typed /\ Flags
  BY CallersAssumption DEF Init, Typed, Flags, Holding, Callers
<1>2. RunningReaders = {} /\ RunningWriters = {}
  BY DEF Init, RunningReaders, RunningWriters, Callers
<1>3. Counted
  BY <1>2, FS_EmptySet DEF Init, Counted
<1>4. Alone /\ Single
  BY DEF Init, Alone, Single, Callers
<1> QED
  BY <1>1, <1>3, <1>4 DEF IInv

\* A counter and the set it counts change together, or both stay.
LEMMA CountSteps ==
    ASSUME IInv, NEW c \in Callers,
           pc' = [pc EXCEPT ![c] = pc'[c]],
           readerCount' = IF c \in Readers
                          THEN IF pc'[c] = "run" /\ pc[c] # "run" THEN readerCount + 1
                               ELSE IF pc'[c] # "run" /\ pc[c] = "run" THEN readerCount - 1
                               ELSE readerCount
                          ELSE readerCount,
           writerCount' = IF c \in Writers
                          THEN IF pc'[c] = "run" /\ pc[c] # "run" THEN writerCount + 1
                               ELSE IF pc'[c] # "run" /\ pc[c] = "run" THEN writerCount - 1
                               ELSE writerCount
                          ELSE writerCount
    PROVE  Counted'
<1> USE DEF IInv, Typed
<1>1. RunningReaders' = IF c \in Readers /\ pc'[c] = "run" THEN RunningReaders \cup {c}
                        ELSE RunningReaders \ {c}
  BY CallersAssumption DEF RunningReaders, Callers
<1>2. RunningWriters' = IF c \in Writers /\ pc'[c] = "run" THEN RunningWriters \cup {c}
                        ELSE RunningWriters \ {c}
  BY CallersAssumption DEF RunningWriters, Callers
<1>3. /\ c \in RunningReaders <=> c \in Readers /\ pc[c] = "run"
      /\ c \in RunningWriters <=> c \in Writers /\ pc[c] = "run"
  BY DEF RunningReaders, RunningWriters
<1>4. /\ Cardinality(RunningReaders \cup {c}) =
            IF c \in RunningReaders THEN readerCount ELSE readerCount + 1
      /\ Cardinality(RunningWriters \cup {c}) =
            IF c \in RunningWriters THEN writerCount ELSE writerCount + 1
  BY RunningFinite, FS_AddElement DEF Counted
<1>5. /\ Cardinality(RunningReaders \ {c}) =
            IF c \in RunningReaders THEN readerCount - 1 ELSE readerCount
      /\ Cardinality(RunningWriters \ {c}) =
            IF c \in RunningWriters THEN writerCount - 1 ELSE writerCount
  BY RunningFinite, FS_RemoveElement DEF Counted
<1>6. readerCount' = Cardinality(RunningReaders')
  BY <1>1, <1>3, <1>4, <1>5
<1>7. writerCount' = Cardinality(RunningWriters')
  BY <1>2, <1>3, <1>4, <1>5
<1> QED
  BY <1>6, <1>7 DEF Counted
-----------------------------------------------------------------------------
\* Every step of the manager preserves the invariant.
LEMMA NextIInv == IInv /\ [Next]_vars => IInv'
<1> SUFFICES ASSUME IInv, [Next]_vars PROVE IInv'
  OBVIOUS
<1> USE DEF IInv
<1>0. readerCount \in Nat /\ writerCount \in Nat
  BY RunningFinite DEF Counted
<1>1. ASSUME NEW c \in Callers, Call(c) PROVE IInv'
  <2>1. Typed'
    BY <1>1 DEF Call, Typed
  <2>2. RunningReaders' = RunningReaders /\ RunningWriters' = RunningWriters
    BY <1>1 DEF Call, Typed, RunningReaders, RunningWriters, Callers
  <2>3. Counted'
    BY <1>1, <2>2 DEF Call, Counted
  <2>4. Flags' /\ Alone' /\ Single'
    BY <1>1 DEF Call, Typed, Flags, Holding, Alone, Single, Callers
  <2> QED
    BY <2>1, <2>3, <2>4
<1>2. ASSUME NEW c \in Callers, EnterReader(c) PROVE IInv'
  <2>1. Typed'
    BY <1>2 DEF EnterReader, Proceed, Typed
  <2>2. Counted'
    BY <1>2, CountSteps, CallersAssumption DEF EnterReader, Proceed, Typed
  <2>3. ~syncLocked /\ ~storageProviderLocked
    BY <1>2 DEF EnterReader, Proceed, Blocked
  <2>4. Flags' /\ Alone' /\ Single'
    BY <1>2, <2>3, CallersAssumption DEF EnterReader, Proceed, Typed, Flags, Holding, Alone, Single, Callers
  <2> QED
    BY <2>1, <2>2, <2>4
<1>3. ASSUME NEW c \in Callers, EnterWriter(c) PROVE IInv'
  <2>1. Typed'
    BY <1>3 DEF EnterWriter, Proceed, Typed
  <2>2. Counted'
    BY <1>3, CountSteps, CallersAssumption DEF EnterWriter, Proceed, Typed
  <2>3. ~syncLocked /\ ~storageProviderLocked /\ (IsSingleWriter => writerCount = 0)
    BY <1>3, <1>0 DEF EnterWriter, Proceed, Blocked
  <2>4. Flags' /\ Alone'
    BY <1>3, <2>3, CallersAssumption DEF EnterWriter, Proceed, Typed, Flags, Holding, Alone, Callers
  <2>5. Single'
    BY <1>3, <2>3 DEF EnterWriter, Single
  <2> QED
    BY <2>1, <2>2, <2>4, <2>5
<1>4. ASSUME NEW c \in Callers, TakeSync(c) PROVE IInv'
  <2>1. Typed'
    BY <1>4 DEF TakeSync, Proceed, Typed
  <2>2. Counted'
    BY <1>4, CountSteps, CallersAssumption DEF TakeSync, Proceed, Typed
  <2>3. Flags' /\ Alone' /\ Single'
    BY <1>4, CallersAssumption
    DEF TakeSync, Proceed, Blocked, Typed, Flags, Holding, Alone, Single, Callers
  <2> QED
    BY <2>1, <2>2, <2>3
<1>5. ASSUME NEW c \in Callers, TakeProvider(c) PROVE IInv'
  <2>1. Typed'
    BY <1>5 DEF TakeProvider, Proceed, Typed
  <2>2. Counted'
    BY <1>5, CountSteps, CallersAssumption DEF TakeProvider, Proceed, Typed
  <2>3. Flags' /\ Alone' /\ Single'
    BY <1>5, CallersAssumption
    DEF TakeProvider, Proceed, Blocked, Typed, Flags, Holding, Alone, Single, Callers
  <2> QED
    BY <2>1, <2>2, <2>3
<1>6. ASSUME NEW c \in Callers, EnterExclusive(c) PROVE IInv'
  <2>0. c \in Syncs \cup Providers
    BY <1>6 DEF EnterExclusive, Flags, Callers
  <2>1. Typed'
    BY <1>6 DEF EnterExclusive, Typed
  <2>2. Counted'
    BY <1>6, <2>0, CountSteps, CallersAssumption DEF EnterExclusive, Typed
  <2>3. Flags' /\ Single'
    BY <1>6, <2>0, CallersAssumption DEF EnterExclusive, Typed, Flags, Holding, Single, Callers
  <2>4. Alone'
    BY <1>6, <2>0, CallersAssumption DEF EnterExclusive, Drained, Typed, Flags, Holding, Alone, Callers
  <2> QED
    BY <2>1, <2>2, <2>3, <2>4
<1>7. ASSUME NEW c \in Callers, RefuseProvider(c) PROVE IInv'
  <2>1. Typed'
    BY <1>7 DEF RefuseProvider, Typed
  <2>2. Counted'
    BY <1>7, CountSteps, CallersAssumption DEF RefuseProvider, Typed
  <2>3. Flags' /\ Alone' /\ Single'
    BY <1>7, CallersAssumption DEF RefuseProvider, Typed, Flags, Holding, Alone, Single, Callers
  <2> QED
    BY <2>1, <2>2, <2>3
<1>8. ASSUME NEW c \in Callers, Leave(c) PROVE IInv'
  <2>1. Typed'
    BY <1>8 DEF Leave, Typed
  <2>2. Counted'
    BY <1>8, CountSteps, CallersAssumption DEF Leave, Typed
  <2>3. Flags'
    BY <1>8, CallersAssumption DEF Leave, Typed, Flags, Holding, Callers
  <2>4. c \in Readers \cup Writers => \A d \in Syncs \cup Providers : pc[d] # "run"
    <3> SUFFICES ASSUME c \in Readers \cup Writers, NEW d \in Syncs \cup Providers, pc[d] = "run"
                 PROVE FALSE
      OBVIOUS
    <3>1. c \in RunningReaders \/ c \in RunningWriters
      BY <1>8 DEF Leave, RunningReaders, RunningWriters
    <3>2. Cardinality(RunningReaders) = 0 /\ Cardinality(RunningWriters) = 0
      BY DEF Alone, Counted
    <3> QED
      BY <3>1, <3>2, RunningFinite, FS_EmptySet
  <2>5. Alone'
    BY <1>8, <2>4, CallersAssumption DEF Leave, Typed, Alone, Callers
  <2>6. c \in Writers => writerCount # 0
    <3>1. c \in Writers => c \in RunningWriters
      BY <1>8 DEF Leave, RunningWriters
    <3> QED
      BY <3>1, RunningFinite, FS_EmptySet DEF Counted
  <2>7. Single'
    BY <1>8, <2>6 DEF Leave, Single
  <2> QED
    BY <2>1, <2>2, <2>3, <2>5, <2>7
<1>9. CASE UNCHANGED vars
  BY <1>9 DEF vars, Typed, Counted, RunningReaders, RunningWriters, Flags, Holding, Alone, Single
<1> QED
  BY <1>1, <1>2, <1>3, <1>4, <1>5, <1>6, <1>7, <1>8, <1>9 DEF Next

\* The inductive invariant of the lock.
THEOREM LockInvariant == Spec => []IInv
<1> QED
  BY InitIInv, NextIInv, PTL DEF Spec
-----------------------------------------------------------------------------
\* The invariant implies the types.
LEMMA InvariantTypes == IInv => TypeOK
BY RunningFinite DEF IInv, Typed, Counted, TypeOK

\* The variables of the lock keep their types: no finally block takes a counter
\* below zero.
THEOREM TypeCorrect == Spec => []TypeOK
<1> QED
  BY InvariantTypes, LockInvariant, PTL

\* The invariant implies that an exclusive call runs alone.
LEMMA InvariantAlone ==
    ASSUME IInv
    PROVE  ExclusiveRunsAlone
<1> SUFFICES ASSUME NEW c \in Syncs \cup Providers, pc[c] = "run", NEW d \in Callers, pc[d] = "run"
             PROVE  c = d
  BY DEF ExclusiveRunsAlone, Running, Callers
<1>1. CASE d \in Readers \cup Writers
  <2>1. d \in RunningReaders \/ d \in RunningWriters
    BY <1>1 DEF RunningReaders, RunningWriters
  <2>2. Cardinality(RunningReaders) = 0 /\ Cardinality(RunningWriters) = 0
    BY DEF IInv, Alone, Counted
  <2> QED
    BY <2>1, <2>2, RunningFinite, FS_EmptySet
<1>2. CASE d \in Syncs \cup Providers
  BY <1>2 DEF IInv, Alone, Flags, Holding
<1> QED
  BY <1>1, <1>2 DEF Callers

\* A sync or StorageProvider closure runs alone.
THEOREM ExclusiveCallsRunAlone == Spec => []ExclusiveRunsAlone
<1> QED
  BY InvariantAlone, LockInvariant, PTL

\* With _isSingleWriter at most one writer is inside.
THEOREM AtMostOneWriter == Spec => []OneWriter
<1>1. ASSUME IInv PROVE OneWriter
  <2> SUFFICES ASSUME IsSingleWriter, NEW c \in RunningWriters, NEW d \in RunningWriters
               PROVE  c = d
    BY DEF OneWriter, Running, RunningWriters, Callers
  <2>1. Cardinality(RunningWriters) \in {0, 1}
    BY <1>1 DEF IInv, Single, Counted
  <2>2. CASE Cardinality(RunningWriters) = 0
    BY <2>2, RunningFinite, FS_EmptySet
  <2>3. CASE Cardinality(RunningWriters) = 1
    BY <2>3, RunningFinite, FS_Singleton
  <2> QED
    BY <2>1, <2>2, <2>3
<1> QED
  BY <1>1, LockInvariant, PTL

\* While a flag is set no reader and no writer comes in.
THEOREM DrainOnlyDrains == Spec => DrainIsMonotone
<1>1. ASSUME Typed, Flags, [Next]_vars, syncLocked \/ storageProviderLocked
      PROVE  Running' \cap (Readers \cup Writers) \subseteq Running
  <2>1. ASSUME NEW c \in Callers, Call(c) \/ TakeSync(c) \/ TakeProvider(c)
        PROVE  Running' \subseteq Running
    BY <1>1, <2>1 DEF Call, TakeSync, TakeProvider, Proceed, Running, Typed
  <2>2. ASSUME NEW c \in Callers, EnterReader(c) \/ EnterWriter(c)
        PROVE  FALSE
    BY <1>1, <2>2 DEF EnterReader, EnterWriter, Proceed, Blocked
  <2>3. ASSUME NEW c \in Callers, RefuseProvider(c) \/ Leave(c)
        PROVE  Running' \subseteq Running
    BY <1>1, <2>3 DEF RefuseProvider, Leave, Running, Typed
  <2>4. ASSUME NEW c \in Callers, EnterExclusive(c)
        PROVE  Running' \cap (Readers \cup Writers) \subseteq Running
    BY <1>1, <2>4 DEF EnterExclusive, Flags, Running, Typed
  <2> QED
    BY <1>1, <2>1, <2>2, <2>3, <2>4 DEF Next, vars, Running, Typed
<1> QED
  BY <1>1, LockInvariant, PTL DEF Spec, DrainIsMonotone, IInv
=============================================================================

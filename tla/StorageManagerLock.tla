------------------------ MODULE StorageManagerLock ------------------------
(***************************************************************************)
(* The access lock of WalletStorageManager: two counters and two flags     *)
(* that runAsReader, runAsWriter, runAsSync and runAsStorageProvider test  *)
(* and set, polling every 100 ms while they are blocked.  JavaScript runs  *)
(* one callback at a time, so what happens between two awaits is one step. *)
(*                                                                         *)
(* A member of Readers, Writers, Syncs or Providers is a caller that makes *)
(* such calls one after another.  The chained runAsSync(f, activeSync)     *)
(* tests and sets nothing: it is part of the call that passed activeSync.  *)
(***************************************************************************)
EXTENDS Naturals, FiniteSets

CONSTANTS
    Readers, Writers, Syncs, Providers,
    IsSingleWriter

ASSUME CallersAssumption ==
    /\ IsFiniteSet(Readers) /\ IsFiniteSet(Writers)
    /\ Readers \cap Writers = {}
    /\ (Readers \cup Writers) \cap (Syncs \cup Providers) = {}
    /\ Syncs \cap Providers = {}
    /\ IsSingleWriter \in BOOLEAN

Callers == Readers \cup Writers \cup Syncs \cup Providers

VARIABLES
    readerCount, writerCount,           \* calls that have been let in
    syncLocked, storageProviderLocked,
    pc      \* out; wait: polls for entry; drain: holds a flag, polls; run

vars == <<readerCount, writerCount, syncLocked, storageProviderLocked, pc>>
-----------------------------------------------------------------------------
Init ==
    /\ readerCount = 0
    /\ writerCount = 0
    /\ syncLocked = FALSE
    /\ storageProviderLocked = FALSE
    /\ pc = [c \in Callers |-> "out"]

\* Mutants: one of the three things that block a reader or writer is forgotten.
BlockedBySync(c) ==
    \/ c \in Readers \cup Writers /\ (syncLocked \/ (IsSingleWriter /\ writerCount > 0))
    \/ c \in Syncs /\ syncLocked
    \/ c \in Providers /\ storageProviderLocked
BlockedByProvider(c) ==
    \/ c \in Readers \cup Writers /\ (storageProviderLocked \/ (IsSingleWriter /\ writerCount > 0))
    \/ c \in Syncs /\ syncLocked
    \/ c \in Providers /\ storageProviderLocked
BlockedByFlags(c) ==
    \/ c \in Readers \cup Writers /\ (storageProviderLocked \/ syncLocked)
    \/ c \in Syncs /\ syncLocked
    \/ c \in Providers /\ storageProviderLocked

\* The first loop of the four getActiveFor functions.
Blocked(c) ==
    \/ c \in Readers \cup Writers /\ \/ storageProviderLocked
                                     \/ syncLocked
                                     \/ IsSingleWriter /\ writerCount > 0
    \/ c \in Syncs /\ syncLocked
    \/ c \in Providers /\ storageProviderLocked

\* A call that finds itself blocked waits.
Call(c) ==
    /\ pc[c] = "out"
    /\ Blocked(c)
    /\ pc' = [pc EXCEPT ![c] = "wait"]
    /\ UNCHANGED <<readerCount, writerCount, syncLocked, storageProviderLocked>>

\* c was not blocked at its first test, or at its last poll: it goes on to state p.
Proceed(c, p) ==
    /\ pc[c] \in {"out", "wait"}
    /\ ~Blocked(c)
    /\ pc' = [pc EXCEPT ![c] = p]

EnterReader(c) ==
    /\ c \in Readers
    /\ Proceed(c, "run")
    /\ readerCount' = readerCount + 1
    /\ UNCHANGED <<writerCount, syncLocked, storageProviderLocked>>

EnterWriter(c) ==
    /\ c \in Writers
    /\ Proceed(c, "run")
    /\ writerCount' = writerCount + 1
    /\ UNCHANGED <<readerCount, syncLocked, storageProviderLocked>>

TakeSync(c) ==
    /\ c \in Syncs
    /\ Proceed(c, "drain")
    /\ syncLocked' = TRUE
    /\ UNCHANGED <<readerCount, writerCount, storageProviderLocked>>

TakeProvider(c) ==
    /\ c \in Providers
    /\ Proceed(c, "drain")
    /\ storageProviderLocked' = TRUE
    /\ UNCHANGED <<readerCount, writerCount, syncLocked>>

\* Mutant: the second loop does not look at the writers.
DrainedReaders(c) ==
    /\ c \in Syncs => ~storageProviderLocked
    /\ c \in Providers => ~syncLocked
    /\ readerCount = 0

\* The second loop of getActiveForSync and getActiveForStorageProvider ends.
Drained(c) ==
    /\ c \in Syncs => ~storageProviderLocked
    /\ c \in Providers => ~syncLocked
    /\ readerCount = 0 /\ writerCount = 0

EnterExclusive(c) ==
    /\ pc[c] = "drain"
    /\ Drained(c)
    /\ pc' = [pc EXCEPT ![c] = "run"]
    /\ UNCHANGED <<readerCount, writerCount, syncLocked, storageProviderLocked>>

\* The active store is a remote one, which is no StorageProvider.
RefuseProvider(c) ==
    /\ c \in Providers
    /\ pc[c] = "drain"
    /\ Drained(c)
    /\ pc' = [pc EXCEPT ![c] = "out"]
    /\ storageProviderLocked' = FALSE
    /\ UNCHANGED <<readerCount, writerCount, syncLocked>>

\* The finally block, whether the closure returned or threw.
Leave(c) ==
    /\ pc[c] = "run"
    /\ pc' = [pc EXCEPT ![c] = "out"]
    /\ readerCount' = IF c \in Readers THEN readerCount - 1 ELSE readerCount
    /\ writerCount' = IF c \in Writers THEN writerCount - 1 ELSE writerCount
    /\ syncLocked' = (syncLocked /\ c \notin Syncs)
    /\ storageProviderLocked' = (storageProviderLocked /\ c \notin Providers)

\* What a caller does once it is called; it need not call again.
Step(c) ==
    \/ pc[c] = "wait" /\ (EnterReader(c) \/ EnterWriter(c) \/ TakeSync(c) \/ TakeProvider(c))
    \/ EnterExclusive(c) \/ RefuseProvider(c) \/ Leave(c)

Next ==
    \E c \in Callers :
        \/ Call(c)
        \/ EnterReader(c) \/ EnterWriter(c) \/ TakeSync(c) \/ TakeProvider(c)
        \/ EnterExclusive(c) \/ RefuseProvider(c) \/ Leave(c)

Spec == Init /\ [][Next]_vars

(* The timers fire and the closures end.  Polling may always find the lock  *)
(* taken: nothing stronger than weak fairness is justified.                *)
FairSpec == Spec /\ \A c \in Callers : WF_vars(Step(c))
-----------------------------------------------------------------------------
(* Properties.                                                             *)

Running == {c \in Callers : pc[c] = "run"}

\* Every variable keeps its type; in particular no counter goes below zero.
TypeOK ==
    /\ readerCount \in Nat
    /\ writerCount \in Nat
    /\ syncLocked \in BOOLEAN
    /\ storageProviderLocked \in BOOLEAN
    /\ pc \in [Callers -> {"out", "wait", "drain", "run"}]

\* A sync or a StorageProvider closure runs alone: no call of any kind runs beside
\* it, although flags and counters are set and tested at different polls.
ExclusiveRunsAlone ==
    \A c \in Running \cap (Syncs \cup Providers) : Running = {c}

\* With _isSingleWriter two writers never run at the same time.
OneWriter ==
    IsSingleWriter => \A c, d \in Running \cap Writers : c = d

\* No call comes in while a sync or a StorageProvider call drains: what it waits
\* for can only become less.
DrainIsMonotone ==
    [][syncLocked \/ storageProviderLocked =>
          Running' \cap (Readers \cup Writers) \subseteq Running]_vars

\* A sync and a StorageProvider call have both set their flags, and neither runs.
Crossed == \E c \in Syncs, d \in Providers : pc[c] = "drain" /\ pc[d] = "drain"

\* A flag "prevents any new" call: however many readers and writers keep calling, a
\* drain ends; the one thing that can keep it from ending is an exclusive call of the
\* other kind that drains too.
DrainEndsUnlessCrossed ==
    \A c \in Syncs \cup Providers : pc[c] = "drain" ~> pc[c] # "drain" \/ Crossed
=============================================================================

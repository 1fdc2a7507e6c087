---------------------------- MODULE StoreManager ----------------------------
(***************************************************************************)
(* The stores of a WalletStorageManager: which is active, the wallet's     *)
(* user id in each, and the calls that use, back up and switch them under  *)
(* the access lock (StorageManagerLock).                                   *)
(*                                                                         *)
(* Readers, Writers, Syncs and Providers are callers that call again and   *)
(* again.  A Sync caller runs setActive, updateBackups or syncFromReader.  *)
(* What calls record is a set: a caller is its record, and a sync copies   *)
(* all of it (SyncStores has the rows and the chunks).                     *)
(***************************************************************************)
EXTENDS Naturals, Sequences, FiniteSets

CONSTANTS
    Readers, Writers, Syncs, Providers, IsSingleWriter,
    Stores, None,
    External,       \* what the reader given to syncFromReader holds
    Remote,         \* stores reached through a StorageClient
    UserIdIn,       \* users.userId of the wallet's identity key, in each store
    FirstStores,    \* what the manager may be constructed with
    MaxStores,      \* bound: stores in the list
    MaxSwitches     \* bound: setActive calls

ASSUME StoresAssumption ==
    /\ IsFiniteSet(Readers) /\ IsFiniteSet(Writers)
    /\ Readers \cap Writers = {}
    /\ (Readers \cup Writers) \cap (Syncs \cup Providers) = {}
    /\ Syncs \cap Providers = {}
    /\ IsSingleWriter \in BOOLEAN
    /\ None \notin Stores
    /\ External \notin Writers \cup Providers
    /\ Remote \subseteq Stores
    /\ UserIdIn \in [Stores -> Nat \ {0}]
    /\ MaxStores \in Nat
    /\ FirstStores \subseteq Seq(Stores)
    /\ \A q \in FirstStores : 0 < Len(q) /\ Len(q) <= MaxStores
    /\ MaxSwitches \in Nat

VARIABLES
    readerCount, writerCount, syncLocked, storageProviderLocked, pc,  \* the lock
    stores,     \* the manager's list; the first is active
    records,    \* in each store, what is recorded for the wallet's user
    activeIn,   \* in each store, users.activeStorage of the wallet's user
    rowTime,    \* in each store, updated_at of that users row; 0: there is none
    now,        \* time, which passes when setActive writes users.activeStorage
    authIds,    \* userId of every object that was the manager's _authId; 0: undefined
    step,       \* where each call is when it neither waits for the lock nor runs
    auth,       \* the _authId object each call was given (1 between calls)
    on,         \* the store getAuth asks, then the one the call got with the lock
    index, key, \* setActive's newActiveIndex and newActiveStorageIdentityKey
    todo,       \* backups an updateBackups has still to write
    \* History, read by no action.
    crossed,    \* a switch happened while another call was in progress
    halfway     \* a setActive has written activeStorage and then failed

lockVars == <<readerCount, writerCount, syncLocked, storageProviderLocked, pc>>
dbVars == <<records, activeIn, rowTime, now>>
callVars == <<step, auth, on, index, key, todo>>
vars == <<lockVars, stores, dbVars, authIds, callVars, crossed, halfway>>

Lock == INSTANCE StorageManagerLock
Callers == Lock!Callers
Records == Writers \cup Providers \cup {External}
-----------------------------------------------------------------------------
Init ==
    /\ Lock!Init
    /\ stores \in FirstStores
    /\ records = [s \in Stores |-> {}]
    /\ activeIn = [s \in Stores |-> None]
    /\ rowTime = [s \in Stores |-> 0]
    /\ now = 1
    /\ authIds = <<0>>
    /\ step = [c \in Callers |-> "idle"]
    /\ auth = [c \in Callers |-> 1]
    /\ on = [c \in Callers |-> None]
    /\ index = [c \in Syncs |-> 0]
    /\ key = [c \in Syncs |-> None]
    /\ todo = [c \in Syncs |-> <<>>]
    /\ crossed = FALSE
    /\ halfway = FALSE

Active == Head(stores)
CurrentAuth == Len(authIds)

\* The user a call reads and writes for: the object it was given is filled in later, too.
ActsFor(c) == authIds[auth[c]]
ForOwnUser(c) == ActsFor(c) = UserIdIn[on[c]]

Switching(c) == c \in Syncs /\ index[c] > 0
Switches == Cardinality({c \in Syncs : index[c] > 0}) + now - 1

\* A StorageClient has no settings to compare or to sync by, and throws.
HasSettings(s) == s \notin Remote
-----------------------------------------------------------------------------
(* Before the lock: setActive looks for the store, and all but the         *)
(* StorageProvider calls ask for the user id.                              *)

\* findIndex, which asks one store after the other for its settings.
FindIndex(c, i) ==
    /\ i \in 2 .. Len(stores)
    /\ \A j \in 1 .. i : HasSettings(stores[j])
    /\ Switches < MaxSwitches
    /\ index' = [index EXCEPT ![c] = i]

\* The store at the index is read when the user id is there.
KeyOf(c, i) == IF c \in Syncs /\ i > 0 THEN [key EXCEPT ![c] = stores[i]] ELSE key

\* getAuth: the id is known, or the active store is asked for it.
GetAuth(c, i) ==
    /\ auth' = [auth EXCEPT ![c] = CurrentAuth]
    /\ \/ /\ authIds[CurrentAuth] # 0
          /\ step' = [step EXCEPT ![c] = "ready"]
          /\ key' = KeyOf(c, i)
          /\ UNCHANGED on
       \/ /\ authIds[CurrentAuth] = 0
          /\ step' = [step EXCEPT ![c] = "ask"]
          /\ on' = [on EXCEPT ![c] = Active]
          /\ UNCHANGED key

Call(c) ==
    /\ step[c] = "idle"
    /\ \/ /\ c \in Providers
          /\ step' = [step EXCEPT ![c] = "ready"]
          /\ UNCHANGED <<auth, on, index, key>>
       \/ c \notin Providers /\ GetAuth(c, 0) /\ UNCHANGED index
       \/ c \in Syncs /\ \E i \in 1 .. Len(stores) : FindIndex(c, i) /\ GetAuth(c, i)
    /\ UNCHANGED <<lockVars, stores, dbVars, authIds, todo, crossed, halfway>>

\* The users row of the wallet in store s, which findOrInsertUser inserts.
RowTime(s) == IF rowTime[s] = 0 THEN now ELSE rowTime[s]

\* getUserId writes the id to the _authId of now, getAuth to that of its beginning, and the
\* one of now is returned.
Answered(c) ==
    /\ step[c] = "ask"
    /\ authIds' = [authIds EXCEPT ![CurrentAuth] = UserIdIn[on[c]], ![auth[c]] = UserIdIn[on[c]]]
    /\ auth' = [auth EXCEPT ![c] = CurrentAuth]
    /\ rowTime' = [rowTime EXCEPT ![on[c]] = RowTime(on[c])]
    /\ step' = [step EXCEPT ![c] = "ready"]
    /\ on' = [on EXCEPT ![c] = None]
    /\ key' = KeyOf(c, IF c \in Syncs THEN index[c] ELSE 0)
    /\ UNCHANGED <<lockVars, stores, records, activeIn, now, index, todo, crossed, halfway>>
-----------------------------------------------------------------------------
(* Under the lock.                                                         *)

Wait(c) ==
    /\ step[c] = "ready"
    /\ Lock!Call(c) \/ Lock!TakeSync(c) \/ Lock!TakeProvider(c)
    /\ UNCHANGED <<stores, dbVars, authIds, callVars, crossed, halfway>>

\* getActive, once the lock is held.
Enter(c) ==
    /\ step[c] = "ready"
    /\ \/ Lock!EnterReader(c) \/ Lock!EnterWriter(c)
       \/ Lock!EnterExclusive(c) /\ (c \in Providers => Active \notin Remote)
    /\ step' = [step EXCEPT ![c] = "work"]
    /\ on' = [on EXCEPT ![c] = Active]
    /\ UNCHANGED <<stores, dbVars, authIds, auth, index, key, todo, crossed, halfway>>

Refuse(c) ==
    /\ step[c] = "ready" /\ Active \in Remote
    /\ Lock!RefuseProvider(c)
    /\ step' = [step EXCEPT ![c] = "idle"]
    /\ UNCHANGED <<stores, dbVars, authIds, auth, on, index, key, todo, crossed, halfway>>

LockOnly == UNCHANGED <<lockVars, stores, auth, on, index, key>>

\* A writer records for the user of its auth, who may be another one of the store's users.
Record(c) ==
    /\ c \in Writers \cup Providers /\ step[c] = "work"
    /\ records' = IF c \in Providers \/ ForOwnUser(c)
                  THEN [records EXCEPT ![on[c]] = @ \cup {c}] ELSE records
    /\ step' = [step EXCEPT ![c] = "done"]
    /\ LockOnly /\ UNCHANGED <<activeIn, rowTime, now, authIds, todo, crossed, halfway>>

\* syncFromReader.
SyncFromReader(c) ==
    /\ c \in Syncs /\ ~Switching(c) /\ step[c] = "work"
    /\ HasSettings(Active)
    /\ records' = [records EXCEPT ![on[c]] = @ \cup {External}]
    /\ step' = [step EXCEPT ![c] = "done"]
    /\ LockOnly /\ UNCHANGED <<activeIn, rowTime, now, authIds, todo, crossed, halfway>>

\* setActive of the active store writes the users row of the user id it is given.
RecordActive(c) ==
    /\ Switching(c) /\ step[c] = "work"
    /\ now' = now + 1
    /\ IF ForOwnUser(c)
       THEN /\ activeIn' = [activeIn EXCEPT ![on[c]] = key[c]]
            /\ rowTime' = [rowTime EXCEPT ![on[c]] = now + 1]
       ELSE UNCHANGED <<activeIn, rowTime>>
    /\ step' = [step EXCEPT ![c] = "record"]
    /\ LockOnly /\ UNCHANGED <<records, authIds, todo, crossed, halfway>>

\* Mutant: the first backup is left out.
BackupsButFirst == IF Len(stores) > 2 THEN SubSeq(stores, 3, Len(stores)) ELSE <<>>

Backups == Tail(stores)

\* updateBackups asks for the user id once more, if another switch has reset it.
UpdateBackups(c) ==
    /\ \/ Switching(c) /\ step[c] = "record"
       \/ c \in Syncs /\ ~Switching(c) /\ step[c] = "work"
    /\ HasSettings(Active)
    /\ todo' = [todo EXCEPT ![c] = Backups]
    /\ step' = [step EXCEPT ![c] = "copy"]
    /\ LET asks == authIds[CurrentAuth] = 0
       IN  /\ authIds' = IF asks THEN [authIds EXCEPT ![CurrentAuth] = UserIdIn[Active]] ELSE authIds
           /\ rowTime' = IF asks THEN [rowTime EXCEPT ![Active] = RowTime(Active)] ELSE rowTime
    /\ LockOnly /\ UNCHANGED <<records, activeIn, now, crossed, halfway>>

\* Mutant: a row that was just created is not taken for older.
UserMergedIfNewer(from, s) == rowTime[from] > RowTime(s)

\* User.mergeExisting.
UserMerged(from, s) ==
    \/ rowTime[from] > RowTime(s)
    \/ activeIn[s] = None /\ activeIn[from] # None

\* syncToWriter.
SyncToWriter(c) ==
    /\ c \in Syncs /\ step[c] = "copy" /\ todo[c] # <<>>
    /\ LET s == Head(todo[c])
       IN  /\ records' = [records EXCEPT ![s] = @ \cup records[on[c]]]
           /\ activeIn' = IF UserMerged(on[c], s)
                          THEN [activeIn EXCEPT ![s] = activeIn[on[c]]] ELSE activeIn
           /\ rowTime' = [rowTime EXCEPT ![s] = IF UserMerged(on[c], s) THEN now ELSE RowTime(s)]
    /\ todo' = [todo EXCEPT ![c] = Tail(@)]
    /\ LockOnly /\ UNCHANGED <<now, authIds, step, crossed, halfway>>

\* A backup cannot be reached: the call throws.
BackupFails(c) ==
    /\ c \in Syncs /\ step[c] = "copy" /\ todo[c] # <<>>
    /\ todo' = [todo EXCEPT ![c] = <<>>]
    /\ step' = [step EXCEPT ![c] = "done"]
    /\ halfway' = (halfway \/ Switching(c))
    /\ LockOnly /\ UNCHANGED <<dbVars, authIds, crossed>>

\* Mutant: the user id of the old active store is kept.
SwapKeepsAuth == UNCHANGED authIds

\* The new _authId has no user id.
Swap == authIds' = Append(authIds, 0)

\* The store at the index becomes the active one.
SetActive(c) ==
    /\ Switching(c) /\ step[c] = "copy" /\ todo[c] = <<>>
    /\ stores' = [stores EXCEPT ![1] = stores[index[c]], ![index[c]] = stores[1]]
    /\ Swap
    /\ step' = [step EXCEPT ![c] = "swapped"]
    /\ crossed' = (crossed \/ \E d \in Callers \ {c} : step[d] # "idle")
    /\ halfway' = FALSE
    /\ UNCHANGED <<lockVars, dbVars, auth, on, index, key, todo>>

\* The call returns, or its store has thrown before it did anything.
Leave(c) ==
    /\ Lock!Leave(c)
    /\ \/ step[c] \in {"work", "done", "swapped"}
       \/ step[c] = "copy" /\ ~Switching(c) /\ todo[c] = <<>>
    /\ step' = [step EXCEPT ![c] = "idle"]
    /\ on' = [on EXCEPT ![c] = None]
    /\ auth' = [auth EXCEPT ![c] = 1]
    /\ index' = IF c \in Syncs THEN [index EXCEPT ![c] = 0] ELSE index
    /\ key' = IF c \in Syncs THEN [key EXCEPT ![c] = None] ELSE key
    /\ UNCHANGED <<stores, dbVars, authIds, todo, crossed, halfway>>

\* addWalletStorageProvider takes no lock.
AddWalletStorageProvider(s) ==
    /\ Len(stores) < MaxStores
    /\ s \notin {stores[i] : i \in DOMAIN stores}
    /\ stores' = Append(stores, s)
    /\ UNCHANGED <<lockVars, dbVars, authIds, callVars, crossed, halfway>>

Next ==
    \/ \E c \in Callers :
         \/ Call(c) \/ Answered(c) \/ Wait(c) \/ Enter(c) \/ Refuse(c) \/ Leave(c)
         \/ Record(c) \/ SyncFromReader(c)
         \/ RecordActive(c) \/ UpdateBackups(c) \/ SyncToWriter(c) \/ BackupFails(c)
         \/ SetActive(c)
    \/ \E s \in Stores : AddWalletStorageProvider(s)

Spec == Init /\ [][Next]_vars
-----------------------------------------------------------------------------
(* Properties.                                                             *)

Steps == {"idle", "ask", "ready", "work", "record", "copy", "done", "swapped"}

TypeOK ==
    /\ Lock!TypeOK
    /\ stores \in Seq(Stores) /\ 0 < Len(stores) /\ Len(stores) <= MaxStores
    /\ records \in [Stores -> SUBSET Records]
    /\ now \in Nat \ {0}
    /\ activeIn \in [Stores -> Stores \cup {None}] /\ rowTime \in [Stores -> 0 .. now]
    /\ authIds \in Seq(Nat) /\ auth \in [Callers -> DOMAIN authIds]
    /\ step \in [Callers -> Steps] /\ on \in [Callers -> Stores \cup {None}]
    /\ index \in [Syncs -> 0 .. Len(stores)] /\ key \in [Syncs -> Stores \cup {None}]
    /\ todo \in [Syncs -> Seq(Stores)]
    /\ crossed \in BOOLEAN /\ halfway \in BOOLEAN

\* A call that holds the lock works on the store that is active, whoever switches: only the
\* call that has switched is still on the old one.
RunsOnActive == \A c \in Lock!Running : step[c] # "swapped" => on[c] = Active

\* A call reads and writes as the wallet's user of the store it is on, whose id differs from
\* store to store, unless a switch happened while a call was in progress: its id is then that
\* of the old store (getAuth is asked before the lock is).
OwnUserUnlessCrossed ==
    ~crossed => \A c \in Lock!Running \ Providers : ForOwnUser(c)

\* Between switches the active store names itself in the user's row and every other
\* store names it or, never written to, none; also after a switch that failed half-way
\* was repeated.
SwitchIsRecorded ==
    ~crossed /\ ~halfway /\ (\A c \in Syncs : step[c] \notin {"record", "copy"}) =>
        /\ now > 1 => activeIn[Active] = Active
        /\ \A s \in Stores : activeIn[s] \in {None, Active}

\* To the callers the stores are one: backing up and switching, also with a stale index,
\* a failing backup or a store added meanwhile, neither lose nor add a record.
Promise == INSTANCE OneStore WITH Calls <- Records, records <- records[Active]
OneLogicalStore == Promise!Spec
=============================================================================

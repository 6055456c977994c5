------------------------------ MODULE SyncSetup ------------------------------
(***************************************************************************)
(* sync_multiple (sync15/src/sync_multiple.rs) on several devices that     *)
(* share a storage server: the global state machine that reads             *)
(* meta/global and crypto/keys, or wipes the server and uploads new ones   *)
(* (state.rs), the machine that associates a store with the sync IDs of    *)
(* meta/global (coll_state.rs), and the sync of one collection.            *)
(*                                                                         *)
(* Every request is a step, so that the devices interleave between any two *)
(* of them.  The server hands out strictly increasing timestamps (clock).  *)
(* A new sync ID or key is random, and named here by the time of its       *)
(* upload.  Of `declined` we keep whether our collection is in it; of the  *)
(* collection, under which keys its records are encrypted and whose data   *)
(* it holds.                                                               *)
(***************************************************************************)
EXTENDS Integers, FiniteSets

CONSTANTS Device,
          Kinds,     \* the kinds of sync: full, fast, readonly
          Versions,  \* storage versions a server may have at the beginning
          MaxClock,  \* writes the server accepts
          MaxLosses  \* times the server loses everything (node reassignment)

STORAGE_VERSION == 5

Time == 0..MaxClock   \* 0 is ServerTimestamp::default()

(* Whether our collection is in `declined`; "unknown" is                   *)
(* PersistedGlobalState::V2 { declined: None }.                            *)
Listed == {"declined", "enabled"}
Declined == Listed \cup {"unknown"}

(* Absent records have timestamp 0.                                        *)
NoMeta == [id |-> 0, version |-> STORAGE_VERSION, declined |-> "enabled", ts |-> 0]
NoState == [meta |-> NoMeta, key |-> 0]

ASSUME SetupAssumption ==
    MaxClock \in Nat \ {0, 1} /\ MaxLosses \in Nat /\ Versions \subseteq Nat /\ "full" \in Kinds

VARIABLES server,  \* meta/global, crypto/keys (0: absent), the collection
          clock,
          losses,
          machine, \* per device: the running sync
          cache,   \* MemoryCachedState.last_global_state
          disk,    \* persisted_global_state
          store,   \* per device: sync IDs, last sync, anything to upload
          seen     \* the declined list the device saw last (history variable)

vars == <<server, clock, losses, machine, cache, disk, store, seen>>

MetaGlobal == [id : Time, version : Versions \cup {STORAGE_VERSION},
               declined : Listed, ts : Time]
Server == [meta : MetaGlobal, crypto : Time,
           coll : SUBSET [key : Time, mod : Time], collTs : Time,
           holds : SUBSET Device]

(* SetupState; FreshStartRequired is three requests.  "Fetch" and "Upload" *)
(* are the steps of synchronize, once the global state is Ready.           *)
StartStates == {"Initial", "WithPreviousState", "FreshStartRequired"}
Labels == StartStates \cup {"InitialWithConfig", "InitialWithInfo", "InitialWithMetaGlobal"}
Phases == Labels \cup {"Idle", "PutMetaGlobal", "PutCryptoKeys", "Fetch", "Upload"}

Machine == [phase : Phases, kind : Kinds, visited : SUBSET Labels, steps : Nat,
            meta : MetaGlobal, key : Time, pgs : Declined, ts : Time]
GlobalState == [meta : MetaGlobal, key : Time]
Store == [assoc : Time, last : Time, dirty : BOOLEAN]

TypeOK ==
    /\ server \in Server /\ clock \in Time /\ losses \in 0..MaxLosses
    /\ machine \in [Device -> Machine]
    /\ cache \in [Device -> GlobalState]
    /\ disk \in [Device -> Declined] /\ seen \in [Device -> Declined]
    /\ store \in [Device -> Store]

Empty == [meta |-> NoMeta, crypto |-> 0, coll |-> {}, collTs |-> 0, holds |-> {}]

Idle == [phase |-> "Idle", kind |-> "full", visited |-> {}, steps |-> 0,
         meta |-> NoMeta, key |-> 0, pgs |-> "unknown", ts |-> 0]

(* A new account, or one that some client has set up before.               *)
Init ==
    /\ \/ server = Empty /\ clock = 0
       \/ \E v \in Versions, declined \in Listed :
            /\ server = [meta |-> [id |-> 1, version |-> v, declined |-> declined, ts |-> 1],
                         crypto |-> 2, coll |-> {}, collTs |-> 0, holds |-> {}]
            /\ clock = 2
    /\ losses = 0
    /\ machine = [d \in Device |-> Idle]
    /\ cache = [d \in Device |-> NoState]
    /\ disk = [d \in Device |-> "unknown"] /\ seen = [d \in Device |-> "unknown"]
    /\ store = [d \in Device |-> [assoc |-> 0, last |-> 0, dirty |-> TRUE]]

-----------------------------------------------------------------------------
(* The global state machine.                                               *)

(* The loop of run_to_ready: the next state's label, or an error.  Ready   *)
(* is never refused.                                                       *)
allowed_states(kind) ==
    CASE kind = "full" -> Labels
      [] kind = "fast" -> {"WithPreviousState"}
      [] kind = "readonly" -> Labels \ {"FreshStartRequired"}

Entered(m, label) ==
    [phase |-> label, kind |-> m.kind, visited |-> m.visited \cup {label},
     steps |-> m.steps + 1, meta |-> m.meta, key |-> m.key, pgs |-> m.pgs, ts |-> m.ts]

(* Mutant: intermediate states are always allowed.                         *)
EnterAnywhere(m, label) ==
    IF label \in StartStates /\ label \in m.visited
    THEN Idle
    ELSE Entered(m, label)

Enter(m, label) ==
    IF \/ label \in StartStates /\ label \in m.visited              \* SetupRace
       \/ label \notin StartStates /\ label \notin allowed_states(m.kind)
    THEN Idle
    ELSE Entered(m, label)

Step(d, m) == machine' = [machine EXCEPT ![d] = m]

AtPhase(m, p) == [m EXCEPT !.phase = p]

(* mem::replace: the cached state is gone if this sync fails on the way.   *)
Start(d, kind) ==
    LET m == [phase |-> "Idle", kind |-> kind, visited |-> {}, steps |-> 0,
              meta |-> cache[d].meta, key |-> cache[d].key, pgs |-> disk[d], ts |-> 0]
    IN  /\ machine[d].phase = "Idle"
        /\ Step(d, Enter(m, IF cache[d] = NoState THEN "Initial" ELSE "WithPreviousState"))
        /\ cache' = [cache EXCEPT ![d] = NoState]
        /\ UNCHANGED <<server, clock, losses, disk, store, seen>>

FetchInfoConfiguration(d) ==
    /\ machine[d].phase = "Initial"
    /\ Step(d, Enter(machine[d], "InitialWithConfig"))
    /\ UNCHANGED <<server, clock, losses, cache, disk, store, seen>>

(* info/collections of an empty server is empty, or not found.             *)
FetchInfoCollections(d) ==
    /\ machine[d].phase = "InitialWithConfig"
    /\ \/ Step(d, Enter(machine[d], "InitialWithInfo"))
       \/ /\ server.meta = NoMeta /\ server.crypto = 0 /\ server.collTs = 0
          /\ Step(d, Enter(machine[d], "FreshStartRequired"))
    /\ UNCHANGED <<server, clock, losses, cache, disk, store, seen>>

FetchMetaGlobal(d) ==
    LET m == machine[d]
    IN  /\ m.phase = "InitialWithInfo"
        /\ IF server.meta = NoMeta
           THEN Step(d, Enter(m, "FreshStartRequired")) /\ UNCHANGED seen
           ELSE /\ seen' = [seen EXCEPT ![d] = server.meta.declined]
                /\ Step(d, IF server.meta.version > STORAGE_VERSION THEN Idle
                           ELSE IF server.meta.version < STORAGE_VERSION
                           THEN Enter(m, "FreshStartRequired")
                           ELSE Enter([m EXCEPT !.meta = server.meta],
                                      "InitialWithMetaGlobal"))
        /\ UNCHANGED <<server, clock, losses, cache, disk, store>>

(* Ready: sync_multiple stores the declined list and turns to the stores.  *)
Ready(d, m) ==
    /\ Step(d, AtPhase(m, "Fetch"))
    /\ disk' = [disk EXCEPT ![d] = m.pgs]

(* The list is replaced before the keys are fetched.                       *)
WithKeys(m, key) ==
    [phase |-> m.phase, kind |-> m.kind, visited |-> m.visited, steps |-> m.steps,
     meta |-> m.meta, key |-> key, pgs |-> m.meta.declined, ts |-> m.ts]

FetchCryptoKeys(d) ==
    LET m == WithKeys(machine[d], server.crypto)
    IN  /\ m.phase = "InitialWithMetaGlobal"
        /\ IF server.crypto = 0
           THEN Step(d, Enter(m, "FreshStartRequired")) /\ UNCHANGED disk
           ELSE Ready(d, m)
        /\ UNCHANGED <<server, clock, losses, cache, store, seen>>

(* Mutant: only the keys are compared.                                     *)
KeysAreFresh(m) == server.crypto # 0 /\ m.key >= server.crypto

is_fresh(m) ==
    /\ server.meta # NoMeta /\ m.meta.ts >= server.meta.ts
    /\ server.crypto # 0 /\ m.key >= server.crypto

(* Any other answer than 200 also leads to InitialWithConfig.              *)
CheckPreviousState(d) ==
    LET m == machine[d]
    IN  /\ m.phase = "WithPreviousState"
        /\ \/ is_fresh(m) /\ Ready(d, m)
           \/ Step(d, Enter(m, "InitialWithConfig")) /\ UNCHANGED disk
        /\ UNCHANGED <<server, clock, losses, cache, store, seen>>

wipe_all_remote(d) ==
    /\ machine[d].phase = "FreshStartRequired"
    /\ server' = Empty
    /\ Step(d, AtPhase(machine[d], "PutMetaGlobal"))
    /\ UNCHANGED <<clock, losses, cache, disk, store, seen>>

(* Mutant: the sync ID of the last meta/global is used again.              *)
OldGlobal(d, ts) ==
    [id |-> IF store[d].assoc = 0 THEN ts ELSE store[d].assoc,
     version |-> STORAGE_VERSION,
     declined |-> IF machine[d].pgs = "unknown" THEN "enabled" ELSE machine[d].pgs,
     ts |-> ts]

new_global(d, ts) ==
    [id |-> ts, version |-> STORAGE_VERSION,
     declined |-> IF machine[d].pgs = "unknown" THEN "enabled" ELSE machine[d].pgs,
     ts |-> ts]

(* X-If-Unmodified-Since: 0, so the record must not exist (or 412).        *)
put_meta_global(d) ==
    /\ machine[d].phase = "PutMetaGlobal"
    /\ IF server.meta # NoMeta THEN Step(d, Idle) /\ UNCHANGED <<server, clock>>
       ELSE /\ clock < MaxClock
            /\ clock' = clock + 1
            /\ server' = [server EXCEPT !.meta = new_global(d, clock + 1)]
            /\ Step(d, AtPhase(machine[d], "PutCryptoKeys"))
    /\ UNCHANGED <<losses, cache, disk, store, seen>>

put_crypto_keys(d) ==
    /\ machine[d].phase = "PutCryptoKeys"
    /\ IF server.crypto # 0 THEN Step(d, Idle) /\ UNCHANGED <<server, clock>>
       ELSE /\ clock < MaxClock
            /\ clock' = clock + 1
            /\ server' = [server EXCEPT !.crypto = clock + 1]
            /\ Step(d, Enter(machine[d], "InitialWithConfig"))
    /\ UNCHANGED <<losses, cache, disk, store, seen>>

-----------------------------------------------------------------------------
(* The store, and the end of sync_multiple.                                *)

(* `failures` is not empty.                                                *)
StoreFailed(d) ==
    /\ Step(d, Idle)
    /\ cache' = [cache EXCEPT ![d] = [meta |-> machine[d].meta, key |-> machine[d].key]]

StoreSucceeded(d) == Step(d, Idle) /\ UNCHANGED cache

(* SyncIdChanged: store.reset makes everything new again.                  *)
Associated(d) ==
    IF store[d].assoc = machine[d].meta.id THEN store[d]
    ELSE [assoc |-> machine[d].meta.id, last |-> 0, dirty |-> TRUE]

Incoming(s) == {r \in server.coll : r.mod > s.last}

(* The machine of the collection, and the GET.  A record that the key does *)
(* not decrypt fails the sync of the store.                                *)
SyncFetch(d) ==
    LET s == Associated(d)
    IN  /\ machine[d].phase = "Fetch"
        /\ IF machine[d].meta.declined = "declined" THEN StoreSucceeded(d) /\ UNCHANGED store
           ELSE /\ store' = [store EXCEPT ![d] = s]
                /\ IF \E r \in Incoming(s) : r.key # machine[d].key
                   THEN StoreFailed(d)
                   ELSE /\ Step(d, AtPhase([machine[d] EXCEPT !.ts = server.collTs], "Upload"))
                        /\ UNCHANGED cache
        /\ UNCHANGED <<server, clock, losses, disk, seen>>

Posted(key, d, ts) ==
    [meta |-> server.meta, crypto |-> server.crypto,
     coll |-> {r \in server.coll : r.key # key} \cup {[key |-> key, mod |-> ts]},
     collTs |-> ts, holds |-> server.holds \cup {d}]

Finished(s, ts) == [assoc |-> s.assoc, last |-> ts, dirty |-> FALSE]

(* The POST with X-If-Unmodified-Since, and sync_finished.                 *)
SyncUpload(d) ==
    LET m == machine[d]
    IN  /\ m.phase = "Upload"
        /\ \/ /\ store[d].dirty /\ server.collTs > m.ts                  \* 412
              /\ StoreFailed(d)
              /\ UNCHANGED <<server, clock, store>>
           \/ /\ store[d].dirty /\ server.collTs <= m.ts /\ clock < MaxClock
              /\ clock' = clock + 1
              /\ server' = Posted(m.key, d, clock + 1)
              /\ store' = [store EXCEPT ![d] = Finished(@, clock + 1)]
              /\ StoreSucceeded(d)
           \/ /\ ~store[d].dirty
              /\ store' = [store EXCEPT ![d] = Finished(@, m.ts)]
              /\ StoreSucceeded(d)
              /\ UNCHANGED <<server, clock>>
        /\ UNCHANGED <<losses, disk, seen>>

(* A request of the store that fails, and is reported in `failures`.       *)
StoreError(d) ==
    /\ machine[d].phase \in {"Fetch", "Upload"}
    /\ StoreFailed(d)
    /\ UNCHANGED <<server, clock, losses, disk, store, seen>>

(* An error of the global machine, an interrupt or a crash.                *)
Abort(d) ==
    /\ machine[d].phase # "Idle"
    /\ Step(d, Idle)
    /\ UNCHANGED <<server, clock, losses, cache, disk, store, seen>>

-----------------------------------------------------------------------------
(* The environment.                                                        *)

LocalChange(d) ==
    /\ ~store[d].dirty /\ machine[d].phase = "Idle"
    /\ store' = [store EXCEPT ![d] = [assoc |-> @.assoc, last |-> @.last, dirty |-> TRUE]]
    /\ UNCHANGED <<server, clock, losses, machine, cache, disk, seen>>

(* Another client declines or enables the collection.                      *)
OtherDeclines ==
    /\ server.meta # NoMeta /\ clock < MaxClock
    /\ clock' = clock + 1
    /\ server' = [server EXCEPT
         !.meta = [id |-> @.id, version |-> @.version, ts |-> clock + 1,
                   declined |-> IF @.declined = "enabled" THEN "declined" ELSE "enabled"]]
    /\ UNCHANGED <<losses, machine, cache, disk, store, seen>>

NodeReassigned ==
    /\ losses < MaxLosses
    /\ losses' = losses + 1
    /\ server' = Empty
    /\ UNCHANGED <<clock, machine, cache, disk, store, seen>>

Next ==
    \/ OtherDeclines \/ NodeReassigned
    \/ \E d \in Device :
         \/ \E kind \in Kinds : Start(d, kind)
         \/ FetchInfoConfiguration(d) \/ FetchInfoCollections(d) \/ FetchMetaGlobal(d)
         \/ FetchCryptoKeys(d) \/ CheckPreviousState(d)
         \/ wipe_all_remote(d) \/ put_meta_global(d) \/ put_crypto_keys(d)
         \/ SyncFetch(d) \/ SyncUpload(d) \/ StoreError(d) \/ Abort(d) \/ LocalChange(d)

Spec == Init /\ [][Next]_vars

-----------------------------------------------------------------------------
(* run_to_ready ends: it enters at most eight states before Ready, however *)
(* the other devices interfere, because FreshStartRequired is entered once.*)
RunsAreShort == \A d \in Device : machine[d].steps <= 8

(* A cached global state is used again only if it is what the server has:  *)
(* is_fresh compares timestamps, not contents.                             *)
FreshIsCurrent ==
    [][\A d \in Device :
         machine[d].phase = "WithPreviousState" /\ machine'[d].phase = "Fetch"
           => machine[d].meta = server.meta /\ machine[d].key = server.crypto]_vars

(* A device that believes everything is uploaded, to the storage that has  *)
(* the sync ID it knows, is right: whoever wipes the server changes the    *)
(* sync IDs, so nothing stays missing because of a fresh start.            *)
UploadedUnlessWiped ==
    \A d \in Device :
        server.meta # NoMeta /\ store[d].assoc = server.meta.id /\ ~store[d].dirty
          => d \in server.holds

(* A fast sync never wipes the server.                                     *)
FastNeverWipes ==
    \A d \in Device :
        machine[d].kind = "fast"
          => machine[d].phase \notin {"FreshStartRequired", "PutMetaGlobal", "PutCryptoKeys"}

-----------------------------------------------------------------------------
(* Statements of the documentation that the code does not meet.            *)

(* "We don't allow a FreshStart in a read-only sync."                      *)
ReadonlyNeverWipes ==
    \A d \in Device :
        machine[d].kind = "readonly"
          => machine[d].phase \notin {"FreshStartRequired", "PutMetaGlobal", "PutCryptoKeys"}

(* "if we previously saw a meta/global then we would have updated it": a   *)
(* new meta/global has the declined list this device saw last.             *)
DeclinedRemembered ==
    [][\A d \in Device :
         machine[d].phase = "PutMetaGlobal" /\ machine'[d].phase = "PutCryptoKeys"
           /\ seen[d] # "unknown" => server'.meta.declined = seen[d]]_vars

(* The memory cache makes "subsequent syncs" faster: a sync whose stores   *)
(* succeed leaves its global state for the next one.                       *)
CachedAfterSuccess ==
    [][\A d \in Device :
         machine[d].phase = "Upload" /\ machine'[d].phase = "Idle" /\ store'[d] # store[d]
           => cache'[d] # NoState]_vars

(* "we arrange to reset the global state machine here": a failed store     *)
(* leaves no global state for the next sync.                               *)
ResetAfterFailure ==
    [][\A d \in Device :
         machine[d].phase = "Fetch" /\ machine'[d].phase = "Idle" => cache'[d] = NoState]_vars

(* "That should cause us to re-read crypto/keys and things should work":   *)
(* a record cannot be decrypted only if the keys of the device are old.    *)
HmacMeansOldKeys ==
    \A d \in Device :
        /\ machine[d].phase = "Fetch" /\ machine[d].meta.declined = "enabled"
        /\ \E r \in Incoming(Associated(d)) : r.key # machine[d].key
        => machine[d].meta # server.meta \/ machine[d].key # server.crypto
=============================================================================

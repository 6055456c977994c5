----------------------------- MODULE LoginsSync -----------------------------
(***************************************************************************)
(* Several devices, each with its own logins database (module LoginDb),    *)
(* syncing the "passwords" collection through one Sync 1.5 storage server. *)
(*                                                                         *)
(* A sync (PasswordEngine::sync, sync15 synchronize) is the sequence       *)
(*   SyncStart      read the server's sync ids; reset the store if they    *)
(*                  are not the ones it last synced with                   *)
(*   SyncFetch      GET what is newer than lastSync, apply it, and list    *)
(*                  what must be uploaded                                  *)
(*   SyncUpload     POST it, unless the collection has changed meanwhile   *)
(*   SyncFinish     record what was uploaded                               *)
(* It can be cut short after every step, by an error, an interrupt or the  *)
(* death of the process.  The engine of a device sits behind a mutex (the  *)
(* FFI's ConcurrentHandleMap), so a device changes its own logins only     *)
(* between syncs; the other devices act at any moment.                     *)
(***************************************************************************)
EXTENDS LoginDb, FiniteSets

CONSTANTS
    Client,         \* the devices
    MaxNow,         \* bound: local changes stop when the clock reaches this
    MaxSyncId,      \* bound: how often the server is wiped
    MaxFailures     \* bound: how many syncs are cut short

ASSUME BoundAssumption == MaxNow \in Nat /\ MaxSyncId \in Nat /\ MaxFailures \in Nat

VARIABLES
    db,         \* the database of each device
    sess,       \* the sync in progress on each device
    server,     \* the storage server
    now,        \* the time: advances with every write
    failures    \* how many syncs have been cut short

vars == <<db, sess, server, now, failures>>

(* What a device remembers of the sync it is running: what SyncFetch       *)
(* returned (the collection's timestamp), and the guids it must upload or  *)
(* has uploaded.                                                           *)
Idle == [phase |-> "idle", ts |-> 0, guids |-> {}]

Session == [phase : {"idle", "ready", "applied", "uploaded"},
            ts : Nat, guids : SUBSET Guid]

Server == [rec : [Guid -> Login \cup {Tombstone, NoRow}],
           mod : [Guid -> Nat],
           coll : Nat,
           syncId : Nat]

TypeOK ==
    /\ db \in [Client -> Db]
    /\ sess \in [Client -> Session]
    /\ server \in Server
    /\ now \in Time
    /\ failures \in Nat

Init ==
    /\ db = [c \in Client |-> EmptyDb]
    /\ sess = [c \in Client |-> Idle]
    /\ server = [rec |-> [g \in Guid |-> NoRow], mod |-> [g \in Guid |-> 0],
                 coll |-> 0, syncId |-> 1]
    /\ now = 1
    /\ failures = 0

-----------------------------------------------------------------------------
(* What the user of a device does, between syncs.                          *)

LocalChange(c, newDb) ==
    /\ sess[c] = Idle
    /\ now < MaxNow
    /\ db' = [db EXCEPT ![c] = newDb]
    /\ now' = now + 1
    /\ UNCHANGED <<sess, server, failures>>

Add(c, g, k, p) == CanAdd(db[c], g) /\ LocalChange(c, add(db[c], g, k, p, now))

Update(c, g, k, p) ==
    CanOverlay(db[c], g) /\ LocalChange(c, update(db[c], g, k, p, now))

Touch(c, g) == CanOverlay(db[c], g) /\ LocalChange(c, touch(db[c], g))

Delete(c, g) == LocalChange(c, delete(db[c], g, now))

Wipe(c) == LocalChange(c, wipe(db[c], now))

WipeLocal(c) == LocalChange(c, wipe_local(db[c]))

Reset(c) == LocalChange(c, reset(db[c], Disconnected))

-----------------------------------------------------------------------------
(* A sync, step by step.                                                   *)

SyncStart(c) ==
    /\ sess[c] = Idle
    /\ sess' = [sess EXCEPT ![c].phase = "ready"]
    /\ db' = IF db[c].assoc = server.syncId THEN db
             ELSE [db EXCEPT ![c] = reset(db[c], server.syncId)]
    /\ UNCHANGED <<server, now, failures>>

(* GET .../passwords?full=1&newer=lastSync                                 *)
Newer(c) == [g \in Guid |-> IF server.mod[g] > db[c].lastSync
                            THEN server.rec[g] ELSE NoRow]

SyncFetch(c) ==
    /\ sess[c].phase = "ready"
    /\ \E partner \in Partners(db[c], Newer(c)), newer \in [Guid -> BOOLEAN] :
         LET applied == apply_incoming(db[c], Newer(c), partner, newer)
         IN  /\ db' = [db EXCEPT ![c] = applied]
             /\ sess' = [sess EXCEPT ![c] = [phase |-> "applied", ts |-> server.coll,
                                             guids |-> Outgoing(applied)]]
    /\ UNCHANGED <<server, now, failures>>

(* The server stores the payloads of some guids under a new timestamp.     *)
Stored(c, guids, ts) ==
    [server EXCEPT
      !.rec = [g \in Guid |-> IF g \in guids THEN Payload(db[c].L[g]) ELSE @[g]],
      !.mod = [g \in Guid |-> IF g \in guids THEN ts ELSE @[g]],
      !.coll = ts]

(* X-If-Unmodified-Since: the server refuses when the collection is newer. *)
Unmodified(c) == server.coll <= sess[c].ts

SyncUpload(c) ==
    /\ sess[c].phase = "applied"
    /\ IF sess[c].guids = {}
       THEN /\ sess' = [sess EXCEPT ![c].phase = "uploaded"]
            /\ UNCHANGED <<server, now>>
       ELSE /\ Unmodified(c)
            /\ server' = Stored(c, sess[c].guids, now + 1)
            /\ now' = now + 1
            /\ sess' = [sess EXCEPT ![c] = [phase |-> "uploaded", ts |-> now + 1,
                                            guids |-> sess[c].guids]]
    /\ UNCHANGED <<db, failures>>

(* Mutant: a 412 does not end the sync; the same POST is sent again.       *)
RetrySamePost(c) ==
    /\ sess[c].phase = "applied"
    /\ sess[c].guids # {}
    /\ ~Unmodified(c)
    /\ UNCHANGED vars

(* 412: CollectionUpdate::upload fails with BatchInterrupted.              *)
SyncConflict(c) ==
    /\ sess[c].phase = "applied"
    /\ sess[c].guids # {}
    /\ ~Unmodified(c)
    /\ sess' = [sess EXCEPT ![c] = Idle]
    /\ UNCHANGED <<db, server, now, failures>>

SyncFinish(c) ==
    /\ sess[c].phase = "uploaded"
    /\ db' = [db EXCEPT ![c] = mark_as_synchronized(@, sess[c].guids, sess[c].ts)]
    /\ sess' = [sess EXCEPT ![c] = Idle]
    /\ UNCHANGED <<server, now, failures>>

(* The sync ends early: an error, an interrupt, or the process dies.       *)
SyncAbort(c) ==
    /\ sess[c] # Idle
    /\ failures < MaxFailures
    /\ failures' = failures + 1
    /\ sess' = [sess EXCEPT ![c] = Idle]
    /\ UNCHANGED <<db, server, now>>

(* More records than fit one batch: some batches are committed before the  *)
(* sync is cut short.                                                      *)
SyncUploadPart(c) ==
    /\ sess[c].phase = "applied"
    /\ Unmodified(c)
    /\ failures < MaxFailures
    /\ \E part \in SUBSET sess[c].guids :
         /\ part # {} /\ part # sess[c].guids
         /\ server' = Stored(c, part, now + 1)
    /\ now' = now + 1
    /\ failures' = failures + 1
    /\ sess' = [sess EXCEPT ![c] = Idle]
    /\ UNCHANGED db

(* Some device finds the server unusable and starts afresh: everything is  *)
(* deleted and meta/global gets new sync ids (FreshStartRequired).         *)
FreshStart ==
    /\ server.syncId < MaxSyncId
    /\ server' = [rec |-> [g \in Guid |-> NoRow], mod |-> [g \in Guid |-> 0],
                  coll |-> 0, syncId |-> server.syncId + 1]
    /\ UNCHANGED <<db, sess, now, failures>>

-----------------------------------------------------------------------------
SyncStep(c) ==
    SyncStart(c) \/ SyncFetch(c) \/ SyncUpload(c) \/ SyncConflict(c) \/ SyncFinish(c)

UserStep(c) ==
    \/ \E g \in Guid, k \in Key, p \in Pw : Add(c, g, k, p) \/ Update(c, g, k, p)
    \/ \E g \in Guid : Touch(c, g) \/ Delete(c, g)
    \/ Wipe(c) \/ WipeLocal(c) \/ Reset(c)

Next ==
    \/ \E c \in Client : UserStep(c) \/ SyncStep(c) \/ SyncAbort(c) \/ SyncUploadPart(c)
    \/ FreshStart

Spec == Init /\ [][Next]_vars

(* The application syncs again and again, and a sync that is not cut short *)
(* runs to its end.                                                        *)
FairSpec == Spec /\ \A c \in Client : WF_vars(SyncStep(c))

-----------------------------------------------------------------------------
(* Safety.                                                                 *)

OnServer(g) == IF server.rec[g] = Tombstone THEN NoRow ELSE server.rec[g]

(* A row of loginsL that claims to have been synced (status Synced or      *)
(* Changed, which schema.rs defines as "known to exist on the server") has *)
(* the mirror row it was synced from: delete() and wipe() decide by the    *)
(* status alone whether a deletion must be sent.                           *)
ChangedIsMirrored ==
    \A c \in Client, g \in Guid :
        (db[c].L[g] # NoRow /\ db[c].L[g].st # New) => db[c].M[g] # NoRow

(* A device never misses a change: as long as it is associated with the    *)
(* server's current sync ids, every record the server changed no later     *)
(* than its lastSync is in its mirror exactly as the server has it,        *)
(* whatever conflicts, partial uploads, crashes and retries came before.   *)
MirrorFaithful ==
    \A c \in Client, g \in Guid :
        (db[c].assoc = server.syncId /\ server.mod[g] <= db[c].lastSync)
            => Mirrored(db[c], g) = OnServer(g)

(* Every login a device lists or uploads is complete: hostname, username   *)
(* and password are only ever blank in a tombstone.                        *)
LiveIsComplete ==
    \A c \in Client, g \in Guid :
        LiveLocal(db[c], g) => LoginOf(db[c].L[g]) \in Login

(* mark_as_synchronized moves rows from the overlay to the mirror; no      *)
(* login appears, disappears or changes in the list because of it.         *)
FinishKeepsLogins ==
    [][\A c \in Client, g \in Guid :
         (SyncFinish(c) /\ db[c].L[g] # NoRow) =>
            Listed(db'[c], g) \subseteq Listed(db[c], g)
            /\ (LiveLocal(db[c], g) => LoginOf(db[c].L[g]) \in Listed(db'[c], g))]_vars

-----------------------------------------------------------------------------
(* The inductive invariant behind MirrorFaithful.                          *)

ServerOrdered ==
    /\ server.coll <= now
    /\ \A g \in Guid : server.mod[g] <= server.coll
    /\ \A g \in Guid : server.mod[g] = 0 <=> server.rec[g] = NoRow

ClientsBehind ==
    \A c \in Client :
        /\ db[c].lastSync <= now
        /\ sess[c].ts <= now
        /\ db[c].assoc # Disconnected => db[c].assoc <= server.syncId

(* The login a device uploads for a guid, as the server then has it.       *)
Uploaded(d, g) == IF LiveLocal(d, g) THEN LoginOf(d.L[g]) ELSE NoRow

(* What a sync in progress may rely on: between SyncFetch and SyncFinish   *)
(* the mirror is up to date as of the session's timestamp, except for what *)
(* has been uploaded and is still waiting in the overlay.                  *)
SessionFaithful ==
    \A c \in Client :
        /\ sess[c].phase \in {"applied", "uploaded"} =>
              \A g \in sess[c].guids : db[c].L[g] # NoRow
        /\ (db[c].assoc = server.syncId /\ sess[c].phase = "applied") =>
              \A g \in Guid : server.mod[g] <= sess[c].ts =>
                  Mirrored(db[c], g) = OnServer(g)
        /\ (db[c].assoc = server.syncId /\ sess[c].phase = "uploaded") =>
              \A g \in Guid : server.mod[g] <= sess[c].ts =>
                  OnServer(g) = IF g \in sess[c].guids THEN Uploaded(db[c], g)
                                ELSE Mirrored(db[c], g)

IInv ==
    /\ TypeOK
    /\ \A c \in Client : DbInv(db[c])
    /\ ServerOrdered
    /\ ClientsBehind
    /\ SessionFaithful
    /\ MirrorFaithful

-----------------------------------------------------------------------------
(* Liveness.                                                               *)

InSync(c) ==
    /\ db[c].assoc = server.syncId
    /\ Outgoing(db[c]) = {}
    /\ \A g \in Guid : Mirrored(db[c], g) = OnServer(g)

(* Once the users stop changing logins and syncs stop being cut short,     *)
(* syncing settles: no device has anything left to upload, none keeps      *)
(* answering another's upload with one of its own, and every mirror equals *)
(* the server, for good.                                                   *)
EventuallyInSync == <>[](\A c \in Client : InSync(c))

-----------------------------------------------------------------------------
(* What the repository says of the component and the code does not do.     *)

(* schema.rs: is_overridden says "that we should defer to the data stored  *)
(* in `loginsL`", so an overridden mirror row has a row there.             *)
OverriddenHasOverlay ==
    \A c \in Client, g \in Guid :
        (db[c].M[g] # NoRow /\ db[c].M[g].ov) => db[c].L[g] # NoRow

(* LoginsStorage.kt, add: "an error result if a GUID is provided but       *)
(* collides with an existing record".                                      *)
AddRejectsExisting ==
    [][\A c \in Client, g \in Guid, k \in Key, p \in Pw :
         Add(c, g, k, p) => ~exists(db[c], g)]_vars

(* LoginsStorage.kt, update: "an error if `login.id` does not refer to a   *)
(* record that exists in the database".                                    *)
UpdateNeedsExisting ==
    [][\A c \in Client, g \in Guid, k \in Key, p \in Pw :
         Update(c, g, k, p) => exists(db[c], g)]_vars

(* db.rs, delete: a row is deleted directly, without a tombstone, when its *)
(* id has "not yet been synced to the server".                             *)
DirectDeleteIsLocal ==
    [][\A c \in Client, g \in Guid :
         (Delete(c, g) /\ LiveLocal(db[c], g) /\ db'[c].L[g] = NoRow)
            => OnServer(g) = NoRow]_vars
=============================================================================

------------------------------ MODULE LoginDb ------------------------------
(***************************************************************************)
(* The tables of the logins database (logins/src/db.rs, schema.rs) and     *)
(* what each operation of LoginDb does to them, as functions from one      *)
(* database state to the next.  Module LoginsSync runs one such database   *)
(* per device against a shared server.                                     *)
(*                                                                         *)
(* A database is a record                                                  *)
(*   L         the table loginsL (the overlay): guid -> row or NoRow       *)
(*   M         the table loginsM (the mirror):  guid -> row or NoRow       *)
(*   lastSync  LAST_SYNC_META_KEY (an absent key reads as 0)               *)
(*   assoc     the pair of sync ids in loginsSyncMeta, or Disconnected     *)
(*                                                                         *)
(* A login is abstracted to `key` (the hostname, realm, form and username  *)
(* that find_dupe compares), its password `pw` and timePasswordChanged     *)
(* `tpc`.  The columns no decision of this code reads (timesUsed,          *)
(* timeCreated, timeLastUsed, server_modified) are left out; how they are  *)
(* merged is in LoginMerge.  Every operation runs in one SQL transaction   *)
(* on a connection behind a mutex, so it is one step.                      *)
(***************************************************************************)
EXTENDS LoginMerge

CONSTANTS
    Guid,           \* record ids
    Key,            \* hostname/realm/form/username combinations
    Pw,             \* passwords
    NoRow,          \* no such row in a table
    Tombstone,      \* the payload that deletes a record
    Disconnected    \* StoreSyncAssociation::Disconnected

(* SyncStatus, ordered as the column is: update() takes the max.           *)
Synced == 0
Changed == 1
New == 2

(* A time of day: zero stands for "unknown" in this code.                  *)
Time == Nat \ {0}

Login == [key : Key, pw : Pw, tpc : Time]

LocalRow == [key : Key \cup {EmptyText}, pw : Pw \cup {EmptyText}, tpc : Time,
             del : BOOLEAN, st : {Synced, Changed, New}]

MirrorRow == [key : Key, pw : Pw, tpc : Time, ov : BOOLEAN]

ASSUME LoginDbAssumption ==
    /\ Unset \notin Key \cup Pw
    /\ EmptyText \notin Key \cup Pw
    /\ NoRow \notin LocalRow \cup MirrorRow \cup Login \cup {Tombstone} \cup Guid
    /\ Tombstone \notin Login
    /\ Disconnected \notin Nat

Db == [L : [Guid -> LocalRow \cup {NoRow}],
       M : [Guid -> MirrorRow \cup {NoRow}],
       lastSync : Nat,
       assoc : Nat \cup {Disconnected}]

EmptyDb == [L |-> [g \in Guid |-> NoRow], M |-> [g \in Guid |-> NoRow],
            lastSync |-> 0, assoc |-> Disconnected]

(* A change of the two tables that leaves loginsSyncMeta alone.            *)
WithTables(db, L, M) ==
    [L |-> L, M |-> M, lastSync |-> db.lastSync, assoc |-> db.assoc]

LoginOf(row) == [key |-> row.key, pw |-> row.pw, tpc |-> row.tpc]

Overlay(login, del, st) ==
    [key |-> login.key, pw |-> login.pw, tpc |-> login.tpc, del |-> del, st |-> st]

MirrorOf(login, ov) ==
    [key |-> login.key, pw |-> login.pw, tpc |-> login.tpc, ov |-> ov]

-----------------------------------------------------------------------------
(* Reading.                                                                *)

LiveLocal(db, g) == db.L[g] # NoRow /\ ~db.L[g].del

LiveMirror(db, g) == db.M[g] # NoRow /\ ~db.M[g].ov

exists(db, g) == LiveLocal(db, g) \/ LiveMirror(db, g)

(* The rows get_all lists for one guid (a UNION ALL: both may appear).     *)
Listed(db, g) ==
    (IF LiveLocal(db, g) THEN {LoginOf(db.L[g])} ELSE {})
      \cup (IF LiveMirror(db, g) THEN {LoginOf(db.M[g])} ELSE {})

-----------------------------------------------------------------------------
(* Local changes.                                                          *)

mark_mirror_overridden(M, g) ==
    IF M[g] = NoRow THEN M ELSE [M EXCEPT ![g] = MirrorOf(M[g], TRUE)]

(* ensure_local_overlay_exists fails with NoSuchRecord when neither table  *)
(* has a row; any row of loginsL will do, a tombstone included.            *)
CanOverlay(db, g) == db.L[g] # NoRow \/ db.M[g] # NoRow

ensure_local_overlay_exists(db, g) ==
    IF db.L[g] # NoRow THEN db.L
    ELSE [db.L EXCEPT ![g] = Overlay(db.M[g], FALSE, Synced)]

(* INSERT OR IGNORE: fails with DuplicateGuid when loginsL has the guid.   *)
CanAdd(db, g) == db.L[g] = NoRow

add(db, g, k, p, now) ==
    LET row == Overlay([key |-> k, pw |-> p, tpc |-> now], FALSE, New)
    IN  WithTables(db, [db.L EXCEPT ![g] = row], db.M)

update(db, g, k, p, now) ==
    LET L == ensure_local_overlay_exists(db, g)
        row == [key |-> k, pw |-> p,
                tpc |-> IF L[g].pw = p THEN L[g].tpc ELSE now,
                del |-> L[g].del,
                st  |-> IF L[g].st = New THEN New ELSE Changed]
    IN  WithTables(db, [L EXCEPT ![g] = row], mark_mirror_overridden(db.M, g))

touch(db, g) ==
    WithTables(db, ensure_local_overlay_exists(db, g), mark_mirror_overridden(db.M, g))

Blanked(row) == Overlay([key |-> EmptyText, pw |-> EmptyText, tpc |-> row.tpc],
                        TRUE, Changed)

NewTombstone(now) ==
    Overlay([key |-> EmptyText, pw |-> EmptyText, tpc |-> now], TRUE, Changed)

(* New rows are deleted; after that, a mirror row without an overlay gets  *)
(* a tombstone.                                                            *)
Known(db, g) == db.L[g] # NoRow /\ db.L[g].st # New

delete(db, g, now) ==
    LET row == IF Known(db, g) THEN Blanked(db.L[g])
               ELSE IF db.M[g] # NoRow THEN NewTombstone(now) ELSE NoRow
    IN  WithTables(db, [db.L EXCEPT ![g] = row], mark_mirror_overridden(db.M, g))

wipe(db, now) ==
    LET row(g) == IF Known(db, g)
                  THEN IF db.L[g].del THEN db.L[g] ELSE Blanked(db.L[g])
                  ELSE IF db.M[g] # NoRow THEN NewTombstone(now) ELSE NoRow
        mirror(g) == IF db.M[g] = NoRow THEN NoRow ELSE MirrorOf(db.M[g], TRUE)
    IN  WithTables(db, [g \in Guid |-> row(g)], [g \in Guid |-> mirror(g)])

wipe_local(db) == EmptyDb

(* CLONE_ENTIRE_MIRROR_SQL, then DELETE FROM loginsM, then all rows New.   *)
reset(db, assoc) ==
    LET cloned(g) == IF db.L[g] # NoRow THEN Overlay(db.L[g], db.L[g].del, New)
                     ELSE IF db.M[g] # NoRow THEN Overlay(db.M[g], FALSE, New)
                     ELSE NoRow
    IN  [L |-> [g \in Guid |-> cloned(g)], M |-> [g \in Guid |-> NoRow],
         lastSync |-> 0, assoc |-> assoc]

-----------------------------------------------------------------------------
(* Syncing.  `inbound` maps each guid to its incoming payload or NoRow.    *)

Live(inbound, g) == inbound[g] \notin {NoRow, Tombstone}

(* The rows of loginsL that find_dupe can return for an incoming login.    *)
find_dupe(db, login) == {d \in Guid : db.L[d] # NoRow /\ db.L[d].key = login.key}

NeedsDupe(db, inbound, g) ==
    Live(inbound, g) /\ db.M[g] = NoRow /\ db.L[g] = NoRow

(* The local record a two way merge compares the incoming one with: its    *)
(* own overlay, or whichever duplicate find_dupe returned; NoRow if none.  *)
Partners(db, inbound) ==
    {partner \in [Guid -> Guid \cup {NoRow}] :
        \A g \in Guid :
            IF NeedsDupe(db, inbound, g)
            THEN LET dupes == find_dupe(db, inbound[g])
                 IN  IF dupes = {} THEN partner[g] = NoRow ELSE partner[g] \in dupes
            ELSE partner[g] = IF db.L[g] # NoRow THEN g ELSE NoRow}

(* plan_two_way_merge: the local password is the newer one.                *)
LocalWins(db, inbound, partner, g) ==
    partner[g] # NoRow /\ db.L[partner[g]].tpc > inbound[g].tpc

MergedRow(row, shared, upstream, newer) ==
    [key |-> MergeText(row.key, shared.key, upstream.key, newer),
     pw  |-> MergeText(row.pw, shared.pw, upstream.pw, newer),
     tpc |-> MergeTime(row.tpc, shared.tpc, upstream.tpc, newer),
     del |-> row.del, st |-> Changed]

(* reconcile builds the plan from the tables as they were, execute_plan    *)
(* then runs the deletions, the mirror updates and inserts and the local   *)
(* updates, in that order: a local update of a deleted row does nothing.   *)
(* newer[g] is remote_age < local_age, which depends on how much time has  *)
(* passed on two clocks and may be either.                                 *)

TwoWay(db, inbound, g) == Live(inbound, g) /\ db.M[g] = NoRow

delete_local(db, inbound, partner) ==
    {g \in Guid : inbound[g] = Tombstone}
      \cup {d \in Guid : \E g \in Guid : /\ TwoWay(db, inbound, g) /\ partner[g] = d
                                         /\ ~LocalWins(db, inbound, partner, g)}

LocalAfter(db, inbound, partner, newer, g) ==
    IF g \in delete_local(db, inbound, partner) THEN NoRow
    ELSE IF Live(inbound, g) /\ db.M[g] # NoRow /\ db.L[g] # NoRow
    THEN MergedRow(db.L[g], db.M[g], inbound[g], newer[g])
    ELSE db.L[g]

(* Mutant: an incoming record that loses to the local one is not mirrored. *)
MirrorWinnersOnly(db, inbound, partner, g) ==
    IF inbound[g] = NoRow \/ (TwoWay(db, inbound, g) /\ LocalWins(db, inbound, partner, g))
    THEN db.M[g]
    ELSE IF inbound[g] = Tombstone THEN NoRow
    ELSE MirrorOf(inbound[g], FALSE)

MirrorAfter(db, inbound, partner, g) ==
    IF inbound[g] = NoRow THEN db.M[g]
    ELSE IF inbound[g] = Tombstone THEN NoRow
    ELSE IF db.M[g] = NoRow
    THEN MirrorOf(inbound[g], LocalWins(db, inbound, partner, g))
    ELSE [key |-> inbound[g].key, pw |-> inbound[g].pw,
          tpc |-> MirrorNumber(inbound[g].tpc, db.M[g].tpc), ov |-> db.M[g].ov]

apply_incoming(db, inbound, partner, newer) ==
    WithTables(db, [g \in Guid |-> LocalAfter(db, inbound, partner, newer, g)],
                   [g \in Guid |-> MirrorAfter(db, inbound, partner, g)])

(* fetch_outgoing: the guids to upload, and the payload of each.           *)
Outgoing(db) == {g \in Guid : db.L[g] # NoRow /\ db.L[g].st # Synced}

Payload(row) == IF row.del THEN Tombstone ELSE LoginOf(row)

(* Mutant: the old mirror rows are not deleted, so INSERT OR IGNORE keeps  *)
(* them.                                                                   *)
SynchronizedOverOldMirror(db, guids, ts) ==
    [db EXCEPT
      !.L = [g \in Guid |-> IF g \in guids THEN NoRow ELSE db.L[g]],
      !.M = [g \in Guid |-> IF g \notin guids \/ db.M[g] # NoRow THEN db.M[g]
                            ELSE IF LiveLocal(db, g) THEN MirrorOf(db.L[g], FALSE)
                            ELSE NoRow],
      !.lastSync = ts]

mark_as_synchronized(db, guids, ts) ==
    LET mirror(g) == IF g \notin guids THEN db.M[g]
                     ELSE IF LiveLocal(db, g) THEN MirrorOf(db.L[g], FALSE)
                     ELSE NoRow
    IN  [L |-> [g \in Guid |-> IF g \in guids THEN NoRow ELSE db.L[g]],
         M |-> [g \in Guid |-> mirror(g)],
         lastSync |-> ts, assoc |-> db.assoc]

-----------------------------------------------------------------------------
(* The login a mirror row holds, as the server would send it.              *)
Mirrored(d, g) == IF d.M[g] = NoRow THEN NoRow ELSE LoginOf(d.M[g])

(* What every database satisfies on its own: see ChangedIsMirrored and     *)
(* LiveIsComplete in LoginsSync.                                           *)
DbInv(d) ==
    /\ d \in Db
    /\ \A g \in Guid : (d.L[g] # NoRow /\ d.L[g].st # New) => d.M[g] # NoRow
    /\ \A g \in Guid : LiveLocal(d, g) => LoginOf(d.L[g]) \in Login
=============================================================================

---------------------------- MODULE BookmarkSync ----------------------------
(***************************************************************************)
(* A bookmark sync of one device (places/src/bookmark_sync/store.rs and    *)
(* incoming.rs, with the triggers of create_sync_triggers.sql), driven by  *)
(* sync15's synchronize, while the user changes the tree on the write      *)
(* connection and other clients write to the server.                       *)
(*                                                                         *)
(* A record is an item's value and, for a folder, the set of its children. *)
(* Of the server's timestamps we keep which records are newer than         *)
(* bookmarks_last_sync_time (changed), and which ones the other clients    *)
(* wrote after this sync read or wrote the collection (since).             *)
(*                                                                         *)
(* The merge itself is the dogear library: it is external, and allowed     *)
(* every result that fits the two trees it is given.  Left out: records    *)
(* that are invalid or have to be fixed up, weak uploads (idsToWeaklyUpload*)
(* is about dates), the parentid of a record, and frecencies.              *)
(***************************************************************************)
EXTENDS BookmarkTree

CONSTANTS MaxOps,      \* operations of the user
          MaxWrites,   \* writes of the other clients, resets included
          MaxSyncs

ASSUME BookmarkSyncConstants == {MaxOps, MaxWrites, MaxSyncs} \subseteq Nat

VARIABLES
    server,     \* the bookmarks collection
    changed,
    since,
    mirror,     \* moz_bookmarks_synced and moz_bookmarks_synced_structure
    connected,  \* the sync IDs are stored
    phase,
    incoming,   \* records fetched
    snap,       \* the rows and tombstones of fetch_local_tree
    staged,     \* itemsToUpload and structureToUpload
    merged,     \* this sync merged the trees
    quiet,      \* history: the user did nothing since the trees were read
    raced,      \* history: the user changed the tree during some merge
    lost,       \* history: the user deleted an item during its upload
    ops, writes, syncs

remote == <<server, changed, since>>
work == <<incoming, snap, staged, merged>>
history == <<quiet, raced, lost>>
bounds == <<ops, writes, syncs>>
vars == <<treeVars, remote, mirror, connected, phase, work, history, bounds>>

NoRecord == [kind |-> "none", val |-> InitVal, kids |-> {}]
Tombstone == [kind |-> "dead", val |-> InitVal, kids |-> {}]
Live(v, kids) == [kind |-> "live", val |-> v, kids |-> kids]
Record == [kind : {"none", "live", "dead"}, val : Val, kids : SUBSET Guid]

\* A row of the mirror: a record and its needsMerge flag.
Mirrored(r, needsMerge) == [rec |-> r, needsMerge |-> needsMerge]

\* create_synced_bookmark_roots: every user root is in the mirror.
EmptyMirror ==
    [g \in AnyGuid |->
        Mirrored(IF g \in UserRoot THEN Live(InitVal, {}) ELSE NoRecord, FALSE)]

Nothing == [g \in {} |-> NoRecord]
NoSnap == [rows |-> Nothing, tombs |-> {}]

SyncInit ==
    /\ Init
    /\ server = [g \in AnyGuid |-> NoRecord]
    /\ changed = {} /\ since = {}
    /\ mirror = EmptyMirror
    /\ connected = FALSE
    /\ phase = "idle"
    /\ incoming = Nothing /\ snap = NoSnap /\ staged = Nothing
    /\ merged = FALSE
    /\ quiet = TRUE /\ raced = FALSE /\ lost = {}
    /\ ops = 0 /\ writes = 0 /\ syncs = 0

-----------------------------------------------------------------------------
(* The user and the other clients. *)

\* A new item gets a random guid: nobody uses it yet, or lists it.
Unused == {g \in Guid : /\ g \notin DOMAIN rows \cup tombs \cup DOMAIN staged
                        /\ g \notin DOMAIN snap.rows
                        /\ server[g] = NoRecord /\ mirror[g].rec = NoRecord}
Listed == UNION {server[g].kids \cup mirror[g].rec.kids : g \in AnyGuid}
Fresh == Unused \ Listed

UserChange ==
    \/ \E g \in Fresh, p \in Folders : InsertBookmark(g, p, InitVal)
    \/ \E g \in Guid : DeleteBookmark(g)
    \/ \E g \in Guid, v \in Val : Edit(g, v)
    \/ \E g \in DOMAIN rows, p \in Folders : Move(g, rows[g].val, p)

User ==
    /\ ops < MaxOps /\ ops' = ops + 1
    /\ UserChange
    /\ rows' # rows
    /\ quiet' = FALSE
    /\ raced' = (raced \/ phase = "merge")
    /\ lost' = lost \cup ((DOMAIN rows \ DOMAIN rows') \cap DOMAIN staged)
    /\ UNCHANGED <<remote, mirror, connected, phase, work, writes, syncs>>

\* Another client uploads a record: a new one, or a newer one of an item it
\* knows.  It may upload a folder before what is in it.
KidsOf(g) ==
    IF g \notin Folders THEN {{}}
    ELSE SUBSET {h \in Guid \ {g} : \/ server[h] # NoRecord \/ h \in Unused
                                    \/ \E f \in AnyGuid : h \in server[f].kids}

OtherWrites ==
    /\ writes < MaxWrites /\ writes' = writes + 1
    /\ \E g \in AnyGuid :
          /\ \/ /\ g \in Guid /\ server[g].kind = "live"
                /\ server' = [server EXCEPT ![g] = Tombstone]
             \/ \E v \in IF g \in UserRoot THEN {InitVal} ELSE Val, k \in KidsOf(g) :
                  /\ server[g] # NoRecord \/ g \in Unused \cup UserRoot
                  /\ server' = [server EXCEPT ![g] = Live(v, k)]
          /\ changed' = changed \cup {g}
          /\ since' = since \cup {g}
    /\ UNCHANGED <<treeVars, mirror, connected, phase, work, history, ops, syncs>>

-----------------------------------------------------------------------------
(* The sync. *)

End ==
    /\ phase' = "idle"
    /\ incoming' = Nothing /\ snap' = NoSnap /\ staged' = Nothing
    /\ merged' = FALSE

\* The process is killed, the sync is interrupted or a request fails.  The
\* staging tables are temporary tables of the connection.
Abort ==
    /\ phase # "idle" /\ End
    /\ UNCHANGED <<treeVars, remote, mirror, connected, history, bounds>>

\* reset: the first sync, or the sync IDs on the server have changed.
Reset ==
    /\ phase = "idle"
    /\ IF connected THEN writes < MaxWrites /\ writes' = writes + 1
                    ELSE UNCHANGED writes
    /\ rows' = [g \in DOMAIN rows |->
                   [parent |-> rows[g].parent, val |-> rows[g].val,
                    status |-> "New", counter |-> 0]]
    /\ tombs' = {}
    /\ mirror' = EmptyMirror
    /\ connected' = TRUE
    /\ \E wipe \in BOOLEAN :
          server' = IF wipe THEN [g \in AnyGuid |-> NoRecord] ELSE server
    /\ changed' = {g \in AnyGuid : server'[g] # NoRecord}
    /\ UNCHANGED <<since, phase, work, history, ops, syncs>>

\* wipe: every item the server knows leaves a tombstone.
Wipe ==
    /\ phase = "idle" /\ connected
    /\ ops < MaxOps /\ ops' = ops + 1
    /\ tombs' = tombs \cup {g \in DOMAIN rows \ UserRoot : rows[g].status = "Normal"}
    /\ rows' = [r \in UserRoot |-> Bump(rows[r], 1)]
    /\ UNCHANGED <<remote, mirror, connected, phase, work, history, writes, syncs>>

\* Mutant: the last sync time is stored before the records are staged.
FetchPutsTime ==
    /\ phase = "idle" /\ connected
    /\ syncs < MaxSyncs /\ syncs' = syncs + 1
    /\ incoming' = [g \in changed |-> server[g]]
    /\ phase' = "incoming"
    /\ since' = {} /\ changed' = {}
    /\ UNCHANGED <<treeVars, server, mirror, connected, snap, staged, merged,
                   history, ops, writes>>

\* get_collection_request: everything newer than the last sync.
Fetch ==
    /\ phase = "idle" /\ connected
    /\ syncs < MaxSyncs /\ syncs' = syncs + 1
    /\ incoming' = [g \in changed |-> server[g]]
    /\ phase' = "incoming"
    /\ since' = {}
    /\ UNCHANGED <<treeVars, server, changed, mirror, connected, snap, staged,
                   merged, history, ops, writes>>

\* stage_incoming commits as it goes: an interrupted one has stored a part.
StageIncoming ==
    /\ phase = "incoming"
    /\ \E G \in SUBSET DOMAIN incoming :
          /\ mirror' = [g \in AnyGuid |->
                           IF g \in G THEN Mirrored(incoming[g], TRUE)
                           ELSE mirror[g]]
          /\ IF G = DOMAIN incoming
             THEN phase' = "staged" /\ UNCHANGED work
             ELSE End
    /\ UNCHANGED <<treeVars, remote, connected, history, bounds>>

\* apply_incoming: the time of the fetch becomes the last sync time.
PutFetchTime ==
    /\ phase = "staged" /\ phase' = "fetched"
    /\ changed' = since
    /\ UNCHANGED <<treeVars, server, since, mirror, connected, work, history,
                   bounds>>

\* has_changes
HasChanges ==
    \/ \E g \in AnyGuid : /\ mirror[g].needsMerge
                          /\ mirror[g].rec.kind = "live" \/ g \in DOMAIN rows
    \/ \E g \in DOMAIN rows : rows[g].counter > 0
    \/ tombs # {}

\* The trees are read outside of any transaction.  What the user does between
\* two of the reads has the same effect as right after them.
ReadTrees ==
    /\ phase = "fetched"
    /\ IF HasChanges
       THEN /\ phase' = "merge"
            /\ snap' = [rows |-> rows, tombs |-> tombs]
       ELSE phase' = "upload" /\ UNCHANGED snap
    /\ quiet' = TRUE
    /\ UNCHANGED <<treeVars, remote, mirror, connected, incoming, staged, merged,
                   raced, lost, bounds>>

-----------------------------------------------------------------------------
(* The merge: the library is given the local tree of the snapshot and the  *)
(* remote tree of the mirror.                                              *)

LocalItems == DOMAIN snap.rows
RemoteItems == {g \in AnyGuid : mirror[g].rec.kind = "live"}
RemoteTombs == {g \in AnyGuid : mirror[g].rec.kind = "dead" /\ mirror[g].needsMerge}

LocalChanged(g) == snap.rows[g].counter > 0
RemoteChanged(g) == mirror[g].needsMerge

\* A changed non-folder wins over the deletion of the other side.
KeepLocal(g) == \/ g \notin RemoteTombs
                \/ g \notin Folders /\ LocalChanged(g)
                \/ g \in UserRoot
KeepRemote(g) == \/ g \notin snap.tombs
                 \/ g \notin Folders /\ RemoteChanged(g)

\* A new local item may be taken for a changed remote item that does not exist
\* here and holds the same: dupe[r] is the local guid of the remote item r.
\* See fetch_new_local_contents and fetch_new_remote_contents.
Dupes ==
    LET NewLocal == {g \in LocalItems \ UserRoot :
                        snap.rows[g].status = "New" /\ mirror[g].rec = NoRecord}
        NewRemote == {g \in RemoteItems \ LocalItems : RemoteChanged(g) /\ KeepRemote(g)}
        Same(r, g) == /\ snap.rows[g].val = mirror[r].rec.val
                      /\ (r \in Folders) = (g \in Folders)
    IN  UNION {{d \in [R -> NewLocal] :
                    IsInjective(d) /\ \A r \in R : Same(r, d[r])} :
               R \in SUBSET NewRemote}

\* The items of the merged tree, under their merged guids.
MergedItems(dupe) ==
    {g \in LocalItems \ Range(dupe) : g \in RemoteItems \/ KeepLocal(g)}
    \cup {g \in RemoteItems \ LocalItems : KeepRemote(g)}

MergedGuid(dupe, g) ==
    IF g \in Range(dupe) THEN CHOOSE r \in DOMAIN dupe : dupe[r] = g ELSE g

\* The parents an item may get: the one it has on either side, or, if those
\* are deleted, any other folder.
MergedParents(dupe, g) ==
    LET l == IF g \in DOMAIN dupe THEN dupe[g] ELSE g
        folders == (MergedItems(dupe) \cap Folders) \ {g}
        local == IF l \in LocalItems THEN {MergedGuid(dupe, snap.rows[l].parent)} ELSE {}
        sides == local \cup {p \in RemoteItems : g \in mirror[p].rec.kids}
    IN  IF sides \cap folders # {} THEN sides \cap folders ELSE folders

\* Both sides have the item: an unchanged side yields to a changed one.
Sides(dupe, g) ==
    LET l == IF g \in DOMAIN dupe THEN dupe[g] ELSE g
    IN  CASE g \notin RemoteItems -> {"Local"}
          [] l \notin LocalItems -> {"Remote"}
          [] OTHER -> IF LocalChanged(l)
                      THEN IF RemoteChanged(g) THEN {"Local", "Remote"} ELSE {"Local"}
                      ELSE IF RemoteChanged(g) THEN {"Remote"} ELSE {"Unchanged"}

\* What the library returns: the merged tree and the side taken of each item.
\* A folder is uploaded too when its merged children are not the remote ones.
MergeResults ==
    UNION {LET items == MergedItems(dupe)
               Kids(par, g) == {h \in DOMAIN par : par[h] = g}
               Tree(par) == [g \in items |->
                   [parent |-> IF g \in UserRoot THEN PlacesRoot ELSE par[g],
                    val |-> InitVal, status |-> "New", counter |-> 0]]
           IN  {[dupe |-> dupe, parent |-> par, side |-> side,
                 upload |-> {g \in items :
                    \/ side[g] = "Local"
                    \/ Kids(par, g) # mirror[g].rec.kids}] :
                par \in {f \in [items \ UserRoot -> items \cap Folders] :
                            /\ \A g \in DOMAIN f : f[g] \in MergedParents(dupe, g)
                            /\ Reachable(Tree(f)) = items},
                side \in {f \in [items -> {"Local", "Remote", "Unchanged"}] :
                            \A g \in items : f[g] \in Sides(dupe, g)}} :
           dupe \in Dupes}

-----------------------------------------------------------------------------
(* Applying the merged tree, in one transaction with staging the upload.   *)
(* The triggers join it with the rows as they are now.                     *)

LocalGuid(m, g) == IF g \in DOMAIN m.dupe THEN m.dupe[g] ELSE g

UseRemote(m, g) == m.side[g] = "Remote"

\* updateGuidsAndSyncFlags and updateLocalItems.  An item that exists gets its
\* merged guid; an item that does not is inserted below PlacesRoot, if the
\* remote side was taken.
ItemsMerged(m) ==
    LET items == DOMAIN m.side
        Existing == {g \in items : LocalGuid(m, g) \in DOMAIN rows}
        Inserted_ == {g \in items \ Existing : UseRemote(m, g)}
        Renamed(p) == IF p \in Range(m.dupe) THEN MergedGuid(m.dupe, p) ELSE p
        Counter(g) == IF g \in m.upload THEN 1 ELSE 0
    IN  [g \in (DOMAIN rows \ Range(m.dupe)) \cup Existing \cup Inserted_ |->
            CASE g \in Existing ->
                   LET r == rows[LocalGuid(m, g)]
                   IN  [parent |-> Renamed(r.parent),
                        val |-> IF UseRemote(m, g) THEN mirror[g].rec.val ELSE r.val,
                        status |-> IF UseRemote(m, g) THEN "Normal" ELSE r.status,
                        counter |-> Counter(g)]
              [] g \in Inserted_ ->
                   [parent |-> PlacesRoot, val |-> mirror[g].rec.val,
                    status |-> "Normal", counter |-> Counter(g)]
              [] OTHER ->
                   [parent |-> Renamed(rows[g].parent), val |-> rows[g].val,
                    status |-> rows[g].status, counter |-> rows[g].counter]]

\* Mutant: the new items stay where they were inserted.
StructureKept(m, rs) == rs

\* updateLocalStructure: an item moves to its merged parent, if that exists.
StructureMerged(m, rs) ==
    [g \in DOMAIN rs |->
        IF g \in DOMAIN m.parent /\ m.parent[g] \in DOMAIN rs
        THEN [parent |-> m.parent[g], val |-> rs[g].val, status |-> rs[g].status,
              counter |-> rs[g].counter]
        ELSE rs[g]]

\* The library's deletions: items deleted on the other side, and tombstones
\* the other side has to learn of.
RemoveLocally(m) == (LocalItems \cup RemoteTombs)
                    \ (DOMAIN m.side \cup Range(m.dupe) \cup snap.tombs)
RemoveRemotely(m) == snap.tombs \ DOMAIN m.side

\* removeLocalItems; ON DELETE CASCADE takes what is below a removed folder.
ItemsRemoved(m, rs) ==
    Restrict(rs, DOMAIN rs \ UNION {Subtree(rs, g) :
        g \in (RemoveLocally(m) \cup RemoveRemotely(m)) \cap DOMAIN rs})

\* The tombstones of merged items the mirror or the tree has are dropped.
TombsMerged(m) ==
    LET dropped == {g \in DOMAIN m.side : g \in RemoteItems}
                   \cup {g \in DOMAIN rows : \E h \in DOMAIN m.side : g = LocalGuid(m, h)}
    IN  ((tombs \ dropped) \ RemoveLocally(m)) \cup RemoveRemotely(m)

\* A tombstone of an item that was not in the local tree is not flagged as
\* merged.
MirrorMerged(m) ==
    [g \in AnyGuid |->
        IF \/ g \in DOMAIN m.side
           \/ /\ g \in RemoveLocally(m) \cup RemoveRemotely(m)
              /\ mirror[g].rec.kind # "dead" \/ g \in LocalItems
        THEN Mirrored(mirror[g].rec, FALSE)
        ELSE mirror[g]]

\* Mutant: only items are staged.
StagedItems(m, rs, ts) ==
    [g \in {h \in DOMAIN m.side \cap DOMAIN rs : rs[h].counter > 0} |->
        [rec |-> Live(rs[g].val, Children(rs, g)), counter |-> rs[g].counter]]

\* stage_local_items_to_upload: the changed items of the merged tree, and all
\* the tombstones.
Staged(m, rs, ts) ==
    LET items == {g \in DOMAIN m.side \cap DOMAIN rs : rs[g].counter > 0}
    IN  [g \in items \cup ts |->
            IF g \in items
            THEN [rec |-> Live(rs[g].val, Children(rs, g)), counter |-> rs[g].counter]
            ELSE [rec |-> Tombstone, counter |-> 1]]

Merge ==
    /\ phase = "merge" /\ phase' = "upload"
    /\ \E m \in MergeResults :
          LET rs == ItemsRemoved(m, StructureMerged(m, ItemsMerged(m)))
          IN  /\ rows' = rs
              /\ tombs' = TombsMerged(m)
              /\ mirror' = MirrorMerged(m)
              /\ staged' = Staged(m, rs, TombsMerged(m))
    /\ merged' = TRUE
    /\ snap' = NoSnap
    /\ UNCHANGED <<remote, connected, incoming, history, bounds>>

-----------------------------------------------------------------------------
(* Upload and what follows it. *)

\* The server refuses the upload when someone else wrote since the fetch.  A
\* failing upload may have stored a part of the records.
Upload ==
    /\ phase = "upload"
    /\ \E G \in SUBSET DOMAIN staged :
          /\ since # {} => G = {}
          /\ server' = [g \in AnyGuid |-> IF g \in G THEN staged[g].rec ELSE server[g]]
          /\ changed' = changed \cup G
          /\ IF G = DOMAIN staged
             THEN phase' = "push" /\ UNCHANGED work
             ELSE End
    /\ UNCHANGED <<treeVars, since, mirror, connected, history, bounds>>

\* Mutant: the upload clears the counter.
NothingRemains(counter, uploaded) == 0

\* What the user changed during the upload still counts.
Remaining(counter, uploaded) ==
    IF counter > uploaded THEN counter - uploaded ELSE 0


TombsPushed(G) == tombs \ G

\* push_synced_items, which may commit between two chunks: pushUploadedChanges
\* for a part of the records.
Push ==
    /\ phase = "push"
    /\ \E G \in SUBSET DOMAIN staged \ {{}} :
          /\ rows' = [g \in DOMAIN rows |->
                IF g \in G
                THEN [parent |-> rows[g].parent, val |-> rows[g].val,
                      status |-> "Normal",
                      counter |-> Remaining(rows[g].counter, staged[g].counter)]
                ELSE rows[g]]
          /\ tombs' = TombsPushed(G)
          /\ mirror' = [g \in AnyGuid |->
                IF g \in G THEN Mirrored(staged[g].rec, FALSE) ELSE mirror[g]]
          /\ staged' = Restrict(staged, DOMAIN staged \ G)
    /\ UNCHANGED <<remote, connected, phase, incoming, snap, merged, history, bounds>>

\* The time of the upload becomes the last sync time.
PutUploadTime ==
    /\ phase = "push" /\ DOMAIN staged = {}
    /\ End
    /\ changed' = since
    /\ UNCHANGED <<treeVars, server, since, mirror, connected, history, bounds>>

SyncNext ==
    \/ User \/ OtherWrites
    \/ Reset \/ Wipe \/ Fetch \/ Abort
    \/ StageIncoming \/ PutFetchTime \/ ReadTrees \/ Merge
    \/ Upload \/ Push \/ PutUploadTime

SyncSpec == SyncInit /\ [][SyncNext]_vars

-----------------------------------------------------------------------------
\* The tables and the records in flight have their types.
TypeOK ==
    /\ UserRoot \subseteq DOMAIN rows /\ DOMAIN rows \subseteq AnyGuid
    /\ Range(rows) \subseteq Row
    /\ tombs \subseteq Guid
    /\ server \in [AnyGuid -> Record]
    /\ changed \subseteq AnyGuid /\ since \subseteq AnyGuid
    /\ mirror \in [AnyGuid -> [rec : Record, needsMerge : BOOLEAN]]
    /\ phase \in {"idle", "incoming", "staged", "fetched", "merge", "upload", "push"}
    /\ DOMAIN incoming \subseteq AnyGuid /\ DOMAIN staged \subseteq AnyGuid
    /\ {connected, merged, quiet, raced} \subseteq BOOLEAN /\ lost \subseteq Guid

\* The mirror holds what is on the server, except for the records newer than
\* the last sync time, whatever is interrupted, and for the roots, which are
\* in the mirror before they are on the server.
MirrorMatchesServer ==
    \A g \in AnyGuid \ changed :
        connected /\ phase # "staged" =>
            \/ mirror[g].rec = server[g]
            \/ g \in UserRoot /\ server[g] = NoRecord /\ mirror[g].rec = Live(InitVal, {})

\* "At the end of a sync, this table's contents should match both what's on the
\* server, and the local tree": when the trees were merged and the user did
\* nothing meanwhile, the mirror is the local tree and nothing is left to upload.
\* A root that was unchanged on both sides may still be New.
InSync(g) ==
    IF g \in DOMAIN rows
    THEN /\ mirror[g].rec = Live(rows[g].val, Children(rows, g))
         /\ rows[g].counter = 0
         /\ rows[g].status = "Normal" \/ g \in UserRoot
    ELSE mirror[g].rec.kind # "live"

MergedTreesAgree ==
    [][PutUploadTime /\ merged /\ quiet => tombs = {} /\ \A g \in AnyGuid : InSync(g)]_vars

\* A change is tracked until it is on the server.
Tracked(g) ==
    rows[g].status = "Normal" /\ rows[g].counter = 0 /\ ~mirror[g].needsMerge =>
        /\ mirror[g].rec.kind = "live"
        /\ mirror[g].rec.val = rows[g].val
        /\ Children(rows, g) = mirror[g].rec.kids \cap DOMAIN rows

ChangesTracked == raced \/ \A g \in DOMAIN rows : Tracked(g)

\* No guid is both a row and a tombstone, and, unless the user changed the tree
\* during a merge, all the items hang below the user roots.
RowsSound ==
    /\ DOMAIN rows \cap tombs = {}
    /\ raced \/ DOMAIN rows = Reachable(rows)


\* A reset "removes all sync metadata, such that the next sync is treated as a
\* first sync" (store.rs): when a sync has ended and the user did nothing
\* meanwhile, every local item is on the server, unless another client deleted
\* it just now.
FirstSyncUploads ==
    [][PutUploadTime /\ quiet =>
          \A g \in DOMAIN rows \ (UserRoot \cup since) : server[g].kind = "live"]_vars
=============================================================================

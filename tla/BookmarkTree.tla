---------------------------- MODULE BookmarkTree ----------------------------
(***************************************************************************)
(* What the bookmark store of components/places promises, with the order   *)
(* of siblings left out: the rows of moz_bookmarks, each below a folder,   *)
(* the change counters that tell a sync what to upload, and the tombstones *)
(* of moz_bookmarks_deleted.  BookmarkStorage implements it with positions;*)
(* BookmarkSync runs a sync against it.                                    *)
(*                                                                         *)
(* Left out: dates, keywords, tags, and the split of an item's content     *)
(* into a title and a URL: `val' is all of it.                             *)
(***************************************************************************)
EXTENDS Integers, FiniteSets, Functions

CONSTANTS
    Guid,        \* the items a user or another client may create
    UserRoot,    \* menu, toolbar, unfiled and mobile
    FolderGuid,  \* the members of Guid that are folders
    Val,         \* what an item holds
    InitVal,     \* what the user roots hold
    PlacesRoot   \* root________, the parent of the user roots

ASSUME BookmarkConstants ==
    /\ FolderGuid \subseteq Guid
    /\ Guid \cap UserRoot = {}
    /\ PlacesRoot \notin Guid \cup UserRoot
    /\ InitVal \in Val
    /\ UserRoot # {}

VARIABLES
    rows,   \* moz_bookmarks, without the row of PlacesRoot
    tombs   \* moz_bookmarks_deleted

treeVars == <<rows, tombs>>

AnyGuid == Guid \cup UserRoot
Folders == FolderGuid \cup UserRoot
Status == {"New", "Normal"}

Row == [parent : Folders \cup {PlacesRoot}, val : Val, status : Status,
        counter : Nat]

NewRow(p, v) == [parent |-> p, val |-> v, status |-> "New", counter |-> 1]

Init ==
    /\ rows = [g \in UserRoot |-> NewRow(PlacesRoot, InitVal)]
    /\ tombs = {}

-----------------------------------------------------------------------------
(* The shape of a set of rows. *)

Children(rs, p) == {g \in DOMAIN rs : rs[g].parent = p}

\* g and everything below it: down[n] is what is at most n levels below g.
Subtree(rs, g) ==
    LET down[n \in 0..Cardinality(DOMAIN rs)] ==
            IF n = 0 THEN {g}
            ELSE LET above == down[n - 1]
                 IN  above \cup {h \in DOMAIN rs : rs[h].parent \in above}
    IN  down[Cardinality(DOMAIN rs)]

\* Everything that hangs below a user root.
Reachable(rs) == UNION {Subtree(rs, r) : r \in UserRoot \cap DOMAIN rs}

\* A parent new items may be put under: a folder other than PlacesRoot.
IsParent(rs, p) == p \in Folders \cap DOMAIN rs

Bump(r, n) == [parent |-> r.parent, val |-> r.val, status |-> r.status,
               counter |-> r.counter + n]

-----------------------------------------------------------------------------
(* The operations, each one transaction. *)

\* The item is appended with a counter of 1 and its parent counts a change.
Inserted(rs, g, p, v) ==
    [h \in DOMAIN rs \cup {g} |->
        IF h = g THEN NewRow(p, v)
        ELSE Bump(rs[h], IF h = p THEN 1 ELSE 0)]

InsertBookmark(g, p, v) ==
    /\ g \in Guid \ DOMAIN rows
    /\ IsParent(rows, p)
    /\ rows' = Inserted(rows, g, p, v)
    /\ tombs' = tombs \ {g}

\* A folder f with one item g in it, inserted in one transaction.
InsertTree(f, g, p, v) ==
    /\ f \in FolderGuid \ DOMAIN rows
    /\ g \in Guid \ (DOMAIN rows \cup {f})
    /\ IsParent(rows, p)
    /\ rows' = Inserted(Inserted(rows, f, p, v), g, f, v)
    /\ tombs' = tombs \ {f, g}

\* Deleting a folder deletes what is below it; every item deleted that the
\* server knows leaves a tombstone.
Deleted(rs, g) == Restrict(rs, DOMAIN rs \ Subtree(rs, g))
NewTombs(rs, g) == {h \in Subtree(rs, g) : rs[h].status = "Normal"}

DeleteBookmark(g) ==
    /\ g \in DOMAIN rows \ UserRoot
    /\ rows' = Deleted(rows, g)
    /\ tombs' = tombs \cup NewTombs(rows, g)

\* The row of g with value v and parent p: a new value counts as a change.
Changed(r, p, v) == [parent |-> p, val |-> v, status |-> r.status,
                     counter |-> r.counter + (IF v # r.val THEN 1 ELSE 0)]

Edited(rs, g, v) ==
    [h \in DOMAIN rs |->
        IF h = g THEN Changed(rs[g], rs[g].parent, v) ELSE rs[h]]

\* A new value, at the same place.
Edit(g, v) ==
    /\ g \in DOMAIN rows \ UserRoot
    /\ rows' = Edited(rows, g, v)
    /\ UNCHANGED tombs

\* A move within the folder counts as a change of the folder.
Reordered(rs, g, v) ==
    [h \in DOMAIN rs |->
        IF h = g THEN Changed(rs[g], rs[g].parent, v)
        ELSE Bump(rs[h], IF h = rs[g].parent THEN 1 ELSE 0)]

Reorder(g, v) ==
    /\ g \in DOMAIN rows \ UserRoot
    /\ rows' = Reordered(rows, g, v)
    /\ UNCHANGED tombs

\* A move to folder p counts as a change of the folder left and of p.
Moved(rs, g, v, p) ==
    [h \in DOMAIN rs |->
        IF h = g THEN Changed(rs[g], p, v)
        ELSE Bump(rs[h], (IF h = rs[g].parent THEN 1 ELSE 0)
                         + (IF h = p THEN 1 ELSE 0))]

Move(g, v, p) ==
    /\ g \in DOMAIN rows \ UserRoot
    /\ IsParent(rows, p)
    /\ p \notin Subtree(rows, g)
    /\ rows' = Moved(rows, g, v, p)
    /\ UNCHANGED tombs

UserStep ==
    \/ \E g \in Guid, p \in Folders, v \in Val : InsertBookmark(g, p, v)
    \/ \E f \in FolderGuid, g \in Guid, p \in Folders, v \in Val :
          InsertTree(f, g, p, v)
    \/ \E g \in Guid : DeleteBookmark(g)
    \/ \E g \in Guid, v \in Val : Edit(g, v) \/ Reorder(g, v)
    \/ \E g \in Guid, v \in Val, p \in Folders : Move(g, v, p)

\* A sync that uploaded everything: every row is known to the server and has
\* no change left, and the tombstones are gone.
Uploaded(rs) ==
    [g \in DOMAIN rs |-> [parent |-> rs[g].parent, val |-> rs[g].val,
                          status |-> "Normal", counter |-> 0]]

Synced ==
    /\ rows' = Uploaded(rows)
    /\ tombs' = {}

Next == UserStep \/ Synced

Spec == Init /\ [][Next]_treeVars
=============================================================================

-------------------------- MODULE BookmarkStorage --------------------------
(***************************************************************************)
(* The bookmark store of components/places with the positions of siblings: *)
(* storage/bookmarks.rs, the triggers of create_main_triggers.sql and      *)
(* create_shared_triggers.sql, and the foreign keys of                     *)
(* create_shared_schema.sql.                                               *)
(*                                                                         *)
(* Every operation is one write transaction, so one action.  An operation  *)
(* refused with an error leaves the tables alone (insert_bookmark and      *)
(* delete_bookmark roll back, and update_bookmark_from_message drops its   *)
(* transaction) and is not an action.                                      *)
(***************************************************************************)
EXTENDS Integers, FiniteSets, Sequences, Functions

CONSTANTS Guid, UserRoot, FolderGuid, Val, InitVal, PlacesRoot
CONSTANTS MaxOps,   \* bound on the operations of a behaviour
          MaxPos    \* bound on the positions a caller asks for

VARIABLES
    rows,      \* moz_bookmarks, with a `pos' column, without PlacesRoot
    tombs,     \* moz_bookmarks_deleted
    call,      \* "idle", or "endless" while an update cannot return
    ops,       \* how many operations there have been
    base,      \* history: what the last sync recorded of every row that
               \* has not been inserted again since
    gapped     \* history: folders whose positions a move has spread

vars == <<rows, tombs, call, ops, base, gapped>>

AnyGuid == Guid \cup UserRoot
Folders == FolderGuid \cup UserRoot

\* BookmarkPosition::Append, or BookmarkPosition::Specific(n).
Append_ == <<>>
Specific(n) == <<n>>
Position == {Append_} \cup {Specific(n) : n \in 0..MaxPos}

NewRow(p, n, v) == [parent |-> p, pos |-> n, val |-> v, status |-> "New",
                    counter |-> 1]

\* The rows without the positions, as BookmarkTree sees them.
Flat(rs) == [g \in DOMAIN rs |->
                [parent |-> rs[g].parent, val |-> rs[g].val,
                 status |-> rs[g].status, counter |-> rs[g].counter]]

Tree == INSTANCE BookmarkTree WITH rows <- Flat(rows)

Children(rs, p) == {g \in DOMAIN rs : rs[g].parent = p}
ChildCount(rs, p) == Cardinality(Children(rs, p))
Subtree(rs, g) == Tree!Subtree(Flat(rs), g)
IsParent(rs, p) == p \in Folders \cap DOMAIN rs

\* create_bookmark_roots: the user roots are children 0, 1, ... of PlacesRoot.
create_bookmark_roots(order) ==
    [g \in UserRoot |-> NewRow(PlacesRoot, order[g], InitVal)]

Init ==
    /\ rows = create_bookmark_roots(
                  CHOOSE o \in Bijection(UserRoot, 0..(Cardinality(UserRoot) - 1)) :
                      TRUE)
    /\ tombs = {}
    /\ call = "idle"
    /\ ops = 0
    /\ base = << >>
    /\ gapped = {}

-----------------------------------------------------------------------------
(* The helpers that manage positions. *)

Lesser(m, n) == IF m < n THEN m ELSE n

\* UPDATE moz_bookmarks SET position = position + d WHERE parent = p AND
\* position BETWEEN lo AND hi
Shift(rs, p, lo, hi, d) ==
    [g \in DOMAIN rs |->
        IF rs[g].parent = p /\ lo <= rs[g].pos /\ rs[g].pos <= hi
        THEN [rs[g] EXCEPT !.pos = @ + d]
        ELSE rs[g]]

\* No position exceeds this: the bound of "position >= n" as a range.
Top == MaxPos + 2 * MaxOps + 2

\* The index an item asked for at pos gets in a folder of `count' children.
IndexForInsert(pos, count) ==
    IF pos = Append_ THEN count ELSE Lesser(pos[1], count)

\* resolve_pos_for_insert: the siblings from a specific index on make room.
resolve_pos_for_insert(rs, pos, p, count) ==
    IF pos = Append_ THEN rs
    ELSE Shift(rs, p, IndexForInsert(pos, count), Top, 1)

update_pos_for_deletion(rs, n, p) == Shift(rs, p, n, Top, -1)

\* Mutant: the sibling at the new index stays.
MoveSkipsOne(rs, pos, cur, p) ==
    LET new == IndexForInsert(pos, ChildCount(rs, p) - 1)
    IN  IF new < cur THEN Shift(rs, p, new + 1, cur, 1)
                     ELSE Shift(rs, p, cur, new, -1)

\* update_pos_for_move: the item is already one of the `count' children.
IndexForMove(pos, count) == IndexForInsert(pos, count - 1)

update_pos_for_move(rs, pos, cur, p) ==
    LET new == IndexForMove(pos, ChildCount(rs, p))
    IN  IF new < cur THEN Shift(rs, p, new, cur, 1)
                     ELSE Shift(rs, p, cur, new, -1)

\* Mutant: a change of a folder's children is not counted.
Uncounted(rs, p) == rs

BumpRow(rs, p) == [rs EXCEPT ![p].counter = @ + 1]

-----------------------------------------------------------------------------
(* The operations. *)

Op == call = "idle" /\ ops < MaxOps /\ ops' = ops + 1

insert_bookmark_in_tx(rs, g, p, pos, v) ==
    LET n == IndexForInsert(pos, ChildCount(rs, p))
        room == resolve_pos_for_insert(rs, pos, p, ChildCount(rs, p))
    IN  BumpRow([h \in DOMAIN rs \cup {g} |->
                    IF h = g THEN NewRow(p, n, v) ELSE room[h]], p)

\* The trigger of an insert removes the tombstone of the guid.
InsertBookmark(g, p, pos, v) ==
    /\ Op
    /\ g \in Guid \ DOMAIN rows
    /\ IsParent(rows, p)
    /\ rows' = insert_bookmark_in_tx(rows, g, p, pos, v)
    /\ tombs' = tombs \ {g}
    /\ base' = Restrict(base, DOMAIN base \ {g})
    /\ UNCHANGED <<call, gapped>>

\* insert_tree for a folder with one child: add_subtree_infos lists the
\* folder before its child, both appended.
InsertTree(f, g, p, v) ==
    /\ Op
    /\ f \in FolderGuid \ DOMAIN rows
    /\ g \in Guid \ (DOMAIN rows \cup {f})
    /\ IsParent(rows, p)
    /\ rows' = insert_bookmark_in_tx(
                   insert_bookmark_in_tx(rows, f, p, Append_, v),
                   g, f, Append_, v)
    /\ tombs' = tombs \ {f, g}
    /\ base' = Restrict(base, DOMAIN base \ {f, g})
    /\ UNCHANGED <<call, gapped>>

\* Mutant: what the cascade takes along leaves no tombstones.
TombOfItem(rs, g) == {h \in {g} : rs[h].status = "Normal"}

\* The delete trigger fires for each row deleted.
NewTombs(rs, g) == {h \in Subtree(rs, g) : rs[h].status = "Normal"}

\* ON DELETE CASCADE takes the children along.
DeleteBookmark(g) ==
    /\ Op
    /\ g \in DOMAIN rows \ UserRoot
    /\ LET closed == update_pos_for_deletion(rows, rows[g].pos,
                                             rows[g].parent)
       IN  rows' = Restrict(closed, DOMAIN rows \ Subtree(rows, g))
    /\ tombs' = tombs \cup NewTombs(rows, g)
    /\ UNCHANGED <<call, base, gapped>>

\* The last UPDATE of update_bookmark_in_tx.
SetRow(rs, g, p, n, v) ==
    [rs EXCEPT ![g] = [parent |-> p, pos |-> n, val |-> v,
                       status |-> @.status,
                       counter |-> @.counter
                                   + (IF v # @.val THEN 1 ELSE 0)]]

\* UpdateTreeLocation::None
UpdateInPlace(g, v) ==
    /\ Op
    /\ g \in DOMAIN rows \ UserRoot
    /\ rows' = SetRow(rows, g, rows[g].parent, rows[g].pos, v)
    /\ UNCHANGED <<tombs, call, base, gapped>>

\* UpdateTreeLocation::Position
UpdatePosition(g, v, pos) ==
    /\ Op
    /\ g \in DOMAIN rows \ UserRoot
    /\ LET p == rows[g].parent
           moved == update_pos_for_move(rows, pos, rows[g].pos, p)
           n == IndexForMove(pos, ChildCount(rows, p))
       IN  rows' = BumpRow(SetRow(moved, g, p, n, v), p)
    /\ UNCHANGED <<tombs, call, base, gapped>>

\* The child count of the new parent is read before update_pos_for_deletion,
\* so it counts the item itself when the new parent is the old one.
MovedRows(rs, g, v, p, pos) ==
    LET old == rs[g].parent
        count == ChildCount(rs, p)
        left == update_pos_for_deletion(rs, rs[g].pos, old)
        room == resolve_pos_for_insert(left, pos, p, count)
    IN  BumpRow(BumpRow(SetRow(room, g, p, IndexForInsert(pos, count), v), old), p)

\* Moving to the end of its own folder leaves a gap before the item.
NowGapped(g, p, pos) ==
    IF p = rows[g].parent /\ IndexForInsert(pos, ChildCount(rows, p)) = ChildCount(rows, p)
    THEN {p} ELSE {}

\* UpdateTreeLocation::Parent
UpdateParent(g, v, p, pos) ==
    /\ Op
    /\ g \in DOMAIN rows \ UserRoot
    /\ IsParent(rows, p)
    /\ p \notin Subtree(rows, g)
    /\ rows' = MovedRows(rows, g, v, p, pos)
    /\ gapped' = gapped \cup NowGapped(g, p, pos)
    /\ UNCHANGED <<tombs, call, base>>

\* Nothing stops a caller from moving a folder below itself.  The rows then
\* hold a cycle, over which the UNION ALL of set_ancestors_last_modified never
\* ends: the call does not return and its transaction does not commit.
UpdateParentEndless(g, p) ==
    /\ Op
    /\ g \in DOMAIN rows \ UserRoot
    /\ IsParent(rows, p)
    /\ p \in Subtree(rows, g)
    /\ call' = "endless"
    /\ UNCHANGED <<rows, tombs, base, gapped>>

\* An interrupt fails the statement, and update_bookmark_from_message drops
\* the transaction.
Interrupt ==
    /\ call = "endless"
    /\ call' = "idle"
    /\ UNCHANGED <<rows, tombs, ops, base, gapped>>

\* The children of p in the order get_child_guids returns them.  Equal
\* positions leave the order to SQLite.
get_child_guids(rs, p) ==
    {s \in [1..ChildCount(rs, p) -> Children(rs, p)] :
        /\ IsInjective(s)
        /\ \A i, j \in DOMAIN s : i < j => rs[s[i]].pos <= rs[s[j]].pos}

\* A complete sync with nothing to merge (push_synced_items for every row).
Synced ==
    /\ call = "idle"
    /\ \E g \in DOMAIN rows : rows[g].counter > 0
    /\ rows' = [g \in DOMAIN rows |->
                   [rows[g] EXCEPT !.status = "Normal", !.counter = 0]]
    /\ tombs' = {}
    /\ base' = [g \in DOMAIN rows |->
                   [val |-> rows[g].val,
                    kids |-> get_child_guids(rows, g)]]
    /\ UNCHANGED <<call, ops, gapped>>

\* What an item holds when it is inserted makes no difference: InitVal.
Next ==
    \/ \E g \in Guid, p \in Folders, pos \in Position :
          InsertBookmark(g, p, pos, InitVal)
    \/ \E f \in FolderGuid, g \in Guid, p \in Folders :
          InsertTree(f, g, p, InitVal)
    \/ \E g \in Guid : DeleteBookmark(g)
    \/ \E g \in Guid, v \in Val : UpdateInPlace(g, v)
    \/ \E g \in Guid, v \in Val, pos \in Position : UpdatePosition(g, v, pos)
    \/ \E g \in Guid, v \in Val, p \in Folders, pos \in Position :
          UpdateParent(g, v, p, pos)
    \/ \E g \in Guid, p \in Folders : UpdateParentEndless(g, p)
    \/ Interrupt
    \/ Synced

Spec == Init /\ [][Next]_vars

-----------------------------------------------------------------------------
(* What the store keeps true. *)

\* Every row has a parent, a position a u32 column can be read into, a value
\* and a change counter; the tombstones are guids.
TypeOK ==
    /\ UserRoot \subseteq DOMAIN rows /\ DOMAIN rows \subseteq AnyGuid
    /\ \A g \in DOMAIN rows :
          rows[g] \in [parent : Folders \cup {PlacesRoot}, pos : 0..Top,
                      val : Val, status : {"New", "Normal"}, counter : Nat]
    /\ tombs \subseteq Guid
    /\ call \in {"idle", "endless"}
    /\ ops \in 0..MaxOps
    /\ DOMAIN base \subseteq AnyGuid
    /\ gapped \subseteq Folders

\* However folders are moved and deleted, the rows stay one tree: every item
\* hangs below a user root, so that fetch_tree and fetch_local_tree, which walk
\* down from the root, reach it.  And the siblings of a folder occupy positions
\* 0, 1, ..., as the comments of the position helpers say ("leaves all siblings
\* with the correct position"), unless an item of the folder was moved to the
\* folder's own end by naming the folder as the new parent.
TreeIsWhole ==
    /\ DOMAIN rows = Tree!Reachable(Flat(rows))
    /\ \A p \in (Folders \cap DOMAIN rows) \ gapped :
          {rows[g].pos : g \in Children(rows, p)} = 0..(ChildCount(rows, p) - 1)

\* Everything that changed since the last sync is marked for the next one.  A
\* guid that sync recorded is live or has a tombstone, and never both (a second
\* tombstone would break the primary key of moz_bookmarks_deleted and fail the
\* deletion).  A row whose counter is 0 holds what the last sync recorded, and
\* its children are the recorded ones in the recorded order, without those
\* deleted since.
ChangesRecorded ==
    /\ DOMAIN base \subseteq DOMAIN rows \cup tombs
    /\ DOMAIN rows \cap tombs = {}
    /\ \A g \in DOMAIN rows : rows[g].counter = 0 =>
          /\ g \in DOMAIN base
          /\ rows[g].val = base[g].val
          /\ \E s \in base[g].kids :
                SelectSeq(s, LAMBDA h : h \in DOMAIN rows \cap DOMAIN base)
                    \in get_child_guids(rows, g)

\* With the order of siblings left out, every step is a step of BookmarkTree.
ImplementsTree == Tree!Spec

\* The siblings of every folder occupy positions 0, 1, ...: a move "to / within
\* that folder" is "constrained to be within that range" (Bookmarks.kt).
PositionsInRange ==
    \A p \in Folders \cap DOMAIN rows :
        {rows[g].pos : g \in Children(rows, p)} = 0..(ChildCount(rows, p) - 1)
=============================================================================

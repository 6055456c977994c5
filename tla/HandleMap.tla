----------------------------- MODULE HandleMap ------------------------------
(* The data structure behind every handle that crosses the FFI:              *)
(* HandleMap<T> of support/ffi/src/handle_map.rs, as operators on its value. *)
(*                                                                           *)
(* An entry is free or holds an item.  The free entries form a list through  *)
(* `next`, from first_free to the one entry whose `next` is EndOfFreeList,   *)
(* and the last free entry is never handed out.  The version of an entry     *)
(* is even exactly while it holds an item, and goes into the handle.         *)
(* Arithmetic on versions wraps, as in a release build.                      *)
EXTENDS Integers, FiniteSets

CONSTANTS
    NoItem,             \* the entry is free
    MAX_CAPACITY,       \* 2^15 - 1 in the code
    MIN_CAPACITY,       \* 4 in the code
    VersionLimit        \* 2^16 in the code: versions are u16

ASSUME CapacityAssumption ==
    /\ MAX_CAPACITY \in Nat
    /\ MIN_CAPACITY \in 2..(MAX_CAPACITY - 1)

ASSUME VersionAssumption == VersionLimit \in Nat /\ VersionLimit > 2 /\ VersionLimit % 2 = 0

\* Not an index of any map.
EndOfFreeList == MAX_CAPACITY

\* struct Handle, of one map.
Handle == [index : 0..MAX_CAPACITY - 1, version : 0..VersionLimit - 1]

\* struct Entry and enum EntryState.
Entry(items) == [version : 0..VersionLimit - 1, next : 0..MAX_CAPACITY,
                 item : items \cup {NoItem}]

is_occupied(entry) == entry.item # NoItem

Free(next) == [version |-> 1, next |-> next, item |-> NoItem]

capacity(map) == Cardinality(DOMAIN map.entries)

Indices(map) == DOMAIN map.entries

\* new_with_capacity(): entry 0 first, then in order to the last one.
new_with_capacity(cap) ==
    [first_free  |-> 0,
     num_entries |-> 0,
     entries     |-> [i \in 0..cap - 1 |-> Free(IF i = cap - 1 THEN EndOfFreeList ELSE i + 1)]]

\* The capacity aimed at.  The map is never full, so what an insertion needs
\* is at most the capacity there is, and doubling once is enough.
next_cap(cap, need) ==
    LET doubled == IF cap <= need THEN 2 * cap ELSE cap
    IN  IF doubled < MAX_CAPACITY THEN doubled ELSE MAX_CAPACITY

\* ensure_capacity(): new entries go to the front of the free list, one less than aimed at.
ensure_capacity(map, need) ==
    LET cap == capacity(map)
        top == next_cap(cap, need) - 1
    IN  IF cap > need \/ top <= cap
        THEN map
        ELSE [map EXCEPT
                !.first_free = top - 1,
                !.entries = [i \in 0..top - 1 |->
                    IF i < cap THEN map.entries[i]
                    ELSE Free(IF i = cap THEN map.first_free ELSE i - 1)]]

\* insert() panics on the last free entry: the map is as large as it gets.
Grown(map) == ensure_capacity(map, map.num_entries + 1)
insert_panics(map) ==
    \/ map.num_entries + 1 > MAX_CAPACITY
    \/ LET m == Grown(map) IN m.entries[m.first_free].next = EndOfFreeList

\* Mutant: every item starts with the same version.
VersionAnew(version) == 2

\* The version an insertion gives: zero is skipped.
insert_version(version) ==
    IF version + 1 = VersionLimit THEN 2 ELSE version + 1

\* insert(): the map and the handle afterwards.
insert(map, item) ==
    LET m == Grown(map)
    IN  [first_free  |-> m.entries[m.first_free].next,
         num_entries |-> m.num_entries + 1,
         entries     |-> [m.entries EXCEPT
                ![m.first_free] = [version |-> insert_version(@.version), next |-> EndOfFreeList,
                                   item |-> item]]]

insert_handle(map) ==
    LET m == Grown(map)
    IN  [index |-> m.first_free, version |-> insert_version(m.entries[m.first_free].version)]

\* check_handle(), for a handle of this map.
check_handle(map, h) ==
    /\ h.index \in Indices(map)
    /\ map.entries[h.index].version = h.version
    /\ h.version % 2 = 0

\* remove(): the entry goes to the front of the free list.
remove(map, h) ==
    [first_free  |-> h.index,
     num_entries |-> map.num_entries - 1,
     entries     |-> [map.entries EXCEPT
            ![h.index] = [version |-> @.version + 1, next |-> map.first_free, item |-> NoItem]]]

\* get(): the item behind a handle that passed check_handle().
get(map, h) == map.entries[h.index].item

-----------------------------------------------------------------------------
\* Sets of entries that hold the first free one and with an entry its successor.
FreeLists(map) ==
    {s \in SUBSET Indices(map) :
        /\ map.first_free \in s
        /\ \A i \in s : map.entries[i].next = EndOfFreeList \/ map.entries[i].next \in s}

\* assert_valid(): the free list visits exactly the free entries, and ends in
\* the only one marked as the end; some entry is always free, the
\* count is right, and a version is even exactly while its entry is in use.
Valid(map) ==
    LET free == {i \in Indices(map) : ~is_occupied(map.entries[i])}
    IN  /\ map.num_entries < capacity(map)
        /\ capacity(map) <= MAX_CAPACITY
        /\ Cardinality({i \in free : map.entries[i].next = EndOfFreeList}) = 1
        /\ free \in FreeLists(map)
        /\ \A s \in FreeLists(map) : free \subseteq s
        /\ map.num_entries = Cardinality(Indices(map) \ free)
        /\ \A i \in Indices(map) : (map.entries[i].version % 2 = 0) <=> i \notin free
=============================================================================

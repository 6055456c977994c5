------------------------------ MODULE FfiCalls ------------------------------
(* Threads calling through the FFI: ConcurrentHandleMap, a                   *)
(* RwLock<HandleMap<Mutex<T>>>, with call_with_result() around every call    *)
(* (support/ffi/src/handle_map.rs, lib.rs and error.rs).                     *)
(*                                                                           *)
(* A call that works on an item holds the map's read lock and the item's     *)
(* mutex while its callback runs.  Insertion and removal take the write lock *)
(* for one step.  A panic poisons the mutexes and the write lock the thread  *)
(* holds, and is turned into an error code.  The destructors of items, which *)
(* delete() runs under the write lock, are taken not to panic.               *)
EXTENDS HandleMap

CONSTANTS
    Threads,
    MaxInserts,     \* objects created
    MaxCalls        \* calls made

VARIABLES
    map,        \* the HandleMap
    broken,     \* the RwLock is poisoned
    poisoned,   \* the items whose Mutex is poisoned
    pc,         \* what each thread is doing
    arg,        \* the handle each thread's call was given
    issued,     \* the handles given out: [handle, item, uses of the entry before]
    uses,       \* how often each entry was given to an item
    inserts, calls

vars == <<map, broken, poisoned, pc, arg, issued, uses, inserts, calls>>

Items == 1..MaxInserts
NoHandle == [index |-> 0, version |-> 0]

Init ==
    /\ map = new_with_capacity(MIN_CAPACITY)
    /\ broken = FALSE
    /\ poisoned = {}
    /\ pc = [t \in Threads |-> "idle"]
    /\ arg = [t \in Threads |-> NoHandle]
    /\ issued = {}
    /\ uses = [i \in 0..MAX_CAPACITY - 1 |-> 0]
    /\ inserts = 0
    /\ calls = 0

\* The threads that hold the read lock.
Readers == {t \in Threads : pc[t] \in {"lock", "callback"}}

ItemOf(t) == get(map, arg[t])

\* call_with_result_impl(): a value, an error or a panic becomes an error code,
\* and the call is over.
Return(t) ==
    /\ pc' = [pc EXCEPT ![t] = "idle"]
    /\ arg' = [arg EXCEPT ![t] = NoHandle]

Step(t, from, to) ==
    /\ pc[t] = from
    /\ pc' = [pc EXCEPT ![t] = to]

\* A thread calls; it may use any handle that was ever given out.
Call(t) ==
    /\ calls < MaxCalls
    /\ calls' = calls + 1
    /\ \/ /\ Step(t, "idle", "construct")
          /\ inserts < MaxInserts
          /\ inserts' = inserts + 1
          /\ UNCHANGED arg
       \/ /\ Step(t, "idle", "read") \/ Step(t, "idle", "remove")
          /\ \E h \in issued : arg' = [arg EXCEPT ![t] = h.handle]
          /\ UNCHANGED inserts
    /\ UNCHANGED <<map, broken, poisoned, issued, uses>>

\* Mutant: the constructor runs under the write lock.
ConstructLocked(t) ==
    /\ Readers = {}
    /\ \/ Step(t, "construct", "insert") /\ UNCHANGED <<arg, broken>>
       \/ pc[t] = "construct" /\ Return(t) /\ broken' = TRUE
    /\ UNCHANGED <<map, poisoned, issued, uses, inserts, calls>>

\* insert_with_result(): the constructor runs without any lock.
Construct(t) ==
    /\ \/ Step(t, "construct", "insert") /\ UNCHANGED arg
       \/ pc[t] = "construct" /\ Return(t)
    /\ UNCHANGED <<map, broken, poisoned, issued, uses, inserts, calls>>

\* insert(): waits for all readers; unwrap() panics on a poisoned lock, and a
\* map that cannot grow panics and poisons it.
Insert(t) ==
    /\ pc[t] = "insert"
    /\ Readers = {}
    /\ IF broken \/ insert_panics(map)
       THEN /\ broken' = TRUE
            /\ map' = IF broken THEN map ELSE Grown(map)
            /\ UNCHANGED <<issued, uses>>
       ELSE /\ LET h    == insert_handle(map)
                   item == Cardinality(issued) + 1
               IN  /\ map' = insert(map, item)
                   /\ issued' = issued \cup {[handle |-> h, item |-> item, use |-> uses[h.index] + 1]}
                   /\ uses' = [uses EXCEPT ![h.index] = @ + 1]
            /\ UNCHANGED broken
    /\ Return(t)
    /\ UNCHANGED <<poisoned, inserts, calls>>

\* remove() and delete().
Remove(t) ==
    /\ pc[t] = "remove"
    /\ Readers = {}
    /\ map' = IF ~broken /\ check_handle(map, arg[t]) THEN remove(map, arg[t]) ELSE map
    /\ Return(t)
    /\ UNCHANGED <<broken, poisoned, issued, uses, inserts, calls>>

\* call_with_result_mut() up to the slot's mutex.
Read(t) ==
    /\ pc[t] = "read"
    /\ IF ~broken /\ check_handle(map, arg[t])
       THEN Step(t, "read", "lock") /\ UNCHANGED arg
       ELSE Return(t)
    /\ UNCHANGED <<map, broken, poisoned, issued, uses, inserts, calls>>

\* mtx.lock().unwrap()
Lock(t) ==
    /\ pc[t] = "lock"
    /\ \A u \in Threads : pc[u] = "callback" => arg[u].index # arg[t].index
    /\ IF ItemOf(t) \in poisoned
       THEN Return(t)
       ELSE Step(t, "lock", "callback") /\ UNCHANGED arg
    /\ UNCHANGED <<map, broken, poisoned, issued, uses, inserts, calls>>

\* The callback returns, fails or panics; a panic poisons the mutex it holds.
Callback(t) ==
    /\ pc[t] = "callback"
    /\ UNCHANGED poisoned \/ poisoned' = poisoned \cup {ItemOf(t)}
    /\ Return(t)
    /\ UNCHANGED <<map, broken, issued, uses, inserts, calls>>

Progress(t) ==
    \/ Construct(t)
    \/ Insert(t)
    \/ Remove(t)
    \/ Read(t)
    \/ Lock(t)
    \/ Callback(t)

Next == \E t \in Threads : Call(t) \/ Progress(t)

Spec == Init /\ [][Next]_vars

-----------------------------------------------------------------------------
\* A handle never gives access to another item than its own, until its entry
\* has been reused VersionLimit / 2 - 1 times (32767 for u16): use after free
\* and double free are detected.  The free list stays well formed, as
\* assert_valid() demands in debug builds, through every growth of the map.
StaleDetected ==
    /\ Valid(map) /\ \A i \in Indices(map) : map.entries[i] \in Entry(Items)
    /\ \A h \in issued : h.handle \in Handle /\
        (check_handle(map, h.handle) /\ get(map, h.handle) # h.item =>
            uses[h.handle.index] - h.use >= VersionLimit \div 2 - 1)

\* "it's important that we don't call the constructor while we're holding the
\* write lock, because we don't want to poison the entire map if it panics!":
\* only an insertion into a map that cannot grow any more poisons the map.
OnlyFullMapBreaks == broken => insert_panics(map)
=============================================================================

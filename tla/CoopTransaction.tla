--------------------------- MODULE CoopTransaction ---------------------------
(***************************************************************************)
(* The write transactions of the places database                           *)
(* (places/src/db/tx, support/sql/src/conn_ext.rs): one read-write         *)
(* connection and one sync connection take SQLite's write lock in turns.   *)
(* A mutex they share is held only while a connection waits for the lock,  *)
(* so that whoever waits is next.  The sync connection applies its items   *)
(* in chunks, giving the lock up once a second (ChunkedCoopTransaction);   *)
(* single statements run outside a transaction take the lock without the   *)
(* mutex (put_meta).                                                       *)
(*                                                                         *)
(* Time is discrete.  A step that can be taken at once is taken before the *)
(* clock moves; the order of the steps of one instant is arbitrary.        *)
(***************************************************************************)
EXTENDS Integers

CONSTANTS CommitAfter,  \* commit_after: the age at which a chunk is committed
          BusyTimeout,  \* how long SQLite waits for the lock before it fails
          UnitTime,     \* the longest time one item takes
          ApplyTime,    \* the longest time of an unchunked transaction
          AutoTime,     \* the longest time of a statement in autocommit mode
          MaxItems,     \* items in one chunked operation
          MaxCheckpoints \* checkpoints that make the database busy

ASSUME DurationsAssumption ==
    /\ CommitAfter \in Nat \ {0} /\ BusyTimeout \in Nat
    /\ UnitTime \in Nat /\ ApplyTime \in Nat /\ AutoTime \in Nat
    /\ MaxItems \in Nat /\ MaxCheckpoints \in Nat

Conn == {"write", "sync"}
None == "none"

Other(c) == IF c = "write" THEN "sync" ELSE "write"

VARIABLES mutex,  \* coop_tx_lock: who holds it
          lock,   \* who holds SQLite's write lock
          pc,     \* what each connection is doing
          items,  \* items the sync connection has left in this operation
          held,   \* age of the current transaction (started_at)
          unit,   \* time spent in the current item, transaction or statement
          waited, \* time each connection has been waiting in BEGIN IMMEDIATE
          hits,   \* attempts at BEGIN that failed because of a checkpoint
          checkpoints

vars == <<mutex, lock, pc, items, held, unit, waited, hits, checkpoints>>

(* "lock": wants the mutex; "begin", "retry": the two attempts of          *)
(* get_tx_with_retry_on_locked; "chunk": applying items; "finish": what    *)
(* follows the last item; "whole": a transaction that is never split;      *)
(* "auto": a statement outside a transaction.                              *)
Waiting == {"begin", "retry"}
InTx    == {"chunk", "finish", "whole"}
PC      == {"idle", "lock", "after", "auto", "failed"} \cup Waiting \cup InTx

TypeOK ==
    /\ mutex \in Conn \cup {None} /\ lock \in Conn \cup {None}
    /\ pc \in [Conn -> PC]
    /\ items \in 0..MaxItems /\ held \in Nat /\ unit \in Nat
    /\ waited \in [Conn -> 0..BusyTimeout]
    /\ hits \in [Conn -> 0..2] /\ checkpoints \in 0..MaxCheckpoints

Init ==
    /\ mutex = None /\ lock = None /\ pc = [c \in Conn |-> "idle"]
    /\ items = 0 /\ held = 0 /\ unit = 0
    /\ waited = [c \in Conn |-> 0] /\ hits = [c \in Conn |-> 0]
    /\ checkpoints = MaxCheckpoints

Goto(c, label) == pc' = [pc EXCEPT ![c] = label]

(* begin_transaction: the sync connection starts either a loop over items  *)
(* with maybe_commit, or a transaction that it never splits (items = 0).   *)
Begin(c) ==
    /\ pc[c] \in {"idle", "after"}
    /\ Goto(c, "lock")
    /\ IF c = "sync" THEN items' \in 0..MaxItems ELSE UNCHANGED items
    /\ UNCHANGED <<mutex, lock, held, unit, waited, hits, checkpoints>>

(* Mutant: the guard of the mutex is dropped at once (`let _ = ...lock()`).*)
LockMutexBriefly(c) ==
    /\ pc[c] = "lock" /\ mutex = None
    /\ Goto(c, "begin")
    /\ waited' = [waited EXCEPT ![c] = 0]
    /\ hits' = [hits EXCEPT ![c] = 0]
    /\ UNCHANGED <<mutex, lock, items, held, unit, checkpoints>>

(* Mutant: try_lock, and the operation is given up when it does not succeed. *)
TryLockMutex(c) ==
    /\ pc[c] = "lock"
    /\ mutex' = IF mutex = None THEN c ELSE mutex
    /\ Goto(c, IF mutex = None THEN "begin" ELSE "idle")
    /\ waited' = [waited EXCEPT ![c] = 0]
    /\ hits' = [hits EXCEPT ![c] = 0]
    /\ UNCHANGED <<lock, items, held, unit, checkpoints>>

LockMutex(c) ==
    /\ pc[c] = "lock" /\ mutex = None
    /\ mutex' = c
    /\ Goto(c, "begin")
    /\ waited' = [waited EXCEPT ![c] = 0]
    /\ hits' = [hits EXCEPT ![c] = 0]
    /\ UNCHANGED <<lock, items, held, unit, checkpoints>>

(* BEGIN IMMEDIATE succeeds; _lock is dropped when the function returns.   *)
Acquire(c) ==
    /\ pc[c] \in Waiting /\ lock = None
    /\ lock' = c /\ mutex' = None
    /\ held' = 0 /\ unit' = 0
    /\ Goto(c, IF c = "sync" /\ items > 0 THEN "chunk" ELSE "whole")
    /\ UNCHANGED <<items, waited, hits, checkpoints>>

Retry(c) ==
    IF pc[c] = "begin"
    THEN Goto(c, "retry") /\ waited' = [waited EXCEPT ![c] = 0] /\ UNCHANGED mutex
    ELSE Goto(c, "failed") /\ mutex' = None /\ UNCHANGED waited

(* SQLITE_BUSY: the other connection kept the lock for too long, or the    *)
(* database is being checkpointed.                                         *)
TimesOut(c) == lock = Other(c) /\ waited[c] = BusyTimeout

Busy(c) ==
    /\ pc[c] \in Waiting
    /\ TimesOut(c) \/ checkpoints > 0
    /\ IF TimesOut(c) THEN UNCHANGED <<hits, checkpoints>>
       ELSE /\ checkpoints' = checkpoints - 1
            /\ hits' = [hits EXCEPT ![c] = @ + 1]
    /\ Retry(c)
    /\ UNCHANGED <<lock, items, held, unit>>

(* maybe_commit, between two items, commits an old transaction and queues  *)
(* for a new one; a young one it leaves alone.                             *)

maybe_commit ==
    IF held >= CommitAfter THEN lock' = None /\ Goto("sync", "lock")
    ELSE UNCHANGED <<lock, pc>>

NextItem ==
    /\ pc["sync"] = "chunk" /\ items > 1
    /\ maybe_commit
    /\ items' = items - 1
    /\ unit' = 0
    /\ UNCHANGED <<mutex, held, waited, hits, checkpoints>>

(* After the last item the transaction is not split (finish_incoming).     *)
LastItem ==
    /\ pc["sync"] = "chunk" /\ items = 1
    /\ Goto("sync", "finish")
    /\ items' = 0
    /\ unit' = 0
    /\ UNCHANGED <<mutex, lock, held, waited, hits, checkpoints>>

(* commit, or, after an error or an interrupt, drop, which rolls back.     *)
End(c) ==
    /\ pc[c] \in InTx
    /\ lock' = None
    /\ Goto(c, "after")
    /\ items' = IF c = "sync" THEN 0 ELSE items
    /\ UNCHANGED <<mutex, held, unit, waited, hits, checkpoints>>

(* A statement in autocommit mode takes the lock without the mutex.        *)
AutoBegin(c) ==
    /\ pc[c] = "after" /\ lock = None
    /\ lock' = c /\ unit' = 0
    /\ Goto(c, "auto")
    /\ UNCHANGED <<mutex, items, held, waited, hits, checkpoints>>

AutoEnd(c) ==
    /\ pc[c] = "auto"
    /\ lock' = None
    /\ Goto(c, "idle")
    /\ UNCHANGED <<mutex, items, held, unit, waited, hits, checkpoints>>

(* The operation returns, with Ok or with the error.                       *)
Return(c) ==
    /\ pc[c] \in {"after", "failed"}
    /\ Goto(c, "idle")
    /\ UNCHANGED <<mutex, lock, items, held, unit, waited, hits, checkpoints>>

Limit(c) == CASE pc[c] \in {"chunk", "finish"} -> UnitTime
              [] pc[c] = "whole" -> ApplyTime
              [] OTHER -> AutoTime

(* Time passes for the owner of the lock and for whoever waits for it.     *)
Tick ==
    /\ lock # None /\ unit < Limit(lock)
    /\ \A c \in Conn : /\ pc[c] = "lock" => mutex # None
                       /\ pc[c] \in Waiting => waited[c] < BusyTimeout
    /\ held' = held + 1 /\ unit' = unit + 1
    /\ waited' = [c \in Conn |-> IF pc[c] \in Waiting THEN waited[c] + 1 ELSE waited[c]]
    /\ UNCHANGED <<mutex, lock, pc, items, hits, checkpoints>>

Next ==
    \/ Tick \/ NextItem \/ LastItem
    \/ \E c \in Conn : \/ Begin(c) \/ LockMutex(c) \/ Acquire(c) \/ Busy(c)
                       \/ End(c) \/ AutoBegin(c) \/ AutoEnd(c) \/ Return(c)

Spec == Init /\ [][Next]_vars

(* Threads run: a transaction or statement comes to its end, a free lock   *)
(* is taken by the thread that waits for it.  The mutex is not fair, but   *)
(* it is free during the whole of each transaction, so that a thread that  *)
(* waits for it does not miss every opportunity.                           *)
Fairness ==
    /\ WF_vars(NextItem) /\ WF_vars(LastItem)
    /\ \A c \in Conn : /\ SF_vars(LockMutex(c)) /\ WF_vars(Acquire(c))
                       /\ WF_vars(End(c)) /\ WF_vars(AutoEnd(c))

FairSpec == Spec /\ Fairness

-----------------------------------------------------------------------------
(* While a connection waits for the write lock, the other one does not     *)
(* begin a transaction: the waiting one is next (the purpose of the mutex).*)
WaiterIsNext ==
    [][\A c \in Conn : pc[c] \in Waiting /\ lock # Other(c)
                         => ~(lock' = Other(c) /\ pc'[Other(c)] \in InTx)]_vars

(* The longest a connection can be kept waiting, in the code's terms: a    *)
(* chunk may be just short of commit_after when its last item starts.      *)
LongestTx == IF CommitAfter - 1 + 2 * UnitTime > ApplyTime
             THEN CommitAfter - 1 + 2 * UnitTime ELSE ApplyTime

(* Only checkpoints make a transaction fail: the chunks of the sync        *)
(* connection are short enough for the busy timeout, and one retry gets    *)
(* over one checkpoint.                                                    *)
OnlyCheckpointsFail ==
    \A c \in Conn : /\ pc[c] = "retry" => hits[c] >= 1
                    /\ pc[c] = "failed" => hits[c] >= 2

(* Whoever wants a transaction gets one, or an error.                      *)
EventuallyServed ==
    \A c \in Conn : pc[c] = "lock" ~> pc[c] \in InTx \cup {"failed"}

(* What the module's documentation says of the mutex: the lock goes to the *)
(* waiting connection next.  A statement in autocommit mode can take it.   *)
WaiterGetsLock ==
    [][\A c \in Conn : pc[c] \in Waiting /\ lock # Other(c) => lock' # Other(c)]_vars
=============================================================================

------------------------ MODULE CoopTransactionProofs ------------------------
(***************************************************************************)
(* Proofs about the cooperative transactions, for all durations and any    *)
(* number of items and checkpoints.                                        *)
(***************************************************************************)
EXTENDS CoopTransaction, TLAPS

(* Who holds what follows from where each connection is.                   *)
Owners ==
    \A c \in Conn : /\ mutex = c <=> pc[c] \in Waiting
                    /\ lock = c <=> pc[c] \in InTx \cup {"auto"}

Attempts ==
    \A c \in Conn : /\ pc[c] = "begin" => hits[c] = 0
                    /\ pc[c] = "retry" => hits[c] <= 1

TypeInv == TypeOK /\ Owners /\ Attempts

LEMMA InitTypeInv == Init => TypeInv
BY DurationsAssumption DEF Init, TypeInv, TypeOK, Owners, Attempts, PC, Conn, None, Waiting, InTx

LEMMA NextTypeInv == TypeInv /\ [Next]_vars => TypeInv'
<1> SUFFICES ASSUME TypeInv, [Next]_vars PROVE TypeInv'
  OBVIOUS
<1> USE DurationsAssumption DEF TypeInv, TypeOK, Owners, Attempts, Conn, None, Waiting, InTx, PC, Goto
<1>1. CASE Tick
  BY <1>1 DEF Tick
<1>2. CASE NextItem
  BY <1>2 DEF NextItem, maybe_commit
<1>3. CASE LastItem
  BY <1>3 DEF LastItem
<1>4. ASSUME NEW c \in Conn, Begin(c) PROVE TypeInv'
  BY <1>4 DEF Begin
<1>5. ASSUME NEW c \in Conn, LockMutex(c) PROVE TypeInv'
  BY <1>5 DEF LockMutex
<1>6. ASSUME NEW c \in Conn, Acquire(c) PROVE TypeInv'
  BY <1>6 DEF Acquire
<1>7. ASSUME NEW c \in Conn, Busy(c) PROVE TypeInv'
  <2>1. CASE TimesOut(c)
    BY <1>7, <2>1 DEF Busy, Retry
  <2>2. CASE ~TimesOut(c)
    BY <1>7, <2>2 DEF Busy, Retry
  <2> QED BY <2>1, <2>2
<1>8. ASSUME NEW c \in Conn, End(c) PROVE TypeInv'
  BY <1>8 DEF End
<1>9. ASSUME NEW c \in Conn, AutoBegin(c) PROVE TypeInv'
  BY <1>9 DEF AutoBegin
<1>10. ASSUME NEW c \in Conn, AutoEnd(c) PROVE TypeInv'
  BY <1>10 DEF AutoEnd
<1>11. ASSUME NEW c \in Conn, Return(c) PROVE TypeInv'
  BY <1>11 DEF Return
<1>12. CASE UNCHANGED vars
  BY <1>12 DEF vars
<1> QED
  BY <1>1, <1>2, <1>3, <1>4, <1>5, <1>6, <1>7, <1>8, <1>9, <1>10, <1>11, <1>12 DEF Next

(* Every reachable state is well typed, and the mutex and the write lock   *)
(* are held exactly where the code holds them.                             *)
THEOREM CoopTypeCorrect == Spec => []TypeInv
BY InitTypeInv, NextTypeInv, PTL DEF Spec

(* The connection that waits for the write lock begins the next            *)
(* transaction: the other one needs the mutex first.                       *)
THEOREM NextInLine == Spec => WaiterIsNext
<1>1. ASSUME TypeInv, [Next]_vars,
             NEW c \in Conn, pc[c] \in Waiting, lock # Other(c)
      PROVE  ~(lock' = Other(c) /\ pc'[Other(c)] \in InTx)
  <2> USE DEF TypeInv, TypeOK, Owners, Conn, None, Waiting, InTx, PC, Goto, Other
  <2>0. mutex = c /\ lock = None /\ pc[Other(c)] \notin Waiting \cup InTx \cup {"auto"}
    BY <1>1
  <2>1. CASE Tick \/ NextItem \/ LastItem \/ UNCHANGED vars
    BY <1>1, <2>0, <2>1 DEF Tick, NextItem, LastItem, vars
  <2>2. ASSUME NEW d \in Conn,
               Begin(d) \/ LockMutex(d) \/ Acquire(d) \/ End(d)
                 \/ AutoBegin(d) \/ AutoEnd(d) \/ Return(d)
        PROVE  ~(lock' = Other(c) /\ pc'[Other(c)] \in InTx)
    BY <1>1, <2>0, <2>2 DEF Begin, LockMutex, Acquire, End, AutoBegin, AutoEnd, Return
  <2>3. ASSUME NEW d \in Conn, Busy(d) PROVE lock' # Other(c)
    BY <1>1, <2>0, <2>3 DEF Busy
  <2> QED
    BY <1>1, <2>1, <2>2, <2>3 DEF Next
<1>2. TypeInv /\ [Next]_vars
        => [\A c \in Conn : pc[c] \in Waiting /\ lock # Other(c)
              => ~(lock' = Other(c) /\ pc'[Other(c)] \in InTx)]_vars
  BY <1>1
<1> QED
  BY <1>2, CoopTypeCorrect, PTL DEF Spec, WaiterIsNext

-----------------------------------------------------------------------------
(* How long transactions last, and how long the other connection has been  *)
(* waiting when they are where they are.                                   *)

Ages ==
    /\ pc["sync"] = "chunk" => held <= CommitAfter - 1 + unit /\ unit <= UnitTime
    /\ pc["write"] \notin {"chunk", "finish"}
    /\ pc["sync"] = "finish" => held <= CommitAfter - 1 + UnitTime + unit /\ unit <= UnitTime
    /\ \A c \in Conn : /\ pc[c] = "whole" => held = unit /\ unit <= ApplyTime
                       /\ pc[c] = "auto" => unit <= AutoTime

WaitBound(c) ==
    LET o == Other(c)
    IN  CASE pc[o] \in InTx -> held
          [] pc[o] = "after" -> LongestTx
          [] pc[o] = "auto" -> LongestTx + unit
          [] OTHER -> LongestTx + AutoTime

Waits == \A c \in Conn : pc[c] \in Waiting => waited[c] <= WaitBound(c)

TimeInv == TypeInv /\ Ages /\ Waits /\ OnlyCheckpointsFail

(* The busy timeout exceeds the longest transaction and one statement.     *)
TimeoutSuffices == LongestTx + AutoTime < BusyTimeout

LEMMA LongestTxBounds ==
    /\ LongestTx \in Int
    /\ CommitAfter - 1 + 2 * UnitTime <= LongestTx
    /\ ApplyTime <= LongestTx
BY DurationsAssumption DEF LongestTx

LEMMA InitTimeInv == Init => TimeInv
BY InitTypeInv DEF Init, TimeInv, Ages, Waits, OnlyCheckpointsFail, Conn, Waiting

LEMMA AgesBound == 
    ASSUME TypeInv, Ages, NEW c \in Conn, pc[c] \in InTx
    PROVE  held <= LongestTx
BY DurationsAssumption, LongestTxBounds DEF TypeInv, TypeOK, Ages, Conn, InTx

LEMMA NextAges == TypeInv /\ Ages /\ [Next]_vars => Ages'
<1> SUFFICES ASSUME TypeInv, Ages, [Next]_vars PROVE Ages'
  OBVIOUS
<1> USE DurationsAssumption DEF TypeInv, TypeOK, Owners, Ages, Conn, None, Waiting, InTx, PC, Goto
<1>1. CASE Tick
  BY <1>1 DEF Tick, Limit
<1>2. CASE NextItem
  BY <1>2 DEF NextItem, maybe_commit
<1>3. CASE LastItem
  BY <1>3 DEF LastItem
<1>4. ASSUME NEW c \in Conn,
             Begin(c) \/ LockMutex(c) \/ End(c) \/ AutoEnd(c) \/ Return(c)
      PROVE  Ages'
  BY <1>4 DEF Begin, LockMutex, End, AutoEnd, Return
<1>5. ASSUME NEW c \in Conn, Acquire(c) PROVE Ages'
  BY <1>5 DEF Acquire
<1>6. ASSUME NEW c \in Conn, Busy(c) PROVE Ages'
  BY <1>6 DEF Busy, Retry
<1>7. ASSUME NEW c \in Conn, AutoBegin(c) PROVE Ages'
  BY <1>7 DEF AutoBegin
<1>8. CASE UNCHANGED vars
  BY <1>8 DEF vars
<1> QED
  BY <1>1, <1>2, <1>3, <1>4, <1>5, <1>6, <1>7, <1>8 DEF Next

LEMMA NextWaits ==
    ASSUME TypeInv, Ages, Waits, [Next]_vars PROVE Waits'
<1> USE DurationsAssumption, LongestTxBounds
    DEF TypeInv, TypeOK, Owners, Ages, Waits, WaitBound, Conn, None, Waiting, InTx, PC, Goto, Other
<1>1. CASE Tick
  BY <1>1 DEF Tick, Limit
<1>2. CASE NextItem
  BY <1>2, AgesBound DEF NextItem, maybe_commit
<1>3. CASE LastItem
  BY <1>3 DEF LastItem
<1>4. ASSUME NEW c \in Conn, Begin(c) \/ LockMutex(c) \/ Return(c) PROVE Waits'
  BY <1>4 DEF Begin, LockMutex, Return
<1>5. ASSUME NEW c \in Conn, Acquire(c) PROVE Waits'
  BY <1>5 DEF Acquire
<1>6. ASSUME NEW c \in Conn, Busy(c) PROVE Waits'
  BY <1>6 DEF Busy, Retry
<1>7. ASSUME NEW c \in Conn, End(c) PROVE Waits'
  BY <1>7, AgesBound DEF End
<1>8. ASSUME NEW c \in Conn, AutoBegin(c) \/ AutoEnd(c) PROVE Waits'
  BY <1>8 DEF AutoBegin, AutoEnd
<1>9. CASE UNCHANGED vars
  BY <1>9 DEF vars
<1> QED
  BY <1>1, <1>2, <1>3, <1>4, <1>5, <1>6, <1>7, <1>8, <1>9 DEF Next

(* A waiting connection does not time out.                                 *)
LEMMA NoTimeout ==
    ASSUME TimeoutSuffices, TypeInv, Ages, Waits, NEW c \in Conn, pc[c] \in Waiting
    PROVE  ~TimesOut(c)
<1>1. pc[Other(c)] \in InTx => held <= LongestTx
  BY AgesBound DEF Conn, Other
<1> QED
  BY <1>1, DurationsAssumption, LongestTxBounds
  DEF TimeoutSuffices, TimesOut, TypeInv, TypeOK, Owners, Ages, Waits, WaitBound,
      Conn, Other, InTx, Waiting, PC

LEMMA NextTimeInv ==
    ASSUME TimeoutSuffices PROVE TimeInv /\ [Next]_vars => TimeInv'
<1> SUFFICES ASSUME TimeInv, [Next]_vars PROVE TimeInv'
  OBVIOUS
<1>1. TypeInv' /\ Ages' /\ Waits'
  BY NextTypeInv, NextAges, NextWaits DEF TimeInv
<1>2. OnlyCheckpointsFail'
  <2> USE DEF TimeInv, TypeInv, TypeOK, Attempts, OnlyCheckpointsFail, Conn, Waiting, InTx, PC, Goto
  <2>1. ASSUME NEW c \in Conn, Busy(c) PROVE OnlyCheckpointsFail'
    <3>1. ~TimesOut(c)
      BY <2>1, NoTimeout DEF Busy
    <3> QED BY <2>1, <3>1 DEF Busy, Retry
  <2>2. CASE Tick \/ NextItem \/ LastItem \/ UNCHANGED vars
    BY <2>2 DEF Tick, NextItem, maybe_commit, LastItem, vars
  <2>3. ASSUME NEW c \in Conn,
               Begin(c) \/ LockMutex(c) \/ Acquire(c) \/ End(c)
                 \/ AutoBegin(c) \/ AutoEnd(c) \/ Return(c)
        PROVE  OnlyCheckpointsFail'
    BY <2>3 DEF Begin, LockMutex, Acquire, End, AutoBegin, AutoEnd, Return
  <2> QED
    BY <2>1, <2>2, <2>3 DEF Next
<1> QED
  BY <1>1, <1>2 DEF TimeInv

(* When commit_after, two items and one statement together, and every      *)
(* unsplit transaction and one statement together, are shorter than        *)
(* SQLite's busy timeout, no transaction ever fails because of the other   *)
(* connection, and none fails because of a single checkpoint.              *)
THEOREM ChunksAreShortEnough ==
    ASSUME TimeoutSuffices PROVE Spec => []OnlyCheckpointsFail
<1>1. Init => TimeInv
  BY InitTimeInv
<1>2. TimeInv /\ [Next]_vars => TimeInv'
  BY NextTimeInv
<1>3. TimeInv => OnlyCheckpointsFail
  BY DEF TimeInv
<1> QED
  BY <1>1, <1>2, <1>3, PTL DEF Spec
=============================================================================

--------------------------- MODULE LoginDbProofs ---------------------------
(***************************************************************************)
(* Lemmas about one logins database: every operation of LoginDb keeps      *)
(* DbInv, and what it does to the mirror.                                  *)
(***************************************************************************)
EXTENDS LoginDb, TLAPS

(* Nothing the server knows of has changed: a purely local operation.      *)
SameMirror(d, e) ==
    /\ e.lastSync = d.lastSync
    /\ e.assoc = d.assoc
    /\ \A g \in Guid : Mirrored(e, g) = Mirrored(d, g)

USE DEF Synced, Changed, New, Time

-----------------------------------------------------------------------------
(* The operations of LoginDb keep DbInv.                                   *)

(* Cloning a mirror row into the overlay, as update and touch do first.    *)
LEMMA OverlayRow ==
    ASSUME NEW d, DbInv(d), NEW g \in Guid, CanOverlay(d, g)
    PROVE  /\ ensure_local_overlay_exists(d, g) \in [Guid -> LocalRow \cup {NoRow}]
           /\ ensure_local_overlay_exists(d, g)[g] \in LocalRow
           /\ \A h \in Guid : h # g => ensure_local_overlay_exists(d, g)[h] = d.L[h]
           /\ d.L[g] # NoRow => ensure_local_overlay_exists(d, g)[g] = d.L[g]
           /\ d.L[g] = NoRow => /\ ensure_local_overlay_exists(d, g)[g]
                                      = Overlay(d.M[g], FALSE, Synced)
                                /\ d.M[g] \in MirrorRow
<1>1. d \in Db
  BY DEF DbInv
<1>2. CASE d.L[g] # NoRow
  BY <1>1, <1>2 DEF Db, ensure_local_overlay_exists
<1>3. CASE d.L[g] = NoRow
  <2>1. d.M[g] \in MirrorRow
    BY <1>1, <1>3 DEF Db, CanOverlay
  <2>2. Overlay(d.M[g], FALSE, Synced) \in LocalRow
    BY <2>1 DEF MirrorRow, LocalRow, Overlay
  <2> QED
    BY <1>1, <1>3, <2>1, <2>2 DEF Db, ensure_local_overlay_exists
<1> QED
  BY <1>2, <1>3

LEMMA MirrorRowFacts ==
    ASSUME NEW r \in MirrorRow \cup Login, NEW b \in BOOLEAN, NEW s \in {Synced, Changed, New}
    PROVE  /\ LoginOf(r) \in Login
           /\ MirrorOf(r, b) \in MirrorRow
           /\ MirrorOf(r, b) # NoRow
           /\ LoginOf(MirrorOf(r, b)) = LoginOf(r)
           /\ MirrorOf(r, b).ov = b
           /\ Overlay(r, b, s) \in LocalRow
           /\ Overlay(r, b, s) # NoRow
           /\ Overlay(r, b, s).st = s
           /\ Overlay(r, b, s).del = b
           /\ LoginOf(Overlay(r, b, s)) = LoginOf(r)
<1>1. r.key \in Key /\ r.pw \in Pw /\ r.tpc \in Time
  BY DEF MirrorRow, Login
<1>2. MirrorOf(r, b) \in MirrorRow /\ Overlay(r, b, s) \in LocalRow
  BY <1>1 DEF MirrorOf, Overlay, MirrorRow, LocalRow
<1> QED
  BY <1>1, <1>2, LoginDbAssumption DEF MirrorOf, Overlay, LoginOf, Login

LEMMA LocalRowFacts ==
    ASSUME NEW r \in LocalRow, NEW b \in BOOLEAN, NEW s \in {Synced, Changed, New}
    PROVE  /\ Overlay(r, b, s) \in LocalRow
           /\ Overlay(r, b, s) # NoRow
           /\ Overlay(r, b, s).st = s
           /\ Overlay(r, b, s).del = b
           /\ LoginOf(Overlay(r, b, s)) = LoginOf(r)
<1>1. Overlay(r, b, s) \in LocalRow
  BY DEF Overlay, LocalRow
<1> QED
  BY <1>1, LoginDbAssumption DEF Overlay, LoginOf

LEMMA UploadedRowFacts ==
    ASSUME NEW r \in LocalRow, LoginOf(r) \in Login, NEW b \in BOOLEAN
    PROVE  /\ MirrorOf(r, b) \in MirrorRow
           /\ MirrorOf(r, b) # NoRow
           /\ LoginOf(MirrorOf(r, b)) = LoginOf(r)
<1>1. MirrorOf(r, b) \in MirrorRow
  BY DEF MirrorOf, MirrorRow, LoginOf, Login
<1> QED
  BY <1>1, LoginDbAssumption DEF MirrorOf, LoginOf

LEMMA TombstoneFacts ==
    /\ \A t \in Time : /\ NewTombstone(t) \in LocalRow
                        /\ NewTombstone(t).del
                        /\ NewTombstone(t).st = Changed
    /\ \A r \in LocalRow : /\ Blanked(r) \in LocalRow
                            /\ Blanked(r).del
                            /\ Blanked(r).st = Changed
  BY DEF NewTombstone, Blanked, Overlay, LocalRow

LEMMA OverriddenMirror ==
    ASSUME NEW d \in Db, NEW g \in Guid
    PROVE  /\ mark_mirror_overridden(d.M, g) \in [Guid -> MirrorRow \cup {NoRow}]
           /\ \A h \in Guid : mark_mirror_overridden(d.M, g)[h] = NoRow <=> d.M[h] = NoRow
           /\ \A h \in Guid : d.M[h] # NoRow =>
                  LoginOf(mark_mirror_overridden(d.M, g)[h]) = LoginOf(d.M[h])
<1>1. d.M \in [Guid -> MirrorRow \cup {NoRow}]
  BY DEF Db
<1>2. CASE d.M[g] = NoRow
  BY <1>1, <1>2 DEF mark_mirror_overridden
<1>3. CASE d.M[g] # NoRow
  <2>1. /\ MirrorOf(d.M[g], TRUE) \in MirrorRow
        /\ MirrorOf(d.M[g], TRUE) # NoRow
        /\ LoginOf(MirrorOf(d.M[g], TRUE)) = LoginOf(d.M[g])
    BY <1>1, <1>3, MirrorRowFacts
  <2> QED
    BY <1>1, <1>3, <2>1 DEF mark_mirror_overridden
<1> QED
  BY <1>2, <1>3

(* Enough to show that an operation keeps DbInv and the mirror contents.   *)
LEMMA LocalOperation ==
    ASSUME NEW d, DbInv(d),
           NEW L \in [Guid -> LocalRow \cup {NoRow}],
           NEW M \in [Guid -> MirrorRow \cup {NoRow}],
           \A g \in Guid : M[g] = NoRow <=> d.M[g] = NoRow,
           \A g \in Guid : d.M[g] # NoRow => LoginOf(M[g]) = LoginOf(d.M[g]),
           \A g \in Guid : (L[g] # NoRow /\ L[g].st # New) => d.M[g] # NoRow,
           \A g \in Guid : (L[g] # NoRow /\ ~L[g].del) => LoginOf(L[g]) \in Login
    PROVE  DbInv(WithTables(d, L, M)) /\ SameMirror(d, WithTables(d, L, M))
<1>1. WithTables(d, L, M) \in Db
  BY DEF DbInv, Db, WithTables
<1>2. WithTables(d, L, M).L = L /\ WithTables(d, L, M).M = M
  BY DEF WithTables
<1>3. DbInv(WithTables(d, L, M))
  BY <1>1, <1>2 DEF DbInv, LiveLocal
<1>4. SameMirror(d, WithTables(d, L, M))
  BY <1>2 DEF SameMirror, Mirrored, WithTables
<1> QED
  BY <1>3, <1>4

(* DbInv spelled out, row by row.                                          *)
LEMMA DbFacts ==
    ASSUME NEW d, DbInv(d)
    PROVE  /\ d.L \in [Guid -> LocalRow \cup {NoRow}]
           /\ d.M \in [Guid -> MirrorRow \cup {NoRow}]
           /\ d.lastSync \in Nat
           /\ d.assoc \in Nat \cup {Disconnected}
           /\ \A h \in Guid : (d.L[h] # NoRow /\ d.L[h].st # New) => d.M[h] # NoRow
           /\ \A h \in Guid : (d.L[h] # NoRow /\ ~d.L[h].del) => LoginOf(d.L[h]) \in Login
<1>1. d \in Db
  BY DEF DbInv
<1> QED
  BY <1>1 DEF DbInv, Db, LiveLocal

LEMMA AddKeeps ==
    ASSUME NEW d, DbInv(d), NEW g \in Guid, NEW k \in Key, NEW p \in Pw, NEW t \in Time
    PROVE  DbInv(add(d, g, k, p, t)) /\ SameMirror(d, add(d, g, k, p, t))
<1> DEFINE login == [key |-> k, pw |-> p, tpc |-> t]
           row == Overlay(login, FALSE, New)
<1>1. login \in Login
  BY DEF Login
<1>2. row \in LocalRow /\ row.st = New /\ LoginOf(row) \in Login
  <2> HIDE DEF login
  <2> QED  BY <1>1, MirrorRowFacts
<1>3. add(d, g, k, p, t) = WithTables(d, [d.L EXCEPT ![g] = row], d.M)
  BY DEF add
<1> HIDE DEF row
<1> DEFINE L == [d.L EXCEPT ![g] = row]
<1>4. /\ L \in [Guid -> LocalRow \cup {NoRow}]
      /\ \A h \in Guid : (L[h] # NoRow /\ L[h].st # New) => d.M[h] # NoRow
      /\ \A h \in Guid : (L[h] # NoRow /\ ~L[h].del) => LoginOf(L[h]) \in Login
  BY <1>2, DbFacts
<1> HIDE DEF L
<1> QED
  BY <1>3, <1>4, DbFacts, LocalOperation DEF L

LEMMA UpdateKeeps ==
    ASSUME NEW d, DbInv(d), NEW g \in Guid, CanOverlay(d, g),
           NEW k \in Key, NEW p \in Pw, NEW t \in Time
    PROVE  DbInv(update(d, g, k, p, t)) /\ SameMirror(d, update(d, g, k, p, t))
<1> DEFINE O == ensure_local_overlay_exists(d, g)
           row == [key |-> k, pw |-> p,
                   tpc |-> IF O[g].pw = p THEN O[g].tpc ELSE t,
                   del |-> O[g].del,
                   st  |-> IF O[g].st = New THEN New ELSE Changed]
           L == [O EXCEPT ![g] = row]
           M == mark_mirror_overridden(d.M, g)
<1>1. update(d, g, k, p, t) = WithTables(d, L, M)
  BY DEF update
<1>2. /\ O \in [Guid -> LocalRow \cup {NoRow}]
      /\ O[g] \in LocalRow
      /\ \A h \in Guid : h # g => O[h] = d.L[h]
      /\ d.L[g] # NoRow => O[g] = d.L[g]
      /\ d.L[g] = NoRow => O[g] = Overlay(d.M[g], FALSE, Synced) /\ d.M[g] \in MirrorRow
  BY OverlayRow
<1> HIDE DEF O
<1>3. row \in LocalRow /\ LoginOf(row) \in Login
  BY <1>2 DEF LocalRow, LoginOf, Login
<1>4. row.st # New => d.M[g] # NoRow
  <2>1. CASE d.L[g] # NoRow
    BY <1>2, <2>1, DbFacts
  <2>2. CASE d.L[g] = NoRow
    BY <1>2, <2>2, LoginDbAssumption
  <2> QED
    BY <2>1, <2>2
<1> HIDE DEF row
<1>5. /\ L \in [Guid -> LocalRow \cup {NoRow}]
      /\ \A h \in Guid : (L[h] # NoRow /\ L[h].st # New) => d.M[h] # NoRow
      /\ \A h \in Guid : (L[h] # NoRow /\ ~L[h].del) => LoginOf(L[h]) \in Login
  BY <1>2, <1>3, <1>4, DbFacts
<1>6. /\ M \in [Guid -> MirrorRow \cup {NoRow}]
      /\ \A h \in Guid : M[h] = NoRow <=> d.M[h] = NoRow
      /\ \A h \in Guid : d.M[h] # NoRow => LoginOf(M[h]) = LoginOf(d.M[h])
  BY OverriddenMirror DEF DbInv
<1> HIDE DEF L, M
<1> QED
  BY <1>1, <1>5, <1>6, LocalOperation

LEMMA TouchKeeps ==
    ASSUME NEW d, DbInv(d), NEW g \in Guid, CanOverlay(d, g)
    PROVE  DbInv(touch(d, g)) /\ SameMirror(d, touch(d, g))
<1> DEFINE L == ensure_local_overlay_exists(d, g)
           M == mark_mirror_overridden(d.M, g)
<1>1. touch(d, g) = WithTables(d, L, M)
  BY DEF touch
<1>2. /\ L \in [Guid -> LocalRow \cup {NoRow}]
      /\ \A h \in Guid : h # g => L[h] = d.L[h]
      /\ d.L[g] # NoRow => L[g] = d.L[g]
      /\ d.L[g] = NoRow => L[g] = Overlay(d.M[g], FALSE, Synced) /\ d.M[g] \in MirrorRow
  BY OverlayRow
<1> HIDE DEF L
<1>3. d.L[g] = NoRow => d.M[g] # NoRow /\ LoginOf(L[g]) \in Login
  BY <1>2, MirrorRowFacts, LoginDbAssumption
<1>4. /\ \A h \in Guid : (L[h] # NoRow /\ L[h].st # New) => d.M[h] # NoRow
      /\ \A h \in Guid : (L[h] # NoRow /\ ~L[h].del) => LoginOf(L[h]) \in Login
  BY <1>2, <1>3, DbFacts
<1>5. /\ M \in [Guid -> MirrorRow \cup {NoRow}]
      /\ \A h \in Guid : M[h] = NoRow <=> d.M[h] = NoRow
      /\ \A h \in Guid : d.M[h] # NoRow => LoginOf(M[h]) = LoginOf(d.M[h])
  BY OverriddenMirror DEF DbInv
<1> HIDE DEF M
<1> QED
  BY <1>1, <1>2, <1>4, <1>5, LocalOperation

LEMMA DeleteKeeps ==
    ASSUME NEW d, DbInv(d), NEW g \in Guid, NEW t \in Time
    PROVE  DbInv(delete(d, g, t)) /\ SameMirror(d, delete(d, g, t))
<1> DEFINE row == IF Known(d, g) THEN Blanked(d.L[g])
                  ELSE IF d.M[g] # NoRow THEN NewTombstone(t) ELSE NoRow
           L == [d.L EXCEPT ![g] = row]
           M == mark_mirror_overridden(d.M, g)
<1>1. delete(d, g, t) = WithTables(d, L, M)
  BY DEF delete
<1>2. row # NoRow => row \in LocalRow /\ row.del /\ d.M[g] # NoRow
  BY TombstoneFacts, DbFacts DEF Known
<1> HIDE DEF row
<1>3. /\ L \in [Guid -> LocalRow \cup {NoRow}]
      /\ \A h \in Guid : (L[h] # NoRow /\ L[h].st # New) => d.M[h] # NoRow
      /\ \A h \in Guid : (L[h] # NoRow /\ ~L[h].del) => LoginOf(L[h]) \in Login
  BY <1>2, DbFacts
<1>4. /\ M \in [Guid -> MirrorRow \cup {NoRow}]
      /\ \A h \in Guid : M[h] = NoRow <=> d.M[h] = NoRow
      /\ \A h \in Guid : d.M[h] # NoRow => LoginOf(M[h]) = LoginOf(d.M[h])
  BY OverriddenMirror DEF DbInv
<1> HIDE DEF L, M
<1> QED
  BY <1>1, <1>3, <1>4, LocalOperation

LEMMA WipeKeeps ==
    ASSUME NEW d, DbInv(d), NEW t \in Time
    PROVE  DbInv(wipe(d, t)) /\ SameMirror(d, wipe(d, t))
<1> DEFINE row(g) == IF Known(d, g)
                     THEN IF d.L[g].del THEN d.L[g] ELSE Blanked(d.L[g])
                     ELSE IF d.M[g] # NoRow THEN NewTombstone(t) ELSE NoRow
           mirror(g) == IF d.M[g] = NoRow THEN NoRow ELSE MirrorOf(d.M[g], TRUE)
           L == [g \in Guid |-> row(g)]
           M == [g \in Guid |-> mirror(g)]
<1>1. wipe(d, t) = WithTables(d, L, M)
  BY DEF wipe
<1>2. \A g \in Guid : row(g) # NoRow => row(g) \in LocalRow /\ row(g).del /\ d.M[g] # NoRow
  BY TombstoneFacts, DbFacts DEF Known
<1>3. \A g \in Guid : d.M[g] # NoRow => /\ mirror(g) \in MirrorRow
                                       /\ mirror(g) # NoRow
                                       /\ LoginOf(mirror(g)) = LoginOf(d.M[g])
  <2> SUFFICES ASSUME NEW g \in Guid, d.M[g] # NoRow
               PROVE  /\ MirrorOf(d.M[g], TRUE) \in MirrorRow
                      /\ MirrorOf(d.M[g], TRUE) # NoRow
                      /\ LoginOf(MirrorOf(d.M[g], TRUE)) = LoginOf(d.M[g])
    OBVIOUS
  <2>1. d.M[g] \in MirrorRow
    BY DbFacts
  <2> QED
    BY <2>1, MirrorRowFacts
<1>4. \A g \in Guid : d.M[g] = NoRow => mirror(g) = NoRow
  OBVIOUS
<1> HIDE DEF row, mirror
<1>5. /\ L \in [Guid -> LocalRow \cup {NoRow}]
      /\ \A h \in Guid : (L[h] # NoRow /\ L[h].st # New) => d.M[h] # NoRow
      /\ \A h \in Guid : (L[h] # NoRow /\ ~L[h].del) => LoginOf(L[h]) \in Login
  BY <1>2
<1>6. /\ M \in [Guid -> MirrorRow \cup {NoRow}]
      /\ \A h \in Guid : M[h] = NoRow <=> d.M[h] = NoRow
      /\ \A h \in Guid : d.M[h] # NoRow => LoginOf(M[h]) = LoginOf(d.M[h])
  BY <1>3, <1>4
<1> HIDE DEF L, M
<1> QED
  BY <1>1, <1>5, <1>6, LocalOperation

LEMMA EmptyKeeps == DbInv(EmptyDb)
  BY DEF DbInv, EmptyDb, Db, LiveLocal

(* reset leaves an empty mirror behind, and nothing that claims otherwise. *)
LEMMA ResetKeeps ==
    ASSUME NEW d, DbInv(d), NEW a \in Nat \cup {Disconnected}
    PROVE  /\ DbInv(reset(d, a))
           /\ reset(d, a).lastSync = 0
           /\ reset(d, a).assoc = a
           /\ \A g \in Guid : Mirrored(reset(d, a), g) = NoRow
<1> DEFINE cloned(g) == IF d.L[g] # NoRow THEN Overlay(d.L[g], d.L[g].del, New)
                        ELSE IF d.M[g] # NoRow THEN Overlay(d.M[g], FALSE, New)
                        ELSE NoRow
           L == [g \in Guid |-> cloned(g)]
           M == [g \in Guid |-> NoRow]
<1>1. reset(d, a) = [L |-> L, M |-> M, lastSync |-> 0, assoc |-> a]
  BY DEF reset
<1>2. ASSUME NEW g \in Guid, cloned(g) # NoRow
      PROVE  /\ cloned(g) \in LocalRow
             /\ cloned(g).st = New
             /\ ~cloned(g).del => LoginOf(cloned(g)) \in Login
  <2>1. CASE d.L[g] # NoRow
    <3>1. d.L[g] \in LocalRow
      BY <2>1, DbFacts
    <3>2. d.L[g].del \in BOOLEAN
      BY <3>1 DEF LocalRow
    <3>3. cloned(g) = Overlay(d.L[g], d.L[g].del, New)
      BY <2>1
    <3> HIDE DEF cloned
    <3>4. /\ cloned(g) \in LocalRow
          /\ cloned(g).st = New
          /\ cloned(g).del = d.L[g].del
          /\ LoginOf(cloned(g)) = LoginOf(d.L[g])
      BY <3>1, <3>2, <3>3, LocalRowFacts
    <3>5. ~d.L[g].del => LoginOf(d.L[g]) \in Login
      BY <2>1, DbFacts
    <3> QED
      BY <3>4, <3>5
  <2>2. CASE d.L[g] = NoRow
    <3>1. d.M[g] \in MirrorRow
      BY <1>2, <2>2, DbFacts
    <3>2. cloned(g) = Overlay(d.M[g], FALSE, New)
      BY <1>2, <2>2
    <3> HIDE DEF cloned
    <3> QED
      BY <3>1, <3>2, MirrorRowFacts
  <2> QED
    BY <2>1, <2>2
<1> HIDE DEF cloned
<1>3. /\ L \in [Guid -> LocalRow \cup {NoRow}]
      /\ \A h \in Guid : L[h] # NoRow => L[h].st = New
      /\ \A h \in Guid : (L[h] # NoRow /\ ~L[h].del) => LoginOf(L[h]) \in Login
  BY <1>2
<1>4. M \in [Guid -> MirrorRow \cup {NoRow}] /\ \A h \in Guid : M[h] = NoRow
  OBVIOUS
<1> HIDE DEF L, M
<1>5. reset(d, a) \in Db
  BY <1>1, <1>3, <1>4 DEF Db
<1>6. /\ reset(d, a).L = L /\ reset(d, a).M = M
      /\ reset(d, a).lastSync = 0 /\ reset(d, a).assoc = a
  BY <1>1
<1>7. DbInv(reset(d, a))
  BY <1>3, <1>5, <1>6 DEF DbInv, LiveLocal
<1> QED
  BY <1>4, <1>6, <1>7 DEF Mirrored

LEMMA MergedRowFacts ==
    ASSUME NEW r \in LocalRow, NEW m \in MirrorRow, NEW u \in Login, NEW b \in BOOLEAN
    PROVE  /\ MergedRow(r, m, u, b) \in LocalRow
           /\ MergedRow(r, m, u, b).del = r.del
           /\ LoginOf(r) \in Login => LoginOf(MergedRow(r, m, u, b)) \in Login
<1>1. /\ r.key \in Key \cup {EmptyText} /\ r.pw \in Pw \cup {EmptyText}
      /\ r.tpc \in Time /\ r.del \in BOOLEAN
      /\ m.key \in Key /\ m.pw \in Pw /\ m.tpc \in Time
      /\ u.key \in Key /\ u.pw \in Pw /\ u.tpc \in Time
  BY DEF LocalRow, MirrorRow, Login
<1>2. /\ Unset \notin Key \cup {EmptyText} /\ Unset \notin Pw \cup {EmptyText}
      /\ Unset \notin Int
  BY LoginDbAssumption, UnsetAssumption
<1>3. /\ MergeText(r.key, m.key, u.key, b) \in {r.key, m.key, u.key}
      /\ MergeText(r.key, m.key, u.key, b) = m.key => m.key \in Key
      /\ MergeText(r.pw, m.pw, u.pw, b) \in {r.pw, m.pw, u.pw}
  BY <1>1, <1>2 DEF MergeText, ApplyField, MergeField, TextDelta
<1>4. MergeTime(r.tpc, m.tpc, u.tpc, b) \in Time
  BY <1>1, <1>2 DEF MergeTime, ApplyField, MergeField, TimeDelta
<1>5. LoginOf(r) \in Login => r.key \in Key /\ r.pw \in Pw
  BY DEF LoginOf, Login
<1>6. /\ MergedRow(r, m, u, b).key = MergeText(r.key, m.key, u.key, b)
      /\ MergedRow(r, m, u, b).pw = MergeText(r.pw, m.pw, u.pw, b)
      /\ MergedRow(r, m, u, b).tpc = MergeTime(r.tpc, m.tpc, u.tpc, b)
      /\ MergedRow(r, m, u, b).del = r.del
  BY DEF MergedRow
<1>7. MergedRow(r, m, u, b) \in LocalRow
  <2>1. MergeText(r.key, m.key, u.key, b) \in Key \cup {EmptyText}
    BY <1>1, <1>3
  <2>2. MergeText(r.pw, m.pw, u.pw, b) \in Pw \cup {EmptyText}
    BY <1>1, <1>3
  <2> QED
    BY <1>1, <1>4, <2>1, <2>2 DEF MergedRow, LocalRow
<1>8. LoginOf(r) \in Login => LoginOf(MergedRow(r, m, u, b)) \in Login
  BY <1>1, <1>3, <1>4, <1>5, <1>6 DEF LoginOf, Login
<1> QED
  BY <1>6, <1>7, <1>8

(* Applying a changeset makes the mirror equal to it, record by record.    *)
LEMMA ApplyKeeps ==
    ASSUME NEW d, DbInv(d),
           NEW inbound \in [Guid -> Login \cup {Tombstone, NoRow}],
           NEW partner, NEW newer \in [Guid -> BOOLEAN]
    PROVE  LET e == apply_incoming(d, inbound, partner, newer)
           IN  /\ DbInv(e)
               /\ e.lastSync = d.lastSync
               /\ e.assoc = d.assoc
               /\ \A g \in Guid :
                     /\ inbound[g] = NoRow => Mirrored(e, g) = Mirrored(d, g)
                     /\ inbound[g] = Tombstone => Mirrored(e, g) = NoRow
                     /\ inbound[g] \in Login => Mirrored(e, g) = inbound[g]
<1> DEFINE local(g) == LocalAfter(d, inbound, partner, newer, g)
           mirror(g) == MirrorAfter(d, inbound, partner, g)
           L == [g \in Guid |-> local(g)]
           M == [g \in Guid |-> mirror(g)]
<1>1. apply_incoming(d, inbound, partner, newer) = WithTables(d, L, M)
  BY DEF apply_incoming
<1>2. ASSUME NEW g \in Guid, local(g) # NoRow
      PROVE  /\ local(g) \in LocalRow
             /\ ~local(g).del => LoginOf(local(g)) \in Login
             /\ inbound[g] # Tombstone
             /\ local(g).st # New => d.M[g] # NoRow
  <2>1. g \notin delete_local(d, inbound, partner) /\ inbound[g] # Tombstone
    BY <1>2 DEF LocalAfter, delete_local
  <2>2. CASE Live(inbound, g) /\ d.M[g] # NoRow /\ d.L[g] # NoRow
    <3>1. local(g) = MergedRow(d.L[g], d.M[g], inbound[g], newer[g])
      BY <2>1, <2>2 DEF LocalAfter
    <3>2. d.L[g] \in LocalRow /\ d.M[g] \in MirrorRow
      BY <2>2, DbFacts
    <3>3. inbound[g] \in Login
      BY <2>2 DEF Live
    <3>4. ~d.L[g].del => LoginOf(d.L[g]) \in Login
      BY <2>2, DbFacts
    <3> HIDE DEF local
    <3> QED
      BY <2>1, <2>2, <3>1, <3>2, <3>3, <3>4, MergedRowFacts
  <2>3. CASE ~(Live(inbound, g) /\ d.M[g] # NoRow /\ d.L[g] # NoRow)
    <3>1. local(g) = d.L[g]
      BY <2>1, <2>3 DEF LocalAfter
    <3> HIDE DEF local
    <3> QED
      BY <1>2, <2>1, <3>1, DbFacts
  <2> QED
    BY <2>2, <2>3
<1>3. ASSUME NEW g \in Guid
      PROVE  /\ mirror(g) \in MirrorRow \cup {NoRow}
             /\ inbound[g] = NoRow => mirror(g) = d.M[g]
             /\ inbound[g] = Tombstone => mirror(g) = NoRow
             /\ inbound[g] \in Login => mirror(g) # NoRow /\ LoginOf(mirror(g)) = inbound[g]
  <2>1. CASE inbound[g] = NoRow
    BY <2>1, DbFacts, LoginDbAssumption DEF MirrorAfter
  <2>2. CASE inbound[g] = Tombstone
    BY <2>2, LoginDbAssumption DEF MirrorAfter
  <2>3. CASE inbound[g] \in Login /\ d.M[g] = NoRow
    <3>1. mirror(g) = MirrorOf(inbound[g], LocalWins(d, inbound, partner, g))
      BY <2>3, LoginDbAssumption DEF MirrorAfter
    <3>2. LocalWins(d, inbound, partner, g) \in BOOLEAN
      BY DEF LocalWins
    <3>3. LoginOf(inbound[g]) = inbound[g]
      BY <2>3 DEF Login, LoginOf
    <3> HIDE DEF mirror
    <3>4. mirror(g) \in MirrorRow /\ mirror(g) # NoRow /\ LoginOf(mirror(g)) = inbound[g]
      BY <2>3, <3>1, <3>2, <3>3, MirrorRowFacts
    <3> QED
      BY <2>3, <3>4, LoginDbAssumption
  <2>4. CASE inbound[g] \in Login /\ d.M[g] # NoRow
    <3>1. d.M[g] \in MirrorRow
      BY <2>4, DbFacts
    <3>2. mirror(g) = [key |-> inbound[g].key, pw |-> inbound[g].pw,
                       tpc |-> MirrorNumber(inbound[g].tpc, d.M[g].tpc), ov |-> d.M[g].ov]
      BY <2>4, LoginDbAssumption DEF MirrorAfter
    <3>3. /\ inbound[g].key \in Key /\ inbound[g].pw \in Pw /\ inbound[g].tpc \in Time
          /\ d.M[g].ov \in BOOLEAN
      BY <2>4, <3>1 DEF Login, MirrorRow
    <3>4. MirrorNumber(inbound[g].tpc, d.M[g].tpc) = inbound[g].tpc
      BY <3>3 DEF MirrorNumber
    <3> HIDE DEF mirror
    <3>5. mirror(g) \in MirrorRow
      BY <3>2, <3>3, <3>4 DEF MirrorRow
    <3>6. LoginOf(mirror(g)) = inbound[g]
      BY <2>4, <3>2, <3>4 DEF LoginOf, Login
    <3> QED
      BY <2>4, <3>5, <3>6, LoginDbAssumption
  <2> QED
    BY <2>1, <2>2, <2>3, <2>4
<1> HIDE DEF local, mirror
<1>4. L \in [Guid -> LocalRow \cup {NoRow}] /\ M \in [Guid -> MirrorRow \cup {NoRow}]
  BY <1>2, <1>3
<1>5. \A g \in Guid : L[g] = local(g) /\ M[g] = mirror(g)
  OBVIOUS
<1> HIDE DEF L, M
<1> DEFINE e == WithTables(d, L, M)
<1>6. e.L = L /\ e.M = M /\ e.lastSync = d.lastSync /\ e.assoc = d.assoc
  BY DEF WithTables
<1>7. e \in Db
  BY <1>4, DbFacts DEF WithTables, Db
<1> HIDE DEF e
<1>8. \A g \in Guid : (e.L[g] # NoRow /\ e.L[g].st # New) => e.M[g] # NoRow
  <2> SUFFICES ASSUME NEW g \in Guid, local(g) # NoRow, local(g).st # New
               PROVE  mirror(g) # NoRow
    BY <1>5, <1>6
  <2>1. inbound[g] # Tombstone /\ d.M[g] # NoRow
    BY <1>2
  <2> QED
    BY <2>1, <1>3
<1>9. \A g \in Guid : LiveLocal(e, g) => LoginOf(e.L[g]) \in Login
  BY <1>2, <1>5, <1>6 DEF LiveLocal
<1>10. DbInv(e)
  BY <1>7, <1>8, <1>9 DEF DbInv
<1>11. \A g \in Guid :
         /\ inbound[g] = NoRow => Mirrored(e, g) = Mirrored(d, g)
         /\ inbound[g] = Tombstone => Mirrored(e, g) = NoRow
         /\ inbound[g] \in Login => Mirrored(e, g) = inbound[g]
  BY <1>3, <1>5, <1>6 DEF Mirrored
<1> QED
  BY <1>1, <1>6, <1>10, <1>11 DEF e

(* mark_as_synchronized mirrors exactly what was uploaded.                 *)
LEMMA MarkKeeps ==
    ASSUME NEW d, DbInv(d), NEW guids, NEW ts \in Nat
    PROVE  LET e == mark_as_synchronized(d, guids, ts)
           IN  /\ DbInv(e)
               /\ e.lastSync = ts
               /\ e.assoc = d.assoc
               /\ \A g \in Guid :
                     /\ g \notin guids => Mirrored(e, g) = Mirrored(d, g)
                     /\ (g \in guids /\ LiveLocal(d, g)) => Mirrored(e, g) = LoginOf(d.L[g])
                     /\ (g \in guids /\ ~LiveLocal(d, g)) => Mirrored(e, g) = NoRow
<1> DEFINE mirror(g) == IF g \notin guids THEN d.M[g]
                        ELSE IF LiveLocal(d, g) THEN MirrorOf(d.L[g], FALSE)
                        ELSE NoRow
           L == [g \in Guid |-> IF g \in guids THEN NoRow ELSE d.L[g]]
           M == [g \in Guid |-> mirror(g)]
           e == [L |-> L, M |-> M, lastSync |-> ts, assoc |-> d.assoc]
<1>1. mark_as_synchronized(d, guids, ts) = e
  BY DEF mark_as_synchronized
<1>2. ASSUME NEW g \in Guid
      PROVE  /\ mirror(g) \in MirrorRow \cup {NoRow}
             /\ g \notin guids => mirror(g) = d.M[g]
             /\ (g \in guids /\ LiveLocal(d, g)) =>
                   mirror(g) # NoRow /\ LoginOf(mirror(g)) = LoginOf(d.L[g])
             /\ (g \in guids /\ ~LiveLocal(d, g)) => mirror(g) = NoRow
  <2>1. CASE g \in guids /\ LiveLocal(d, g)
    <3>1. d.L[g] \in LocalRow /\ LoginOf(d.L[g]) \in Login
      BY <2>1, DbFacts DEF LiveLocal
    <3>2. mirror(g) = MirrorOf(d.L[g], FALSE)
      BY <2>1
    <3> HIDE DEF mirror
    <3> QED
      BY <2>1, <3>1, <3>2, UploadedRowFacts
  <2>2. CASE ~(g \in guids /\ LiveLocal(d, g))
    BY <2>2, DbFacts
  <2> QED
    BY <2>1, <2>2
<1> HIDE DEF mirror
<1>3. L \in [Guid -> LocalRow \cup {NoRow}] /\ M \in [Guid -> MirrorRow \cup {NoRow}]
  BY <1>2, DbFacts
<1>4. \A g \in Guid : /\ M[g] = mirror(g)
                      /\ g \in guids => L[g] = NoRow
                      /\ g \notin guids => L[g] = d.L[g]
  OBVIOUS
<1> HIDE DEF L, M
<1>5. e \in Db
  BY <1>3, DbFacts DEF Db
<1>6. e.L = L /\ e.M = M /\ e.lastSync = ts /\ e.assoc = d.assoc
  OBVIOUS
<1> HIDE DEF e
<1>7. DbInv(e)
  BY <1>2, <1>4, <1>5, <1>6, DbFacts DEF DbInv, LiveLocal
<1>8. \A g \in Guid :
        /\ g \notin guids => Mirrored(e, g) = Mirrored(d, g)
        /\ (g \in guids /\ LiveLocal(d, g)) => Mirrored(e, g) = LoginOf(d.L[g])
        /\ (g \in guids /\ ~LiveLocal(d, g)) => Mirrored(e, g) = NoRow
  BY <1>2, <1>4, <1>6 DEF Mirrored
<1> QED
  BY <1>1, <1>6, <1>7, <1>8
=============================================================================

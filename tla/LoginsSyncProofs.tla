-------------------------- MODULE LoginsSyncProofs --------------------------
(***************************************************************************)
(* Proofs about LoginsSync: the type invariant, the safety invariants and, *)
(* from the inductive invariant IInv, that no device ever misses a change  *)
(* of the server.                                                          *)
(***************************************************************************)
EXTENDS LoginsSync, LoginDbProofs

USE DEF Synced, Changed, New, Time

-----------------------------------------------------------------------------
(* The inductive invariant.                                                *)

LEMMA InitInv == Init => IInv
<1> SUFFICES ASSUME Init PROVE IInv
  OBVIOUS
<1>1. DbInv(EmptyDb) /\ EmptyDb \in Db
  BY EmptyKeeps DEF DbInv
<1>2. TypeOK
  BY <1>1 DEF Init, TypeOK, Idle, Session, Server
<1>3. \A c \in Client : DbInv(db[c])
  BY <1>1 DEF Init
<1>4. ServerOrdered
  BY DEF Init, ServerOrdered
<1>5. ClientsBehind
  BY DEF Init, ClientsBehind, EmptyDb, Idle
<1>6. SessionFaithful
  BY DEF Init, SessionFaithful, Idle
<1>7. MirrorFaithful
  BY LoginDbAssumption DEF Init, MirrorFaithful, EmptyDb
<1> QED
  BY <1>2, <1>3, <1>4, <1>5, <1>6, <1>7 DEF IInv

(* A local change keeps the invariant if it keeps what is mirrored, or     *)
(* forgets the server altogether.                                          *)
LEMMA LocalChangeInv ==
    ASSUME IInv, NEW c \in Client, NEW e, DbInv(e), LocalChange(c, e),
           SameMirror(db[c], e) \/ (e.lastSync = 0 /\ e.assoc = Disconnected)
    PROVE  IInv'
<1>1. /\ sess[c] = Idle
      /\ db' = [db EXCEPT ![c] = e]
      /\ now' = now + 1
      /\ sess' = sess /\ server' = server /\ failures' = failures
  BY DEF LocalChange
<1>2. /\ db \in [Client -> Db] /\ sess \in [Client -> Session] /\ server \in Server
      /\ now \in Time /\ failures \in Nat
  BY DEF IInv, TypeOK
<1>3. e \in Db /\ e.lastSync \in Nat /\ e.assoc \in Nat \cup {Disconnected}
  BY DEF DbInv, Db
<1>4. db'[c] = e /\ \A x \in Client : x # c => db'[x] = db[x]
  BY <1>1, <1>2
<1>5. TypeOK'
  BY <1>1, <1>2, <1>3 DEF TypeOK
<1>6. \A x \in Client : DbInv(db[x])'
  BY <1>4 DEF IInv
<1>7. ServerOrdered'
  BY <1>1, <1>2 DEF IInv, ServerOrdered, Server
<1>8. ClientsBehind'
  <2> SUFFICES ASSUME NEW x \in Client
               PROVE  /\ db'[x].lastSync <= now'
                      /\ sess'[x].ts <= now'
                      /\ db'[x].assoc # Disconnected => db'[x].assoc <= server'.syncId
    BY DEF ClientsBehind
  <2>1. /\ db[x].lastSync <= now
        /\ sess[x].ts <= now
        /\ db[x].assoc # Disconnected => db[x].assoc <= server.syncId
    BY DEF IInv, ClientsBehind
  <2>2. db[x].lastSync \in Nat /\ sess[x].ts \in Nat
    BY <1>2 DEF Db, Session
  <2>3. CASE x = c
    BY <1>1, <1>2, <1>4, <2>1, <2>2, <2>3 DEF SameMirror
  <2>4. CASE x # c
    BY <1>1, <1>2, <1>4, <2>1, <2>2, <2>4
  <2> QED
    BY <2>3, <2>4
<1>9. SessionFaithful'
  <2>1. sess'[c].phase = "idle"
    BY <1>1 DEF Idle
  <2> QED
    BY <1>1, <1>4, <2>1 DEF IInv, SessionFaithful, OnServer
<1>10. MirrorFaithful'
  <2> SUFFICES ASSUME NEW x \in Client, NEW g \in Guid,
                      db'[x].assoc = server.syncId, server.mod[g] <= db'[x].lastSync
               PROVE  Mirrored(db'[x], g) = OnServer(g)
    BY <1>1 DEF MirrorFaithful, OnServer
  <2>1. server.syncId # Disconnected
    BY <1>2, LoginDbAssumption DEF Server
  <2>2. CASE x = c
    BY <1>4, <2>1, <2>2 DEF IInv, MirrorFaithful, SameMirror
  <2>3. CASE x # c
    BY <1>4, <2>3 DEF IInv, MirrorFaithful
  <2> QED
    BY <2>2, <2>3
<1> QED
  BY <1>5, <1>6, <1>7, <1>8, <1>9, <1>10 DEF IInv

LEMMA UserStepInv ==
    ASSUME IInv, NEW c \in Client, UserStep(c)
    PROVE  IInv'
<1>1. DbInv(db[c]) /\ now \in Time
  BY DEF IInv, TypeOK
<1>2. ASSUME NEW g \in Guid, NEW k \in Key, NEW p \in Pw, Add(c, g, k, p)
      PROVE  IInv'
  BY <1>1, <1>2, AddKeeps, LocalChangeInv DEF Add
<1>3. ASSUME NEW g \in Guid, NEW k \in Key, NEW p \in Pw, Update(c, g, k, p)
      PROVE  IInv'
  BY <1>1, <1>3, UpdateKeeps, LocalChangeInv DEF Update
<1>4. ASSUME NEW g \in Guid, Touch(c, g)
      PROVE  IInv'
  BY <1>1, <1>4, TouchKeeps, LocalChangeInv DEF Touch
<1>5. ASSUME NEW g \in Guid, Delete(c, g)
      PROVE  IInv'
  BY <1>1, <1>5, DeleteKeeps, LocalChangeInv DEF Delete
<1>6. CASE Wipe(c)
  BY <1>1, <1>6, WipeKeeps, LocalChangeInv DEF Wipe
<1>7. CASE WipeLocal(c)
  <2>1. EmptyDb.lastSync = 0 /\ EmptyDb.assoc = Disconnected
    BY DEF EmptyDb
  <2> QED
    BY <1>7, <2>1, EmptyKeeps, LocalChangeInv DEF WipeLocal, wipe_local
<1>8. CASE Reset(c)
  BY <1>1, <1>8, ResetKeeps, LocalChangeInv DEF Reset
<1> QED
  BY <1>2, <1>3, <1>4, <1>5, <1>6, <1>7, <1>8 DEF UserStep

(* Giving up a sync changes nothing but the session.                       *)
LEMMA IdleInv ==
    ASSUME IInv, NEW c \in Client, sess' = [sess EXCEPT ![c] = Idle],
           db' = db, server' = server, now' = now, failures' \in Nat
    PROVE  IInv'
<1>1. /\ db \in [Client -> Db] /\ sess \in [Client -> Session] /\ server \in Server
      /\ now \in Time
  BY DEF IInv, TypeOK
<1>2. Idle \in Session /\ Idle.phase = "idle" /\ Idle.ts = 0
  BY DEF Idle, Session
<1>3. sess'[c] = Idle /\ \A x \in Client : x # c => sess'[x] = sess[x]
  BY <1>1
<1>4. TypeOK'
  BY <1>1, <1>2 DEF TypeOK
<1>5. (\A x \in Client : DbInv(db[x]))' /\ ServerOrdered'
  BY DEF IInv, ServerOrdered
<1>6. ClientsBehind'
  BY <1>1, <1>2, <1>3 DEF IInv, ClientsBehind
<1>7. SessionFaithful'
  BY <1>2, <1>3 DEF IInv, SessionFaithful, OnServer
<1>8. MirrorFaithful'
  BY DEF IInv, MirrorFaithful, OnServer
<1> QED
  BY <1>4, <1>5, <1>6, <1>7, <1>8 DEF IInv

(* The steps of a device's own sync: SyncStart, SyncFetch and SyncFinish   *)
(* change its database and session, and nothing else.                      *)
LEMMA DeviceStepInv ==
    ASSUME IInv, NEW c \in Client, NEW e, DbInv(e), NEW s \in Session,
           db' = [db EXCEPT ![c] = e], sess' = [sess EXCEPT ![c] = s],
           server' = server, now' = now, failures' = failures,
           e.lastSync <= now, s.ts <= now,
           e.assoc # Disconnected => e.assoc <= server.syncId,
           s.phase \in {"applied", "uploaded"} => \A g \in s.guids : e.L[g] # NoRow,
           s.phase # "uploaded",
           e.assoc = server.syncId =>
             \A g \in Guid :
               (\/ server.mod[g] <= e.lastSync
                \/ s.phase = "applied" /\ server.mod[g] <= s.ts)
                  => Mirrored(e, g) = OnServer(g)
    PROVE  IInv'
<1>1. /\ db \in [Client -> Db] /\ sess \in [Client -> Session] /\ server \in Server
      /\ now \in Time /\ failures \in Nat
  BY DEF IInv, TypeOK
<1>2. /\ db'[c] = e /\ \A x \in Client : x # c => db'[x] = db[x]
      /\ sess'[c] = s /\ \A x \in Client : x # c => sess'[x] = sess[x]
  BY <1>1
<1>3. TypeOK'
  BY <1>1 DEF TypeOK, DbInv
<1>4. (\A x \in Client : DbInv(db[x]))' /\ ServerOrdered'
  BY <1>2 DEF IInv, ServerOrdered
<1>5. ClientsBehind'
  BY <1>2 DEF IInv, ClientsBehind
<1>6. SessionFaithful'
  BY <1>2 DEF IInv, SessionFaithful, OnServer
<1>7. MirrorFaithful'
  BY <1>2 DEF IInv, MirrorFaithful, OnServer
<1> QED
  BY <1>3, <1>4, <1>5, <1>6, <1>7 DEF IInv

LEMMA SyncStartInv ==
    ASSUME IInv, NEW c \in Client, SyncStart(c)
    PROVE  IInv'
<1>1. /\ db \in [Client -> Db] /\ sess \in [Client -> Session] /\ server \in Server
      /\ now \in Time /\ failures \in Nat
  BY DEF IInv, TypeOK
<1> DEFINE s == [sess[c] EXCEPT !.phase = "ready"]
           e == IF db[c].assoc = server.syncId THEN db[c] ELSE reset(db[c], server.syncId)
<1>2. /\ sess' = [sess EXCEPT ![c] = s] /\ db' = [db EXCEPT ![c] = e]
      /\ server' = server /\ now' = now /\ failures' = failures
  BY <1>1 DEF SyncStart
<1>3. s \in Session /\ s.phase = "ready" /\ s.ts = sess[c].ts
  BY <1>1 DEF Session
<1>4. server.syncId \in Nat /\ \A g \in Guid : server.mod[g] \in Nat
  BY <1>1 DEF Server
<1>5. CASE db[c].assoc = server.syncId
  <2>1. e = db[c]
    BY <1>5
  <2>2. e.lastSync <= now /\ s.ts <= now
    BY <1>3, <2>1 DEF IInv, ClientsBehind
  <2>3. \A g \in Guid : server.mod[g] <= e.lastSync => Mirrored(e, g) = OnServer(g)
    BY <1>5, <2>1 DEF IInv, MirrorFaithful
  <2>4. DbInv(e)
    BY <2>1 DEF IInv
  <2>5. e.assoc # Disconnected => e.assoc <= server.syncId
    BY <2>1 DEF IInv, ClientsBehind
  <2> HIDE DEF e, s
  <2> QED
    BY <1>2, <1>3, <2>2, <2>3, <2>4, <2>5, DeviceStepInv
<1>6. CASE db[c].assoc # server.syncId
  <2>1. e = reset(db[c], server.syncId)
    BY <1>6
  <2>2. /\ DbInv(e) /\ e.lastSync = 0 /\ e.assoc = server.syncId
        /\ \A g \in Guid : Mirrored(e, g) = NoRow
    <3> HIDE DEF e
    <3>1. DbInv(db[c])
      BY DEF IInv
    <3> QED
      BY <1>4, <2>1, <3>1, ResetKeeps
  <2>3. e.lastSync <= now /\ s.ts <= now
    BY <1>1, <1>3, <2>2 DEF IInv, ClientsBehind
  <2>4. \A g \in Guid : server.mod[g] <= e.lastSync => Mirrored(e, g) = OnServer(g)
    BY <1>4, <2>2, LoginDbAssumption DEF IInv, ServerOrdered, OnServer
  <2>5. e.assoc # Disconnected => e.assoc <= server.syncId
    BY <1>4, <2>2
  <2> HIDE DEF e, s
  <2> QED
    BY <1>2, <1>3, <2>2, <2>3, <2>4, <2>5, DeviceStepInv
<1> QED
  BY <1>5, <1>6

LEMMA SyncFetchInv ==
    ASSUME IInv, NEW c \in Client, SyncFetch(c)
    PROVE  IInv'
<1>1. /\ db \in [Client -> Db] /\ sess \in [Client -> Session] /\ server \in Server
      /\ now \in Time /\ failures \in Nat
  BY DEF IInv, TypeOK
<1>2. PICK partner \in Partners(db[c], Newer(c)), newer \in [Guid -> BOOLEAN] :
        /\ db' = [db EXCEPT ![c] = apply_incoming(db[c], Newer(c), partner, newer)]
        /\ sess' = [sess EXCEPT ![c] =
                      [phase |-> "applied", ts |-> server.coll,
                       guids |-> Outgoing(apply_incoming(db[c], Newer(c), partner, newer))]]
  BY DEF SyncFetch
<1> DEFINE e == apply_incoming(db[c], Newer(c), partner, newer)
           s == [phase |-> "applied", ts |-> server.coll, guids |-> Outgoing(e)]
<1>3. server' = server /\ now' = now /\ failures' = failures
  BY DEF SyncFetch
<1>4. /\ server.rec \in [Guid -> Login \cup {Tombstone, NoRow}]
      /\ server.mod \in [Guid -> Nat] /\ server.coll \in Nat
  BY <1>1 DEF Server
<1>5. Newer(c) \in [Guid -> Login \cup {Tombstone, NoRow}]
  BY <1>4 DEF Newer
<1>6. DbInv(db[c])
  BY DEF IInv
<1>7. /\ DbInv(e) /\ e.lastSync = db[c].lastSync /\ e.assoc = db[c].assoc
      /\ \A g \in Guid :
            /\ Newer(c)[g] = NoRow => Mirrored(e, g) = Mirrored(db[c], g)
            /\ Newer(c)[g] = Tombstone => Mirrored(e, g) = NoRow
            /\ Newer(c)[g] \in Login => Mirrored(e, g) = Newer(c)[g]
  BY <1>5, <1>6, ApplyKeeps
<1>8. sess' = [sess EXCEPT ![c] = s] /\ db' = [db EXCEPT ![c] = e]
  BY <1>2
<1> HIDE DEF e
<1>9. s \in Session /\ s.phase = "applied" /\ s.ts = server.coll /\ s.guids = Outgoing(e)
  BY <1>4 DEF Session, Outgoing
<1>10. \A g \in s.guids : e.L[g] # NoRow
  BY <1>9 DEF Outgoing
<1> HIDE DEF s
<1>11. /\ e.lastSync <= now /\ s.ts <= now
       /\ e.assoc # Disconnected => e.assoc <= server.syncId
  BY <1>7, <1>9 DEF IInv, ClientsBehind, ServerOrdered
<1>12. ASSUME e.assoc = server.syncId, NEW g \in Guid
       PROVE  Mirrored(e, g) = OnServer(g)
  <2>1. CASE server.mod[g] <= db[c].lastSync
    <3>1. Newer(c)[g] = NoRow
      BY <1>4, <1>6, <2>1, DbFacts DEF Newer
    <3>2. Mirrored(db[c], g) = OnServer(g)
      BY <1>7, <1>12, <2>1 DEF IInv, MirrorFaithful
    <3> QED
      BY <1>7, <3>1, <3>2
  <2>2. CASE ~(server.mod[g] <= db[c].lastSync)
    <3>1. server.mod[g] \in Nat /\ db[c].lastSync \in Nat
      BY <1>4, <1>6, DbFacts
    <3>2. Newer(c)[g] = server.rec[g] /\ server.mod[g] # 0
      BY <2>2, <3>1 DEF Newer
    <3>3. server.rec[g] # NoRow
      BY <3>2 DEF IInv, ServerOrdered
    <3> QED
      BY <1>4, <1>7, <3>2, <3>3, LoginDbAssumption DEF OnServer
  <2> QED
    BY <2>1, <2>2
<1> QED
  BY <1>3, <1>7, <1>8, <1>9, <1>10, <1>11, <1>12, DeviceStepInv

LEMMA SyncFinishInv ==
    ASSUME IInv, NEW c \in Client, SyncFinish(c)
    PROVE  IInv'
<1>1. /\ db \in [Client -> Db] /\ sess \in [Client -> Session] /\ server \in Server
      /\ now \in Time /\ failures \in Nat
  BY DEF IInv, TypeOK
<1> DEFINE e == mark_as_synchronized(db[c], sess[c].guids, sess[c].ts)
<1>2. /\ sess[c].phase = "uploaded"
      /\ sess' = [sess EXCEPT ![c] = Idle] /\ db' = [db EXCEPT ![c] = e]
      /\ server' = server /\ now' = now /\ failures' = failures
  BY DEF SyncFinish
<1>3. DbInv(db[c]) /\ sess[c].guids \in SUBSET Guid /\ sess[c].ts \in Nat
  BY <1>1 DEF IInv, Session
<1>4. /\ DbInv(e) /\ e.lastSync = sess[c].ts /\ e.assoc = db[c].assoc
      /\ \A g \in Guid :
            /\ g \notin sess[c].guids => Mirrored(e, g) = Mirrored(db[c], g)
            /\ (g \in sess[c].guids /\ LiveLocal(db[c], g))
                  => Mirrored(e, g) = LoginOf(db[c].L[g])
            /\ (g \in sess[c].guids /\ ~LiveLocal(db[c], g)) => Mirrored(e, g) = NoRow
  BY <1>3, MarkKeeps
<1> HIDE DEF e
<1>5. Idle \in Session /\ Idle.phase = "idle" /\ Idle.ts = 0
  BY DEF Idle, Session
<1>6. /\ e.lastSync <= now /\ Idle.ts <= now
      /\ e.assoc # Disconnected => e.assoc <= server.syncId
  BY <1>1, <1>4, <1>5 DEF IInv, ClientsBehind
<1>7. ASSUME e.assoc = server.syncId, NEW g \in Guid, server.mod[g] <= e.lastSync
      PROVE  Mirrored(e, g) = OnServer(g)
  <2>1. OnServer(g) = IF g \in sess[c].guids THEN Uploaded(db[c], g)
                      ELSE Mirrored(db[c], g)
    BY <1>2, <1>4, <1>7 DEF IInv, SessionFaithful
  <2> QED
    BY <1>4, <2>1 DEF Uploaded
<1> QED
  BY <1>2, <1>4, <1>5, <1>6, <1>7, DeviceStepInv

(* A POST: the server gets the payloads of some outgoing rows, under a     *)
(* timestamp no one has seen yet.                                          *)
LEMMA StoredInv ==
    ASSUME IInv, NEW c \in Client, sess[c].phase = "applied",
           NEW guids \in SUBSET sess[c].guids, NEW s \in Session,
           server' = Stored(c, guids, now + 1), now' = now + 1, db' = db,
           sess' = [sess EXCEPT ![c] = s], failures' \in Nat,
           s.ts <= now + 1,
           \/ s.phase = "idle"
           \/ s.phase = "uploaded" /\ s.guids = guids /\ Unmodified(c)
    PROVE  IInv'
<1>1. /\ db \in [Client -> Db] /\ sess \in [Client -> Session] /\ server \in Server
      /\ now \in Time /\ failures \in Nat
  BY DEF IInv, TypeOK
<1>2. /\ server.rec \in [Guid -> Login \cup {Tombstone, NoRow}]
      /\ server.mod \in [Guid -> Nat] /\ server.coll \in Nat /\ server.syncId \in Nat
  BY <1>1 DEF Server
<1>3. guids \subseteq Guid
  BY <1>1 DEF Session
<1>4. DbInv(db[c])
  BY DEF IInv
<1>5. ASSUME NEW g \in guids
      PROVE  /\ Payload(db[c].L[g]) \in Login \cup {Tombstone}
             /\ Payload(db[c].L[g]) # NoRow
             /\ LiveLocal(db[c], g) => Payload(db[c].L[g]) = LoginOf(db[c].L[g])
             /\ LiveLocal(db[c], g) => Payload(db[c].L[g]) # Tombstone
             /\ ~LiveLocal(db[c], g) => Payload(db[c].L[g]) = Tombstone
  <2>1. g \in Guid /\ db[c].L[g] # NoRow
    BY <1>3 DEF IInv, SessionFaithful
  <2> QED
    BY <1>4, <2>1, DbFacts, LoginDbAssumption DEF Payload, LiveLocal
<1>6. /\ server'.rec = [g \in Guid |-> IF g \in guids THEN Payload(db[c].L[g])
                                         ELSE server.rec[g]]
      /\ server'.mod = [g \in Guid |-> IF g \in guids THEN now + 1 ELSE server.mod[g]]
      /\ server'.coll = now + 1
      /\ server'.syncId = server.syncId
  BY <1>1 DEF Stored, Server
<1>7. /\ sess'[c] = s /\ \A x \in Client : x # c => sess'[x] = sess[x]
  BY <1>1
<1>8. \A g \in Guid : g \notin guids => /\ server'.rec[g] = server.rec[g]
                                         /\ server'.mod[g] = server.mod[g]
                                         /\ OnServer(g)' = OnServer(g)
  BY <1>6 DEF OnServer
<1>9. \A g \in guids : /\ server'.rec[g] = Payload(db[c].L[g])
                        /\ server'.mod[g] = now + 1
                        /\ OnServer(g)' = Uploaded(db[c], g)
  BY <1>3, <1>5, <1>6 DEF OnServer, Uploaded
<1>10. TypeOK'
  <2>1. server' \in Server
    <3>1. server'.rec \in [Guid -> Login \cup {Tombstone, NoRow}]
      BY <1>2, <1>5, <1>6
    <3>2. server'.mod \in [Guid -> Nat]
      BY <1>1, <1>2, <1>6
    <3>3. server' = [rec |-> server'.rec, mod |-> server'.mod,
                     coll |-> server'.coll, syncId |-> server'.syncId]
      BY <1>1 DEF Stored, Server
    <3>4. server'.coll \in Nat /\ server'.syncId \in Nat
      BY <1>1, <1>2, <1>6
    <3> QED
      BY <3>1, <3>2, <3>3, <3>4 DEF Server
  <2> QED
    BY <1>1, <2>1 DEF TypeOK
<1>11. (\A x \in Client : DbInv(db[x]))'
  BY DEF IInv
<1>12. ServerOrdered'
  <2> SUFFICES ASSUME NEW g \in Guid
               PROVE  /\ server'.mod[g] <= server'.coll
                      /\ server'.mod[g] = 0 <=> server'.rec[g] = NoRow
    BY <1>1, <1>6 DEF ServerOrdered
  <2>1. CASE g \in guids
    <3>1. server'.mod[g] = now + 1 /\ server'.coll = now + 1
      BY <1>6, <1>9, <2>1
    <3>2. server'.rec[g] # NoRow
      BY <1>5, <1>9, <2>1
    <3>3. now \in Nat
      BY <1>1
    <3> QED
      BY <3>1, <3>2, <3>3
  <2>2. CASE g \notin guids
    <3>1. server'.mod[g] = server.mod[g] /\ server'.rec[g] = server.rec[g]
      BY <1>8, <2>2
    <3>2. /\ server.coll <= now /\ server.mod[g] <= server.coll
          /\ server.mod[g] = 0 <=> server.rec[g] = NoRow
      BY DEF IInv, ServerOrdered
    <3>3. now \in Nat /\ server.coll \in Nat /\ server.mod[g] \in Nat /\ server'.coll = now + 1
      BY <1>1, <1>2, <1>6
    <3> QED
      BY <3>1, <3>2, <3>3
  <2> QED
    BY <2>1, <2>2
<1>13. ClientsBehind'
  <2> SUFFICES ASSUME NEW x \in Client
               PROVE  /\ db[x].lastSync <= now + 1
                      /\ sess'[x].ts <= now + 1
                      /\ db[x].assoc # Disconnected => db[x].assoc <= server.syncId
    BY <1>6 DEF ClientsBehind
  <2>1. db[x].lastSync \in Nat /\ sess[x].ts \in Nat /\ now \in Nat
    BY <1>1 DEF Db, Session
  <2>2. /\ db[x].lastSync <= now /\ sess[x].ts <= now
        /\ db[x].assoc # Disconnected => db[x].assoc <= server.syncId
    BY DEF IInv, ClientsBehind
  <2>3. sess'[x].ts <= now + 1
    BY <1>7, <2>1, <2>2
  <2> QED
    BY <2>1, <2>2, <2>3
<1>14. ASSUME NEW t \in Nat, t <= now, NEW g \in Guid, server'.mod[g] <= t
       PROVE  g \notin guids /\ server.mod[g] <= t /\ OnServer(g)' = OnServer(g)
  BY <1>1, <1>8, <1>9, <1>14
<1>15. \A x \in Client : /\ db[x].lastSync \in Nat /\ db[x].lastSync <= now
                         /\ sess[x].ts \in Nat /\ sess[x].ts <= now
  BY <1>1 DEF Db, Session, IInv, ClientsBehind
<1>16. SessionFaithful'
  <2> SUFFICES ASSUME NEW x \in Client
               PROVE  /\ sess'[x].phase \in {"applied", "uploaded"} =>
                            \A g \in sess'[x].guids : db[x].L[g] # NoRow
                      /\ (db[x].assoc = server.syncId /\ sess'[x].phase = "applied") =>
                            \A g \in Guid : server'.mod[g] <= sess'[x].ts =>
                                Mirrored(db[x], g) = OnServer(g)'
                      /\ (db[x].assoc = server.syncId /\ sess'[x].phase = "uploaded") =>
                            \A g \in Guid : server'.mod[g] <= sess'[x].ts =>
                                OnServer(g)' = IF g \in sess'[x].guids THEN Uploaded(db[x], g)
                                               ELSE Mirrored(db[x], g)
    <3>1. server'.syncId = server.syncId
      BY <1>6
    <3> QED
      BY <3>1 DEF SessionFaithful
  <2>1. CASE x # c
    <3>1. sess'[x] = sess[x] /\ sess[x].ts \in Nat /\ sess[x].ts <= now
      BY <1>7, <1>15, <2>1
    <3>2. \A g \in Guid : server'.mod[g] <= sess[x].ts =>
                             server.mod[g] <= sess[x].ts /\ OnServer(g)' = OnServer(g)
      BY <1>14, <3>1
    <3> QED
      BY <3>1, <3>2 DEF IInv, SessionFaithful
  <2>2. CASE x = c /\ s.phase = "idle"
    <3>1. sess'[x].phase = "idle"
      BY <1>7, <2>2
    <3> QED
      BY <3>1
  <2>3. CASE x = c /\ s.phase # "idle"
    <3>1. s.phase = "uploaded" /\ s.guids = guids /\ server.coll <= sess[c].ts
      BY <2>3 DEF Unmodified
    <3>2. \A g \in guids : db[c].L[g] # NoRow
      BY DEF IInv, SessionFaithful
    <3>3. ASSUME db[c].assoc = server.syncId, NEW g \in Guid, g \notin guids
          PROVE  OnServer(g)' = Mirrored(db[c], g)
      <4>1. server.mod[g] <= sess[c].ts
        BY <1>2, <1>15, <3>1 DEF IInv, ServerOrdered
      <4>2. Mirrored(db[c], g) = OnServer(g)
        BY <3>3, <4>1 DEF IInv, SessionFaithful
      <4> QED
        BY <1>8, <3>3, <4>2
    <3> QED
      BY <1>7, <1>9, <2>3, <3>1, <3>2, <3>3
  <2> QED
    BY <2>1, <2>2, <2>3
<1>17. MirrorFaithful'
  BY <1>6, <1>14, <1>15 DEF IInv, MirrorFaithful
<1> QED
  BY <1>10, <1>11, <1>12, <1>13, <1>16, <1>17 DEF IInv

LEMMA SyncUploadInv ==
    ASSUME IInv, NEW c \in Client, SyncUpload(c)
    PROVE  IInv'
<1>1. /\ db \in [Client -> Db] /\ sess \in [Client -> Session] /\ server \in Server
      /\ now \in Time /\ failures \in Nat
  BY DEF IInv, TypeOK
<1>2. sess[c].phase = "applied" /\ db' = db /\ failures' = failures
  BY DEF SyncUpload
<1>3. CASE sess[c].guids = {}
  <2>1. /\ sess' = [sess EXCEPT ![c].phase = "uploaded"] /\ server' = server /\ now' = now
    BY <1>3 DEF SyncUpload
  <2>2. /\ sess'[c].phase = "uploaded" /\ sess'[c].ts = sess[c].ts /\ sess'[c].guids = {}
        /\ \A x \in Client : x # c => sess'[x] = sess[x]
        /\ sess' \in [Client -> Session]
    BY <1>1, <1>3, <2>1 DEF Session
  <2>3. TypeOK'
    BY <1>1, <1>2, <2>1, <2>2 DEF TypeOK
  <2>4. (\A x \in Client : DbInv(db[x]))' /\ ServerOrdered'
    BY <1>2, <2>1 DEF IInv, ServerOrdered
  <2>5. ClientsBehind'
    BY <1>2, <2>1, <2>2 DEF IInv, ClientsBehind
  <2>6. SessionFaithful'
    BY <1>2, <2>1, <2>2 DEF IInv, SessionFaithful, OnServer
  <2>7. MirrorFaithful'
    BY <1>2, <2>1 DEF IInv, MirrorFaithful, OnServer
  <2> QED
    BY <2>3, <2>4, <2>5, <2>6, <2>7 DEF IInv
<1>4. CASE sess[c].guids # {}
  <2> DEFINE s == [phase |-> "uploaded", ts |-> now + 1, guids |-> sess[c].guids]
  <2>1. /\ Unmodified(c) /\ server' = Stored(c, sess[c].guids, now + 1) /\ now' = now + 1
        /\ sess' = [sess EXCEPT ![c] = s]
    BY <1>4 DEF SyncUpload
  <2>2. s \in Session
    BY <1>1 DEF Session
  <2>3. s.ts <= now + 1 /\ s.phase = "uploaded" /\ s.guids = sess[c].guids
    BY <1>1
  <2> HIDE DEF s
  <2>4. failures' \in Nat /\ sess[c].guids \in SUBSET sess[c].guids
    BY <1>1, <1>2
  <2> QED
    BY <1>2, <2>1, <2>2, <2>3, <2>4, StoredInv
<1> QED
  BY <1>3, <1>4

LEMMA SyncUploadPartInv ==
    ASSUME IInv, NEW c \in Client, SyncUploadPart(c)
    PROVE  IInv'
<1>1. /\ db \in [Client -> Db] /\ sess \in [Client -> Session] /\ server \in Server
      /\ now \in Time /\ failures \in Nat
  BY DEF IInv, TypeOK
<1>2. PICK part \in SUBSET sess[c].guids : server' = Stored(c, part, now + 1)
  BY DEF SyncUploadPart
<1>3. /\ sess[c].phase = "applied" /\ now' = now + 1 /\ db' = db
      /\ sess' = [sess EXCEPT ![c] = Idle] /\ failures' = failures + 1
  BY DEF SyncUploadPart
<1>4. Idle \in Session /\ Idle.phase = "idle" /\ Idle.ts <= now + 1 /\ failures' \in Nat
  BY <1>1, <1>3 DEF Idle, Session
<1> QED
  BY <1>2, <1>3, <1>4, StoredInv

(* New sync ids: no device is associated with the server any more.         *)
LEMMA FreshStartInv ==
    ASSUME IInv, FreshStart
    PROVE  IInv'
<1>1. /\ db \in [Client -> Db] /\ sess \in [Client -> Session] /\ server \in Server
      /\ now \in Time /\ failures \in Nat
  BY DEF IInv, TypeOK
<1>2. /\ server' = [rec |-> [g \in Guid |-> NoRow], mod |-> [g \in Guid |-> 0],
                    coll |-> 0, syncId |-> server.syncId + 1]
      /\ db' = db /\ sess' = sess /\ now' = now /\ failures' = failures
  BY DEF FreshStart
<1>3. server.syncId \in Nat
  BY <1>1 DEF Server
<1>4. TypeOK'
  BY <1>1, <1>2, <1>3 DEF TypeOK, Server
<1>5. (\A x \in Client : DbInv(db[x]))'
  BY <1>2 DEF IInv
<1>6. ServerOrdered'
  BY <1>1, <1>2 DEF ServerOrdered
<1>7. \A x \in Client : /\ db[x].assoc \in Nat \cup {Disconnected}
                        /\ db[x].assoc # Disconnected => db[x].assoc <= server.syncId
  BY <1>1 DEF Db, IInv, ClientsBehind
<1>8. \A x \in Client : db[x].assoc # server'.syncId
  BY <1>2, <1>3, <1>7, LoginDbAssumption
<1>9. ClientsBehind'
  BY <1>2, <1>3, <1>7 DEF IInv, ClientsBehind
<1>10. SessionFaithful'
  BY <1>2, <1>8 DEF IInv, SessionFaithful
<1>11. MirrorFaithful'
  BY <1>2, <1>8 DEF MirrorFaithful
<1> QED
  BY <1>4, <1>5, <1>6, <1>9, <1>10, <1>11 DEF IInv

LEMMA NextInv == IInv /\ [Next]_vars => IInv'
<1> SUFFICES ASSUME IInv, [Next]_vars PROVE IInv'
  OBVIOUS
<1>1. failures \in Nat
  BY DEF IInv, TypeOK
<1>2. ASSUME NEW c \in Client, SyncStep(c) PROVE IInv'
  <2>1. CASE SyncConflict(c)
    BY <1>1, <2>1, IdleInv DEF SyncConflict
  <2> QED
    BY <1>2, <2>1, SyncStartInv, SyncFetchInv, SyncUploadInv, SyncFinishInv DEF SyncStep
<1>3. ASSUME NEW c \in Client, SyncAbort(c) PROVE IInv'
  <2>1. /\ sess' = [sess EXCEPT ![c] = Idle] /\ db' = db /\ server' = server /\ now' = now
        /\ failures' \in Nat
    BY <1>1, <1>3 DEF SyncAbort
  <2> QED
    BY <2>1, IdleInv
<1>4. CASE UNCHANGED vars
  BY <1>4 DEF vars, IInv, TypeOK, ServerOrdered, ClientsBehind, SessionFaithful,
              MirrorFaithful, OnServer
<1> QED
  BY <1>2, <1>3, <1>4, UserStepInv, SyncUploadPartInv, FreshStartInv DEF Next

-----------------------------------------------------------------------------
(* The theorems.                                                           *)

(* All tables, sessions and server records stay well formed.               *)
THEOREM TypeCorrect == Spec => []TypeOK
<1>1. IInv => TypeOK
  BY DEF IInv
<1> QED
  BY <1>1, InitInv, NextInv, PTL DEF Spec

(* A row that claims to be known to the server has its mirror row, and a   *)
(* login that is listed or uploaded is complete, on any number of devices. *)
THEOREM RowsConsistent == Spec => [](ChangedIsMirrored /\ LiveIsComplete)
<1>1. IInv => ChangedIsMirrored /\ LiveIsComplete
  BY DEF IInv, DbInv, ChangedIsMirrored, LiveIsComplete
<1> QED
  BY <1>1, InitInv, NextInv, PTL DEF Spec

(* No device misses a change of the server: its mirror is exact up to its  *)
(* lastSync, for any number of devices and records, whatever conflicts,    *)
(* partial uploads, crashes, resets and server wipes happen.               *)
THEOREM NoChangeMissed == Spec => []MirrorFaithful
<1>1. IInv => MirrorFaithful
  BY DEF IInv
<1> QED
  BY <1>1, InitInv, NextInv, PTL DEF Spec
=============================================================================

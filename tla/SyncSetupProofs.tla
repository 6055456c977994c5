--------------------------- MODULE SyncSetupProofs ---------------------------
(***************************************************************************)
(* Proofs about the setup of a sync, for any number of devices, kinds of   *)
(* sync, writes and losses of the server.                                  *)
(***************************************************************************)
EXTENDS SyncSetup, TLAPS

-----------------------------------------------------------------------------
(* Types.                                                                  *)

LEMMA IdleType == Idle \in Machine /\ NoState \in GlobalState /\ Empty \in Server
BY SetupAssumption DEF Machine, Idle, Phases, MetaGlobal, NoMeta, NoState, GlobalState,
   Declined, Listed, Time, STORAGE_VERSION, Empty, Server

LEMMA EnterType ==
    ASSUME NEW m \in Machine, NEW label \in Labels PROVE Enter(m, label) \in Machine
<1>1. Entered(m, label) \in Machine
  BY DEF Entered, Machine, Phases
<1> QED BY <1>1, IdleType DEF Enter

LEMMA AtPhaseType ==
    ASSUME NEW m \in Machine, NEW p \in Phases
    PROVE  /\ AtPhase(m, p) \in Machine
           /\ AtPhase(m, p).phase = p /\ AtPhase(m, p).kind = m.kind
           /\ AtPhase(m, p).visited = m.visited /\ AtPhase(m, p).steps = m.steps
           /\ AtPhase(m, p).meta = m.meta /\ AtPhase(m, p).key = m.key
BY DEF AtPhase, Machine

LEMMA WithKeysType ==
    ASSUME NEW m \in Machine, NEW k \in Time PROVE WithKeys(m, k) \in Machine
BY DEF WithKeys, Machine, MetaGlobal, Declined

LEMMA WithMetaType ==
    ASSUME NEW m \in Machine, NEW g \in MetaGlobal
    PROVE  [m EXCEPT !.meta = g] \in Machine
BY DEF Machine

LEMMA WithTsType ==
    ASSUME NEW m \in Machine, NEW t \in Time
    PROVE  [m EXCEPT !.ts = t] \in Machine
BY DEF Machine

LEMMA InitType == Init => TypeOK
<1> SUFFICES ASSUME Init PROVE TypeOK
  OBVIOUS
<1>1. server \in Server /\ clock \in Time
  <2>1. CASE server = Empty /\ clock = 0
    BY <2>1, IdleType, SetupAssumption DEF Time
  <2>2. ASSUME NEW v \in Versions, NEW declined \in Listed,
               server = [meta |-> [id |-> 1, version |-> v, declined |-> declined, ts |-> 1],
                         crypto |-> 2, coll |-> {}, collTs |-> 0, holds |-> {}],
               clock = 2
        PROVE  server \in Server /\ clock \in Time
    BY <2>2, SetupAssumption DEF Server, MetaGlobal, Time
  <2> QED BY <2>1, <2>2 DEF Init
<1> QED
  BY <1>1, IdleType, SetupAssumption DEF Init, TypeOK, Store, Time, Declined, Listed

LEMMA NextType == TypeOK /\ [Next]_vars => TypeOK'
<1> SUFFICES ASSUME TypeOK, [Next]_vars PROVE TypeOK'
  OBVIOUS
<1> USE SetupAssumption DEF TypeOK, Step
<1>l. {"Initial", "WithPreviousState", "FreshStartRequired", "InitialWithConfig",
       "InitialWithInfo", "InitialWithMetaGlobal"} \subseteq Labels
  BY DEF Labels, StartStates
<1>p. {"PutMetaGlobal", "PutCryptoKeys", "Fetch", "Upload"} \subseteq Phases
  BY DEF Phases
<1>s. server.meta \in MetaGlobal /\ server.crypto \in Time /\ server.collTs \in Time
  BY DEF Server
<1>c. clock < MaxClock => clock + 1 \in Time
  BY DEF Time
<1>1. ASSUME NEW d \in Device, NEW kind \in Kinds, Start(d, kind) PROVE TypeOK'
  <2> DEFINE m == [phase |-> "Idle", kind |-> kind, visited |-> {}, steps |-> 0,
                   meta |-> cache[d].meta, key |-> cache[d].key, pgs |-> disk[d], ts |-> 0]
             label == IF cache[d] = NoState THEN "Initial" ELSE "WithPreviousState"
  <2>1. m \in Machine
    BY DEF Machine, GlobalState, Phases, Time
  <2>2. label \in Labels
    BY <1>l
  <2>3. machine' = [machine EXCEPT ![d] = Enter(m, label)] /\ cache' = [cache EXCEPT ![d] = NoState]
    BY <1>1 DEF Start
  <2> HIDE DEF m, label
  <2>4. Enter(m, label) \in Machine
    BY <2>1, <2>2, EnterType
  <2> QED BY <1>1, <2>3, <2>4, IdleType DEF Start
<1>2. ASSUME NEW d \in Device, FetchInfoConfiguration(d) PROVE TypeOK'
  BY <1>2, <1>l, EnterType DEF FetchInfoConfiguration
<1>3. ASSUME NEW d \in Device, FetchInfoCollections(d) PROVE TypeOK'
  <2>1. Enter(machine[d], "InitialWithInfo") \in Machine /\ Enter(machine[d], "FreshStartRequired") \in Machine
    BY <1>l, EnterType
  <2> QED BY <1>3, <2>1 DEF FetchInfoCollections
<1>4. ASSUME NEW d \in Device, FetchMetaGlobal(d) PROVE TypeOK'
  <2> DEFINE g == [machine[d] EXCEPT !.meta = server.meta]
  <2>1. g \in Machine
    BY <1>s, WithMetaType
  <2> HIDE DEF g
  <2>2. Enter(machine[d], "FreshStartRequired") \in Machine /\ Enter(g, "InitialWithMetaGlobal") \in Machine
    BY <2>1, <1>l, EnterType
  <2>3. server.meta.declined \in Declined
    BY <1>s DEF MetaGlobal, Declined
  <2>4. \E m \in Machine : machine' = [machine EXCEPT ![d] = m]
    BY <1>4, <2>2, IdleType DEF FetchMetaGlobal, g
  <2>5. seen' \in [Device -> Declined]
    BY <1>4, <2>3 DEF FetchMetaGlobal
  <2> QED BY <1>4, <2>4, <2>5 DEF FetchMetaGlobal
<1>5. ASSUME NEW d \in Device, FetchCryptoKeys(d) PROVE TypeOK'
  <2> DEFINE m == WithKeys(machine[d], server.crypto)
  <2>1. m \in Machine
    BY <1>s, WithKeysType
  <2>2. \/ machine' = [machine EXCEPT ![d] = Enter(m, "FreshStartRequired")] /\ UNCHANGED disk
        \/ /\ machine' = [machine EXCEPT ![d] = AtPhase(m, "Fetch")]
           /\ disk' = [disk EXCEPT ![d] = m.pgs]
    BY <1>5 DEF FetchCryptoKeys, Ready
  <2>3. UNCHANGED <<server, clock, losses, cache, store, seen>>
    BY <1>5 DEF FetchCryptoKeys
  <2> HIDE DEF m
  <2>4. Enter(m, "FreshStartRequired") \in Machine /\ AtPhase(m, "Fetch") \in Machine /\ m.pgs \in Declined
    BY <2>1, <1>l, <1>p, EnterType, AtPhaseType DEF Machine
  <2> QED BY <2>2, <2>3, <2>4
<1>6. ASSUME NEW d \in Device, CheckPreviousState(d) PROVE TypeOK'
  <2>1. /\ AtPhase(machine[d], "Fetch") \in Machine
        /\ Enter(machine[d], "InitialWithConfig") \in Machine
        /\ machine[d].pgs \in Declined
    BY <1>l, <1>p, EnterType, AtPhaseType DEF Machine
  <2> QED BY <1>6, <2>1 DEF CheckPreviousState, Ready
<1>7. ASSUME NEW d \in Device, wipe_all_remote(d) PROVE TypeOK'
  BY <1>7, <1>p, AtPhaseType, IdleType DEF wipe_all_remote
<1>8. ASSUME NEW d \in Device, put_meta_global(d) PROVE TypeOK'
  <2>1. CASE server.meta # NoMeta
    BY <1>8, <2>1, IdleType DEF put_meta_global
  <2>2. CASE server.meta = NoMeta
    <3>1. new_global(d, clock + 1) \in MetaGlobal
      BY <1>8, <2>2, <1>c DEF put_meta_global, new_global, MetaGlobal, Machine, Declined, Listed
    <3>2. [server EXCEPT !.meta = new_global(d, clock + 1)] \in Server
      BY <3>1 DEF Server
    <3>3. AtPhase(machine[d], "PutCryptoKeys") \in Machine
      BY <1>p, AtPhaseType
    <3> QED BY <1>8, <2>2, <3>2, <3>3, <1>c DEF put_meta_global
  <2> QED BY <2>1, <2>2
<1>9. ASSUME NEW d \in Device, put_crypto_keys(d) PROVE TypeOK'
  <2>1. CASE server.crypto # 0
    BY <1>9, <2>1, IdleType DEF put_crypto_keys
  <2>2. CASE server.crypto = 0
    <3>1. [server EXCEPT !.crypto = clock + 1] \in Server
      BY <1>9, <2>2, <1>c DEF put_crypto_keys, Server
    <3>2. Enter(machine[d], "InitialWithConfig") \in Machine
      BY <1>l, EnterType
    <3> QED BY <1>9, <2>2, <3>1, <3>2, <1>c DEF put_crypto_keys
  <2> QED BY <2>1, <2>2
<1>10. ASSUME NEW d \in Device, SyncFetch(d) PROVE TypeOK'
  <2>1. Associated(d) \in Store /\ [meta |-> machine[d].meta, key |-> machine[d].key] \in GlobalState
    BY DEF Associated, Store, Machine, MetaGlobal, GlobalState, Time
  <2>2. AtPhase([machine[d] EXCEPT !.ts = server.collTs], "Upload") \in Machine
    BY <1>s, <1>p, WithTsType, AtPhaseType
  <2> QED BY <1>10, <2>1, <2>2, IdleType DEF SyncFetch, StoreSucceeded, StoreFailed
<1>11. ASSUME NEW d \in Device, SyncUpload(d) PROVE TypeOK'
  <2>1. [meta |-> machine[d].meta, key |-> machine[d].key] \in GlobalState
    BY DEF Machine, GlobalState
  <2>2. clock < MaxClock => Posted(machine[d].key, d, clock + 1) \in Server
    BY <1>c DEF Posted, Server, Machine
  <2>3. \A t \in Time : Finished(store[d], t) \in Store
    BY DEF Finished, Store
  <2>4. machine[d].ts \in Time
    BY DEF Machine
  <2> QED BY <1>11, <2>1, <2>2, <2>3, <2>4, <1>c, IdleType
          DEF SyncUpload, StoreSucceeded, StoreFailed
<1>12. ASSUME NEW d \in Device, StoreError(d) PROVE TypeOK'
  <2>1. [meta |-> machine[d].meta, key |-> machine[d].key] \in GlobalState
    BY DEF Machine, GlobalState
  <2> QED BY <1>12, <2>1, IdleType DEF StoreError, StoreFailed
<1>13. ASSUME NEW d \in Device, Abort(d) PROVE TypeOK'
  BY <1>13, IdleType DEF Abort
<1>14. ASSUME NEW d \in Device, LocalChange(d) PROVE TypeOK'
  BY <1>14 DEF LocalChange, Store
<1>15. CASE OtherDeclines
  <2> DEFINE g == [id |-> server.meta.id, version |-> server.meta.version, ts |-> clock + 1,
                   declined |-> IF server.meta.declined = "enabled" THEN "declined" ELSE "enabled"]
  <2>1. g \in MetaGlobal
    BY <1>15, <1>s, <1>c DEF OtherDeclines, MetaGlobal, Listed
  <2>2. server' = [server EXCEPT !.meta = g]
    BY <1>15 DEF OtherDeclines
  <2> HIDE DEF g
  <2>3. server' \in Server
    BY <2>1, <2>2 DEF Server
  <2> QED BY <1>15, <2>3, <1>c DEF OtherDeclines
<1>16. CASE NodeReassigned
  BY <1>16, IdleType DEF NodeReassigned
<1>17. CASE UNCHANGED vars
  BY <1>17 DEF vars
<1> QED
  BY <1>1, <1>2, <1>3, <1>4, <1>5, <1>6, <1>7, <1>8, <1>9, <1>10, <1>11, <1>12, <1>13,
     <1>14, <1>15, <1>16, <1>17 DEF Next
(* Every variable of the setup has its type, on any number of devices: in  *)
(* particular new_global replaces an unknown declined list before it is    *)
(* uploaded, and no step writes a timestamp the server did not hand out.   *)
THEOREM SetupTypeCorrect == Spec => []TypeOK
<1>1. Init => TypeOK
  BY InitType
<1>2. TypeOK /\ [Next]_vars => TypeOK'
  BY NextType
<1> QED BY <1>1, <1>2, PTL DEF Spec

-----------------------------------------------------------------------------
(* The number of states a run enters.                                      *)

(* How far a run may be in each phase; FreshStartRequired adds four states *)
(* to the path, and can be entered once.                                   *)
Restarted(m) == "FreshStartRequired" \in m.visited
Short(m) ==
    /\ m.steps <= 8
    /\ m.phase = "Idle" => m.steps = 0
    /\ m.phase \in {"Initial", "WithPreviousState"} => m.steps <= 1 /\ ~Restarted(m)
    /\ m.phase = "InitialWithConfig" => m.steps <= IF Restarted(m) THEN 6 ELSE 2
    /\ m.phase = "InitialWithInfo" => m.steps <= IF Restarted(m) THEN 7 ELSE 3
    /\ m.phase = "InitialWithMetaGlobal" => m.steps <= IF Restarted(m) THEN 8 ELSE 4
    /\ m.phase \in {"FreshStartRequired", "PutMetaGlobal", "PutCryptoKeys"}
         => m.steps <= 5 /\ Restarted(m)

LEMMA EnterShort ==
    ASSUME NEW m \in Machine, NEW label \in Labels,
           label = "Initial" \/ label = "WithPreviousState" => m.steps = 0 /\ ~Restarted(m),
           label = "InitialWithConfig" => m.steps <= IF Restarted(m) THEN 5 ELSE 1,
           label = "InitialWithInfo" => m.steps <= IF Restarted(m) THEN 6 ELSE 2,
           label = "InitialWithMetaGlobal" => m.steps <= IF Restarted(m) THEN 7 ELSE 3,
           label = "FreshStartRequired" => Restarted(m) \/ m.steps <= 4
    PROVE  Short(Enter(m, label))
<1>1. Short(Idle)
  BY DEF Short, Idle
<1>2. CASE label \in StartStates /\ label \in m.visited
  BY <1>1, <1>2 DEF Enter
<1>3. CASE ~(label \in StartStates /\ label \in m.visited)
  <2> DEFINE n == Entered(m, label)
  <2>1. /\ n.phase = label /\ n.steps = m.steps + 1 /\ n.visited = m.visited \cup {label}
        /\ m.steps \in Nat
    BY DEF Entered, Machine
  <2> HIDE DEF n
  <2>2. Restarted(n) <=> Restarted(m) \/ label = "FreshStartRequired"
    BY <2>1 DEF Restarted
  <2>3. label = "FreshStartRequired" => ~Restarted(m)
    BY <1>3 DEF Restarted, StartStates
  <2>4. Short(n)
    BY <2>1, <2>2, <2>3 DEF Short, Labels, StartStates
  <2> QED BY <1>1, <2>4 DEF Enter, n
<1> QED BY <1>2, <1>3

LEMMA AtPhaseShort ==
    ASSUME NEW m \in Machine, Short(m), NEW p \in Phases,
           p \in {"Fetch", "Upload"}
             \/ (p \in {"PutMetaGlobal", "PutCryptoKeys"} /\ m.steps <= 5 /\ Restarted(m))
    PROVE  Short(AtPhase(m, p))
BY AtPhaseType DEF Short, Restarted

LEMMA NextShort ==
    TypeOK /\ (\A d \in Device : Short(machine[d])) /\ [Next]_vars
      => \A d \in Device : Short(machine'[d])
<1> SUFFICES ASSUME TypeOK, \A d \in Device : Short(machine[d]), [Next]_vars
             PROVE  \A d \in Device : Short(machine'[d])
  OBVIOUS
<1>t. machine \in [Device -> Machine] /\ server.meta \in MetaGlobal /\ server.crypto \in Time
      /\ server.collTs \in Time
  BY DEF TypeOK, Server
<1>i. Short(Idle)
  BY DEF Short, Idle
<1>l. {"Initial", "WithPreviousState", "FreshStartRequired", "InitialWithConfig",
       "InitialWithInfo", "InitialWithMetaGlobal"} \subseteq Labels
  BY DEF Labels, StartStates
<1>p. {"PutMetaGlobal", "PutCryptoKeys", "Fetch", "Upload"} \subseteq Phases
  BY DEF Phases
(* A step of one device puts a short run in place of its own.              *)
<1>s. ASSUME NEW d \in Device, NEW m, Short(m), Step(d, m)
      PROVE  \A e \in Device : Short(machine'[e])
  BY <1>s, <1>t DEF Step
<1>1. ASSUME NEW d \in Device, NEW kind \in Kinds, Start(d, kind)
      PROVE  \A e \in Device : Short(machine'[e])
  <2> DEFINE m == [phase |-> "Idle", kind |-> kind, visited |-> {}, steps |-> 0,
                   meta |-> cache[d].meta, key |-> cache[d].key, pgs |-> disk[d], ts |-> 0]
             label == IF cache[d] = NoState THEN "Initial" ELSE "WithPreviousState"
  <2>1. m \in Machine /\ m.steps = 0 /\ ~Restarted(m)
    BY SetupAssumption DEF Machine, GlobalState, Phases, Time, TypeOK, Restarted
  <2>2. label \in {"Initial", "WithPreviousState"}
    OBVIOUS
  <2>3. Step(d, Enter(m, label))
    BY <1>1 DEF Start
  <2> HIDE DEF m, label
  <2>4. Short(Enter(m, label))
    BY <2>1, <2>2, <1>l, EnterShort
  <2> QED BY <2>3, <2>4, <1>s
<1>2. ASSUME NEW d \in Device, FetchInfoConfiguration(d)
      PROVE  \A e \in Device : Short(machine'[e])
  <2>1. Short(Enter(machine[d], "InitialWithConfig"))
    BY <1>2, <1>t, <1>l, EnterShort DEF FetchInfoConfiguration, Short
  <2> QED BY <1>2, <2>1, <1>s DEF FetchInfoConfiguration
<1>3. ASSUME NEW d \in Device, FetchInfoCollections(d)
      PROVE  \A e \in Device : Short(machine'[e])
  <2>1. machine[d].steps <= IF Restarted(machine[d]) THEN 6 ELSE 2
    BY <1>3 DEF FetchInfoCollections, Short
  <2>2. Short(Enter(machine[d], "InitialWithInfo")) /\ Short(Enter(machine[d], "FreshStartRequired"))
    <3>1. machine[d].steps \in Nat
      BY <1>t DEF Machine
    <3> QED BY <2>1, <3>1, <1>t, <1>l, EnterShort
  <2> QED BY <1>3, <2>2, <1>s DEF FetchInfoCollections
<1>4. ASSUME NEW d \in Device, FetchMetaGlobal(d)
      PROVE  \A e \in Device : Short(machine'[e])
  <2> DEFINE g == [machine[d] EXCEPT !.meta = server.meta]
  <2>1. machine[d].steps <= IF Restarted(machine[d]) THEN 7 ELSE 3
    BY <1>4 DEF FetchMetaGlobal, Short
  <2>2. /\ g \in Machine /\ g.steps = machine[d].steps /\ machine[d].steps \in Nat
        /\ Restarted(g) <=> Restarted(machine[d])
    BY <1>t, WithMetaType DEF Machine, Restarted
  <2>3. \E m : Step(d, m) /\ m \in {Idle, Enter(g, "InitialWithMetaGlobal"),
                                    Enter(machine[d], "FreshStartRequired")}
    BY <1>4 DEF FetchMetaGlobal
  <2> HIDE DEF g
  <2>4. Short(Enter(g, "InitialWithMetaGlobal"))
    BY <2>1, <2>2, <1>l, EnterShort
  <2>5. Short(Enter(machine[d], "FreshStartRequired"))
    BY <2>1, <2>2, <1>t, <1>l, EnterShort
  <2> QED BY <2>3, <2>4, <2>5, <1>i, <1>s
<1>5. ASSUME NEW d \in Device, FetchCryptoKeys(d)
      PROVE  \A e \in Device : Short(machine'[e])
  <2> DEFINE m == WithKeys(machine[d], server.crypto)
  <2>1. m.phase = machine[d].phase /\ m.steps = machine[d].steps /\ m.visited = machine[d].visited
    BY DEF WithKeys
  <2>2. m \in Machine
    BY <1>t, WithKeysType
  <2>3. m.phase = "InitialWithMetaGlobal"
        /\ \E n \in {Enter(m, "FreshStartRequired"), AtPhase(m, "Fetch")} : Step(d, n)
    BY <1>5 DEF FetchCryptoKeys, Ready
  <2> HIDE DEF m
  <2>4. Short(m) /\ (Restarted(m) \/ m.steps <= 4)
    BY <2>1, <2>3 DEF Short, Restarted
  <2>5. Short(Enter(m, "FreshStartRequired"))
    BY <2>2, <2>4, <1>l, EnterShort
  <2>6. Short(AtPhase(m, "Fetch"))
    BY <2>2, <2>4, <1>p, AtPhaseShort
  <2> QED BY <2>3, <2>5, <2>6, <1>s
<1>6. ASSUME NEW d \in Device, CheckPreviousState(d)
      PROVE  \A e \in Device : Short(machine'[e])
  <2>1. Short(AtPhase(machine[d], "Fetch"))
    BY <1>t, <1>p, AtPhaseShort
  <2>2. Short(Enter(machine[d], "InitialWithConfig"))
    BY <1>6, <1>t, <1>l, EnterShort DEF CheckPreviousState, Short
  <2> QED BY <1>6, <2>1, <2>2, <1>s DEF CheckPreviousState, Ready
<1>7. ASSUME NEW d \in Device, wipe_all_remote(d)
      PROVE  \A e \in Device : Short(machine'[e])
  <2>1. machine[d].steps <= 5 /\ Restarted(machine[d])
    BY <1>7 DEF wipe_all_remote, Short
  <2>2. Short(AtPhase(machine[d], "PutMetaGlobal"))
    BY <2>1, <1>t, <1>p, AtPhaseShort
  <2> QED BY <1>7, <2>2, <1>s DEF wipe_all_remote
<1>8. ASSUME NEW d \in Device, put_meta_global(d)
      PROVE  \A e \in Device : Short(machine'[e])
  <2>1. machine[d].steps <= 5 /\ Restarted(machine[d])
    BY <1>8 DEF put_meta_global, Short
  <2>2. Short(AtPhase(machine[d], "PutCryptoKeys"))
    BY <2>1, <1>t, <1>p, AtPhaseShort
  <2> QED BY <1>8, <2>2, <1>i, <1>s DEF put_meta_global
<1>9. ASSUME NEW d \in Device, put_crypto_keys(d)
      PROVE  \A e \in Device : Short(machine'[e])
  <2>1. machine[d].steps <= 5 /\ Restarted(machine[d])
    BY <1>9 DEF put_crypto_keys, Short
  <2>2. Short(Enter(machine[d], "InitialWithConfig"))
    BY <2>1, <1>t, <1>l, EnterShort
  <2> QED BY <1>9, <2>2, <1>i, <1>s DEF put_crypto_keys
<1>10. ASSUME NEW d \in Device, SyncFetch(d)
       PROVE  \A e \in Device : Short(machine'[e])
  <2> DEFINE m == [machine[d] EXCEPT !.ts = server.collTs]
  <2>1. m \in Machine /\ Short(m)
    BY <1>t, WithTsType DEF Machine, Short, Restarted
  <2>2. \E n \in {Idle, AtPhase(m, "Upload")} : Step(d, n)
    BY <1>10 DEF SyncFetch, StoreSucceeded, StoreFailed
  <2> HIDE DEF m
  <2>3. Short(AtPhase(m, "Upload"))
    BY <2>1, <1>p, AtPhaseShort
  <2> QED BY <2>2, <2>3, <1>i, <1>s
<1>11. ASSUME NEW d \in Device, SyncUpload(d) \/ StoreError(d) \/ Abort(d)
       PROVE  \A e \in Device : Short(machine'[e])
  BY <1>11, <1>i, <1>s DEF SyncUpload, StoreError, Abort, StoreSucceeded, StoreFailed
<1>12. CASE \/ OtherDeclines \/ NodeReassigned \/ UNCHANGED vars
            \/ \E d \in Device : LocalChange(d)
  BY <1>12 DEF OtherDeclines, NodeReassigned, LocalChange, vars
<1> QED
  BY <1>1, <1>2, <1>3, <1>4, <1>5, <1>6, <1>7, <1>8, <1>9, <1>10, <1>11, <1>12 DEF Next

(* run_to_ready enters at most eight states, whatever the other devices    *)
(* and the server do meanwhile.                                            *)
THEOREM RunsEnd == Spec => []RunsAreShort
<1> DEFINE Inv == TypeOK /\ \A d \in Device : Short(machine[d])
<1>1. Init => Inv
  <2>1. Short(Idle)
    BY DEF Short, Idle
  <2> QED BY <2>1, InitType DEF Init
<1>2. Inv /\ [Next]_vars => Inv'
  BY NextType, NextShort
<1>3. Inv => RunsAreShort
  BY DEF RunsAreShort, Short
<1> QED BY <1>1, <1>2, <1>3, PTL DEF Spec
-----------------------------------------------------------------------------
(* What a device knows of the server.                                      *)

(* A meta/global or key that a device holds, from server s at time c or    *)
(* earlier: whatever the server has now is newer, or the same.             *)
Knows(s, c, g, k) ==
    /\ g.id <= c /\ g.ts <= c /\ k <= c
    /\ s.meta # NoMeta /\ s.meta.ts <= g.ts => s.meta = g
    /\ s.crypto # 0 /\ s.crypto <= k => s.crypto = k

Dated(s, c) ==
    /\ s.meta.id <= c /\ s.meta.ts <= c /\ s.crypto <= c
    /\ s.meta # NoMeta => s.meta.ts > 0

(* The inductive invariant behind UploadedUnlessWiped and FreshIsCurrent.  *)
KnowledgeInv ==
    /\ Dated(server, clock)
    /\ \A d \in Device :
         /\ Knows(server, clock, machine[d].meta, machine[d].key)
         /\ Knows(server, clock, cache[d].meta, cache[d].key)
         /\ store[d].assoc <= clock
    /\ UploadedUnlessWiped

(* The server keeps, loses or replaces its records; a replacement gets a   *)
(* new timestamp.                                                          *)
Moves(s, c, t, e) ==
    /\ e >= c
    /\ t.meta = s.meta \/ t.meta = NoMeta \/ t.meta.ts > c
    /\ t.crypto = s.crypto \/ t.crypto = 0 \/ t.crypto > c

LEMMA KnowledgeLasts ==
    ASSUME NEW s \in Server, NEW t \in Server, NEW c \in Time, NEW e \in Time,
           Moves(s, c, t, e),
           NEW g \in MetaGlobal, NEW k \in Time, Knows(s, c, g, k)
    PROVE  Knows(t, e, g, k)
BY SetupAssumption DEF Moves, Knows, Server, MetaGlobal, Time

LEMMA EnterKeeps ==
    ASSUME NEW m \in Machine, NEW label \in Labels
    PROVE  \/ Enter(m, label).meta = m.meta /\ Enter(m, label).key = m.key
           \/ Enter(m, label).meta = NoMeta /\ Enter(m, label).key = 0
BY DEF Enter, Entered, Idle

LEMMA NothingKnown ==
    ASSUME NEW s \in Server, NEW c \in Time, Dated(s, c)
    PROVE  Knows(s, c, NoMeta, 0)
BY SetupAssumption DEF Knows, Dated, NoMeta, Server, MetaGlobal, Time

(* Steps that leave the server alone: the new machine and the new cache    *)
(* hold what was known, or is read now.                                    *)
LEMMA ReadingStep ==
    ASSUME TypeOK, TypeOK', KnowledgeInv, UNCHANGED <<server, clock>>,
           NEW d \in Device, NEW m,
           machine' = [machine EXCEPT ![d] = m],
           m.meta \in {machine[d].meta, cache[d].meta, server.meta, NoMeta},
           m.key \in {machine[d].key, cache[d].key, server.crypto, 0},
           \A e \in Device :
              \/ cache'[e] = cache[e] \/ cache'[e] = NoState
              \/ cache'[e] = [meta |-> machine[e].meta, key |-> machine[e].key],
           \A e \in Device :
              \/ store'[e].assoc = store[e].assoc /\ (~store'[e].dirty => ~store[e].dirty)
              \/ store'[e].assoc \in {store[e].assoc, machine[e].meta.id} /\ store'[e].dirty
    PROVE  KnowledgeInv'
<1>t. server \in Server /\ clock \in Time /\ clock \in Nat
  BY SetupAssumption DEF TypeOK, Time
<1>0. Knows(server, clock, NoMeta, 0) /\ NoMeta \in MetaGlobal
  BY <1>t, NothingKnown, IdleType DEF KnowledgeInv, Machine, Idle
<1>1. Knows(server, clock, server.meta, server.crypto)
  BY <1>t, SetupAssumption DEF KnowledgeInv, Knows, Dated, Server, MetaGlobal, Time
<1>2. Knows(server, clock, m.meta, m.key)
  <2>1. \A g \in {machine[d].meta, cache[d].meta, server.meta, NoMeta} :
          g.id <= clock /\ g.ts <= clock
          /\ (server.meta # NoMeta /\ server.meta.ts <= g.ts => server.meta = g)
    BY <1>0, <1>1 DEF KnowledgeInv, Knows
  <2>2. \A k \in {machine[d].key, cache[d].key, server.crypto, 0} :
          k <= clock /\ (server.crypto # 0 /\ server.crypto <= k => server.crypto = k)
    BY <1>0, <1>1 DEF KnowledgeInv, Knows
  <2> QED BY <2>1, <2>2 DEF Knows
<1>3. \A e \in Device : Knows(server', clock', machine'[e].meta, machine'[e].key)
  BY <1>2 DEF KnowledgeInv, TypeOK
<1>4. \A e \in Device : Knows(server', clock', cache'[e].meta, cache'[e].key)
  BY <1>0 DEF KnowledgeInv, TypeOK, NoState
<1>5. \A e \in Device : store'[e].assoc <= clock'
  BY DEF KnowledgeInv, Knows
<1>6. UploadedUnlessWiped'
  BY DEF KnowledgeInv, UploadedUnlessWiped
<1> QED BY <1>3, <1>4, <1>5, <1>6 DEF KnowledgeInv, Dated

(* Steps that write: the machine keeps what it held, or forgets it.        *)
LEMMA WritingStep ==
    ASSUME TypeOK, TypeOK', KnowledgeInv, Moves(server, clock, server', clock'),
           Dated(server', clock'),
           \A e \in Device :
              \/ machine'[e].meta = machine[e].meta /\ machine'[e].key = machine[e].key
              \/ machine'[e].meta = NoMeta /\ machine'[e].key = 0,
           UNCHANGED cache,
           \A e \in Device : store'[e].assoc = store[e].assoc,
           UploadedUnlessWiped'
    PROVE  KnowledgeInv'
<1>t. server \in Server /\ clock \in Time /\ server' \in Server /\ clock' \in Time
  BY DEF TypeOK
<1>m. \A e \in Device : /\ machine[e].meta \in MetaGlobal /\ machine[e].key \in Time
                        /\ cache[e].meta \in MetaGlobal /\ cache[e].key \in Time
                        /\ store[e].assoc \in Time
  BY DEF TypeOK, Machine, GlobalState, Store
<1>0. Knows(server', clock', NoMeta, 0)
  BY <1>t, NothingKnown
<1>1. \A e \in Device : Knows(server', clock', machine[e].meta, machine[e].key)
  BY <1>t, <1>m, KnowledgeLasts DEF KnowledgeInv
<1>2. \A e \in Device : Knows(server', clock', cache[e].meta, cache[e].key)
  BY <1>t, <1>m, KnowledgeLasts DEF KnowledgeInv
<1>3. \A e \in Device : Knows(server', clock', machine'[e].meta, machine'[e].key)
  BY <1>0, <1>1
<1>4. \A e \in Device : store'[e].assoc <= clock'
  BY <1>t, <1>m, SetupAssumption DEF KnowledgeInv, Moves, Time
<1> QED BY <1>2, <1>3, <1>4 DEF KnowledgeInv
LEMMA NextKnows == TypeOK /\ TypeOK' /\ KnowledgeInv /\ [Next]_vars => KnowledgeInv'
<1> SUFFICES ASSUME TypeOK, TypeOK', KnowledgeInv, [Next]_vars PROVE KnowledgeInv'
  OBVIOUS
<1>t. /\ server \in Server /\ clock \in Nat /\ machine \in [Device -> Machine]
      /\ server.meta \in MetaGlobal /\ server.crypto \in Nat
      /\ store \in [Device -> Store] /\ cache \in [Device -> GlobalState]
  BY SetupAssumption DEF TypeOK, Server, Time
<1>l. {"Initial", "WithPreviousState", "FreshStartRequired", "InitialWithConfig",
       "InitialWithInfo", "InitialWithMetaGlobal"} \subseteq Labels
  BY DEF Labels, StartStates
<1>p. {"PutMetaGlobal", "PutCryptoKeys", "Fetch", "Upload"} \subseteq Phases
  BY DEF Phases
<1>a. \A d \in Device, p \in Phases :
         AtPhase(machine[d], p).meta = machine[d].meta /\ AtPhase(machine[d], p).key = machine[d].key
  BY <1>t, AtPhaseType
<1>i. Idle.meta = NoMeta /\ Idle.key = 0
  BY DEF Idle
<1>1. ASSUME NEW d \in Device, NEW kind \in Kinds, Start(d, kind) PROVE KnowledgeInv'
  <2> DEFINE m == [phase |-> "Idle", kind |-> kind, visited |-> {}, steps |-> 0,
                   meta |-> cache[d].meta, key |-> cache[d].key, pgs |-> disk[d], ts |-> 0]
             label == IF cache[d] = NoState THEN "Initial" ELSE "WithPreviousState"
  <2>1. m \in Machine /\ m.meta = cache[d].meta /\ m.key = cache[d].key
    BY SetupAssumption DEF Machine, GlobalState, Phases, Time, TypeOK
  <2>2. label \in Labels
    BY <1>l
  <2>3. machine' = [machine EXCEPT ![d] = Enter(m, label)]
        /\ cache' = [cache EXCEPT ![d] = NoState]
        /\ UNCHANGED <<server, clock, store>>
    BY <1>1 DEF Start, Step
  <2> HIDE DEF m, label
  <2>4. /\ Enter(m, label).meta \in {cache[d].meta, NoMeta}
        /\ Enter(m, label).key \in {cache[d].key, 0}
    BY <2>1, <2>2, EnterKeeps
  <2>5. \A e \in Device : cache'[e] = cache[e] \/ cache'[e] = NoState
    BY <2>3, <1>t
  <2> QED BY <2>3, <2>4, <2>5, ReadingStep
<1>2. ASSUME NEW d \in Device, FetchInfoConfiguration(d) \/ FetchInfoCollections(d)
      PROVE  KnowledgeInv'
  <2>1. PICK label \in Labels : machine' = [machine EXCEPT ![d] = Enter(machine[d], label)]
    BY <1>2, <1>l DEF FetchInfoConfiguration, FetchInfoCollections, Step
  <2>2. UNCHANGED <<server, clock, cache, store>>
    BY <1>2 DEF FetchInfoConfiguration, FetchInfoCollections
  <2>3. /\ Enter(machine[d], label).meta \in {machine[d].meta, NoMeta}
        /\ Enter(machine[d], label).key \in {machine[d].key, 0}
    BY <1>t, EnterKeeps
  <2> QED BY <2>1, <2>2, <2>3, ReadingStep
<1>3. ASSUME NEW d \in Device, FetchMetaGlobal(d) PROVE KnowledgeInv'
  <2> DEFINE g == [machine[d] EXCEPT !.meta = server.meta]
  <2>1. g \in Machine /\ g.meta = server.meta /\ g.key = machine[d].key
    BY <1>t, WithMetaType DEF Machine
  <2>2. \E m \in {Idle, Enter(g, "InitialWithMetaGlobal"), Enter(machine[d], "FreshStartRequired")} :
           machine' = [machine EXCEPT ![d] = m]
    BY <1>3 DEF FetchMetaGlobal, Step
  <2>3. UNCHANGED <<server, clock, cache, store>>
    BY <1>3 DEF FetchMetaGlobal
  <2> HIDE DEF g
  <2>4. \A m \in {Idle, Enter(g, "InitialWithMetaGlobal"), Enter(machine[d], "FreshStartRequired")} :
           m.meta \in {machine[d].meta, server.meta, NoMeta} /\ m.key \in {machine[d].key, 0}
    BY <2>1, <1>t, <1>l, <1>i, EnterKeeps
  <2> QED BY <2>2, <2>3, <2>4, ReadingStep
<1>4. ASSUME NEW d \in Device, FetchCryptoKeys(d) PROVE KnowledgeInv'
  <2> DEFINE m == WithKeys(machine[d], server.crypto)
  <2>1. m \in Machine
    BY WithKeysType DEF TypeOK, Server
  <2>2. m.meta = machine[d].meta /\ m.key = server.crypto
    BY DEF WithKeys
  <2>3. \E n \in {Enter(m, "FreshStartRequired"), AtPhase(m, "Fetch")} :
           machine' = [machine EXCEPT ![d] = n]
    BY <1>4 DEF FetchCryptoKeys, Ready, Step
  <2>4. UNCHANGED <<server, clock, cache, store>>
    BY <1>4 DEF FetchCryptoKeys
  <2> HIDE DEF m
  <2>a. AtPhase(m, "Fetch").meta = m.meta /\ AtPhase(m, "Fetch").key = m.key
    BY <2>1, <1>p, AtPhaseType
  <2>e. /\ Enter(m, "FreshStartRequired").meta \in {m.meta, NoMeta}
        /\ Enter(m, "FreshStartRequired").key \in {m.key, 0}
    BY <2>1, <1>l, EnterKeeps
  <2>5. \A n \in {Enter(m, "FreshStartRequired"), AtPhase(m, "Fetch")} :
           n.meta \in {machine[d].meta, NoMeta} /\ n.key \in {server.crypto, 0}
    BY <2>2, <2>a, <2>e
  <2> QED BY <2>3, <2>4, <2>5, ReadingStep
<1>5. ASSUME NEW d \in Device, CheckPreviousState(d) PROVE KnowledgeInv'
  <2>1. \E n \in {Enter(machine[d], "InitialWithConfig"), AtPhase(machine[d], "Fetch")} :
           machine' = [machine EXCEPT ![d] = n]
    BY <1>5 DEF CheckPreviousState, Ready, Step
  <2>2. UNCHANGED <<server, clock, cache, store>>
    BY <1>5 DEF CheckPreviousState
  <2>a. AtPhase(machine[d], "Fetch").meta = machine[d].meta /\ AtPhase(machine[d], "Fetch").key = machine[d].key
    BY <1>t, <1>p, AtPhaseType
  <2>e. /\ Enter(machine[d], "InitialWithConfig").meta \in {machine[d].meta, NoMeta}
        /\ Enter(machine[d], "InitialWithConfig").key \in {machine[d].key, 0}
    BY <1>t, <1>l, EnterKeeps
  <2>3. \A n \in {Enter(machine[d], "InitialWithConfig"), AtPhase(machine[d], "Fetch")} :
           n.meta \in {machine[d].meta, NoMeta} /\ n.key \in {machine[d].key, 0}
    BY <2>a, <2>e
  <2> QED BY <2>1, <2>2, <2>3, ReadingStep
<1>6. ASSUME NEW d \in Device, SyncFetch(d) PROVE KnowledgeInv'
  <2> DEFINE m == [machine[d] EXCEPT !.ts = server.collTs]
  <2>1. m \in Machine /\ m.meta = machine[d].meta /\ m.key = machine[d].key
    BY WithTsType DEF TypeOK, Server, Machine
  <2>2. \E n \in {Idle, AtPhase(m, "Upload")} : machine' = [machine EXCEPT ![d] = n]
    BY <1>6 DEF SyncFetch, StoreSucceeded, StoreFailed, Step
  <2>3. UNCHANGED <<server, clock>>
    BY <1>6 DEF SyncFetch
  <2>4. \A e \in Device :
           \/ cache'[e] = cache[e]
           \/ cache'[e] = [meta |-> machine[e].meta, key |-> machine[e].key]
    BY <1>6, <1>t DEF SyncFetch, StoreSucceeded, StoreFailed
  <2>5. \A e \in Device :
           \/ store'[e] = store[e]
           \/ store'[e].assoc = machine[e].meta.id /\ store'[e].dirty
    BY <1>6, <1>t DEF SyncFetch, Associated
  <2> HIDE DEF m
  <2>a. AtPhase(m, "Upload").meta = m.meta /\ AtPhase(m, "Upload").key = m.key
    BY <2>1, <1>p, AtPhaseType
  <2>6. \A n \in {Idle, AtPhase(m, "Upload")} :
           n.meta \in {machine[d].meta, NoMeta} /\ n.key \in {machine[d].key, 0}
    BY <2>1, <2>a, <1>i
  <2> QED BY <2>2, <2>3, <2>4, <2>5, <2>6, ReadingStep
<1>7. ASSUME NEW d \in Device, StoreError(d) \/ Abort(d) PROVE KnowledgeInv'
  <2>1. machine' = [machine EXCEPT ![d] = Idle] /\ UNCHANGED <<server, clock, store>>
    BY <1>7 DEF StoreError, Abort, StoreFailed, Step
  <2>2. \A e \in Device :
           \/ cache'[e] = cache[e]
           \/ cache'[e] = [meta |-> machine[e].meta, key |-> machine[e].key]
    BY <1>7, <1>t DEF StoreError, Abort, StoreFailed
  <2> QED BY <2>1, <2>2, <1>i, ReadingStep
<1>8. ASSUME NEW d \in Device, LocalChange(d) PROVE KnowledgeInv'
  <2>1. machine' = [machine EXCEPT ![d] = machine[d]] /\ UNCHANGED <<server, clock, cache>>
    BY <1>8, <1>t DEF LocalChange
  <2>2. \A e \in Device : store'[e].assoc = store[e].assoc /\ (~store'[e].dirty => ~store[e].dirty)
    BY <1>8, <1>t DEF LocalChange
  <2> QED BY <2>1, <2>2, ReadingStep
<1>9. ASSUME NEW d \in Device, SyncUpload(d) PROVE KnowledgeInv'
  <2>1. machine' = [machine EXCEPT ![d] = Idle]
    BY <1>9 DEF SyncUpload, StoreSucceeded, StoreFailed, Step
  <2>2. CASE UNCHANGED <<server, clock>>
    <3>1. \A e \in Device : store'[e].assoc = store[e].assoc /\ (~store'[e].dirty => ~store[e].dirty)
      BY <1>9, <2>2, <1>t DEF SyncUpload, Finished
    <3>2. \A e \in Device :
             \/ cache'[e] = cache[e]
             \/ cache'[e] = [meta |-> machine[e].meta, key |-> machine[e].key]
      BY <1>9, <1>t DEF SyncUpload, StoreFailed, StoreSucceeded
    <3> QED BY <2>1, <2>2, <3>1, <3>2, <1>i, ReadingStep
  <2>3. CASE ~UNCHANGED <<server, clock>>
    <3>1. /\ clock' = clock + 1 /\ server' = Posted(machine[d].key, d, clock + 1)
          /\ store' = [store EXCEPT ![d] = Finished(@, clock + 1)] /\ UNCHANGED cache
      BY <1>9, <2>3 DEF SyncUpload, StoreSucceeded
    <3>2. server'.meta = server.meta /\ server'.crypto = server.crypto
          /\ server'.holds = server.holds \cup {d}
      BY <3>1 DEF Posted
    <3>3. Moves(server, clock, server', clock') /\ Dated(server', clock')
      BY <3>1, <3>2, <1>t, SetupAssumption DEF Moves, Dated, KnowledgeInv, MetaGlobal, Time
    <3>4. \A e \in Device : store'[e].assoc = store[e].assoc /\ (e # d => store'[e] = store[e])
      BY <3>1, <1>t DEF Finished
    <3>5. UploadedUnlessWiped'
      BY <3>2, <3>4 DEF KnowledgeInv, UploadedUnlessWiped
    <3>6. \A e \in Device : \/ machine'[e] = machine[e]
                            \/ machine'[e].meta = NoMeta /\ machine'[e].key = 0
      BY <2>1, <1>t, <1>i
    <3> QED BY <3>1, <3>3, <3>4, <3>5, <3>6, WritingStep
  <2> QED BY <2>2, <2>3
<1>10. CASE \/ \E d \in Device : wipe_all_remote(d)
            \/ NodeReassigned
  <2>1. server' = Empty /\ UNCHANGED <<clock, cache, store>>
    BY <1>10 DEF wipe_all_remote, NodeReassigned
  <2>2. server'.meta = NoMeta /\ server'.crypto = 0
    BY <2>1 DEF Empty
  <2>3. Moves(server, clock, server', clock') /\ Dated(server', clock')
    BY <2>1, <2>2, <1>t DEF Moves, Dated, NoMeta
  <2>4. UploadedUnlessWiped'
    BY <2>2 DEF UploadedUnlessWiped
  <2>5. \A e \in Device : machine'[e].meta = machine[e].meta /\ machine'[e].key = machine[e].key
    BY <1>10, <1>a, <1>p, <1>t DEF wipe_all_remote, NodeReassigned, Step
  <2> QED BY <2>1, <2>3, <2>4, <2>5, WritingStep
<1>11. ASSUME NEW d \in Device, put_meta_global(d) PROVE KnowledgeInv'
  <2>1. CASE server.meta # NoMeta
    BY <1>11, <2>1, <1>i, ReadingStep DEF put_meta_global, Step
  <2>2. CASE server.meta = NoMeta
    <3>1. /\ clock' = clock + 1 /\ server' = [server EXCEPT !.meta = new_global(d, clock + 1)]
          /\ machine' = [machine EXCEPT ![d] = AtPhase(machine[d], "PutCryptoKeys")]
          /\ UNCHANGED <<cache, store>>
      BY <1>11, <2>2 DEF put_meta_global, Step
    <3>2. new_global(d, clock + 1).id = clock + 1 /\ new_global(d, clock + 1).ts = clock + 1
      BY DEF new_global
    <3>3. server'.meta.id = clock + 1 /\ server'.meta.ts = clock + 1 /\ server'.crypto = server.crypto
      BY <3>1, <3>2, <1>t DEF Server
    <3>4. Moves(server, clock, server', clock') /\ Dated(server', clock')
      BY <3>1, <3>3, <1>t DEF Moves, Dated, KnowledgeInv
    <3>5. \A e \in Device : machine'[e].meta = machine[e].meta /\ machine'[e].key = machine[e].key
      BY <3>1, <1>a, <1>p, <1>t
    <3>6. \A e \in Device : store[e].assoc \in Nat /\ store[e].assoc <= clock
      BY <1>t, SetupAssumption DEF KnowledgeInv, Store, Time
    <3>7. UploadedUnlessWiped'
      BY <3>1, <3>3, <3>6, <1>t DEF UploadedUnlessWiped
    <3> QED BY <3>1, <3>4, <3>5, <3>7, WritingStep
  <2> QED BY <2>1, <2>2
<1>12. ASSUME NEW d \in Device, put_crypto_keys(d) PROVE KnowledgeInv'
  <2>1. CASE server.crypto # 0
    BY <1>12, <2>1, <1>i, ReadingStep DEF put_crypto_keys, Step
  <2>2. CASE server.crypto = 0
    <3>1. /\ clock' = clock + 1 /\ server' = [server EXCEPT !.crypto = clock + 1]
          /\ machine' = [machine EXCEPT ![d] = Enter(machine[d], "InitialWithConfig")]
          /\ UNCHANGED <<cache, store>>
      BY <1>12, <2>2 DEF put_crypto_keys, Step
    <3>2. server'.meta = server.meta /\ server'.crypto = clock + 1 /\ server'.holds = server.holds
      BY <3>1, <1>t DEF Server
    <3>3. Moves(server, clock, server', clock') /\ Dated(server', clock')
      BY <3>1, <3>2, <1>t, SetupAssumption DEF Moves, Dated, KnowledgeInv, MetaGlobal, Time
    <3>4. \A e \in Device :
             \/ machine'[e].meta = machine[e].meta /\ machine'[e].key = machine[e].key
             \/ machine'[e].meta = NoMeta /\ machine'[e].key = 0
      BY <3>1, <1>t, <1>l, EnterKeeps
    <3>5. UploadedUnlessWiped'
      BY <3>1, <3>2 DEF KnowledgeInv, UploadedUnlessWiped
    <3> QED BY <3>1, <3>3, <3>4, <3>5, WritingStep
  <2> QED BY <2>1, <2>2
<1>13. CASE OtherDeclines
  <2> DEFINE g == [id |-> server.meta.id, version |-> server.meta.version, ts |-> clock + 1,
                   declined |-> IF server.meta.declined = "enabled" THEN "declined" ELSE "enabled"]
  <2>1. g.id = server.meta.id /\ g.ts = clock + 1
    OBVIOUS
  <2>2. /\ server' = [server EXCEPT !.meta = g] /\ clock' = clock + 1
        /\ server.meta # NoMeta /\ UNCHANGED <<machine, cache, store>>
    BY <1>13 DEF OtherDeclines
  <2> HIDE DEF g
  <2>3. server'.meta = g /\ server'.crypto = server.crypto /\ server'.holds = server.holds
    BY <2>2, <1>t DEF Server
  <2>4. Moves(server, clock, server', clock') /\ Dated(server', clock')
    BY <2>1, <2>2, <2>3, <1>t, SetupAssumption DEF Moves, Dated, KnowledgeInv, MetaGlobal, Time
  <2>5. UploadedUnlessWiped'
    BY <2>1, <2>2, <2>3 DEF KnowledgeInv, UploadedUnlessWiped
  <2> QED BY <2>2, <2>4, <2>5, WritingStep
<1>14. CASE UNCHANGED vars
  BY <1>14 DEF vars, KnowledgeInv, UploadedUnlessWiped
<1> QED
  BY <1>1, <1>2, <1>3, <1>4, <1>5, <1>6, <1>7, <1>8, <1>9, <1>10, <1>11, <1>12, <1>13, <1>14
     DEF Next

LEMMA InitKnows == Init => KnowledgeInv
<1> SUFFICES ASSUME Init PROVE KnowledgeInv
  OBVIOUS
<1>1. TypeOK
  BY InitType
<1>2. Dated(server, clock)
  BY DEF Init, Dated, Empty, NoMeta
<1>3. Knows(server, clock, NoMeta, 0)
  BY <1>1, <1>2, NothingKnown DEF TypeOK
<1>4. \A d \in Device : /\ Knows(server, clock, machine[d].meta, machine[d].key)
                        /\ Knows(server, clock, cache[d].meta, cache[d].key)
  BY <1>3 DEF Init, Idle, NoState
<1>5. \A d \in Device : store[d].assoc <= clock
  BY <1>1, SetupAssumption DEF Init
<1>6. UploadedUnlessWiped
  BY DEF Init, UploadedUnlessWiped
<1> QED BY <1>2, <1>4, <1>5, <1>6 DEF KnowledgeInv

LEMMA KnowledgeHolds == Spec => [](TypeOK /\ KnowledgeInv)
<1>1. Init => TypeOK /\ KnowledgeInv
  BY InitType, InitKnows
<1>2. TypeOK /\ KnowledgeInv /\ [Next]_vars => TypeOK' /\ KnowledgeInv'
  BY NextType, NextKnows
<1> QED BY <1>1, <1>2, PTL DEF Spec

(* No data stays missing because of a fresh start: a device whose store is *)
(* associated with the sync ID of the server, and has nothing to upload,   *)
(* has its data on the server.                                             *)
THEOREM NothingMissing == Spec => []UploadedUnlessWiped
<1>1. TypeOK /\ KnowledgeInv => UploadedUnlessWiped
  BY DEF KnowledgeInv
<1> QED BY <1>1, KnowledgeHolds, PTL

(* When is_fresh lets run_to_ready skip the fetches, the cached meta and   *)
(* keys are those of the server, although only timestamps are compared.    *)
THEOREM CachedIsCurrent == Spec => FreshIsCurrent
<1> DEFINE A == \A d \in Device :
         machine[d].phase = "WithPreviousState" /\ machine'[d].phase = "Fetch"
           => machine[d].meta = server.meta /\ machine[d].key = server.crypto
<1>1. TypeOK /\ KnowledgeInv /\ [Next]_vars => [A]_vars
  <2> SUFFICES ASSUME TypeOK, KnowledgeInv, [Next]_vars, NEW d \in Device,
                      machine[d].phase = "WithPreviousState", machine'[d].phase = "Fetch"
               PROVE  machine[d].meta = server.meta /\ machine[d].key = server.crypto
    OBVIOUS
  <2>t. machine \in [Device -> Machine]
    BY DEF TypeOK
  <2>i. Idle.phase = "Idle"
    BY DEF Idle
  <2>e. \A m, label : Enter(m, label).phase \in {"Idle", label}
    BY <2>i DEF Enter, Entered
  <2>1. machine'[d] # machine[d] /\ machine' # machine
    OBVIOUS
  <2>2. \A e \in Device : \A m : machine' = [machine EXCEPT ![e] = m] => e = d /\ machine'[d] = m
    BY <2>1, <2>t
  <2>3. CheckPreviousState(d)
    <3>1. ASSUME NEW e \in Device, NEW kind \in Kinds, Start(e, kind) PROVE FALSE
      BY <3>1, <2>2 DEF Start, Step
    <3>2. ASSUME NEW e \in Device,
                 \/ FetchInfoConfiguration(e) \/ FetchInfoCollections(e) \/ FetchMetaGlobal(e)
                 \/ wipe_all_remote(e) \/ put_meta_global(e) \/ put_crypto_keys(e)
                 \/ SyncFetch(e) \/ SyncUpload(e) \/ StoreError(e)
          PROVE  FALSE
      BY <3>2, <2>2 DEF FetchInfoConfiguration, FetchInfoCollections, FetchMetaGlobal,
         wipe_all_remote, put_meta_global, put_crypto_keys, SyncFetch, SyncUpload, StoreError,
         StoreFailed, StoreSucceeded, Step
    <3>3. ASSUME NEW e \in Device, FetchCryptoKeys(e) PROVE FALSE
      BY <3>3, <2>2 DEF FetchCryptoKeys, Ready, Step, WithKeys
    <3>4. ASSUME NEW e \in Device, Abort(e) PROVE FALSE
      BY <3>4, <2>2, <2>i DEF Abort, Step
    <3>5. ASSUME OtherDeclines \/ NodeReassigned \/ (\E e \in Device : LocalChange(e))
                 \/ UNCHANGED vars
          PROVE  FALSE
      BY <3>5, <2>1 DEF OtherDeclines, NodeReassigned, LocalChange, vars
    <3>6. \A e \in Device : CheckPreviousState(e) => e = d
      BY <2>2 DEF CheckPreviousState, Ready, Step
    <3> QED BY <3>1, <3>2, <3>3, <3>4, <3>5, <3>6 DEF Next
  <2>4. is_fresh(machine[d])
    <3>1. ~(machine' = [machine EXCEPT ![d] = Enter(machine[d], "InitialWithConfig")])
      BY <2>e, <2>2
    <3> QED BY <2>3, <3>1 DEF CheckPreviousState, Step
  <2> QED BY <2>4, SetupAssumption DEF is_fresh, KnowledgeInv, Knows, TypeOK, Machine, Server,
             MetaGlobal, Time
<1> QED BY <1>1, KnowledgeHolds, PTL DEF Spec, FreshIsCurrent
=============================================================================

-------------------------- MODULE HistorySyncProofs --------------------------
(***************************************************************************)
(* HistorySync keeps DeletedVisitsStayDeleted, NothingTricklesBack and     *)
(* UploadedIsNormal for all constants.  The first two are inductive with   *)
(* little help.  The third needs what links a page to the server: a guid   *)
(* of `known`, or in flight, is on the server (so no new page can get it), *)
(* and a page whose record is in `outgoing` is Normal before the upload.   *)
(***************************************************************************)
EXTENDS HistorySync, TLAPS

OwnGuid(u, p) ==
    \/ p.guid = NoGuid /\ p.status = "New"
    \/ p.guid \in Guid /\ UrlOf(p.guid) = u

Disjoint(p) == Visits(p) \cap p.gone = {}

PagesInv ==
    /\ pages = [u \in Url |-> pages[u]]
    /\ \A u \in Url : OwnGuid(u, pages[u]) /\ Disjoint(pages[u])
    /\ tombstones \subseteq Guid
    /\ NothingTricklesBack

OnServer(G) == G \subseteq Guid /\ \A g \in G : server[g] # NoRecord

LiveOutgoing == {g \in DOMAIN outgoing : outgoing[g] # Tombstone}

InFlightInv ==
    /\ server = [g \in Guid |-> server[g]]
    /\ OnServer(changed) /\ OnServer(known)
    /\ OnServer(DOMAIN incoming) /\ OnServer(DOMAIN plans)
    /\ \A g \in DOMAIN plans : plans[g].kind \in {"Delete", "Apply", "Reconciled"}
    /\ phase # "idle" => OnServer(since)
    /\ phase = "idle" => incoming = Nothing /\ plans = Nothing /\ outgoing = Nothing
    /\ DOMAIN outgoing \subseteq Guid
    /\ \A g \in DOMAIN outgoing : outgoing[g] # NoRecord

StatusInv ==
    \A u \in Url : pages[u].guid \in known \cup LiveOutgoing => pages[u].status = "Normal"

HInv == PagesInv /\ InFlightInv /\ StatusInv

-----------------------------------------------------------------------------
(* No page, no guid.                                                       *)
LEMMA NoGuidFacts == NoGuid \notin Guid
  BY DEF NoGuid, Guid

LEMMA RowFacts ==
    ASSUME NEW i, NEW g, NEW s, NEW n, NEW l, NEW r, NEW x, NEW f
    PROVE  LET p == Row(i, g, s, n, l, r, x, f)
           IN  /\ p.id = i /\ p.guid = g /\ p.status = s /\ p.counter = n
               /\ p.local = l /\ p.remote = r /\ p.gone = x /\ p.foreign = f
  BY DEF Row

LEMMA NoPageFacts ==
    /\ NoPage.guid = NoGuid /\ NoPage.status = "New" /\ NoPage.remote = {}
    /\ Disjoint(NoPage) /\ ~Exists(NoPage)
  BY DEF NoPage, Row, Disjoint, Visits, Exists

(* What the user may make of a page: its guid and status stay, or it goes, *)
(* or a new page takes a guid that is not in use.                          *)
Edited(u, p, q) ==
    /\ \/ q.guid = p.guid /\ q.status = p.status
       \/ q.guid = NoGuid /\ q.status = "New"
       \/ q.guid \in FreshGuids /\ UrlOf(q.guid) = u
    /\ Disjoint(q)

LEMMA PagesForFacts ==
    ASSUME NEW u \in Url, Disjoint(pages[u]), NEW fresh, NEW p \in PagesFor(u, fresh)
    PROVE  /\ \/ p = pages[u]
              \/ p.guid \in fresh /\ UrlOf(p.guid) = u /\ p.remote = {} /\ p.status = "New"
                 /\ p.local = {} /\ p.gone = {}
           /\ Disjoint(p)
  BY DEF PagesFor, new_page_info, Row, Disjoint, Visits

(* Nothing the user does brings a synced visit back, and the guids and     *)
(* statuses of pages only change as Edited says.                           *)
LEMMA UserEdits ==
    ASSUME PagesInv, User(FreshGuids)
    PROVE  /\ pages' = [u \in Url |-> pages'[u]]
           /\ \A u \in Url : Edited(u, pages[u], pages'[u])
           /\ \A u \in Url : pages'[u].remote \subseteq pages[u].remote
           /\ tombstones' \subseteq Guid /\ mark' = mark
<1> USE DEF PagesInv
<1> DEFINE Goal == /\ pages' = [u \in Url |-> pages'[u]]
                   /\ \A u \in Url : Edited(u, pages[u], pages'[u])
                   /\ \A u \in Url : pages'[u].remote \subseteq pages[u].remote
                   /\ tombstones' \subseteq Guid
<1>1. ASSUME NEW u \in Url, NEW titled \in BOOLEAN, NEW dates \in {{d} : d \in Date} \cup {{}},
             apply_observation(u, titled, dates, FreshGuids)
      PROVE  Goal
  <2>1. PICK p \in PagesFor(u, FreshGuids) :
          LET visited == IF dates = {} THEN p ELSE add_visit(p, CHOOSE d \in dates : TRUE)
          IN  Store(u, IF titled \/ dates # {} THEN WithStatus(visited, p.status, p.counter + 1)
                       ELSE visited)
    BY <1>1 DEF apply_observation
  <2> DEFINE d == CHOOSE e \in dates : TRUE
             visited == IF dates = {} THEN p ELSE add_visit(p, d)
             q == IF titled \/ dates # {} THEN WithStatus(visited, p.status, p.counter + 1)
                  ELSE visited
  <2>2. /\ visited.guid = p.guid /\ visited.status = p.status /\ visited.remote = p.remote
        /\ Disjoint(p) => Disjoint(visited)
    BY DEF add_visit, Row, Disjoint, Visits
  <2>3. q.guid = p.guid /\ q.status = p.status /\ q.remote = p.remote /\ (Disjoint(p) => Disjoint(q))
    <3> HIDE DEF visited
    <3> QED  BY <2>2 DEF WithStatus, Row, Disjoint, Visits
  <2>4. pages' = [pages EXCEPT ![u] = q] /\ tombstones' \subseteq tombstones
    BY <2>1 DEF Store
  <2> HIDE DEF q
  <2> QED
    BY <2>3, <2>4, PagesForFacts DEF Edited
<1>2. ASSUME NEW u \in Url, delete_place_by_guid(u)
      PROVE  Goal
  BY <1>2, NoPageFacts DEF delete_place_by_guid, Edited, OwnGuid, Exists
<1>3. ASSUME NEW urls \in SUBSET Url, NEW dates, DeleteVisits(urls, dates)
      PROVE  Goal
  <2>1. \A p : /\ Unvisited(p, dates).guid = p.guid /\ Unvisited(p, dates).status = p.status
               /\ Unvisited(p, dates).remote \subseteq p.remote
               /\ Disjoint(p) => Disjoint(Unvisited(p, dates))
    BY DEF Unvisited, Row, Disjoint, Visits
  <2>2. \A u \in Url : pages'[u] \in {NoPage, pages[u], Unvisited(pages[u], dates)}
    BY <1>3 DEF DeleteVisits
  <2>3. pages' = [u \in Url |-> pages'[u]]
    BY <1>3 DEF DeleteVisits
  <2>4. tombstones' \subseteq Guid
    BY <1>3 DEF DeleteVisits, OwnGuid
  <2> QED
    BY <2>1, <2>2, <2>3, <2>4, NoPageFacts DEF Edited
<1>4. ASSUME NEW u \in Url, Bookmark(u, FreshGuids)
      PROVE  Goal
  <2>1. PICK p \in PagesFor(u, FreshGuids) :
          Store(u, Row(p.id, p.guid, p.status, p.counter, p.local, p.remote, p.gone, ~p.foreign))
    BY <1>4 DEF Bookmark
  <2> DEFINE q == Row(p.id, p.guid, p.status, p.counter, p.local, p.remote, p.gone, ~p.foreign)
  <2>2. q.guid = p.guid /\ q.status = p.status /\ q.remote = p.remote /\ (Disjoint(p) => Disjoint(q))
    BY DEF Row, Disjoint, Visits
  <2>3. pages' = [pages EXCEPT ![u] = q] /\ tombstones' \subseteq tombstones
    BY <2>1 DEF Store
  <2> HIDE DEF q
  <2> QED
    BY <2>2, <2>3, PagesForFacts DEF Edited
<1>5. mark' = mark
  BY DEF User, apply_observation, delete_place_by_guid, delete_place_visit_at_time,
         delete_visits_between, DeleteVisits, Bookmark
<1> HIDE DEF Goal
<1>6. Goal
  BY <1>1, <1>2, <1>3, <1>4 DEF User, delete_place_visit_at_time, delete_visits_between
<1> QED
  BY <1>5, <1>6 DEF Goal

(* A step of the user keeps the invariant: a new page has a guid that is   *)
(* not in use, so in particular none the server knows.                     *)
LEMMA EditsKeep ==
    ASSUME HInv,
           pages' = [u \in Url |-> pages'[u]],
           \A u \in Url : Edited(u, pages[u], pages'[u]),
           \A u \in Url : \A d \in pages'[u].remote : d > mark',
           tombstones' \subseteq Guid,
           UNCHANGED <<remote, phase, work, known>>
    PROVE  HInv'
<1> USE DEF HInv, Edited
<1>1. PagesInv'
  BY DEF PagesInv, OwnGuid, FreshGuids, NothingTricklesBack
<1>2. InFlightInv'
  BY DEF InFlightInv, OnServer, remote, work
<1>3. StatusInv'
  BY NoGuidFacts DEF StatusInv, LiveOutgoing, InFlightInv, OnServer, FreshGuids, remote, work
<1> QED
  BY <1>1, <1>2, <1>3

LEMMA WipeEdits ==
    ASSUME PagesInv, wipe_local_in_tx
    PROVE  /\ pages' = [u \in Url |-> pages'[u]]
           /\ \A u \in Url : Edited(u, pages[u], pages'[u]) /\ pages'[u].remote = {}
           /\ tombstones' \subseteq Guid
<1>1. \A u \in Url : pages'[u] = IF pages[u].foreign
         THEN Row(pages[u].id, pages[u].guid, pages[u].status, 0, {}, {}, {}, TRUE)
         ELSE NoPage
  BY DEF wipe_local_in_tx
<1>2. \A u \in Url :
        LET q == Row(pages[u].id, pages[u].guid, pages[u].status, 0, {}, {}, {}, TRUE)
        IN  Edited(u, pages[u], q) /\ q.remote = {}
  BY DEF Row, Edited, Disjoint, Visits
<1> QED
  BY <1>1, <1>2, NoPageFacts DEF wipe_local_in_tx, Edited

LEMMA UserStepInv ==
    ASSUME HInv, UserStep
    PROVE  HInv'
<1>1. CASE User(FreshGuids)
  BY <1>1, UserEdits, EditsKeep DEF UserStep, HInv, PagesInv, NothingTricklesBack
<1>2. CASE wipe_local \/ \E now \in Date : delete_everything(now)
  BY <1>2, WipeEdits, EditsKeep DEF UserStep, HInv, wipe_local, delete_everything
<1> QED
  BY <1>1, <1>2 DEF UserStep

-----------------------------------------------------------------------------
(* The steps of a sync that leave the pages alone.                         *)
LEMMA RecordFacts == NoRecord # Tombstone /\ \A v : Live(v) # NoRecord /\ Live(v) # Tombstone
  BY DEF NoRecord, Tombstone, Live

LEMMA NothingFacts == DOMAIN Nothing = {}
  BY DEF Nothing

LEMMA OtherWritesInv ==
    ASSUME HInv, OtherWrites
    PROVE  HInv'
<1> USE DEF HInv
<1>1. PICK g \in Guid, r \in {Tombstone} \cup {Live(v) : v \in SUBSET Date \ {{}}} :
        /\ server' = [server EXCEPT ![g] = r]
        /\ changed' = changed \cup {g} /\ since' = since \cup {g}
  BY DEF OtherWrites
<1>2. r # NoRecord
  BY RecordFacts
<1>3. UNCHANGED <<db, phase, work, known>>
  BY DEF OtherWrites
<1>4. PagesInv' /\ StatusInv'
  BY <1>3 DEF PagesInv, NothingTricklesBack, StatusInv, LiveOutgoing, db, work
<1>5. InFlightInv'
  BY <1>1, <1>2, <1>3 DEF InFlightInv, OnServer, work
<1> QED
  BY <1>4, <1>5

LEMMA EndInv ==
    ASSUME HInv, End, UNCHANGED <<db, server, known>>, OnServer(changed)'
    PROVE  HInv'
<1> USE DEF HInv
<1>1. PagesInv'
  BY DEF PagesInv, NothingTricklesBack, db
<1>2. InFlightInv'
  BY NothingFacts DEF InFlightInv, OnServer, End
<1>3. StatusInv'
  BY NothingFacts DEF StatusInv, LiveOutgoing, End, db
<1> QED
  BY <1>1, <1>2, <1>3

LEMMA AbortInv ==
    ASSUME HInv, Abort
    PROVE  HInv'
  BY EndInv DEF Abort, HInv, InFlightInv, OnServer, remote

LEMMA PutUploadTimeInv ==
    ASSUME HInv, PutUploadTime
    PROVE  HInv'
  BY EndInv DEF PutUploadTime, HInv, InFlightInv, OnServer

LEMMA FetchInv ==
    ASSUME HInv, Fetch
    PROVE  HInv'
<1> USE DEF HInv
<1>1. PICK G \in Limit(changed, MAX_INCOMING_PLACES) : incoming' = [g \in G |-> server[g]]
  BY DEF Fetch
<1>2. DOMAIN incoming' \subseteq changed
  BY <1>1 DEF Limit
<1>3. PagesInv' /\ StatusInv'
  BY DEF Fetch, PagesInv, NothingTricklesBack, StatusInv, LiveOutgoing, db
<1>4. InFlightInv'
  BY <1>2 DEF Fetch, InFlightInv, OnServer
<1> QED
  BY <1>3, <1>4

LEMMA PlanRecordInv ==
    ASSUME HInv, NEW g \in Guid, PlanRecord(g)
    PROVE  HInv'
<1> USE DEF HInv
<1>1. DOMAIN plans' = DOMAIN plans \cup {g} /\ g \in DOMAIN incoming
  BY DEF PlanRecord
<1>2. DOMAIN incoming' \subseteq DOMAIN incoming
  BY DEF PlanRecord, Restrict
<1>3. UNCHANGED <<db, remote, phase, outgoing, known>> /\ phase # "idle"
  BY DEF PlanRecord
<1>4. PagesInv' /\ StatusInv'
  BY <1>3 DEF PagesInv, NothingTricklesBack, StatusInv, LiveOutgoing, db
<1>5. \A h \in DOMAIN plans' : plans'[h].kind \in {"Delete", "Apply", "Reconciled"}
  BY DEF PlanRecord, plan_incoming_record, InFlightInv
<1>6. InFlightInv'
  BY <1>1, <1>2, <1>3, <1>5 DEF InFlightInv, OnServer, remote
<1> QED
  BY <1>4, <1>6

LEMMA PutFetchTimeInv ==
    ASSUME HInv, PutFetchTime
    PROVE  HInv'
<1> USE DEF HInv
<1>1. PagesInv' /\ StatusInv'
  BY DEF PutFetchTime, PagesInv, NothingTricklesBack, StatusInv, LiveOutgoing, db, work
<1>2. InFlightInv'
  BY DEF PutFetchTime, InFlightInv, OnServer, work
<1> QED
  BY <1>1, <1>2

(* What is uploaded becomes known; its pages are Normal already.           *)
LEMMA UploadInv ==
    ASSUME HInv, Upload
    PROVE  HInv'
<1> USE DEF HInv
<1>1. PICK G \in SUBSET DOMAIN outgoing :
        /\ server' = [g \in Guid |-> IF g \in G THEN outgoing[g] ELSE server[g]]
        /\ changed' = changed \cup G
        /\ known' = known \cup {g \in G : outgoing[g] # Tombstone}
        /\ IF G = DOMAIN outgoing THEN phase' = "finish" /\ UNCHANGED work ELSE End
  BY DEF Upload
<1>2. UNCHANGED <<db, since>> /\ phase = "upload"
  BY DEF Upload
<1>3. PagesInv'
  BY <1>2 DEF PagesInv, NothingTricklesBack, db
<1>4. DOMAIN outgoing' \subseteq DOMAIN outgoing /\ \A g \in DOMAIN outgoing' : outgoing'[g] = outgoing[g]
  BY <1>1, NothingFacts DEF End, work
<1>5. \A g \in Guid : server[g] # NoRecord => server'[g] # NoRecord
  BY <1>1 DEF InFlightInv
<1>6. \A g \in G : g \in Guid /\ server'[g] # NoRecord
  BY <1>1 DEF InFlightInv
<1>7. InFlightInv'
  BY <1>1, <1>2, <1>4, <1>5, <1>6, NothingFacts DEF InFlightInv, OnServer, End, work
<1>8. StatusInv'
  BY <1>1, <1>2, <1>4 DEF StatusInv, LiveOutgoing, db
<1> QED
  BY <1>3, <1>7, <1>8

-----------------------------------------------------------------------------
(* The steps of a sync that change pages.                                  *)
LEMMA WithStatusFacts ==
    ASSUME NEW p, NEW s, NEW n
    PROVE  /\ WithStatus(p, s, n).guid = p.guid /\ WithStatus(p, s, n).status = s
           /\ WithStatus(p, s, n).remote = p.remote
           /\ Disjoint(p) => Disjoint(WithStatus(p, s, n))
  BY DEF WithStatus, Row, Disjoint, Visits

(* A step that gives pages new statuses and removes some.                  *)
LEMMA RestatedPages ==
    ASSUME PagesInv, mark' = mark, tombstones' \subseteq tombstones,
           pages' = [u \in Url |-> pages'[u]],
           \A u \in Url : \/ pages'[u] = NoPage \/ pages'[u] = pages[u]
                          \/ /\ Exists(pages[u])
                             /\ \E s, n : pages'[u] = WithStatus(pages[u], s, n)
    PROVE  PagesInv'
  BY WithStatusFacts, NoPageFacts DEF PagesInv, OwnGuid, NothingTricklesBack, Exists

LEMMA ResetInv ==
    ASSUME HInv, do_reset
    PROVE  HInv'
<1> USE DEF HInv
<1>1. PagesInv'
  BY RestatedPages DEF do_reset, reset_storage
<1>2. InFlightInv'
  BY NothingFacts DEF do_reset, InFlightInv, OnServer, work
<1>3. StatusInv'
  BY NothingFacts DEF do_reset, StatusInv, LiveOutgoing, InFlightInv, work
<1> QED
  BY <1>1, <1>2, <1>3

LEMMA FinishPlanInv ==
    ASSUME HInv, FinishPlan
    PROVE  HInv'
<1> USE DEF HInv
<1>1. /\ pages' = [u \in Url |-> pages'[u]]
      /\ \A u \in Url :
           \/ pages'[u] = NoPage
           \/ /\ Exists(pages[u])
              /\ \E n : \/ pages'[u] = WithStatus(pages[u], pages[u].status, n)
                        \/ pages'[u] = WithStatus(pages[u], "Normal", n)
  BY DEF FinishPlan, finish_outgoing, Finished
<1>2. PagesInv'
  BY <1>1, RestatedPages DEF FinishPlan, finish_outgoing
<1>3. InFlightInv'
  BY DEF FinishPlan, InFlightInv, OnServer, remote
<1>4. StatusInv'
  BY <1>1, WithStatusFacts, NoPageFacts, NoGuidFacts
     DEF FinishPlan, StatusInv, LiveOutgoing, InFlightInv, OnServer
<1> QED
  BY <1>2, <1>3, <1>4

(* The page of a URL takes in the visits of a record.                      *)
LEMMA SyncedVisits ==
    ASSUME HInv, NEW g \in Guid, NEW dates, apply_synced_visits(g, dates), mark' = mark
    PROVE  /\ PagesInv'
           /\ \A u \in Url :
                (pages'[u] = pages[u] /\ pages[u].guid # g) \/ (pages'[u].status = "Normal")
<1> USE DEF HInv, PagesInv
<1> DEFINE u == UrlOf(g)
           visits == not_ignored(dates)
           new(p) == Row(p.id, IF p.status = "New" THEN g ELSE p.guid, "Normal",
                         IF p.guid = g THEN p.counter ELSE p.counter + 1,
                         p.local, p.remote \cup visits_to_add(p, visits), p.gone, p.foreign)
<1>1. u \in Url
  BY DEF UrlOf, Guid
<1>0. \A v \in Url : v # u => pages[v].guid # g
  BY NoGuidFacts DEF OwnGuid
<1>2. CASE ~Exists(pages[u]) /\ UNCHANGED <<pages, tombstones>>
  BY <1>2, <1>0, NoGuidFacts DEF NothingTricklesBack, Exists
<1>3. CASE \E p \in PagesFor(u, {g}) : Store(u, new(p))
  <2>1. PICK p \in PagesFor(u, {g}) : Store(u, new(p))
    BY <1>3
  <2>2. /\ p = pages[u] \/ (p.guid = g /\ p.remote = {})
        /\ Disjoint(p)
    BY <1>1, PagesForFacts
  <2>3. /\ new(p).guid \in {g, p.guid} /\ new(p).status = "Normal"
        /\ new(p).remote = p.remote \cup visits_to_add(p, visits)
    BY DEF Row
  <2>4. Disjoint(new(p))
    BY <2>2 DEF Row, Disjoint, Visits, visits_to_add
  <2>5. \A d \in visits_to_add(p, visits) : d > mark
    BY DEF visits_to_add, not_ignored
  <2> HIDE DEF new
  <2>6. pages' = [pages EXCEPT ![u] = new(p)] /\ tombstones' \subseteq tombstones
    BY <2>1 DEF Store
  <2>7. \A d \in new(p).remote : d > mark
    BY <1>1, <2>2, <2>3, <2>5 DEF NothingTricklesBack
  <2>8. p.status = "New" => new(p).guid = g
    BY DEF new, Row
  <2>9. OwnGuid(u, new(p))
    BY <1>1, <2>2, <2>3, <2>8 DEF OwnGuid
  <2> QED
    BY <1>1, <1>0, <2>3, <2>4, <2>6, <2>7, <2>9 DEF NothingTricklesBack
<1> QED
  BY <1>2, <1>3 DEF apply_synced_visits

LEMMA ApplyPlanInv ==
    ASSUME HInv, NEW g \in Guid, ApplyPlan(g)
    PROVE  HInv'
<1> USE DEF HInv
<1>1. g \in DOMAIN plans /\ mark' = mark /\ UNCHANGED <<remote, phase, incoming, outgoing>>
  BY DEF ApplyPlan
<1>2. known' = IF pages'[UrlOf(g)].guid = g THEN known \cup {g} ELSE known
  BY DEF ApplyPlan
<1>3. /\ DOMAIN plans' \subseteq DOMAIN plans
      /\ \A h \in DOMAIN plans' : plans'[h] = plans[h]
  BY DEF ApplyPlan, Restrict
<1>4. InFlightInv'
  BY <1>1, <1>2, <1>3 DEF ApplyPlan, InFlightInv, OnServer, remote
<1>5. UrlOf(g) \in Url
  BY DEF UrlOf, Guid
<1>6. \/ apply_synced_deletion(g) \/ apply_synced_reconciliation(g)
      \/ \E dates : apply_synced_visits(g, dates)
  BY <1>1 DEF ApplyPlan, InFlightInv
<1>7. CASE apply_synced_deletion(g)
  <2>1. /\ pages' = [u \in Url |-> pages'[u]]
        /\ \A u \in Url : pages'[u] = NoPage \/ (pages'[u] = pages[u] /\ pages[u].guid # g)
    BY <1>5, <1>7, NoGuidFacts DEF apply_synced_deletion, PagesInv, OwnGuid
  <2> QED
    BY <1>1, <1>2, <1>4, <1>7, <2>1, NoPageFacts, NoGuidFacts, RestatedPages
       DEF StatusInv, LiveOutgoing, InFlightInv, OnServer, apply_synced_deletion
<1>8. CASE apply_synced_reconciliation(g)
  <2>1. /\ pages' = [u \in Url |-> pages'[u]]
        /\ \A u \in Url :
             \/ Exists(pages[u]) /\ pages'[u] = WithStatus(pages[u], "Normal", 0)
             \/ pages'[u] = pages[u] /\ pages[u].guid # g
    BY <1>5, <1>8, NoGuidFacts DEF apply_synced_reconciliation, PagesInv, OwnGuid, Exists
  <2> QED
    BY <1>1, <1>2, <1>4, <1>8, <2>1, WithStatusFacts, RestatedPages
       DEF StatusInv, LiveOutgoing, apply_synced_reconciliation
<1>9. CASE \E dates : apply_synced_visits(g, dates)
  <2>1. /\ PagesInv'
        /\ \A u \in Url :
             (pages'[u] = pages[u] /\ pages[u].guid # g) \/ (pages'[u].status = "Normal")
    BY <1>1, <1>9, SyncedVisits
  <2> QED
    BY <1>1, <1>2, <1>4, <2>1 DEF StatusInv, LiveOutgoing
<1> QED
  BY <1>6, <1>7, <1>8, <1>9

(* fetch_outgoing makes Normal every page it takes a record of.            *)
LEMMA FetchOutgoingInv ==
    ASSUME HInv, FetchOutgoing
    PROVE  HInv'
<1> USE DEF HInv
<1>1. PICK T \in Limit(tombstones, MAX_OUTGOING_PLACES), U \in SUBSET {u \in Url : Dirty(pages[u])} :
        LET R == {u \in U : pages[u].guid \notin T /\ Visits(pages[u]) # {}}
            records == {pages[u].guid : u \in R}
        IN  /\ outgoing' = [g \in T \cup records |->
                 IF g \in T THEN Tombstone ELSE Live(LatestVisits(pages[UrlOf(g)], MAX_VISITS))]
            /\ pages' = [u \in Url |-> IF u \in R THEN MarkedUploaded(pages[u]) ELSE pages[u]]
  BY DEF FetchOutgoing, fetch_outgoing, Limit
<1> DEFINE R == {u \in U : pages[u].guid \notin T /\ Visits(pages[u]) # {}}
           records == {pages[u].guid : u \in R}
<1>2. /\ pages' = [u \in Url |-> pages'[u]]
      /\ \A u \in R : pages'[u] = WithStatus(pages[u], "Normal", pages[u].counter)
      /\ \A u \in Url : u \notin R => pages'[u] = pages[u]
  BY <1>1 DEF MarkedUploaded
<1>3. /\ DOMAIN outgoing' = T \cup records
      /\ \A g \in T : outgoing'[g] = Tombstone
      /\ \A g \in records \ T : \E v : outgoing'[g] = Live(v)
  BY <1>1
<1>4. \A u \in R : Exists(pages[u])
  BY DEF Dirty
<1>10. PagesInv'
  BY <1>2, <1>4, RestatedPages DEF FetchOutgoing
<1>5. tombstones \subseteq Guid /\ T \subseteq tombstones /\ records \subseteq Guid
  BY <1>4 DEF PagesInv, OwnGuid, Exists, Limit
<1>6. InFlightInv'
  BY <1>3, <1>5, RecordFacts DEF FetchOutgoing, InFlightInv, OnServer, remote
<1>7. LiveOutgoing' \subseteq records
  BY <1>3 DEF LiveOutgoing
<1>8. \A u \in Url : pages[u].guid \in records => u \in R
  BY NoGuidFacts, <1>5 DEF PagesInv, OwnGuid
<1>9. StatusInv'
  <2>1. /\ \A u \in Url : pages'[u].guid = pages[u].guid
        /\ \A u \in R : pages'[u].status = "Normal"
        /\ \A u \in Url : u \notin R => pages'[u].status = pages[u].status
    BY <1>2, WithStatusFacts
  <2>2. known' = known
    BY DEF FetchOutgoing
  <2> HIDE DEF R, records
  <2> QED
    BY <1>7, <1>8, <2>1, <2>2 DEF StatusInv
<1> QED
  BY <1>10, <1>6, <1>9

-----------------------------------------------------------------------------
LEMMA InitInv == Init => HInv
<1> SUFFICES ASSUME Init PROVE HInv
  OBVIOUS
<1>1. PagesInv
  BY NoPageFacts DEF Init, StorageInit, PagesInv, OwnGuid, NothingTricklesBack
<1>2. InFlightInv
  BY NothingFacts DEF Init, InFlightInv, OnServer
<1>3. StatusInv
  BY NothingFacts DEF Init, StatusInv, LiveOutgoing
<1> QED
  BY <1>1, <1>2, <1>3 DEF HInv

LEMMA NextInv == HInv /\ [Next]_vars => HInv'
<1> SUFFICES ASSUME HInv, [Next]_vars PROVE HInv'
  OBVIOUS
<1>1. CASE Next
  BY <1>1, UserStepInv, OtherWritesInv, ResetInv, FetchInv, AbortInv, PlanRecordInv,
     ApplyPlanInv, FetchOutgoingInv, PutFetchTimeInv, UploadInv, FinishPlanInv,
     PutUploadTimeInv DEF Next
<1>2. CASE UNCHANGED vars
  BY <1>2 DEF vars, db, remote, work, HInv, PagesInv, InFlightInv, StatusInv, OnServer,
     LiveOutgoing, NothingTricklesBack
<1> QED
  BY <1>1, <1>2

(* The inductive invariant: guids belong to the URL of their page, the     *)
(* records in flight and the known ones are on the server, and their pages *)
(* are Normal.                                                             *)
THEOREM HistoryInvariant == Spec => []HInv
  BY InitInv, NextInv, PTL DEF Spec

(* A time is never at once a visit of a page and a deleted visit of it,    *)
(* for any number of pages, guids, visits and syncs: visits_to_add skips   *)
(* the tombstones of visits, and add_visit removes the one it replaces.    *)
THEOREM HistoryVisitsDeleted == Spec => []DeletedVisitsStayDeleted
<1>1. HInv => DeletedVisitsStayDeleted
  BY DEF HInv, PagesInv, Disjoint, DeletedVisitsStayDeleted
<1> QED
  BY <1>1, HistoryInvariant, PTL

(* No visit up to the high-water mark of deleteEverything ever comes back  *)
(* with a sync, not even from a plan made before it.                       *)
THEOREM HistoryNothingTricklesBack == Spec => []NothingTricklesBack
<1>1. HInv => NothingTricklesBack
  BY DEF HInv, PagesInv
<1> QED
  BY <1>1, HistoryInvariant, PTL

(* What the server got from this device, or this device from the server,   *)
(* is Normal here, through every interruption: fetch_outgoing sets the     *)
(* status before the upload starts.                                        *)
THEOREM HistoryUploadedIsNormal == Spec => []UploadedIsNormal
<1>1. HInv => UploadedIsNormal
  BY DEF HInv, StatusInv, UploadedIsNormal
<1> QED
  BY <1>1, HistoryInvariant, PTL
=============================================================================

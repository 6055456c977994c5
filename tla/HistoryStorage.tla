--------------------------- MODULE HistoryStorage ---------------------------
(***************************************************************************)
(* The history tables of one device and the operations of                  *)
(* places/src/storage/history.rs, each of them a transaction.              *)
(*                                                                         *)
(* A page is a row of moz_places with its rows of moz_historyvisits and    *)
(* moz_historyvisit_tombstones, which go with it (ON DELETE CASCADE).  An  *)
(* id is used again once the row with the largest id is deleted.  A guid   *)
(* <<url, n>> is one of the random guids a URL may get.  The visits of a    *)
(* page are told apart by what recorded them: an observation (local) or a  *)
(* sync (remote).  Left out: titles, transitions, frecencies, and a second *)
(* visit at the same time.                                                 *)
(***************************************************************************)
EXTENDS Integers, FiniteSets, FiniteSetsExt

CONSTANTS Url, GuidsPerUrl, MaxDate

VARIABLES pages,      \* moz_places, by URL
          tombstones, \* moz_places_tombstones
          mark        \* history_deleted_hwm

db == <<pages, tombstones, mark>>

Date == 1..MaxDate
Guid == Url \X (1..GuidsPerUrl)
UrlOf(guid) == guid[1]
NoGuid == <<>>

Page == [id : Nat, guid : Guid \cup {NoGuid}, status : {"New", "Normal"}, counter : Int,
         local : SUBSET Date, remote : SUBSET Date, gone : SUBSET Date, foreign : BOOLEAN]

Row(id, guid, status, counter, local, remote, gone, foreign) ==
    [id |-> id, guid |-> guid, status |-> status, counter |-> counter,
     local |-> local, remote |-> remote, gone |-> gone, foreign |-> foreign]

NoPage == Row(0, NoGuid, "New", 0, {}, {}, {}, FALSE)

StorageTypeOK ==
    pages \in [Url -> Page] /\ tombstones \subseteq Guid /\ mark \in 0..MaxDate

StorageInit ==
    pages = [u \in Url |-> NoPage] /\ tombstones = {} /\ mark = 0

-----------------------------------------------------------------------------
Exists(p) == p.guid # NoGuid
Visits(p) == p.local \cup p.remote

(* PageInfo::from_row fails on a counter that is not a u32.                *)
Readable(p) == p.counter >= 0

NewId == 1 + Max({pages[u].id : u \in Url})

WithStatus(p, status, counter) ==
    Row(p.id, p.guid, status, counter, p.local, p.remote, p.gone, p.foreign)

Unvisited(p, dates) ==
    Row(p.id, p.guid, p.status, p.counter, p.local \ dates, p.remote \ dates,
        p.gone \cup (dates \cap Visits(p)), p.foreign)

(* A visit of this device; the tombstone at its time goes.                 *)
add_visit(p, d) ==
    Row(p.id, p.guid, p.status, p.counter, p.local \cup {d}, p.remote, p.gone \ {d}, p.foreign)

new_page_info(guid) == Row(NewId, guid, "New", 0, {}, {}, {}, FALSE)

(* The page of a URL, or a new one with a guid of `fresh`.                 *)
PagesFor(u, fresh) ==
    IF Exists(pages[u]) THEN {pages[u]}
    ELSE {new_page_info(g) : g \in {h \in fresh : UrlOf(h) = u}}

(* Inserting a page removes the tombstone of its guid; updating does not.  *)
Store(u, p) ==
    /\ pages' = [pages EXCEPT ![u] = p]
    /\ tombstones' = IF Exists(pages[u]) THEN tombstones ELSE tombstones \ {p.guid}

-----------------------------------------------------------------------------
(* An observation may have a title, and a visit (dates = {d}) or none.     *)
apply_observation(u, titled, dates, fresh) ==
    /\ Readable(pages[u])
    /\ \E p \in PagesFor(u, fresh) :
         LET visited == IF dates = {} THEN p ELSE add_visit(p, CHOOSE d \in dates : TRUE)
             update_change_counter == titled \/ dates # {}
         IN  Store(u, IF update_change_counter
                      THEN WithStatus(visited, p.status, p.counter + 1) ELSE visited)
    /\ UNCHANGED mark

(* The DELETE of a bookmarked page fails (ON DELETE RESTRICT) and the      *)
(* transaction is committed all the same, with the tombstone.              *)
delete_place_by_guid(u) ==
    /\ Exists(pages[u])
    /\ pages' = [pages EXCEPT ![u] = IF @.foreign THEN @ ELSE NoPage]
    /\ tombstones' = tombstones \cup (IF pages[u].status = "Normal" THEN {pages[u].guid} ELSE {})
    /\ UNCHANGED mark

(* The visits go and, in cleanup_pages, the pages left with nothing.       *)
DeleteVisits(urls, dates) ==
    LET hit == {u \in urls : Visits(pages[u]) \cap dates # {}}
        orphans == {u \in hit : ~pages[u].foreign /\ Visits(pages[u]) \subseteq dates}
    IN  /\ hit # {}
        /\ pages' = [u \in Url |-> IF u \in orphans THEN NoPage
                                   ELSE IF u \in hit THEN Unvisited(pages[u], dates)
                                   ELSE pages[u]]
        /\ tombstones' = tombstones \cup
             {pages[u].guid : u \in {v \in orphans : pages[v].status = "Normal"}}
        /\ UNCHANGED mark

delete_visits_between(start, end) == DeleteVisits(Url, start..end)

delete_place_visit_at_time(u, d) == DeleteVisits({u}, {d})

(* Bookmarked pages stay, without visits.                                  *)
wipe_local_in_tx ==
    /\ pages' = [u \in Url |->
         IF pages[u].foreign
         THEN Row(pages[u].id, pages[u].guid, pages[u].status, 0, {}, {}, {}, TRUE)
         ELSE NoPage]
    /\ tombstones' = {}

wipe_local == wipe_local_in_tx /\ UNCHANGED mark

(* The device's clock may be behind a visit it knows, or behind the mark.  *)
new_mark(now) == Max({now, mark} \cup UNION {Visits(pages[u]) : u \in Url})

delete_everything(now) == wipe_local_in_tx /\ mark' = new_mark(now)

(* The bookmarks storage adds the first, or removes the last, bookmark of  *)
(* a URL: foreign_count becomes 1 or 0.                                    *)
Bookmark(u, fresh) ==
    /\ Readable(pages[u])
    /\ \E p \in PagesFor(u, fresh) :
         Store(u, Row(p.id, p.guid, p.status, p.counter, p.local, p.remote, p.gone, ~p.foreign))
    /\ UNCHANGED mark

User(fresh) ==
    \/ \E u \in Url : \/ \E titled \in BOOLEAN, dates \in {{d} : d \in Date} \cup {{}} :
                           apply_observation(u, titled, dates, fresh)
                      \/ delete_place_by_guid(u)
                      \/ \E d \in Date : delete_place_visit_at_time(u, d)
                      \/ Bookmark(u, fresh)
    \/ \E start, end \in Date : delete_visits_between(start, end)

-----------------------------------------------------------------------------
(* Applying incoming records.                                              *)

visits_to_add(p, dates) == dates \ (Visits(p) \cup p.gone)

(* Mutant: the mark is ignored.                                            *)
Unmarked(dates) == dates

not_ignored(dates) == {d \in dates : d > mark}

(* A page that was never synced takes the guid of the incoming record.     *)
apply_synced_visits(guid, dates) ==
    LET u == UrlOf(guid)
        visits == not_ignored(dates)
    IN  IF ~Exists(pages[u]) /\ visits = {} THEN UNCHANGED <<pages, tombstones>>
        ELSE \E p \in PagesFor(u, {guid}) :
               Store(u, Row(p.id, IF p.status = "New" THEN guid ELSE p.guid, "Normal",
                            IF p.guid = guid THEN p.counter ELSE p.counter + 1,
                            p.local, p.remote \cup visits_to_add(p, visits), p.gone, p.foreign))

apply_synced_reconciliation(guid) ==
    /\ pages' = [pages EXCEPT ![UrlOf(guid)] =
                   IF @.guid = guid THEN WithStatus(@, "Normal", 0) ELSE @]
    /\ UNCHANGED tombstones

apply_synced_deletion(guid) ==
    /\ pages' = [pages EXCEPT ![UrlOf(guid)] = IF @.guid = guid THEN NoPage ELSE @]
    /\ UNCHANGED tombstones

-----------------------------------------------------------------------------
(* Outgoing records.                                                       *)

Dirty(p) == Exists(p) /\ (p.counter > 0 \/ p.status # "Normal")

(* What LIMIT n gives when the order of the rows is not known.             *)
Limit(S, n) == {T \in SUBSET S : Cardinality(T) = Min({n, Cardinality(S)})}

(* The max_visits most recent ones.                                        *)
LatestVisits(p, n) ==
    {d \in Visits(p) : Cardinality({e \in Visits(p) : e > d}) < n}

(* The status is set when the records are read, not after the upload.      *)
MarkedUploaded(p) == WithStatus(p, "Normal", p.counter)

(* Mutant: the counter is reset, not reduced.                              *)
CounterReset(p, temp) == WithStatus(p, IF p.id \in DOMAIN temp THEN p.status ELSE "Normal", 0)

(* temp_sync_updated_meta: the rows that were uploaded, by id.             *)
Finished(p, temp) ==
    IF p.id \in DOMAIN temp THEN WithStatus(p, p.status, p.counter - temp[p.id])
    ELSE WithStatus(p, "Normal", 0)

finish_outgoing(temp) ==
    /\ pages' = [u \in Url |-> IF Exists(pages[u]) THEN Finished(pages[u], temp) ELSE NoPage]
    /\ tombstones' = {}

reset_storage ==
    /\ pages' = [u \in Url |-> IF Exists(pages[u]) THEN WithStatus(pages[u], "New", 0) ELSE NoPage]
    /\ UNCHANGED tombstones
=============================================================================

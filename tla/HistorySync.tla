----------------------------- MODULE HistorySync -----------------------------
(***************************************************************************)
(* A history sync of one device (places/src/history_sync/plan.rs and       *)
(* store.rs, driven by sync15's synchronize), while the user works on the  *)
(* write connection and other clients write to the server.                 *)
(*                                                                         *)
(* Of the server's timestamps we keep which records are newer than         *)
(* history_last_sync_time (changed), and which ones the other clients      *)
(* wrote after this sync read or wrote the collection (since).             *)
(***************************************************************************)
EXTENDS HistoryStorage, Functions

CONSTANTS EARLIEST_TIMESTAMP,
          MAX_VISITS, MAX_OUTGOING_PLACES, MAX_INCOMING_PLACES,
          MaxOps,      \* operations of the user
          MaxWrites,   \* writes of the other clients, resets included
          MaxSyncs

ASSUME HistoryAssumption ==
    /\ {GuidsPerUrl, MaxDate, MAX_VISITS, MAX_OUTGOING_PLACES, MAX_INCOMING_PLACES,
        MaxOps, MaxWrites, MaxSyncs} \subseteq Nat \ {0}
    /\ EARLIEST_TIMESTAMP \in Date

VARIABLES server,     \* the history collection
          changed,
          since,
          phase,
          incoming,   \* records read, not planned yet
          plans,      \* plans, not applied yet
          outgoing,
          temp,       \* temp_sync_updated_meta: row id -> change_delta
          known,      \* guids of records uploaded or applied since the last reset
          wiped,      \* history was wiped during this sync
          ops, writes, syncs

remote == <<server, changed, since>>
work == <<incoming, plans, outgoing, temp>>
bounds == <<ops, writes, syncs>>
vars == <<db, remote, phase, work, known, wiped, bounds>>

Record == [kind : {"none", "live", "dead"}, visits : SUBSET Date]
NoRecord == [kind |-> "none", visits |-> {}]
Tombstone == [kind |-> "dead", visits |-> {}]
Live(visits) == [kind |-> "live", visits |-> visits]

IncomingPlan == [kind : {"Delete", "Apply", "Reconciled"}, visits : SUBSET Date]

Nothing == [x \in {} |-> x]

(* The tables and the records in flight have their types.                  *)
TypeOK ==
    /\ StorageTypeOK
    /\ server \in [Guid -> Record] /\ changed \subseteq Guid /\ since \subseteq Guid
    /\ phase \in {"idle", "incoming", "outgoing", "upload", "finish", "finished"}
    /\ DOMAIN incoming \subseteq Guid /\ Range(incoming) \subseteq Record
    /\ DOMAIN plans \subseteq Guid /\ Range(plans) \subseteq IncomingPlan
    /\ DOMAIN outgoing \subseteq Guid /\ Range(outgoing) \subseteq Record
    /\ DOMAIN temp \subseteq Nat /\ Range(temp) \subseteq Nat
    /\ known \subseteq Guid /\ wiped \in BOOLEAN
    /\ ops \in 0..MaxOps /\ writes \in 0..MaxWrites /\ syncs \in 0..MaxSyncs

Init ==
    /\ StorageInit
    /\ server = [g \in Guid |-> NoRecord] /\ changed = {} /\ since = {}
    /\ phase = "idle"
    /\ incoming = Nothing /\ plans = Nothing /\ outgoing = Nothing /\ temp = Nothing
    /\ known = {} /\ wiped = FALSE
    /\ ops = 0 /\ writes = 0 /\ syncs = 0

-----------------------------------------------------------------------------
(* SyncGuid::new is random: no one uses the guid yet.                      *)
FreshGuids ==
    {g \in Guid : /\ server[g] = NoRecord /\ g \notin tombstones /\ g \notin DOMAIN outgoing
                  /\ g # pages[UrlOf(g)].guid}

UserStep ==
    /\ ops < MaxOps /\ ops' = ops + 1
    /\ \/ User(FreshGuids) /\ UNCHANGED wiped
       \/ (wipe_local \/ \E now \in Date : delete_everything(now)) /\ wiped' = TRUE
    /\ UNCHANGED <<remote, phase, work, known, writes, syncs>>

(* Another client writes a record it knows, or one of its own.             *)
OtherWrites ==
    /\ writes < MaxWrites /\ writes' = writes + 1
    /\ \E g \in Guid, r \in {Tombstone} \cup {Live(v) : v \in SUBSET Date \ {{}}} :
         /\ server[g] # NoRecord \/ (r # Tombstone /\ g \in FreshGuids)
         /\ server' = [server EXCEPT ![g] = r]
         /\ changed' = changed \cup {g}
         /\ since' = since \cup {g}
    /\ UNCHANGED <<db, phase, work, known, wiped, ops, syncs>>

-----------------------------------------------------------------------------
(* The sync IDs on the server are not the stored ones: the collection was  *)
(* wiped, or the device was disconnected meanwhile.                        *)
do_reset ==
    /\ phase = "idle"
    /\ writes < MaxWrites /\ writes' = writes + 1
    /\ reset_storage
    /\ \E wipe \in BOOLEAN : server' = IF wipe THEN [g \in Guid |-> NoRecord] ELSE server
    /\ changed' = {g \in Guid : server'[g] # NoRecord}
    /\ known' = {}
    /\ UNCHANGED <<mark, since, phase, work, wiped, ops, syncs>>

(* get_collection_request: newer than the last sync, up to a limit.        *)
Fetch ==
    /\ phase = "idle" /\ syncs < MaxSyncs
    /\ syncs' = syncs + 1
    /\ \E G \in Limit(changed, MAX_INCOMING_PLACES) : incoming' = [g \in G |-> server[g]]
    /\ phase' = "incoming" /\ since' = {} /\ wiped' = FALSE
    /\ UNCHANGED <<db, server, changed, plans, outgoing, temp, known, ops, writes>>

End ==
    /\ phase' = "idle"
    /\ incoming' = Nothing /\ plans' = Nothing /\ outgoing' = Nothing /\ temp' = Nothing

(* The process is killed, the sync is interrupted or a request fails.      *)
Abort ==
    /\ phase # "idle" /\ End
    /\ UNCHANGED <<db, remote, known, wiped, bounds>>

clamp_visit_date(d, now) ==
    IF d > now THEN now ELSE Max({d, EARLIEST_TIMESTAMP})

(* `existing` are the rows of fetch_visits and `last` is the last of them. *)
(* A record with a bad URL or guid, or a URL that is not kept, is skipped: *)
(* as if it had not been there.                                            *)
plan_incoming_record(g, record, now, existing, last) ==
    LET page == pages[UrlOf(g)]
        cur_visit_map == {clamp_visit_date(d, now) : d \in existing}
        earliest_allowed == IF Cardinality(existing) = MAX_VISITS THEN last ELSE 0
        to_apply == {d \in {clamp_visit_date(e, now) : e \in record.visits} :
                        d >= earliest_allowed /\ d \notin cur_visit_map}
        guid_changed == Exists(page) /\ page.guid # g
    IN  IF record = Tombstone THEN [kind |-> "Delete", visits |-> {}]
        ELSE IF guid_changed \/ to_apply # {} THEN [kind |-> "Apply", visits |-> to_apply]
        ELSE [kind |-> "Reconciled", visits |-> {}]

(* Records are planned one by one, outside of any transaction; the query   *)
(* of fetch_visits has no ORDER BY.                                        *)
PlanRecord(g) ==
    /\ phase = "incoming" /\ g \in DOMAIN incoming
    /\ \E now \in Date, existing \in Limit(Visits(pages[UrlOf(g)]), MAX_VISITS) :
       \E last \in IF existing = {} THEN {0} ELSE existing :
         plans' = [h \in DOMAIN plans \cup {g} |->
                     IF h = g THEN plan_incoming_record(g, incoming[g], now, existing, last)
                     ELSE plans[h]]
    /\ incoming' = Restrict(incoming, DOMAIN incoming \ {g})
    /\ UNCHANGED <<db, remote, phase, outgoing, temp, known, wiped, bounds>>

(* Deleting a bookmarked page is an SQL error, and so is reading a counter *)
(* that is not a u32.                                                      *)
Applicable(g) ==
    LET p == pages[UrlOf(g)]
    IN  CASE plans[g].kind = "Delete" -> ~(p.guid = g /\ p.foreign)
          [] plans[g].kind = "Apply" -> Readable(p)
          [] plans[g].kind = "Reconciled" -> TRUE

(* One plan; maybe_commit may let the user in before the next one.         *)
ApplyPlan(g) ==
    /\ phase = "incoming" /\ incoming = Nothing /\ g \in DOMAIN plans
    /\ Applicable(g)
    /\ CASE plans[g].kind = "Delete" -> apply_synced_deletion(g)
         [] plans[g].kind = "Apply" -> apply_synced_visits(g, plans[g].visits)
         [] plans[g].kind = "Reconciled" -> apply_synced_reconciliation(g)
    /\ known' = IF pages'[UrlOf(g)].guid = g THEN known \cup {g} ELSE known
    /\ plans' = Restrict(plans, DOMAIN plans \ {g})
    /\ UNCHANGED <<mark, remote, phase, incoming, outgoing, temp, wiped, bounds>>

(* The tombstones come first; a page without visits is not uploaded.       *)
fetch_outgoing ==
    \E T \in Limit(tombstones, MAX_OUTGOING_PLACES) :
    \E U \in Limit({u \in Url : Dirty(pages[u])}, MAX_OUTGOING_PLACES - Cardinality(T)) :
      LET R == {u \in U : pages[u].guid \notin T /\ Visits(pages[u]) # {}}
          records == {pages[u].guid : u \in R}
      IN  /\ \A u \in U : Readable(pages[u])
          /\ outgoing' = [g \in T \cup records |->
               IF g \in T THEN Tombstone ELSE Live(LatestVisits(pages[UrlOf(g)], MAX_VISITS))]
          /\ temp' = [i \in {pages[u].id : u \in R} |->
               pages[CHOOSE u \in R : pages[u].id = i].counter]
          /\ pages' = [u \in Url |-> IF u \in R THEN MarkedUploaded(pages[u]) ELSE pages[u]]

FetchOutgoing ==
    /\ phase = "incoming" /\ incoming = Nothing /\ plans = Nothing
    /\ fetch_outgoing
    /\ phase' = "outgoing"
    /\ UNCHANGED <<tombstones, mark, remote, incoming, plans, known, wiped, bounds>>

(* do_apply_incoming: the time of the fetch becomes the last sync time.    *)
PutFetchTime ==
    /\ phase = "outgoing" /\ phase' = "upload"
    /\ changed' = since
    /\ UNCHANGED <<db, server, since, work, known, wiped, bounds>>

(* The server refuses the upload when someone else wrote since the fetch.  *)
(* Without a batch, a part of the records may get there before a failure.  *)
Upload ==
    /\ phase = "upload"
    /\ \E G \in SUBSET DOMAIN outgoing :
         /\ since # {} => G = {}
         /\ server' = [g \in Guid |-> IF g \in G THEN outgoing[g] ELSE server[g]]
         /\ changed' = changed \cup G
         /\ known' = known \cup {g \in G : outgoing[g] # Tombstone}
         /\ IF G = DOMAIN outgoing
            THEN phase' = "finish" /\ UNCHANGED work
            ELSE End
    /\ UNCHANGED <<db, since, wiped, bounds>>

FinishPlan ==
    /\ phase = "finish" /\ phase' = "finished"
    /\ finish_outgoing(temp)
    /\ temp' = Nothing
    /\ UNCHANGED <<mark, remote, incoming, plans, outgoing, known, wiped, bounds>>

(* do_sync_finished: the time of the upload becomes the last sync time.    *)
PutUploadTime ==
    /\ phase = "finished" /\ End
    /\ changed' = since
    /\ UNCHANGED <<db, server, since, known, wiped, bounds>>

Next ==
    \/ UserStep \/ OtherWrites
    \/ do_reset \/ Fetch \/ Abort
    \/ \E g \in Guid : PlanRecord(g) \/ ApplyPlan(g)
    \/ FetchOutgoing \/ PutFetchTime \/ Upload \/ FinishPlan \/ PutUploadTime

Spec == Init /\ [][Next]_vars

-----------------------------------------------------------------------------
(* A time is never at once a visit of a page and a deleted visit of it: a  *)
(* visit the user deleted does not come back with a sync, and a visit      *)
(* made again is not taken for deleted.                                    *)
DeletedVisitsStayDeleted ==
    \A u \in Url : Visits(pages[u]) \cap pages[u].gone = {}

(* After deleteEverything no remote visit that could have been part of it  *)
(* trickles back in, whatever was planned before or is synced later.       *)
NothingTricklesBack ==
    \A u \in Url : \A d \in pages[u].remote : d > mark

(* A page that was uploaded or applied since the last reset is never       *)
(* New: it would change its guid, or be deleted without a tombstone.  This *)
(* holds through every interruption of an upload.                          *)
UploadedIsNormal ==
    \A u \in Url : pages[u].guid \in known => pages[u].status = "Normal"

Newer(dates, record) == \E d \in dates : \A e \in record.visits : d > e

(* A page visited while it is being uploaded is still dirty when the sync  *)
(* has finished, unless history was wiped meanwhile.                       *)
VisitedDuringUploadStaysDirty ==
    [][FinishPlan =>
         \A u \in Url : LET g == pages[u].guid
                        IN  (~wiped /\ g \in DOMAIN outgoing /\ outgoing[g].kind = "live"
                               /\ Newer(Visits(pages[u]), outgoing[g])) => Dirty(pages'[u])]_vars

-----------------------------------------------------------------------------
(* The change counter of a page is a u32 (PageInfo), so that every page    *)
(* can be read.                                                            *)
CounterIsUnsigned == \A u \in Url : Readable(pages[u])

(* fetch_outgoing: a guid both in tombstones and live records "should be   *)
(* impossible!".                                                           *)
NotBothTombstoneAndLive == \A u \in Url : pages[u].guid \notin tombstones

(* IncomingPlan::Reconciled: the "Entry exists locally and it's the same   *)
(* as the incoming record."                                                *)
ReconciledIsSame ==
    [][\A g \in DOMAIN plans' \ DOMAIN plans :
         plans'[g].kind = "Reconciled" => Visits(pages[UrlOf(g)]) = incoming[g].visits]_vars

(* deletePlace: "If the place has previously been synced, a tombstone will *)
(* be written to the sync server": the end of a sync drops no tombstone    *)
(* of a place the server still has.                                        *)
TombstonesAreUploaded ==
    [][FinishPlan => \A g \in tombstones : server[g].kind # "live"]_vars

(* "Each client must track changes to synced data, so that it knows what   *)
(* to upload during the next sync": a page with visits newer than the ones *)
(* the server has is dirty after a sync.                                   *)
ChangesAreTracked ==
    [][FinishPlan =>
         \A u \in Url : LET g == pages[u].guid
                        IN  (Exists(pages[u]) /\ Newer(Visits(pages[u]), server[g]))
                              => Dirty(pages'[u])]_vars
=============================================================================

----------------------------- MODULE PlacesApi -----------------------------
(* The places API (components/places/src/api/places_api.rs) as the FFI uses  *)
(* it: who owns the write connection, and one sync with its caches, its      *)
(* token and its storage client (sync15/src/sync_multiple.rs, client.rs,     *)
(* token.rs).                                                                *)
(*                                                                           *)
(* The sync_state mutex serialises sync_history() and sync_bookmarks(), and  *)
(* places_api_destroy() waits for the call that uses the handle, so one sync *)
(* at a time is followed through its steps.  The setup is a GET here,        *)
(* followed by a DELETE and a PUT if there is nothing (SyncSetup has the     *)
(* states in between), and a store is a GET of its collection and a POST.    *)
EXTENDS TokenProvider, FiniteSets, FiniteSetsExt

CONSTANTS
    Nodes,          \* storage nodes of the token server
    Inits,          \* client_init: the access tokens a sync is given
    MaxApis,        \* PlacesApi objects made during a run
    MaxFaults

NodesAssumption == Nodes \subseteq Nat \ {NoNode} /\ Nodes # {}
DurationAssumption == Duration \in Nat \ {0}

VARIABLES
    made,       \* the number of PlacesApi objects made so far: ID_COUNTER
    api,        \* the one that APIS can upgrade to, 0 when it was dropped
    writers,    \* connections of type ReadWrite: their api_id and where they are
    failed,     \* an assertion failed
    active,     \* sync_conn_active
    state,      \* sync_state: None, or mem_cached_state and disk_cached_state
    meta,       \* the meta table: the global state of versions 1 and 2, history's ids
    upgradable, \* the file is of a version that can be upgraded
    sync,       \* the sync in progress
    node,       \* where the token server sends this user
    faults

connVars == <<made, api, writers, failed>>
syncVars == <<active, state, meta, upgradable, sync>>
vars == <<connVars, syncVars, node, faults>>

NoClient == [init |-> 0, token |-> NoToken, pinned |-> NoNode]

\* mem_cached_state (last_client_info; last_global_state comes and goes with
\* it) and disk_cached_state: nothing, the declined engines of the server, or
\* those migrated from version 1
NoState == [present |-> FALSE, mem |-> NoClient, disk |-> "none"]

NotSyncing ==
    [at |-> "none", init |-> 0, client |-> NoClient, mem |-> NoClient, disk |-> "none",
     request |-> "none", url |-> NoNode, auth |-> NoNode, ok |-> FALSE]

\* A global state of version 1: whether it parses, the pending
\* engine_state_changes, and whether meta/global lists history.
NoV1 == [there |-> FALSE, parses |-> FALSE, changes |-> {}, listed |-> FALSE]
V1(parses, changes, listed) ==
    [there |-> TRUE, parses |-> parses, changes |-> changes, listed |-> listed]
V1States == {NoV1, V1(FALSE, {}, FALSE), V1(TRUE, {}, TRUE), V1(TRUE, {"Reset"}, TRUE),
             V1(TRUE, {"ResetOther", "ResetAllExceptUs"}, TRUE)}

EmptyMeta == [v1 |-> NoV1, v2 |-> "none", ids |-> FALSE]

Init ==
    /\ made = 0
    /\ api = 0
    /\ writers = {}
    /\ failed = FALSE
    /\ active = FALSE
    /\ state = NoState
    /\ meta \in {[EmptyMeta EXCEPT !.v1 = v] : v \in V1States}
    /\ upgradable \in BOOLEAN
    /\ sync = NotSyncing
    /\ node = Min(Nodes)
    /\ faults = 0

Fault == faults < MaxFaults /\ faults' = faults + 1

----------------------------------------------------------------------------
(* Connections                                                              *)

Writer(id, where) == [api |-> id, at |-> where]

\* places_api_new(): PlacesApi::new_or_existing_into() for a file whose API is
\* not open.  A file that cannot be upgraded is removed and made anew.  The
\* object is made with its write connection.
ApiNew ==
    /\ api = 0 /\ made < MaxApis
    /\ made' = made + 1
    /\ api' = made'
    /\ writers' = writers \cup {Writer(made', "api")}
    /\ meta' = IF upgradable THEN meta ELSE EmptyMeta
    /\ upgradable' = TRUE
    /\ UNCHANGED <<failed, active, state, sync, node, faults>>

\* places_api_destroy(): the last reference goes, and with it the caches and
\* the connection that is at home.
ApiDestroy ==
    /\ api # 0 /\ sync.at = "none" /\ made < MaxApis
    /\ api' = 0
    /\ writers' = writers \ {Writer(api, "api")}
    /\ state' = NoState
    /\ active' = FALSE
    /\ UNCHANGED <<made, failed, meta, upgradable, sync, node, faults>>

\* places_connection_new(ReadWrite): open_connection() hands out the one
\* connection, or fails with ConnectionAlreadyOpen.
TakeWriter ==
    /\ api # 0
    /\ Writer(api, "api") \in writers
    /\ writers' = (writers \ {Writer(api, "api")}) \cup {Writer(api, "out")}
    /\ UNCHANGED <<made, api, failed, syncVars, node, faults>>

\* Mutant of close_connection(): the connection may be of any API.
ReturnToAny ==
    /\ api # 0
    /\ \E w \in writers :
           /\ w.at = "out"
           /\ IF Writer(api, "api") \in writers
              THEN failed' = TRUE /\ UNCHANGED writers
              ELSE /\ writers' = (writers \ {w}) \cup {Writer(api, "api")}
                   /\ UNCHANGED failed
    /\ UNCHANGED <<made, api, syncVars, node, faults>>

\* places_api_return_write_conn(): close_connection() drops a connection of
\* another API and takes its own back into the place that must be free.
ReturnWriter ==
    /\ api # 0
    /\ \E w \in writers :
           /\ w.at = "out"
           /\ CASE w.api # api -> writers' = writers \ {w} /\ UNCHANGED failed
                [] Writer(api, "api") \in writers -> failed' = TRUE /\ UNCHANGED writers
                [] OTHER -> /\ writers' = (writers \ {w}) \cup {Writer(api, "api")}
                            /\ UNCHANGED failed
    /\ UNCHANGED <<made, api, syncVars, node, faults>>

\* places_connection_destroy()
DropWriter ==
    /\ \E w \in writers : w.at = "out" /\ writers' = writers \ {w}
    /\ UNCHANGED <<made, api, failed, syncVars, node, faults>>

\* The process dies and is started again.
Crash ==
    /\ made < MaxApis /\ api # 0
    /\ Fault
    /\ api' = 0
    /\ writers' = {}
    /\ state' = NoState
    /\ active' = FALSE
    /\ sync' = NotSyncing
    /\ UNCHANGED <<made, failed, meta, upgradable, node>>

----------------------------------------------------------------------------
(* sync_history() and sync_bookmarks()                                      *)

Goto(step) == sync' = [sync EXCEPT !.at = step]
Request(request) == sync' = [sync EXCEPT !.at = "endpoint", !.request = request]

\* open_sync_connection(): when the file cannot be opened the flag stays set.
SyncCall(i) ==
    /\ api # 0 /\ sync.at = "none" /\ ~active
    /\ active' = TRUE
    /\ \/ /\ sync' = [NotSyncing EXCEPT !.at = "load", !.init = i]
          /\ UNCHANGED faults
       \/ Fault /\ UNCHANGED sync
    /\ UNCHANGED <<connVars, state, meta, upgradable, node>>

\* The first sync of an API reads the state that was persisted.
Load ==
    /\ sync.at = "load"
    /\ state' = IF state.present THEN state
                ELSE [NoState EXCEPT !.present = TRUE, !.disk = meta.v2]
    /\ Goto("migrate")
    /\ UNCHANGED <<connVars, active, meta, upgradable, node, faults>>

\* extract_v1_state(): the ids of history unless it is to be reset, and the
\* declined engines; nothing when the state does not parse.
extract_v1_state(v1) ==
    [ids |-> v1.parses /\ v1.listed
             /\ v1.changes \cap {"ResetAll", "Reset", "ResetAllExceptOthers"} = {},
     declined |-> v1.parses]

\* HistoryStore::migrate_v1_global_state(), in a transaction
Migrate ==
    /\ sync.at = "migrate"
    /\ LET new == extract_v1_state(meta.v1)
       IN  meta' = [v1 |-> NoV1,
                    v2 |-> IF new.declined THEN "migrated" ELSE meta.v2,
                    ids |-> new.ids \/ meta.ids]
    /\ Goto("begin")
    /\ UNCHANGED <<connVars, active, state, upgradable, node, faults>>

\* The caches are taken, and sync_multiple() reuses the client if it was made
\* for the same client_init.
Begin ==
    /\ sync.at = "begin"
    /\ sync' = [sync EXCEPT !.at = "endpoint", !.request = "get",
                            !.disk = state.disk,
                            !.client = IF state.mem.init = sync.init THEN state.mem
                                       ELSE [NoClient EXCEPT !.init = sync.init]]
    /\ state' = [state EXCEPT !.mem = NoClient, !.disk = "none"]
    /\ UNCHANGED <<connVars, active, meta, upgradable, node, faults>>

\* An error of get_meta() or of the migration ends the call.
SyncErr ==
    /\ \/ sync.at = "load" /\ ~state.present
       \/ sync.at = "migrate"
    /\ Fault
    /\ active' = FALSE
    /\ sync' = NotSyncing
    /\ UNCHANGED <<connVars, state, meta, upgradable, node>>

\* The requests of SetupStorageClient: fetches, wipe_all_remote() and uploads
SetupRequests == {"get", "wipe", "put"}

\* Mutant of Failed(): the client is kept when the setup failed.
FailedKeeps(client) ==
    sync' = [sync EXCEPT !.at = "finish", !.client = NoClient, !.mem = client]

\* The client goes back into the cache when a store failed, not when the setup
\* did.
Failed(client) ==
    sync' = [sync EXCEPT !.at = "finish", !.client = NoClient,
                         !.mem = IF sync.request \in SetupRequests THEN NoClient ELSE client]

\* with_token(): the client with its state advanced, by what fetch_context()
\* may come back with.
with_token ==
    {LET token == advance_state(sync.client.token, answer)
     IN  [fault |-> answer # Granted(node),
          client |-> [sync.client EXCEPT
                         !.token = token,
                         !.pinned = IF @ = NoNode /\ token.kind = "Token" THEN token.node
                                    ELSE @]] :
       answer \in {Granted(node)}
                    \cup (IF Fetches(sync.client.token) THEN {Wait, Error} ELSE {})}

\* The call with the token, if there is one: the sync goes on as `next`.
UseToken(w, next) ==
    /\ IF w.fault THEN Fault ELSE UNCHANGED faults
    /\ IF w.client.token.kind = "Token"
       THEN sync' = [next EXCEPT !.client = w.client] ELSE Failed(w.client)

\* relative_storage_request(), collection_request(), put(), wipe_all_remote()
\* and post(): the URL is made from one call of with_token(), ...
Endpoint ==
    /\ sync.at = "endpoint"
    /\ \E w \in with_token :
           UseToken(w, [sync EXCEPT !.at = "auth", !.url = w.client.token.node])
    /\ UNCHANGED <<connVars, active, state, meta, upgradable, node>>

\* ... build_request() and authorized() make the header from another.
Authorize ==
    /\ sync.at = "auth"
    /\ \E w \in with_token :
           UseToken(w, [sync EXCEPT !.at = "send", !.auth = w.client.token.node])
    /\ UNCHANGED <<connVars, active, state, meta, upgradable, node>>

\* The node this user was moved away from answers 401; what is not there, 404.
Answers ==
    CASE sync.url # node -> {401}
      [] sync.request \in {"get", "wipe"} -> {200, 404}
      [] OTHER -> {200}

\* make_storage_request(): how a GET is told by its status
ClientResponse(status) ==
    CASE status = 200 -> "Success"
      [] status = 404 -> "NotFound"
      [] status = 401 -> "Unauthorized"
      [] OTHER -> "ServerError"

\* wipe_all_remote() takes NotFound for a success, put() requires one, and the
\* responses to post() are PostQueue's.
WipeAccepts(status) == status \in {200, 404}
PutAccepts(status) == status = 200
PostAccepts(status) == status = 200

Accepted(status) ==
    CASE sync.request = "get" -> ClientResponse(status) \in {"Success", "NotFound"}
      [] sync.request = "collection" -> ClientResponse(status) = "Success"
      [] sync.request = "wipe" -> WipeAccepts(status)
      [] sync.request = "put" -> PutAccepts(status)
      [] OTHER -> PostAccepts(status)

\* What follows the accepted response: without a meta/global a fresh start.
AfterRequest(status) ==
    CASE sync.request = "get" /\ status = 404 -> Request("wipe")
      [] sync.request = "wipe" -> Request("put")
      [] sync.request \in {"get", "put"} ->
            sync' = [sync EXCEPT !.at = "uid", !.disk = "server"]
      [] sync.request = "collection" -> Request("post")
      [] OTHER -> sync' = [sync EXCEPT !.at = "finish", !.ok = TRUE, !.client = NoClient]

\* exec_request(): also send() may fail, and the server.
Send ==
    /\ sync.at = "send"
    /\ \/ /\ \E status \in Answers :
                 IF Accepted(status) THEN AfterRequest(status) ELSE Failed(sync.client)
          /\ UNCHANGED faults
       \/ Fault /\ ~Accepted(503) /\ Failed(sync.client)
    /\ UNCHANGED <<connVars, active, state, meta, upgradable, node>>

\* hashed_uid(), between the setup and the stores
HashedUid ==
    /\ sync.at = "uid"
    /\ \E w \in with_token :
           UseToken(w, [sync EXCEPT !.at = "endpoint", !.request = "collection"])
    /\ UNCHANGED <<connVars, active, state, meta, upgradable, node>>

\* set_disk_persisted_state() and the caches; an error of the former loses the
\* latter.  Drop of SyncConn clears the flag.
Finish ==
    /\ sync.at = "finish"
    /\ \/ /\ meta' = [meta EXCEPT !.v2 = sync.disk]
          /\ state' = [state EXCEPT !.mem = sync.mem, !.disk = sync.disk]
          /\ UNCHANGED faults
       \/ Fault /\ UNCHANGED <<meta, state>>
    /\ active' = FALSE
    /\ sync' = NotSyncing
    /\ UNCHANGED <<connVars, upgradable, node>>

\* Time passes, and the token server moves the user.
Tick ==
    /\ sync' = [sync EXCEPT !.client.token = Aged(@)]
    /\ state' = [state EXCEPT !.mem.token = Aged(@)]
    /\ UNCHANGED <<connVars, active, meta, upgradable, node, faults>>

Reassign ==
    /\ Fault
    /\ node' \in Nodes \ {node}
    /\ UNCHANGED <<connVars, syncVars>>

SyncStep ==
    \/ Load \/ Migrate \/ SyncErr \/ Begin
    \/ Endpoint \/ Authorize \/ Send \/ HashedUid \/ Finish

Next ==
    \/ ApiNew \/ ApiDestroy \/ TakeWriter \/ ReturnWriter \/ DropWriter \/ Crash
    \/ \E i \in Inits : SyncCall(i)
    \/ SyncStep
    \/ Tick \/ Reassign

\* A call runs to its end, time passes, and the application opens the API and
\* syncs again and again.
Fairness ==
    /\ WF_vars(SyncStep)
    /\ WF_vars(Tick)
    /\ WF_vars(ApiNew)
    /\ SF_vars(\E i \in Inits : SyncCall(i))

Spec == Init /\ [][Next]_vars /\ Fairness

----------------------------------------------------------------------------
\* Every variable has its type.
TypeOK ==
    /\ made \in 0..MaxApis /\ api \in 0..MaxApis
    /\ writers \subseteq [api : 1..MaxApis, at : {"api", "out"}]
    /\ active \in BOOLEAN /\ upgradable \in BOOLEAN /\ failed \in BOOLEAN
    /\ state.disk \in {"none", "server", "migrated"}
    /\ node \in Nodes /\ faults \in 0..MaxFaults

\* An API has one write connection, at home or handed out, whatever API a
\* connection is returned to, and close_connection()'s assertion that its place
\* is free holds.
WriterAtMostOnce ==
    /\ ~failed
    /\ \A id \in 1..MaxApis : Cardinality({w \in writers : w.api = id}) <= 1

\* All requests of a client go to the node of its first token, with the
\* authorization of a token for that node, even when a token expires between
\* the making of the URL and that of the header or fetching one failed in
\* between.
SentToFirstNode ==
    sync.at = "send" => sync.url = sync.auth /\ sync.url = sync.client.pinned

\* The flag that keeps syncs apart was left behind by a failed open.
Leaked == active /\ sync.at = "none"

Succeeds == Finish /\ sync.ok

\* An application that goes on syncing succeeds again and again: a failed,
\* expired or withheld token, a cached client whose node was reassigned and
\* lost caches are got over.  Only a leaked flag is not.
EventuallySynced == <>[]Leaked \/ []<><<Succeeds>>_vars

\* "It enforces that only 1 write connection can exist to the database at once"
\* (places_api.rs).  Violated: a connection handed out outlives its API.
OneWriterPerFile == Cardinality(writers) <= 1

\* "this needs to be executed before bookmarks sync, otherwise the shared,
\* persisted global state may be written by bookmarks before we've had a chance
\* to migrate `declined` over" (history_sync/store.rs).  Violated: the state
\* was read before the migration, and a sync that fails writes it back.
MigratedIsKept == [][meta.v2 = "migrated" => meta'.v2 # "none"]_meta
=============================================================================

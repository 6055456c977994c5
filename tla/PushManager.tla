---------------------------- MODULE PushManager ----------------------------
(* The push component (components/push/src/subscriber.rs, communications.rs  *)
(* and the calls of push/ffi): an application keeps Web Push subscriptions   *)
(* through one PushManager, the subscriptions live in the database and at    *)
(* the autopush server.                                                      *)
(*                                                                           *)
(* The handle map's mutex serialises the calls, so what interleaves is the   *)
(* server, the network and the death of the process: a call is one step per  *)
(* request and per SQL statement.  The secret of a user agent is named by    *)
(* its uaid, a key by a number.  The "test" sender is left out.              *)
EXTENDS PushStorage, FiniteSets, FiniteSetsExt

CONSTANTS
    Channels,       \* channel ids; numbers, the order of the table's index
    Tokens,         \* registration ids of the operating system
    MaxFaults       \* failed requests, lost answers, crashes, losses of the server

ASSUME ChannelsAssumption == Channels \subseteq Nat \ {0} /\ IsFiniteSet(Channels)
ASSUME TokensAssumption == Tokens \subseteq Nat \ {0}

VARIABLES
    db,         \* the database file
    mgr,        \* the PushManager: conn.uaid, conn.auth, and both registration ids
    op,         \* the call being made
    server,     \* autopush: per uaid, its token and the endpoints of its channels
    os,         \* the registration id the operating system gives out
    want,       \* the channels the application wants
    site,       \* the endpoint and key the application was given for a channel
    faults

vars == <<db, mgr, op, server, os, want, site, faults>>

\* As many as the records and the manager can name at a time.
Uaids == 1..Cardinality(Channels) + 1
Endpoints == 1..2 * Cardinality(Channels) * Cardinality(Uaids) + 1

Closed == [open |-> FALSE, uaid |-> None, auth |-> None, token |-> None, config |-> None]
Idle == [call |-> "none", at |-> "none", channel |-> None, endpoint |-> None,
         rest |-> {}, results |-> {}, lost |-> {}]
NotHeld == [endpoint |-> None, key |-> None]
Unknown == [alive |-> FALSE, token |-> None, routes |-> [c \in Channels |-> None]]

Init ==
    /\ db = NewFile
    /\ mgr = Closed
    /\ op = Idle
    /\ server = [u \in Uaids |-> Unknown]
    /\ os = Min(Tokens)
    /\ want = {}
    /\ site = [c \in Channels |-> NotHeld]
    /\ faults = 0

Fault == faults < MaxFaults /\ faults' = faults + 1

Return == op' = Idle
Call(name, at, c, rest) ==
    op' = [Idle EXCEPT !.call = name, !.at = at, !.channel = c, !.rest = rest]
At(step) == op.at = step
Goto(step) == op' = [op EXCEPT !.at = step]

----------------------------------------------------------------------------
(* The server, as communications.rs uses it.                                *)

\* A request under the uaid is honoured.
Authorized == mgr.uaid # None /\ server[mgr.uaid].alive /\ mgr.auth = mgr.uaid

FreshEndpoint ==
    Min(Endpoints \ ({server[u].routes[c] : u \in Uaids, c \in Channels}
                     \cup {r.endpoint : r \in db.records}
                     \cup {site[c].endpoint : c \in Channels}))

\* The uaid a registration ends up under: a new one when the manager has none.
\* A uaid that neither the manager nor the database names is as good as new.
RegisteredAs ==
    IF mgr.uaid # None THEN mgr.uaid
    ELSE Min(Uaids \ ({db.uaid} \cup {r.uaid : r \in db.records}))

RegisterAccepted == mgr.uaid = None \/ Authorized

User == IF mgr.uaid # None THEN server[mgr.uaid]
        ELSE [Unknown EXCEPT !.alive = TRUE, !.token = mgr.token]

EndpointOf(c) == IF User.routes[c] # None THEN User.routes[c] ELSE FreshEndpoint

Registered(c) ==
    [server EXCEPT ![RegisteredAs] = [User EXCEPT !.routes[c] = EndpointOf(c)]]

----------------------------------------------------------------------------
(* Construction and death of the manager.                                   *)


\* connect(), for a bridged HTTP connection
connect(registration, uaid, auth) ==
    [open |-> TRUE, uaid |-> uaid, auth |-> auth, token |-> registration,
     config |-> registration]

\* PushManager::new()
Open ==
    /\ ~mgr.open
    /\ db' = init(db)
    /\ mgr' = connect(os, db'.uaid, db'.auth)
    /\ UNCHANGED <<op, server, os, want, site, faults>>

\* push_connection_destroy()
Close ==
    /\ mgr.open /\ At("none")
    /\ mgr' = Closed
    /\ UNCHANGED <<db, op, server, os, want, site, faults>>

\* The process dies within a call.
Crash ==
    /\ ~At("none")
    /\ Fault
    /\ mgr' = Closed
    /\ Return
    /\ UNCHANGED <<db, server, os, want, site>>

----------------------------------------------------------------------------
(* PushManager::subscribe()                                                 *)

\* The local record, if there is one, is the answer.
Subscribe(c) ==
    /\ mgr.open /\ At("none")
    /\ want' = want \cup {c}
    /\ LET known == IF mgr.uaid = None THEN {} ELSE get_record(db, mgr.uaid, c)
       IN  IF known # {}
           THEN /\ \E r \in known :
                       site' = [site EXCEPT ![c] = [endpoint |-> r.endpoint, key |-> r.key]]
                /\ UNCHANGED op
           ELSE Call("subscribe", "register", c, {}) /\ UNCHANGED site
    /\ UNCHANGED <<db, mgr, server, os, faults>>

\* ConnectHttp::subscribe(): the answer completes uaid and auth where they were
\* missing.
Register ==
    /\ At("register")
    /\ RegisterAccepted
    /\ server' = Registered(op.channel)
    /\ mgr' = [mgr EXCEPT !.uaid = IF @ = None THEN RegisteredAs ELSE @,
                          !.auth = IF @ = None THEN RegisteredAs ELSE @]
    /\ op' = [op EXCEPT !.at = IF op.call = "subscribe" THEN "put" ELSE "endpoint",
                        !.endpoint = EndpointOf(op.channel)]
    /\ UNCHANGED <<db, os, want, site, faults>>

\* The server refuses the uaid, has the channel already (409), cannot be
\* reached or fails, or its answer is lost: the call ends with an error.
RegisterFails ==
    /\ At("register")
    /\ \/ /\ ~RegisterAccepted
          /\ UNCHANGED <<server, faults>>
       \/ /\ RegisterAccepted /\ User.routes[op.channel] # None
          /\ UNCHANGED <<server, faults>>
       \/ Fault /\ UNCHANGED server
       \/ Fault /\ RegisterAccepted /\ server' = Registered(op.channel)
    /\ Return
    /\ UNCHANGED <<db, mgr, os, want, site>>

\* Crypto::generate_key()
generate_key ==
    Min(Endpoints \ ({r.key : r \in db.records} \cup {site[c].key : c \in Channels}))

NewRecord == PushRecord(mgr.uaid, op.channel, op.endpoint, generate_key, mgr.config)

\* store.put_record(), which the UNIQUE constraints may turn down
PutRecord ==
    /\ At("put")
    /\ IF Rejected(db, NewRecord)
       THEN Return /\ UNCHANGED db
       ELSE db' = put_record(db, NewRecord) /\ Goto("meta")
    /\ UNCHANGED <<mgr, server, os, want, site, faults>>

\* The application gets the endpoint and the key of the record just stored.
HandOver ==
    \E r \in get_record(db, mgr.uaid, op.channel) :
        site' = [site EXCEPT ![op.channel] = [endpoint |-> r.endpoint, key |-> r.key]]

\* Mutant of PutUaid: the meta data is not stored.
PutNoUaid ==
    /\ At("meta")
    /\ HandOver
    /\ Return
    /\ UNCHANGED <<db, mgr, server, os, want, faults>>

\* The uaid is stored unless there is one; ...
PutUaid ==
    /\ At("meta")
    /\ IF NoUaid(db)
       THEN db' = set_uaid(db, mgr.uaid) /\ Goto("auth") /\ UNCHANGED site
       ELSE HandOver /\ Return /\ UNCHANGED db
    /\ UNCHANGED <<mgr, server, os, want, faults>>

\* ... the secret goes with it.
PutAuth ==
    /\ At("auth")
    /\ db' = set_auth(db, mgr.auth)
    /\ HandOver
    /\ Return
    /\ UNCHANGED <<mgr, server, os, want, faults>>

----------------------------------------------------------------------------
(* PushManager::unsubscribe() and update()                                  *)

\* An application that unsubscribes forgets what it held.  Without a uaid or
\* a secret the call ends with an error before any request.
Unsubscribe(c) ==
    /\ mgr.open /\ At("none")
    /\ want' = want \ {c}
    /\ site' = [site EXCEPT ![c] = NotHeld]
    /\ IF mgr.uaid = None \/ mgr.auth = None
       THEN UNCHANGED op
       ELSE Call("unsubscribe", "drop", c, {})
    /\ UNCHANGED <<db, mgr, server, os, faults>>

Dropped(u, c) == [server EXCEPT ![u].routes[c] = None]

\* ConnectHttp::unsubscribe(): any answer, whatever its status, is a success.
Drop ==
    /\ At("drop")
    /\ \/ /\ server' = IF Authorized THEN Dropped(mgr.uaid, op.channel) ELSE server
          /\ Goto("delete")
          /\ UNCHANGED faults
       \/ Fault /\ UNCHANGED server /\ (Return \/ Goto("delete"))
       \/ Fault /\ Authorized /\ server' = Dropped(mgr.uaid, op.channel) /\ Return
    /\ UNCHANGED <<db, mgr, os, want, site>>

DeleteRecord ==
    /\ At("delete")
    /\ db' = delete_record(db, mgr.uaid, op.channel)
    /\ Return
    /\ UNCHANGED <<mgr, server, os, want, site, faults>>

\* The operating system changes the registration id, which the application
\* passes on with Update.
OsRotates ==
    /\ os' \in Tokens \ {os}
    /\ UNCHANGED <<db, mgr, op, server, want, site, faults>>

\* PushManager::update(): the connection takes the new id before it is sent,
\* the configuration keeps the one it was made with.
Update ==
    /\ mgr.open /\ At("none")
    /\ mgr.uaid # None /\ mgr.auth # None
    /\ mgr' = [mgr EXCEPT !.token = os]
    /\ Call("update", "token", None, {})
    /\ UNCHANGED <<db, server, os, want, site, faults>>

TokenSent == [server EXCEPT ![mgr.uaid].token = mgr.token]

\* ConnectHttp::update(): any answer, whatever its status, is a success.
SendToken ==
    /\ At("token")
    /\ \/ /\ server' = IF Authorized THEN TokenSent ELSE server
          /\ Goto("native")
          /\ UNCHANGED faults
       \/ Fault /\ UNCHANGED server /\ (Return \/ Goto("native"))
       \/ Fault /\ Authorized /\ server' = TokenSent /\ Return
    /\ UNCHANGED <<db, mgr, os, want, site>>

UpdateNativeId ==
    /\ At("native")
    /\ db' = update_native_id(db, mgr.uaid, mgr.token)
    /\ Return
    /\ UNCHANGED <<mgr, server, os, want, site, faults>>

----------------------------------------------------------------------------
(* push_verify_connection(): verify_connection() and regenerate_endpoints() *)

\* Without a uaid there is nothing to verify; without a secret it is an error.
Verify ==
    /\ mgr.open /\ At("none")
    /\ mgr.uaid # None /\ mgr.auth # None
    /\ Call("verify", "list", None, {})
    /\ UNCHANGED <<db, mgr, server, os, want, site, faults>>

\* ConnectHttp::channel_list()
channel_list == {c \in Channels : server[mgr.uaid].routes[c] # None}

ListFails ==
    /\ At("list")
    /\ \/ ~Authorized /\ UNCHANGED faults
       \/ Fault
    /\ Return
    /\ UNCHANGED <<db, mgr, server, os, want, site>>

\* The two lists are equal, order included.
VerifyMatches ==
    /\ At("list") /\ Authorized
    /\ channel_list = get_channel_list(db, mgr.uaid)
    /\ Return
    /\ UNCHANGED <<db, mgr, server, os, want, site, faults>>

\* The lists differ, or the server lists several channels in another order:
\* every local channel is registered again, in the order of the table.
VerifyDiffers ==
    /\ At("list") /\ Authorized
    /\ LET local == get_channel_list(db, mgr.uaid)
       IN  /\ channel_list # local \/ Cardinality(local) > 1
           /\ IF local = {} THEN Return
              ELSE op' = [op EXCEPT !.at = "register", !.channel = Min(local),
                                    !.rest = local \ {Min(local)}]
    /\ UNCHANGED <<db, mgr, server, os, want, site, faults>>

\* The application replaces the endpoints it is told of.
Told(results) ==
    [c \in Channels |->
        IF \E r \in results : r.channel = c /\ site[c] # NotHeld
        THEN [site[c] EXCEPT !.endpoint = (CHOOSE r \in results : r.channel = c).endpoint]
        ELSE site[c]]

\* Mutant of UpdateEndpoint: the last endpoint is left out of the results.
UpdateAllButLast ==
    /\ At("endpoint")
    /\ db' = update_endpoint(db, mgr.uaid, op.channel, op.endpoint)
    /\ IF op.rest = {}
       THEN Return /\ site' = Told(op.results)
       ELSE /\ op' = [op EXCEPT !.at = "register", !.channel = Min(op.rest),
                                !.rest = @ \ {Min(@)},
                                !.results = @ \cup {[channel |-> op.channel,
                                                     endpoint |-> op.endpoint]}]
            /\ UNCHANGED site
    /\ UNCHANGED <<mgr, server, os, want, faults>>

\* store.update_endpoint(), then the next channel or the result
UpdateEndpoint ==
    /\ At("endpoint")
    /\ db' = update_endpoint(db, mgr.uaid, op.channel, op.endpoint)
    /\ LET results == op.results \cup {[channel |-> op.channel, endpoint |-> op.endpoint]}
       IN  IF op.rest = {}
           THEN Return /\ site' = Told(results)
           ELSE /\ op' = [op EXCEPT !.at = "register", !.results = results,
                                    !.channel = Min(op.rest), !.rest = @ \ {Min(@)}]
                /\ UNCHANGED site
    /\ UNCHANGED <<mgr, server, os, want, faults>>

----------------------------------------------------------------------------
(* "Either side could have lost it's mind" (communications.rs)              *)

ServerLosesChannel ==
    /\ Fault
    /\ \E u \in Uaids, c \in Channels :
           /\ server[u].routes[c] # None
           /\ server' = Dropped(u, c)
           /\ op' = [op EXCEPT !.lost = IF At("none") THEN @ ELSE @ \cup {c}]
    /\ UNCHANGED <<db, mgr, os, want, site>>

ServerLosesUser ==
    /\ Fault
    /\ \E u \in Uaids :
           /\ server[u].alive
           /\ server' = [server EXCEPT ![u] = Unknown]
           /\ op' = [op EXCEPT !.lost = IF At("none") THEN @ ELSE Channels]
    /\ UNCHANGED <<db, mgr, os, want, site>>

CallStep ==
    \/ Register \/ RegisterFails \/ PutRecord \/ PutUaid \/ PutAuth
    \/ Drop \/ DeleteRecord
    \/ SendToken \/ UpdateNativeId
    \/ ListFails \/ VerifyMatches \/ VerifyDiffers \/ UpdateEndpoint

Next ==
    \/ Open \/ Close \/ Crash
    \/ \E c \in Channels : Subscribe(c) \/ Unsubscribe(c)
    \/ OsRotates \/ Update \/ Verify
    \/ CallStep
    \/ ServerLosesChannel \/ ServerLosesUser

\* A call runs to its end, and the application opens the manager and retries
\* the subscriptions it wants until it holds them.
Fairness ==
    /\ WF_vars(CallStep)
    /\ WF_vars(Open)
    /\ \A c \in Channels :
           SF_vars(c \in want /\ site[c] = NotHeld /\ Subscribe(c))

Spec == Init /\ [][Next]_vars /\ Fairness

----------------------------------------------------------------------------
\* Every variable has its type.
TypeOK ==
    /\ db.version \in {0, VERSION} /\ db.uaid \in {None} \cup Uaids
    /\ db.auth \in {None} \cup Uaids
    /\ \A r \in db.records : r.endpoint \in Endpoints /\ r.key \in Endpoints
    /\ mgr.uaid \in {None} \cup Uaids /\ mgr.auth \in {None} \cup Uaids
    /\ want \subseteq Channels /\ os \in Tokens /\ faults \in 0..MaxFaults

\* push_decrypt(), for a message encrypted to key
Decrypts(c, key) ==
    mgr.uaid # None /\ \E r \in get_record(db, mgr.uaid, c) : r.key = key

\* Whatever crashed, was lost or was repeated, the key an application was given
\* for a subscription it still wants is the key push_decrypt() finds: the
\* manager has a uaid (its unwrap() cannot panic), and the record under that
\* uaid holds the key.
HeldKeyDecrypts ==
    \A c \in want :
        mgr.open /\ site[c] # NotHeld => Decrypts(c, site[c].key)

\* When regenerate_endpoints() returns, each subscription the application
\* holds has the endpoint the server routes, unless the server lost the
\* channel again during the call.
RegeneratedIsRouted ==
    [][UpdateEndpoint /\ op' = Idle =>
         \A c \in want \ op.lost :
             site'[c] # NotHeld => server[mgr.uaid].routes[c] = site'[c].endpoint]_vars

\* What no retry of subscribe() gets over: a record of the channel under
\* another uaid, a uaid without its secret, a uaid the server has lost, and a
\* channel that only the server has.
Stuck(c) ==
    \/ \E r \in get_record_by_chid(db, c) : r.uaid # db.uaid
    \/ db.uaid # None /\ db.auth = None
    \/ mgr.uaid # None /\ ~server[mgr.uaid].alive
    \/ mgr.uaid # None /\ server[mgr.uaid].routes[c] # None


\* "This will ensure that the server and UA have matching information regarding
\* subscriptions" (push/README.md): when verify_connection() is satisfied, the
\* endpoints the application holds are routed.  Violated: a failure between two
\* channels of regenerate_endpoints() keeps the new endpoints from the
\* application, and the lists match from then on.
VerifiedIsRouted ==
    [][VerifyMatches =>
         \A c \in want :
             site[c] # NotHeld => server[mgr.uaid].routes[c] = site[c].endpoint]_vars
=============================================================================

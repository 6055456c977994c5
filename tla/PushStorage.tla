---------------------------- MODULE PushStorage ----------------------------
(* The push component's database (components/push/src/storage/): one table   *)
(* of subscriptions and one of meta data.  Every statement commits by        *)
(* itself.  Identifiers are numbers and 0 is a missing value.                *)
EXTENDS Naturals

None == 0

VERSION == 2

\* PushRecord; scope, ctime and app_server_key are carried along unread.
PushRecord(uaid, chid, endpoint, key, native) ==
    [uaid |-> uaid, channel_id |-> chid, endpoint |-> endpoint, key |-> key,
     native_id |-> native]

\* A file that was never opened.
NewFile == [version |-> 0, records |-> {}, uaid |-> None, auth |-> None]

\* schema::init(): tables are made when they are missing, rows are kept.
init(db) == [db EXCEPT !.version = IF @ < VERSION THEN VERSION ELSE @]

get_record(db, uaid, chid) ==
    {r \in db.records : r.uaid = uaid /\ r.channel_id = chid}

get_record_by_chid(db, chid) == {r \in db.records : r.channel_id = chid}

\* The UNIQUE constraints that "ON CONFLICT(uaid, channel_id)" does not absorb.
Rejected(db, rec) ==
    \E r \in db.records \ get_record(db, rec.uaid, rec.channel_id) :
        r.channel_id = rec.channel_id \/ r.endpoint = rec.endpoint

put_record(db, rec) ==
    [db EXCEPT !.records = (@ \ get_record(db, rec.uaid, rec.channel_id)) \cup {rec}]

delete_record(db, uaid, chid) ==
    [db EXCEPT !.records = @ \ get_record(db, uaid, chid)]

get_channel_list(db, uaid) == {r.channel_id : r \in {s \in db.records : s.uaid = uaid}}

update_endpoint(db, uaid, chid, endpoint) ==
    [db EXCEPT !.records = {IF r \in get_record(db, uaid, chid)
                            THEN [r EXCEPT !.endpoint = endpoint] ELSE r : r \in @}]

update_native_id(db, uaid, native) ==
    [db EXCEPT !.records = {IF r.uaid = uaid
                            THEN [r EXCEPT !.native_id = native] ELSE r : r \in @}]

\* get_meta("uaid").is_none()
NoUaid(db) == db.uaid = None

set_uaid(db, uaid) == [db EXCEPT !.uaid = uaid]

set_auth(db, auth) == [db EXCEPT !.auth = auth]
=============================================================================

------------------------------ MODULE BsoRecord ------------------------------
(***************************************************************************)
(* The records of a collection on their way to the server and back, and    *)
(* the keys they are encrypted with (sync15/src/bso_record.rs,             *)
(* key_bundle.rs, collection_keys.rs).  A record's payload is encrypted    *)
(* and signed as a whole; two of its fields, sortindex and ttl, travel     *)
(* beside it in the clear, as fields of the BSO, so that the server sees   *)
(* them.  Other devices write the same collections, with their own code;   *)
(* they may also replace the keys.                                         *)
(*                                                                         *)
(* JSON objects are functions from field names to values; a value is a     *)
(* string, whatever its JSON type.  A cipher is perfect: only the key it   *)
(* was made with gets anything out of it, and only that key's signature    *)
(* verifies.                                                               *)
(***************************************************************************)
EXTENDS Naturals, FiniteSets, TLC

CONSTANTS
    Collections,
    Numbers,    \* the values that parse as a sortindex or ttl
    Others,     \* other values
    MaxKeys     \* bound: keys that are ever made

VARIABLES
    made,       \* how many random keys were made
    cryptoKeys, \* the record crypto/keys on the server
    keys,       \* the CollectionKeys this device holds
    store,      \* the record of each collection on the server
    written,    \* the payload its writer put into it, and the writer
    got         \* what each collection's last download gave

vars == <<made, cryptoKeys, keys, store, written, got>>

None == "None"
Auto == {"sortindex", "ttl"}
Empty == [f \in {} |-> None]
Without(data, fields) == [f \in DOMAIN data \ fields |-> data[f]]

Ok(x) == [ok |-> TRUE, val |-> x]
Err(e) == [ok |-> FALSE, err |-> e]

(***************************************************************************)
(* Keys.                                                                   *)
(***************************************************************************)
\* from_ksync_bytes: one half encrypts, the other signs.
KeyBundle(k) == [enc |-> k, mac |-> k]
RootKey == KeyBundle(0)

hmac(key, cipher) == [mac |-> key.mac, over |-> cipher]
verify_hmac(key, sig, cipher) == sig = hmac(key, cipher)

encrypt_bytes(key, json) == [enc |-> key.enc, text |-> json]

\* The padding of a wrong key's result is almost never right.
decrypt_bytes(key, cipher) ==
    IF cipher.enc = key.enc THEN Ok(cipher.text) ELSE Err("OpensslError")

(***************************************************************************)
(* Payloads.                                                               *)
(***************************************************************************)
Payload(id, deleted, data) == [id |-> id, deleted |-> deleted, data |-> data]

\* The JSON of a payload: deleted is written when it is set.
ToJson(p) ==
    (IF p.deleted THEN "deleted" :> "true" ELSE Empty) @@ ("id" :> p.id) @@ p.data

from_json(json) ==
    IF "id" \notin DOMAIN json THEN Err("JsonError")
    ELSE Ok(Payload(json["id"], "deleted" \in DOMAIN json,
                    Without(json, {"id", "deleted"})))

new_tombstone(id) == Payload(id, TRUE, Empty)
new_tombstone_with_ttl(id, ttl) == Payload(id, TRUE, "ttl" :> ttl)
with_sortindex(p, index) == [p EXCEPT !.data = ("sortindex" :> index) @@ @]


\* The field of the BSO replaces the one inside the payload, or removes it.
add_auto_field(data, name, v) ==
    IF v = None THEN Without(data, {name}) ELSE (name :> v) @@ data

\* The field is removed in any case; a value that does not parse is dropped.
take_auto_field(data, name) ==
    IF name \in DOMAIN data /\ data[name] \in Numbers THEN data[name] ELSE None

(***************************************************************************)
(* BSOs.                                                                   *)
(***************************************************************************)
into_bso(p) ==
    [sortindex |-> take_auto_field(p.data, "sortindex"),
     ttl |-> take_auto_field(p.data, "ttl"),
     payload |-> [p EXCEPT !.data = Without(@, Auto)]]

from_cleartext_payload(key, json) ==
    LET cipher == encrypt_bytes(key, json)
    IN  [ciphertext |-> cipher, hmac |-> hmac(key, cipher)]

decrypt_and_parse_payload(encrypted, key) ==
    LET text == decrypt_bytes(key, encrypted.ciphertext)
    IN  IF ~verify_hmac(key, encrypted.hmac, encrypted.ciphertext) THEN Err("HmacMismatch")
        ELSE IF ~text.ok THEN text
        ELSE from_json(text.val)

encrypt(bso, key) ==
    [bso EXCEPT !.payload = from_cleartext_payload(key, ToJson(@))]

decrypt(bso, key) ==
    LET p == decrypt_and_parse_payload(bso.payload, key)
    IN  IF ~p.ok THEN p
        ELSE Ok([p.val EXCEPT !.data =
                   add_auto_field(add_auto_field(@, "sortindex", bso.sortindex), "ttl", bso.ttl)])

(***************************************************************************)
(* The keys of an account: a default and, for some collections, their own. *)
(* The record crypto/keys holds them, encrypted with the root key.         *)
(***************************************************************************)
CollectionKeys(default, own) == [default |-> default, collections |-> own]

to_encrypted_bso(ck) ==
    encrypt(into_bso(Payload("keys", FALSE, "default" :> ck.default @@ "collections" :> ck.collections)),
            RootKey)

from_encrypted_bso(bso) ==
    LET p == decrypt(bso, RootKey).val.data
    IN  CollectionKeys(p["default"], p["collections"])

key_for_collection(ck, c) ==
    IF c \in DOMAIN ck.collections THEN ck.collections[c] ELSE ck.default

(***************************************************************************)
(* The devices.                                                            *)
(***************************************************************************)
NoRecord == [sortindex |-> None, ttl |-> None]
Nothing == [json |-> Empty, by |-> None, key |-> RootKey]

NewRandom(n) == KeyBundle(made + n)

Init ==
    /\ made = 1
    /\ cryptoKeys = to_encrypted_bso(CollectionKeys(KeyBundle(1), Empty))
    /\ keys = CollectionKeys(KeyBundle(1), Empty)
    /\ store = [c \in Collections |-> NoRecord]
    /\ written = [c \in Collections |-> Nothing]
    /\ got = [c \in Collections |-> Err("nothing")]

Wiped ==
    /\ store' = [c \in Collections |-> NoRecord]
    /\ written' = [c \in Collections |-> Nothing]

\* This device starts afresh: CollectionKeys::new_random, and all is wiped.
UploadKeys ==
    /\ made < MaxKeys
    /\ made' = made + 1
    /\ cryptoKeys' = to_encrypted_bso(CollectionKeys(NewRandom(1), Empty))
    /\ Wiped
    /\ UNCHANGED <<keys, got>>

\* Another device replaces the keys, or gives a collection its own; it should
\* wipe the storage, but that is a request of its own.
OtherKeys ==
    /\ made < MaxKeys
    /\ made' = made + 1
    /\ \/ cryptoKeys' = to_encrypted_bso(CollectionKeys(NewRandom(1), Empty))
       \/ \E c \in Collections :
            LET ck == from_encrypted_bso(cryptoKeys)
            IN  cryptoKeys' = to_encrypted_bso(
                    [ck EXCEPT !.collections = (c :> NewRandom(1)) @@ @])
    /\ Wiped \/ UNCHANGED <<store, written>>
    /\ UNCHANGED <<keys, got>>

\* crypto/keys is downloaded.
FetchKeys ==
    /\ keys' = from_encrypted_bso(cryptoKeys)
    /\ UNCHANGED <<made, cryptoKeys, store, written, got>>

\* The server may keep a field of the old record that the new one lacks.
Stored(old, new) ==
    {[new EXCEPT !.sortindex = s, !.ttl = t] :
        s \in {new.sortindex} \cup (IF new.sortindex = None THEN {old.sortindex} ELSE {}),
        t \in {new.ttl} \cup (IF new.ttl = None THEN {old.ttl} ELSE {})}

\* What the stores upload: records and tombstones, with a sortindex (logins),
\* a ttl (history) or neither (bookmarks).
Outgoing ==
    {new_tombstone("id"), with_sortindex(new_tombstone("id"), CHOOSE n \in Numbers : TRUE)}
    \cup {new_tombstone_with_ttl("id", n) : n \in Numbers}
    \cup {with_sortindex(Payload("id", FALSE, "title" :> v), n) : v \in Others, n \in Numbers}
    \cup {Payload("id", FALSE, ("title" :> v) @@ ("ttl" :> w)) : v \in Others, w \in Others}

Written(p, by, key) == [json |-> ToJson(p), by |-> by, key |-> key]

\* OutgoingChangeset::encrypt, and the upload.
Upload(c) ==
    /\ \E p \in Outgoing :
         LET key == key_for_collection(keys, c)
         IN  /\ \E bso \in Stored(store[c], encrypt(into_bso(p), key)) :
                  store' = [store EXCEPT ![c] = bso]
             /\ written' = [written EXCEPT ![c] = Written(p, "us", key)]
    /\ UNCHANGED <<made, cryptoKeys, keys, got>>

\* Another device's record, with the newest keys; its payload may hold fields
\* with the names of automatic ones.
OtherWrite(c) ==
    /\ \E v \in Others, s \in Numbers \cup {None}, inside \in SUBSET Auto :
         LET key == key_for_collection(from_encrypted_bso(cryptoKeys), c)
             p == Payload("id", FALSE, ("title" :> v) @@ [f \in inside |-> v])
             bso == [sortindex |-> s, ttl |-> None, payload |-> from_cleartext_payload(key, ToJson(p))]
         IN  /\ store' = [store EXCEPT ![c] = bso]
             /\ written' = [written EXCEPT ![c] = Written(p, "other", key)]
    /\ UNCHANGED <<made, cryptoKeys, keys, got>>

\* IncomingChangeset::fetch
Download(c) ==
    /\ store[c] # NoRecord
    /\ got' = [got EXCEPT ![c] = decrypt(store[c], key_for_collection(keys, c))]
    /\ UNCHANGED <<made, cryptoKeys, keys, store, written>>

Next ==
    \/ UploadKeys \/ OtherKeys \/ FetchKeys
    \/ \E c \in Collections : Upload(c) \/ OtherWrite(c) \/ Download(c)

Spec == Init /\ [][Next]_vars

ReadRight ==
    \A c \in Collections : Download(c) =>
      LET w == written[c]
          data == got'[c].val.data
      IN  /\ IF w.key # key_for_collection(keys, c) THEN got'[c] = Err("HmacMismatch")
             ELSE /\ got'[c].ok
                  /\ Without(ToJson(got'[c].val), Auto) = Without(w.json, Auto)
                  /\ \A f \in Auto : IF f \in DOMAIN data THEN data[f] = store[c][f]
                                    ELSE store[c][f] = None
          /\ w.by = "us" => \A f \in Auto :
               /\ f \notin DOMAIN store[c].payload.ciphertext.text
               /\ f \in DOMAIN w.json /\ w.json[f] \in Numbers => store[c][f] = w.json[f]

=============================================================================

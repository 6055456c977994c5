------------------------------- MODULE Upload -------------------------------
(***************************************************************************)
(* What CollectionUpdate::upload promises its callers, whatever batches it *)
(* splits the records into: records become visible on the server only as   *)
(* long as no other device has written to the collection, each at most     *)
(* once, and the upload reports success only if every record it was given  *)
(* is stored or has been reported as refused.  LoginsSync is written       *)
(* against this: SyncUpload is a successful upload, SyncUploadPart one     *)
(* that fails after some records were stored.                              *)
(***************************************************************************)
CONSTANTS Rec       \* the records to upload

VARIABLES
    stored,         \* the records the server has stored for this upload
    refused,        \* the records reported as not uploaded
    disturbed,      \* another device has written since the upload's xius
    result          \* "running", "ok" or "err"

vars == <<stored, refused, disturbed, result>>

Init ==
    /\ stored = {}
    /\ refused = {}
    /\ disturbed = FALSE
    /\ result = "running"

(* The upload goes on, fails, or returns what it could not store.          *)
Ends(nowStored) ==
    /\ result' \in {"running", "ok", "err"}
    /\ refused' = IF result' = "ok" THEN Rec \ nowStored ELSE {}

(* Some records become visible; the upload may end with this step.         *)
Commit ==
    /\ result = "running"
    /\ ~disturbed
    /\ \E recs \in SUBSET (Rec \ stored) : recs # {} /\ stored' = stored \cup recs
    /\ Ends(stored')
    /\ UNCHANGED disturbed

End ==
    /\ result = "running"
    /\ Ends(stored)
    /\ UNCHANGED <<stored, disturbed>>

Disturb ==
    /\ disturbed' = TRUE
    /\ UNCHANGED <<stored, refused, result>>

Next == Commit \/ End \/ Disturb

Spec == Init /\ [][Next]_vars
=============================================================================

--------------------------- MODULE LoginReconcile ---------------------------
(***************************************************************************)
(* One login that this device and another one keep changing, field by      *)
(* field: the columns LoginDb leaves out.  `used` is timesUsed, `realm`    *)
(* and `form` are httpRealm and formSubmitURL.  The login is known to the  *)
(* server from the start, so every conflict is a three way merge           *)
(* (LoginMerge).  The other device is seen only through what it stores on  *)
(* the server.                                                             *)
(***************************************************************************)
EXTENDS LoginMerge

CONSTANTS
    Realm,          \* non-empty values of httpRealm
    Form,           \* non-empty values of formSubmitURL
    NoOverlay,      \* loginsL has no row for the login
    MaxUses,        \* bound: how often the login is used
    MaxFailures     \* bound: how many syncs are cut short

ReconcileAssumption ==
    /\ {Unset, NoText, EmptyText} \cap (Realm \cup Form) = {}
    /\ NoOverlay \notin [realm : Realm, form : Form, used : Nat, changed : BOOLEAN]
    /\ MaxUses \in Nat /\ MaxFailures \in Nat

VARIABLES
    mirror,     \* the row of loginsM
    overlay,    \* the row of loginsL or NoOverlay; `changed`: it must be uploaded
    server,     \* the record on the server
    stale,      \* the server's record is newer than lastSync
    moved,      \* the server's record is newer than the last fetch
    phase,      \* where this device's sync is
    uses,       \* how often the user has used the login, on either device
    failures

vars == <<mirror, overlay, server, stale, moved, phase, uses, failures>>

OptRealm == Realm \cup {NoText, EmptyText}
OptForm == Form \cup {NoText, EmptyText}

Fields == [realm : OptRealm, form : OptForm, used : Nat]

(* Login::check_valid: what add and update accept.                         *)
check_valid(l) == (l.realm = NoText) # (l.form = NoText)

TypeOK ==
    /\ mirror \in Fields
    /\ overlay \in [realm : OptRealm, form : OptForm, used : Nat, changed : BOOLEAN]
                     \cup {NoOverlay}
    /\ server \in Fields
    /\ stale \in BOOLEAN /\ moved \in BOOLEAN
    /\ phase \in {"idle", "applied", "uploaded"}
    /\ uses \in Nat /\ failures \in Nat

Init ==
    /\ \E r \in Realm : mirror = [realm |-> r, form |-> NoText, used |-> 1]
    /\ overlay = NoOverlay
    /\ server = mirror
    /\ stale = FALSE /\ moved = FALSE
    /\ phase = "idle"
    /\ uses = 1
    /\ failures = 0

-----------------------------------------------------------------------------
FieldsOf(l) == [realm |-> l.realm, form |-> l.form, used |-> l.used]

Overlaid(l, changed) ==
    [realm |-> l.realm, form |-> l.form, used |-> l.used, changed |-> changed]

(* The login as the device shows it.                                       *)
View == IF overlay = NoOverlay THEN mirror ELSE FieldsOf(overlay)

(* ensure_local_overlay_exists: the clone of a mirror row is Synced.       *)
Changed == overlay # NoOverlay /\ overlay.changed

LocalUpdate ==
    /\ phase = "idle"
    /\ uses < MaxUses
    /\ \E r \in OptRealm, f \in OptForm :
         LET new == [realm |-> r, form |-> f, used |-> View.used + 1]
         IN  check_valid(new) /\ overlay' = Overlaid(new, TRUE)
    /\ uses' = uses + 1
    /\ UNCHANGED <<mirror, server, stale, moved, phase, failures>>

Touch ==
    /\ phase = "idle"
    /\ uses < MaxUses
    /\ overlay' = Overlaid([View EXCEPT !.used = @ + 1], Changed)
    /\ uses' = uses + 1
    /\ UNCHANGED <<mirror, server, stale, moved, phase, failures>>

(* The other device updates the login and uploads it.                      *)
RemoteUpdate ==
    /\ uses < MaxUses
    /\ \E r \in OptRealm, f \in OptForm :
         LET new == [realm |-> r, form |-> f, used |-> server.used + 1]
         IN  check_valid(new) /\ server' = new
    /\ stale' = TRUE /\ moved' = TRUE
    /\ uses' = uses + 1
    /\ UNCHANGED <<mirror, overlay, phase, failures>>

-----------------------------------------------------------------------------
(* Mutant: the counts are not added up, the newer device's one is taken.   *)
MergedNewerCount(local, shared, upstream, newer) ==
    [realm |-> MergeOptText(local.realm, shared.realm, upstream.realm, newer),
     form  |-> MergeOptText(local.form, shared.form, upstream.form, newer),
     used  |-> IF newer THEN upstream.used ELSE local.used]

Merged(local, shared, upstream, newer) ==
    [realm |-> MergeOptText(local.realm, shared.realm, upstream.realm, newer),
     form  |-> MergeOptText(local.form, shared.form, upstream.form, newer),
     used  |-> MergeUsed(local.used, shared.used, upstream.used)]

(* reconcile and execute_plan: a three way merge if there is an overlay,   *)
(* otherwise the mirror is forwarded.                                      *)
SyncFetch ==
    /\ phase = "idle"
    /\ phase' = "applied"
    /\ IF stale
       THEN /\ mirror' = [server EXCEPT !.used = MirrorNumber(@, mirror.used)]
            /\ \E newer \in BOOLEAN :
                 overlay' = IF overlay = NoOverlay THEN NoOverlay
                            ELSE Overlaid(Merged(overlay, mirror, server, newer), TRUE)
       ELSE UNCHANGED <<mirror, overlay>>
    /\ moved' = FALSE
    /\ UNCHANGED <<server, stale, uses, failures>>

(* The POST is refused when the other device has written meanwhile.        *)
SyncUpload ==
    /\ phase = "applied"
    /\ \/ /\ Changed /\ moved
          /\ phase' = "idle"
          /\ UNCHANGED <<server, stale>>
       \/ /\ Changed /\ ~moved
          /\ phase' = "uploaded"
          /\ server' = FieldsOf(overlay)
          /\ stale' = TRUE
       \/ /\ ~Changed
          /\ phase' = "uploaded"
          /\ UNCHANGED <<server, stale>>
    /\ UNCHANGED <<mirror, overlay, moved, uses, failures>>

(* mark_as_synchronized, with the timestamp of the upload as lastSync.     *)
SyncFinish ==
    /\ phase = "uploaded"
    /\ phase' = "idle"
    /\ IF Changed
       THEN mirror' = FieldsOf(overlay) /\ overlay' = NoOverlay
       ELSE UNCHANGED <<mirror, overlay>>
    /\ stale' = moved
    /\ UNCHANGED <<server, moved, uses, failures>>

(* The sync is cut short: lastSync stays, so what it fetched or uploaded   *)
(* will be fetched by the next one.                                        *)
SyncAbort ==
    /\ phase # "idle"
    /\ failures < MaxFailures
    /\ failures' = failures + 1
    /\ phase' = "idle"
    /\ UNCHANGED <<mirror, overlay, server, stale, moved, uses>>

Next == LocalUpdate \/ Touch \/ RemoteUpdate \/ SyncFetch \/ SyncUpload
          \/ SyncFinish \/ SyncAbort

Spec == Init /\ [][Next]_vars

-----------------------------------------------------------------------------
(* The uses this device has counted and not uploaded yet.                  *)
Pending == IF overlay = NoOverlay \/ (phase = "uploaded" /\ Changed) THEN 0
           ELSE overlay.used - mirror.used

(* No use of a login is lost: whatever the two devices upload, merge and   *)
(* retry, the server's count and the uses still waiting in the overlay     *)
(* account for all of them; and, unless a sync has been cut short, for     *)
(* each of them once.                                                      *)
UsesNotLost ==
    /\ server.used + Pending >= uses
    /\ failures = 0 => server.used + Pending = uses

(* Fetching again what an aborted sync has already applied does not touch  *)
(* the user's edits: the merge finds that upstream has not moved.  (An     *)
(* empty realm or form is the exception: the delta takes it for None.)     *)
RefetchKeepsView ==
    (SyncFetch /\ overlay # NoOverlay /\ FieldsOf(server) = mirror
       /\ EmptyText \notin {overlay.realm, overlay.form})
      => View' = View

-----------------------------------------------------------------------------
(* What the repository says of a login and the merge does not keep.        *)

(* schema.rs: "Exactly one of httpRealm or formSubmitURL should be set".   *)
ExactlyOneTarget == check_valid(View)

(* ServerPassword.kt, timesUsed: "Number of times this password has been   *)
(* used."                                                                  *)
UsesCountedOnce == View.used <= uses
=============================================================================

---------------------------- MODULE MCLoginsSync ----------------------------
(* LoginsSync for TLC.  Histories start with empty devices, where duplicates *)
(* are made, or with one login that all devices and the server have, where   *)
(* it is merged and deleted after few changes.  In a third kind of history,  *)
(* one login is changed field by field (LoginReconcile, variables x1 .. x8). *)
EXTENDS LoginsSync

CONSTANTS Realm, Form, NoOverlay, MaxUses

VARIABLES part, x1, x2, x3, x4, x5, x6, x7, x8

xs == <<x1, x2, x3, x4, x5, x6, x7, x8>>

LR == INSTANCE LoginReconcile WITH
        mirror <- x1, overlay <- x2, server <- x3, stale <- x4, moved <- x5,
        phase <- x6, uses <- x7, failures <- x8, MaxFailures <- 2

ASSUME FieldsAssumption == LR!ReconcileAssumption

Shared == CHOOSE g \in Guid : TRUE
SharedLogin == [key |-> CHOOSE k \in Key : TRUE, pw |-> CHOOSE p \in Pw : TRUE, tpc |-> 1]

\* Every device has finished a sync of the shared login; none is cut short after
\* that.
Settled ==
    /\ server = [rec |-> [g \in Guid |-> IF g = Shared THEN SharedLogin ELSE NoRow],
                 mod |-> [g \in Guid |-> IF g = Shared THEN 1 ELSE 0],
                 coll |-> 1, syncId |-> 1]
    /\ db = [c \in Client |->
                [L |-> [g \in Guid |-> NoRow],
                 M |-> [g \in Guid |-> IF g = Shared THEN MirrorOf(SharedLogin, FALSE)
                                       ELSE NoRow],
                 lastSync |-> 1, assoc |-> 1]]
    /\ sess = [c \in Client |-> Idle]
    /\ now = 1
    /\ failures = MaxFailures

MCInit ==
    \/ /\ part = "rows" /\ (Init \/ Settled)
       /\ x1 = 0 /\ x2 = 0 /\ x3 = 0 /\ x4 = 0 /\ x5 = 0 /\ x6 = 0 /\ x7 = 0 /\ x8 = 0
    \/ part = "fields" /\ Settled /\ LR!Init

MCNext ==
    /\ UNCHANGED part
    /\ \/ part = "rows" /\ Next /\ UNCHANGED xs
       \/ part = "fields" /\ LR!Next /\ UNCHANGED vars

MCSpec ==
    /\ MCInit /\ [][MCNext]_<<vars, part, xs>>
    /\ \A c \in Client : WF_vars(part = "rows" /\ SyncStep(c))

\* No use of a login is lost, and fetching again what an aborted sync has
\* applied already changes nothing (LoginReconcile).
FieldsKept ==
    /\ [](part = "fields" => LR!UsesNotLost)
    /\ [][part = "fields" => LR!RefetchKeepsView]_xs
=============================================================================

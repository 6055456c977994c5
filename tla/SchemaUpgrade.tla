---------------------------- MODULE SchemaUpgrade ----------------------------
(***************************************************************************)
(* Opening a database file: schema::init of the logins and of the places   *)
(* components, which creates the tables or migrates the ones an older      *)
(* version left, statement by statement inside the transaction             *)
(* with_connection opens.  Several connections may open the file at once;  *)
(* a statement may fail (a full disk, an I/O error) and the process may be *)
(* killed between any two statements.                                      *)
(*                                                                         *)
(* The rows of the file are abstracted to what a migration does to them:   *)
(* how often the login timestamps were divided by 1000, and which layout   *)
(* the bookmark tables have.                                               *)
(***************************************************************************)
EXTENDS Integers, Sequences, SequencesExt

CONSTANTS
    Conns,      \* connections (or processes) opening the file
    SyncConns,  \* the ones that open the places file for a sync
    Kinds,      \* the components whose file it is: "logins", "places"
    MaxFaults   \* bound on failing statements and kills

VARIABLES
    kind,       \* whose file this is
    file,       \* the committed content
    commits,    \* the number of commits, the identity of a snapshot
    conn,       \* conn[c]: the state of connection c
    faults

vars == <<kind, file, commits, conn, faults>>

LoginsVersion == 4
PlacesVersion == 8
VERSION == IF kind = "logins" THEN LoginsVersion ELSE PlacesVersion

(***************************************************************************)
(* Contents.  "none" is a table that does not exist.                       *)
(***************************************************************************)
\* v: user_version; tableList: the version table firefox-ios once used;
\* l, m: how often the timestamps of loginsL and loginsM were divided by 1000
\* since firefox-ios wrote them (a row this library writes counts as 1)
LoginsFile(v, tl, n) == [v |-> v, tableList |-> tl, l |-> n, m |-> n,
                         index |-> v >= 3, meta |-> v >= 4]

\* bookmarks: moz_bookmarks was incomplete before version 4; roots: the
\* bookmark roots exist; tags: the tables of version 6; synced: the layout of
\* moz_bookmarks_synced(_structure), syncedRoots: they hold the roots;
\* mirrored: they hold the records of earlier syncs; lastSync: the key a
\* bookmark sync leaves in moz_meta
PlacesFile(v) == [v |-> v,
                  bookmarks |-> IF v = 0 THEN "none" ELSE
                                IF v < 4 THEN "incomplete" ELSE "complete",
                  roots |-> v >= 4, tags |-> v >= 6,
                  synced |-> IF v < 7 THEN "none" ELSE
                             IF v = 7 THEN "one parent" ELSE "many parents",
                  syncedRoots |-> v >= 7, mirrored |-> v >= 7, lastSync |-> v >= 7]

\* The files an earlier, or a later, version of the library leaves behind.
Files(k) ==
    IF k = "logins"
    THEN {LoginsFile(0, FALSE, -1), LoginsFile(0, TRUE, 0)} \cup
         {LoginsFile(v, FALSE, 0) : v \in 1..3} \cup
         {LoginsFile(v, FALSE, 1) : v \in 4..5}
    ELSE {PlacesFile(v) : v \in 0..9}

(***************************************************************************)
(* The statements.                                                         *)
(***************************************************************************)
Divide(n) == IF n < 0 THEN n ELSE n + 1

CreateShared(f) ==
    [f EXCEPT !.bookmarks = IF @ = "none" THEN "complete" ELSE @,
              !.tags = TRUE,
              !.synced = IF @ = "none" THEN "many parents" ELSE @]

\* A statement of the logins schema.
LoginsStmt(s, f) ==
    CASE s = "create local"   -> [f EXCEPT !.l = IF @ = -1 THEN 1 ELSE @]
      [] s = "create mirror"  -> [f EXCEPT !.m = IF @ = -1 THEN 1 ELSE @]
      [] s = "create indexes" -> [f EXCEPT !.index = TRUE]
      [] s = "create meta"    -> [f EXCEPT !.meta = TRUE]
      [] s = "local to millis"  -> [f EXCEPT !.l = Divide(@)]
      [] s = "mirror to millis" -> [f EXCEPT !.m = Divide(@)]
      [] s = "drop mirror"    -> [f EXCEPT !.m = -1]
      [] s = "drop local"     -> [f EXCEPT !.l = -1, !.index = FALSE]
      [] s = "drop meta"      -> [f EXCEPT !.meta = FALSE]
      [] s = "version 0"      -> [f EXCEPT !.v = 0]
      [] s = "set version"    -> [f EXCEPT !.v = LoginsVersion]

\* A statement, or the extra logic of a migration, of the places schema.
PlacesStmt(s, f) ==
    CASE s = "create shared"      -> CreateShared(f)
      [] s = "create roots"       -> [f EXCEPT !.roots = TRUE]
      [] s = "drop bookmarks"     -> [f EXCEPT !.bookmarks = "none", !.roots = FALSE]
      [] s = "delete last sync"   -> [f EXCEPT !.lastSync = FALSE]
      [] s = "drop synced"        -> [f EXCEPT !.synced = "none", !.syncedRoots = FALSE,
                                             !.mirrored = FALSE]
      [] s = "create synced roots" -> [f EXCEPT !.syncedRoots = TRUE]
      [] s = "next version"       -> [f EXCEPT !.v = @ + 1]
      [] s = "set version"        -> [f EXCEPT !.v = PlacesVersion]

Stmt(s, f) == IF kind = "logins" THEN LoginsStmt(s, f) ELSE PlacesStmt(s, f)

(***************************************************************************)
(* The statements init will run on a file.                                 *)
(***************************************************************************)
logins_create == <<"create local", "create mirror", "create indexes",
                   "create meta", "set version">>

logins_drop == <<"drop mirror", "drop local", "drop meta", "version 0">>

logins_upgrade(from) ==
    (IF from < 3 THEN <<"create indexes">> ELSE <<>>) \o
    (IF from < 4 THEN <<"create meta", "local to millis", "mirror to millis",
                        "set version">> ELSE <<>>)

logins_init(f) ==
    IF f.v = 0 THEN (IF f.tableList THEN logins_drop ELSE <<>>) \o logins_create
    ELSE IF f.v < LoginsVersion THEN logins_upgrade(f.v) ELSE <<>>

places_create == <<"create shared", "create roots", "set version">>

\* The statements of the migration from one version to the next, with
\* PRAGMA user_version between them and the extra logic.
migration(from) ==
    CASE from = 3 -> <<"drop bookmarks", "create shared", "next version",
                    "create roots">>
      [] from = 7 -> <<"delete last sync", "drop synced", "create shared",
                    "next version">>
      [] OTHER    -> <<"create shared", "next version">>

\* No migration starts at version 1, and then the upgrade is an error.
places_upgrade(from) ==
    IF from < 2 THEN <<"DatabaseUpgradeError">>
    ELSE FlattenSeq([i \in 1..(PlacesVersion - from) |-> migration(from + i - 1)])

\* A later version is set back, for the later library to migrate again.
places_init(f) ==
    IF f.v = 0 THEN places_create
    ELSE IF f.v < PlacesVersion THEN places_upgrade(f.v)
    ELSE IF f.v > PlacesVersion THEN <<"set version">> ELSE <<>>

\* init, with the part that depends on the type of the connection.
init(c, f) ==
    IF kind = "logins" THEN logins_init(f)
    ELSE places_init(f) \o
         (IF c \in SyncConns THEN <<"create synced roots">> ELSE <<>>)

(***************************************************************************)
(* A connection: closed, in the transaction of with_connection, or open.   *)
(* A deferred transaction sees the content of its first read; its first    *)
(* write fails if another one has committed since.  At most one writes.    *)
(***************************************************************************)
Closed == [st |-> "closed"]

Init ==
    /\ kind \in Kinds
    /\ file \in Files(kind)
    /\ commits = 0 /\ faults = 0
    /\ conn = [c \in Conns |-> Closed]

TypeOK ==
    /\ \A c \in Conns : conn[c].st \in {"closed", "tx", "open"}
    /\ commits \in Nat /\ faults \in 0..MaxFaults

\* with_connection: begin the transaction and read user_version.
Open(c) ==
    /\ conn[c].st = "closed"
    /\ conn' = [conn EXCEPT ![c] = [st |-> "tx", base |-> commits, work |-> file,
                                    todo |-> init(c, file), wrote |-> FALSE]]
    /\ UNCHANGED <<kind, file, commits, faults>>

Busy(c) == ~conn[c].wrote /\
           (conn[c].base # commits \/
            \E d \in Conns \ {c} : conn[d].st = "tx" /\ conn[d].wrote)

\* Mutation: every statement commits by itself.
StepAutocommits(c) ==
    LET s == Head(conn[c].todo)
    IN  /\ conn[c].st = "tx" /\ conn[c].todo # <<>>
        /\ s # "DatabaseUpgradeError"
        /\ file' = Stmt(s, file)
        /\ conn' = [conn EXCEPT ![c].todo = Tail(@)]
        /\ UNCHANGED <<kind, commits, faults>>

\* The next statement is run; an error rolls the transaction back.
Step(c) ==
    LET s == Head(conn[c].todo)
    IN  /\ conn[c].st = "tx" /\ conn[c].todo # <<>>
        /\ conn' = [conn EXCEPT ![c] =
             IF Busy(c) \/ s = "DatabaseUpgradeError" THEN Closed
             ELSE [@ EXCEPT !.work = Stmt(s, @), !.todo = Tail(@), !.wrote = TRUE]]
        /\ UNCHANGED <<kind, file, commits, faults>>

\* tx.commit()
Commit(c) ==
    /\ conn[c].st = "tx" /\ conn[c].todo = <<>>
    /\ file' = IF conn[c].wrote THEN conn[c].work ELSE file
    /\ commits' = IF conn[c].wrote THEN commits + 1 ELSE commits
    /\ conn' = [conn EXCEPT ![c] = [st |-> "open"]]
    /\ UNCHANGED <<kind, faults>>

\* A statement fails for a reason outside the library.
Fail(c) ==
    /\ conn[c].st = "tx" /\ faults < MaxFaults
    /\ faults' = faults + 1
    /\ conn' = [conn EXCEPT ![c] = Closed]
    /\ UNCHANGED <<kind, file, commits>>

\* The process is killed: what was not committed is gone.
Kill ==
    /\ faults < MaxFaults
    /\ faults' = faults + 1
    /\ conn' = [c \in Conns |-> Closed]
    /\ UNCHANGED <<kind, file, commits>>

Next ==
    \/ \E c \in Conns : Open(c)
    \/ \E c \in Conns : Step(c)
    \/ \E c \in Conns : Commit(c)
    \/ \E c \in Conns : Fail(c)
    \/ Kill

Spec == Init /\ [][Next]_vars

\* user_version tells what is in the file: the timestamps of every login were
\* divided by 1000 exactly once when it says version 4, and never before; the
\* places tables of version 8 have the current layout, with the roots, also
\* those of the mirror once a connection for a sync is open.  If the mirror was
\* dropped, so was the time of the last sync: the next one downloads it again.
VersionTellsContent ==
    IF kind = "logins"
    THEN /\ file.v \in 1..3 => file.l = 0 /\ file.m = 0
         /\ file.v >= 4 => /\ file.l = 1 /\ file.m = 1
                           /\ file.index /\ file.meta
    ELSE /\ file.lastSync => file.mirrored
         /\ file.v = PlacesVersion =>
           /\ file.bookmarks = "complete" /\ file.roots /\ file.tags
           /\ file.synced = "many parents"
           /\ \A c \in SyncConns : conn[c].st = "open" => file.syncedRoots
=============================================================================

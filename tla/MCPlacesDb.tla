----------------------------- MODULE MCPlacesDb -----------------------------
(* Three components around the connections of the places database, for TLC: *)
(* the write transactions (CoopTransaction), the migrations (SchemaUpgrade) *)
(* and the API with its syncs (PlacesApi).  A behaviour is one of them; the *)
(* last two share the variables x1 .. x11.                                  *)
EXTENDS CoopTransaction

CONSTANTS Conns, SyncConns, Kinds, MaxFaults, Duration, Nodes, Inits, MaxApis

VARIABLES part, x1, x2, x3, x4, x5, x6, x7, x8, x9, x10, x11

xs == <<x1, x2, x3, x4, x5, x6, x7, x8, x9, x10, x11>>
all == <<vars, part, xs>>

SU == INSTANCE SchemaUpgrade WITH
        kind <- x1, file <- x2, commits <- x3, conn <- x4, faults <- x5

PA == INSTANCE PlacesApi WITH
        made <- x1, api <- x2, writers <- x3, failed <- x4, active <- x5, state <- x6,
        meta <- x7, upgradable <- x8, sync <- x9, node <- x10, faults <- x11

ASSUME ApiAssumption == PA!NodesAssumption /\ PA!DurationAssumption

Rest == x6 = 0 /\ x7 = 0 /\ x8 = 0 /\ x9 = 0 /\ x10 = 0 /\ x11 = 0

MCInit ==
    /\ Init
    /\ \/ part = "coop" /\ x1 = 0 /\ x2 = 0 /\ x3 = 0 /\ x4 = 0 /\ x5 = 0 /\ Rest
       \/ part = "schema" /\ SU!Init /\ Rest
       \/ part = "api" /\ PA!Init

MCNext ==
    /\ UNCHANGED part
    /\ \/ part = "coop" /\ Next /\ UNCHANGED xs
       \/ part = "schema" /\ SU!Next /\ UNCHANGED <<vars, x6, x7, x8, x9, x10, x11>>
       \/ part = "api" /\ PA!Next /\ UNCHANGED vars

\* The fairness of each component, while it is the one that runs.
MCFairness ==
    /\ WF_vars(part = "coop" /\ NextItem) /\ WF_vars(part = "coop" /\ LastItem)
    /\ \A c \in Conn : /\ SF_vars(part = "coop" /\ LockMutex(c)) /\ WF_vars(part = "coop" /\ Acquire(c))
                       /\ WF_vars(part = "coop" /\ End(c)) /\ WF_vars(part = "coop" /\ AutoEnd(c))
    /\ WF_xs(part = "api" /\ PA!SyncStep) /\ WF_xs(part = "api" /\ PA!Tick)
    /\ WF_xs(part = "api" /\ PA!ApiNew) /\ SF_xs(part = "api" /\ \E i \in Inits : PA!SyncCall(i))

MCSpec == MCInit /\ [][MCNext]_all /\ MCFairness

\* user_version tells what is in the file (SchemaUpgrade).
VersionTellsContent == part = "schema" => SU!VersionTellsContent

\* An API has one write connection, at home or handed out (PlacesApi).
WriterAtMostOnce == part = "api" => PA!WriterAtMostOnce

\* All requests of a client go to the node of its first token (PlacesApi).
SentToFirstNode == part = "api" => PA!SentToFirstNode

\* An application that goes on syncing succeeds again and again (PlacesApi).
EventuallySynced ==
    <>[](part = "api" => PA!Leaked) \/ []<><<part = "api" /\ PA!Succeeds>>_all
=============================================================================

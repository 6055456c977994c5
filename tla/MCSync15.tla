------------------------------ MODULE MCSync15 ------------------------------
(* Three components of sync15 for TLC: the setup of a sync (SyncSetup, whose *)
(* devices are interchangeable), the upload queue (PostQueue) and the        *)
(* encrypted records (BsoRecord).  A behaviour is one of them; the last two  *)
(* share the variables x1 .. x6.                                             *)
EXTENDS SyncSetup, TLC

CONSTANTS N, MaxSize, Envelope, MaxWrites, MaxRequestBytes, MaxPayloadBytes,
          MaxPostRecords, MaxPostBytes, MaxTotalRecords, MaxTotalBytes,
          Collections, Numbers, Others, MaxKeys

VARIABLES part, x1, x2, x3, x4, x5, x6

xs == <<x1, x2, x3, x4, x5, x6>>
all == <<vars, part, xs>>

PQ == INSTANCE PostQueue WITH
        setup <- x1, next <- x2, q <- x3, server <- x4, foreign <- x5, result <- x6

BR == INSTANCE BsoRecord WITH
        made <- x1, cryptoKeys <- x2, keys <- x3, store <- x4, written <- x5, got <- x6

ASSUME QueueAssumption == PQ!LimitAssumption

DeviceSymmetry == Permutations(Device)

MCInit ==
    /\ Init
    /\ \/ part = "setup" /\ x1 = 0 /\ x2 = 0 /\ x3 = 0 /\ x4 = 0 /\ x5 = 0 /\ x6 = 0
       \/ part = "queue" /\ server = Empty /\ PQ!Init
       \/ part = "record" /\ server = Empty /\ BR!Init

MCNext ==
    /\ UNCHANGED part
    /\ \/ part = "setup" /\ Next /\ UNCHANGED xs
       \/ part = "queue" /\ PQ!Next /\ UNCHANGED vars
       \/ part = "record" /\ BR!Next /\ UNCHANGED vars

MCSpec == MCInit /\ [][MCNext]_all


=============================================================================

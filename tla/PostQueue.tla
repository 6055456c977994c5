------------------------------ MODULE PostQueue ------------------------------
(***************************************************************************)
(* The upload queue of sync15 (request.rs: PostQueue, LimitTracker,        *)
(* NormalResponseHandler; changeset.rs: CollectionUpdate::upload).  It     *)
(* packs records into POST requests that respect the server's limits, and  *)
(* the requests into batches, each of which the server makes visible at    *)
(* once.  Every POST carries X-If-Unmodified-Since, so that a write by     *)
(* another device between two POSTs stops the upload.                      *)
(*                                                                         *)
(* A record is a number; its size in bytes is chosen initially, and so is  *)
(* whether the server supports batches and whether the caller accepts that *)
(* records are dropped (fully_atomic).  An item in a request body takes    *)
(* its payload, a separator and Envelope bytes.                            *)
(***************************************************************************)
EXTENDS Integers, Sequences, FiniteSetsExt

CONSTANTS
    N,                  \* how many records are uploaded
    MaxSize,            \* bound: the largest payload
    Envelope,           \* the bytes a record takes beside its payload
    MaxWrites,          \* bound: how often another device writes
    MaxRequestBytes, MaxPayloadBytes,       \* the server's limits (info/configuration)
    MaxPostRecords, MaxPostBytes,
    MaxTotalRecords, MaxTotalBytes

LimitAssumption ==
    /\ N \in Nat /\ MaxSize \in Nat /\ Envelope \in Nat /\ MaxWrites \in Nat
    /\ MaxRequestBytes \in Nat \ {0} /\ MaxPayloadBytes \in Nat
    /\ MaxPostRecords \in Nat \ {0} /\ MaxPostBytes \in Nat
    /\ MaxTotalRecords \in Nat \ {0} /\ MaxTotalBytes \in Nat

Rec == 1..N

VARIABLES
    setup,      \* sizes of the records, batch support, fully_atomic
    next,       \* the next record upload() enqueues
    q,          \* the PostQueue and its NormalResponseHandler
    server,     \* the collection on the server
    foreign,    \* how often another device has written
    result      \* of upload(): "running", "ok", "err", or a failed assertion

vars == <<setup, next, q, server, foreign, result>>

(* A LimitTracker's cur_bytes and cur_records.                             *)
Tracker(maxBytes, maxRecords) == [bytes : 0..maxBytes, records : 0..maxRecords]
Clear == [bytes |-> 0, records |-> 0]

Queue == [queued : SUBSET Rec,      \* the records in the body of the next POST
          len : 0..(MaxRequestBytes - 1),  \* the length of that body so far
          post : Tracker(MaxPostBytes, MaxPostRecords),
          total : Tracker(MaxTotalBytes, MaxTotalRecords),
          batch : {"unsupported", "nobatch", "inbatch"},
          lastModified : Nat,
          pendingOk : SUBSET Rec, pendingFailed : SUBSET Rec,
          ok : SUBSET Rec, failed : SUBSET Rec]

TypeOK ==
    /\ setup \in [size : [Rec -> 1..MaxSize], batching : BOOLEAN, atomic : BOOLEAN]
    /\ next \in 1..(N + 1)
    /\ q \in Queue
    /\ server \in [stored : SUBSET Rec, batch : SUBSET Rec, coll : Nat]
    /\ foreign \in 0..MaxWrites
    /\ result \in {"running", "ok", "err", "panic"}

Init ==
    /\ setup \in [size : [Rec -> 1..MaxSize], batching : BOOLEAN, atomic : BOOLEAN]
    /\ next = 1
    /\ q = [queued |-> {}, len |-> 0, post |-> Clear, total |-> Clear,
            batch |-> "nobatch", lastModified |-> 1,
            pendingOk |-> {}, pendingFailed |-> {}, ok |-> {}, failed |-> {}]
    /\ server = [stored |-> {}, batch |-> {}, coll |-> 1]
    /\ foreign = 0
    /\ result = "running"

-----------------------------------------------------------------------------
(* LimitTracker.                                                           *)

can_add_record(t, maxBytes, maxRecords, size) ==
    t.records < maxRecords /\ t.bytes + size <= maxBytes

can_never_add(maxBytes, size) == size >= maxBytes

record_added(t, size) == [bytes |-> t.bytes + size, records |-> t.records + 1]

ItemLen(r) == 1 + Envelope + setup.size[r]

TooLarge(r) ==
    \/ can_never_add(MaxPostBytes, setup.size[r])
    \/ can_never_add(MaxTotalBytes, setup.size[r])
    \/ setup.size[r] >= MaxPayloadBytes
    \/ ItemLen(r) + 1 >= MaxRequestBytes

CanPost(p, r) == can_add_record(p.post, MaxPostBytes, MaxPostRecords, setup.size[r])
CanBatch(p, r) == can_add_record(p.total, MaxTotalBytes, MaxTotalRecords, setup.size[r])
CanSend(p, r) == p.len + ItemLen(r) < MaxRequestBytes

(* The record is written into `queued` and counted.                        *)
Written(p, r) ==
    [p EXCEPT !.queued = @ \cup {r}, !.len = @ + ItemLen(r),
              !.post = record_added(@, setup.size[r]),
              !.total = record_added(@, setup.size[r])]

-----------------------------------------------------------------------------
(* The storage server's side of a POST (external).                         *)

(* The request's precondition X-If-Unmodified-Since.                       *)
Unmodified == server.coll <= q.lastModified

(* A batch request is buffered until its commit; anything else is stored   *)
(* at once, under a new timestamp.                                         *)
IsBuffered(wantCommit) == setup.batching /\ q.batch # "unsupported" /\ ~wantCommit

Posted(wantCommit, recs) ==
    IF IsBuffered(wantCommit)
    THEN [server EXCEPT !.batch = @ \cup recs]
    ELSE [stored |-> server.stored \cup server.batch \cup recs, batch |-> {},
          coll |-> server.coll + 1]

-----------------------------------------------------------------------------
(* PostQueue::flush.                                                       *)

(* The queue after the request was sent: the body is gone, whatever comes  *)
(* back.                                                                   *)
Sent(wantCommit) ==
    [q EXCEPT !.queued = {}, !.len = 0, !.post = Clear,
              !.total = IF wantCommit \/ q.batch = "unsupported" THEN Clear ELSE @]


(* NormalResponseHandler::handle_response for a successful response.       *)
handle_response(p, ok, failed, midBatch) ==
    IF midBatch
    THEN [p EXCEPT !.pendingOk = @ \cup ok, !.pendingFailed = @ \cup failed]
    ELSE [p EXCEPT !.pendingOk = {}, !.pendingFailed = {},
                   !.ok = @ \cup p.pendingOk \cup ok,
                   !.failed = @ \cup p.pendingFailed \cup failed]

(* flush after a 2xx response: 200 commits, 202 continues the batch, and a *)
(* 200 where a 202 was asked for says that there are no batches.           *)
Flushed(wantCommit, failed) ==
    LET p == [Sent(wantCommit) EXCEPT
                !.lastModified = Posted(wantCommit, q.queued \ failed).coll]
        ok == q.queued \ failed
    IN  IF wantCommit
        THEN handle_response([p EXCEPT !.batch = "nobatch"], ok, failed, FALSE)
        ELSE IF IsBuffered(wantCommit)
        THEN handle_response([p EXCEPT !.batch = "inbatch"], ok, failed, TRUE)
        ELSE handle_response([p EXCEPT !.batch = "unsupported", !.total = Clear],
                             ok, failed, FALSE)

(* flush returns Ok: an empty body is not sent; records the server rejects *)
(* (failed) are accepted unless fully_atomic.                              *)
FlushOk(wantCommit, failed) ==
    IF q.queued = {} THEN UNCHANGED server
    ELSE /\ Unmodified
         /\ setup.atomic => failed = {}
         /\ server' = Posted(wantCommit, q.queued \ failed)

AfterFlush(wantCommit, failed) == IF q.queued = {} THEN q ELSE Flushed(wantCommit, failed)

(* The assertion of flush: no batch is open when there is nothing to send. *)
FlushAsserts == q.queued = {} => q.batch # "inbatch"

(* flush returns Err: 412, another HTTP error, a batch protocol problem, a *)
(* rejected record that must not be lost, or no answer at all; the server  *)
(* may or may not have processed the request.                              *)
FlushErr(wantCommit) ==
    /\ q.queued # {}
    /\ \/ UNCHANGED server
       \/ /\ Unmodified
          /\ \E failed \in SUBSET q.queued :
               server' = Posted(wantCommit, q.queued \ failed)
    /\ result' = "err"
    /\ UNCHANGED q

-----------------------------------------------------------------------------
(* CollectionUpdate::upload: enqueue every record, then flush(true).       *)

(* enqueue returns Ok(false): the record alone exceeds a limit.            *)
Drop ==
    /\ TooLarge(next)
    /\ result' = IF setup.atomic THEN "err" ELSE "running"
    /\ UNCHANGED <<q, server>>

EnqueueNow ==
    /\ ~TooLarge(next)
    /\ CanPost(q, next) /\ CanSend(q, next) /\ CanBatch(q, next)
    /\ q' = Written(q, next)
    /\ UNCHANGED <<server, result>>

(* The record is unwritten, the queue flushed and the record written again *)
(* (LimitTracker::record_added asserts that it fits now).                  *)
FlushThenEnqueue ==
    /\ ~TooLarge(next)
    /\ ~CanPost(q, next) \/ ~CanSend(q, next) \/ ~CanBatch(q, next)
    /\ LET wantCommit == ~CanBatch(q, next)
       IN  \/ \E failed \in SUBSET q.queued :
                LET p == AfterFlush(wantCommit, failed)
                IN  /\ FlushOk(wantCommit, failed)
                    /\ IF FlushAsserts /\ CanPost(p, next) /\ CanBatch(p, next)
                       THEN q' = Written(p, next) /\ UNCHANGED result
                       ELSE result' = "panic" /\ UNCHANGED q
           \/ FlushErr(wantCommit)

Enqueue ==
    /\ result = "running"
    /\ next <= N
    /\ Drop \/ EnqueueNow \/ FlushThenEnqueue
    /\ next' = next + 1
    /\ UNCHANGED <<setup, foreign>>

(* completed_upload_info: what is still pending counts as failed.          *)
failed_ids(p) == p.failed \cup p.pendingFailed \cup p.pendingOk

Finish ==
    /\ result = "running"
    /\ next = N + 1
    /\ \/ \E failed \in SUBSET q.queued :
            LET p == AfterFlush(TRUE, failed)
            IN  /\ FlushOk(TRUE, failed)
                /\ q' = p
                /\ result' = IF FlushAsserts /\ (setup.atomic => failed_ids(p) = {})
                             THEN "ok" ELSE "panic"
       \/ FlushErr(TRUE)
    /\ UNCHANGED <<setup, next, foreign>>

(* Another device writes to the collection.                                *)
OtherWrite ==
    /\ result = "running"
    /\ foreign < MaxWrites
    /\ foreign' = foreign + 1
    /\ server' = [server EXCEPT !.coll = @ + 1]
    /\ UNCHANGED <<setup, next, q, result>>

Next == Enqueue \/ Finish \/ OtherWrite

Spec == Init /\ [][Next]_vars

-----------------------------------------------------------------------------
(* No assertion of PostQueue or upload fails: a batch is never left open   *)
(* with an empty body, a record that was refused by a limit always fits    *)
(* after the flush, and an atomic upload never ends with failed ids.       *)
NoPanic == result # "panic"

Bytes(recs) == MapThenSumSet(LAMBDA r : setup.size[r], recs)
BodyLen(recs) == MapThenSumSet(ItemLen, recs) + 1

(* Every request the queue can send, and every batch the server buffers    *)
(* for it, stays within the limits of info/configuration: what the         *)
(* trackers count is what has really been sent.                            *)
WithinLimits ==
    result = "running" =>
        /\ Bytes(q.queued) <= MaxPostBytes /\ Cardinality(q.queued) <= MaxPostRecords
        /\ q.queued # {} => BodyLen(q.queued) <= MaxRequestBytes
        /\ Bytes(q.queued \cup server.batch) <= MaxTotalBytes
        /\ Cardinality(q.queued \cup server.batch) <= MaxTotalRecords

(* An id is reported as successful (and its change then marked as synced   *)
(* by the store) only if the server has made the record visible: a record  *)
(* of a batch that was never committed does not count.                     *)
SuccessIsStored == q.ok \subseteq server.stored

Dropped == {r \in Rec : r < next /\ TooLarge(r)}

(* The upload keeps the promise of Upload.                                 *)
U == INSTANCE Upload WITH
       stored <- server.stored,
       refused <- IF result = "ok" THEN failed_ids(q) \cup Dropped ELSE {},
       disturbed <- foreign > 0,
       result <- result


(* changeset.rs, upload: "Returns a list of the IDs that failed if         *)
(* allowed_dropped_records is true".                                       *)
FailedAreReported == result = "ok" => q.ok \cup failed_ids(q) = Rec
=============================================================================

------------------------------ MODULE Viaduct ------------------------------
(***************************************************************************)
(* Requests of several threads through the HTTP library (viaduct/src):     *)
(* a request is built, and sent through the callback the application set   *)
(* (the FFI backend) or through reqwest.  The request and the response of  *)
(* the callback are byte buffers of Rust's heap: the callback frees the    *)
(* first and gets the second from viaduct_alloc_bytebuffer.  The callback  *)
(* and the servers behind it are external.                                 *)
(***************************************************************************)
EXTENDS Headers, FiniteSets

CONSTANTS
    Threads,
    Written,       \* names of headers as callers and servers write them
    Values,        \* values of headers
    ContentType,   \* the name Content-Type, and the value Request::json() gives it
    Json,
    Statuses,      \* what the callback may answer as a status
    MaxRequests, MaxHeaders,
    Reqwest        \* the reqwest backend is compiled in

VARIABLES
    forced,        \* FFI_FORCED
    callback,      \* CALLBACK_PTR: whether it is set
    th,            \* per thread: where it is, its request and its result
    buffers,       \* the allocated byte buffers: [of, for]
    requests       \* requests begun

vars == <<forced, callback, th, buffers, requests>>

NoRequest == [headers |-> <<>>, method |-> "None", body |-> FALSE]
Idle == [pc |-> "idle", req |-> NoRequest, set |-> <<>>, result |-> "None",
         answer |-> [kind |-> "None"]]

Init ==
    /\ forced = FALSE
    /\ callback = FALSE
    /\ th = [t \in Threads |-> Idle]
    /\ buffers = {}
    /\ requests = 0

Goes(t, pc) == th' = [th EXCEPT ![t].pc = pc]

\* force_enable_ffi_backend, viaduct_initialize: only the first callback is
\* kept.
force_enable_ffi_backend ==
    /\ forced' \in BOOLEAN
    /\ UNCHANGED <<callback, th, buffers, requests>>

viaduct_initialize ==
    /\ callback' = TRUE
    /\ UNCHANGED <<forced, th, buffers, requests>>

(***************************************************************************)
(* Building a request.  set records, for the properties, what was set      *)
(* under which name, the last first.                                       *)
(***************************************************************************)
RequestNew(t, method) ==
    /\ th[t].pc = "idle" /\ requests < MaxRequests
    /\ requests' = requests + 1
    /\ th' = [th EXCEPT ![t] = [Idle EXCEPT !.pc = "build", !.req.method = method]]
    /\ UNCHANGED <<forced, callback, buffers>>

WithHeaders(t, headers, name, value) ==
    th' = [th EXCEPT ![t].req.headers = headers,
                     ![t].set = <<[name |-> name, value |-> value]>> \o @]

\* Request::header: a name that is not allowed panics, but only if it is new;
\* an error ends the request.
RequestHeader(t, w, v) ==
    LET r == insert(th[t].req.headers, w, v)
        panics == FromPanics(w) /\ Find(th[t].req.headers, w) = {}
    IN  /\ th[t].pc = "build" /\ Len(th[t].set) < MaxHeaders
        /\ IF panics \/ ~r.ok
           THEN th' = [th EXCEPT ![t] = [Idle EXCEPT !.result =
                                           IF panics THEN "panic" ELSE "RequestHeaderError"]]
           ELSE WithHeaders(t, r.val, w.name, trim_string(v))
        /\ UNCHANGED <<forced, callback, buffers, requests>>

\* Request::headers, for a header that Header::new made.
RequestHeaders(t, w, v) ==
    LET new == HeaderNew(w, v)
    IN  /\ th[t].pc = "build" /\ Len(th[t].set) < MaxHeaders
        /\ ~FromPanics(w) /\ new.ok
        /\ WithHeaders(t, extend(th[t].req.headers, <<new.val>>), w.name, new.val.value)
        /\ UNCHANGED <<forced, callback, buffers, requests>>

\* Request::json: the body, and the type unless it was given.
RequestJson(t) ==
    LET r == insert_if_missing(th[t].req.headers, ContentType, Json)
    IN  /\ th[t].pc = "build" /\ ~th[t].req.body
        /\ th' = [th EXCEPT ![t].req.headers = r.val,
                            ![t].req.body = TRUE,
                            ![t].set = @ \o <<[name |-> ContentType.name, value |-> Json]>>]
        /\ UNCHANGED <<forced, callback, buffers, requests>>

(***************************************************************************)
(* Sending it.                                                             *)
(***************************************************************************)
Ends(t, result) == th' = [th EXCEPT ![t].pc = "done", ![t].result = result]

\* Request::send.
Send(t) ==
    /\ th[t].pc = "build"
    /\ Goes(t, "send")
    /\ UNCHANGED <<forced, callback, buffers, requests>>

\* ByteBuffer::from_vec and new_with_size: a buffer is handed over, and is
\* not freed by whoever made it.
Alloc(of, t) == {[of |-> of, for |-> t]}

\* ByteBuffer::into_vec and destroy: the buffer is taken back and freed.
IntoVec(of, t) == buffers \ {[of |-> of, for |-> t]}

\* backend::send: which backend.  The FFI backend loads the callback, and
\* serializes the request into a buffer.
SendFfi(t) ==
    /\ th[t].pc = "send"
    /\ forced \/ ~Reqwest
    /\ IF callback
       THEN /\ buffers' = buffers \cup Alloc("request", t)
            /\ Goes(t, "fetch")
       ELSE Ends(t, "BackendNotInitialized") /\ UNCHANGED buffers
    /\ UNCHANGED <<forced, callback, requests>>

SendReqwest(t) ==
    /\ th[t].pc = "send"
    /\ ~forced /\ Reqwest
    /\ Goes(t, "reqwest")
    /\ UNCHANGED <<forced, callback, buffers, requests>>

\* The answers of a server: its headers are a map whose names differ as they
\* are written, in an order that is not specified.
Sent == {<<>>} \cup {<<a>> : a \in Written \X Values}
        \cup {<<a, b>> \in (Written \X Values) \X (Written \X Values) : a[1] # b[1]}

\* The headers of the response: invalid names are skipped, values are kept as
\* they came.
ValidHeaders(sent) ==
    LET valid == SelectSeq(sent, LAMBDA h : validate_header(h[1]).ok)
    IN  [i \in DOMAIN valid |-> [name |-> valid[i][1].name, value |-> valid[i][2]]]
ResponseHeaders(sent) == extend(<<>>, ValidHeaders(sent))

Answers == {[kind |-> "exception"]} \cup
           [kind : {"response"}, status : Statuses, url : {"ok", "bad"}, headers : Sent]


\* doFetch: the client answers, or throws, with a message or without one.
\* Without one the protobuf builder throws too, and the answer is empty.  An
\* answer is written to a buffer from viaduct_alloc_bytebuffer; the buffer of
\* the request is freed in any case.
doFetch(t) ==
    /\ th[t].pc = "fetch"
    /\ \/ \E a \in Answers : /\ buffers' = IntoVec("request", t) \cup Alloc("response", t)
                             /\ th' = [th EXCEPT ![t].pc = "decode", ![t].answer = a]
       \/ /\ buffers' = IntoVec("request", t)
          /\ th' = [th EXCEPT ![t].pc = "decode", ![t].answer = [kind |-> "empty"]]
    /\ UNCHANGED <<forced, callback, requests>>

\* The rest of ffi::send: into_vec() takes the buffer over, and the message is
\* decoded: an exception, a status that is missing or out of range, a bad URL.
Decode(t) ==
    LET a == th[t].answer
    IN  /\ th[t].pc = "decode"
        /\ buffers' = IntoVec("response", t)
        /\ CASE a.kind = "exception" -> Ends(t, "NetworkError")
             [] a.kind = "empty"     -> Ends(t, "BackendError")
             [] OTHER -> Ends(t, IF a.status = "out of range" \/ a.url = "bad"
                                 THEN "BackendError" ELSE "Response")
        /\ UNCHANGED <<forced, callback, requests>>

\* reqwest::send: the names and values of request headers were verified.
reqwest_send(t) ==
    /\ th[t].pc = "reqwest"
    /\ \/ Ends(t, "NetworkError")
       \/ \E s \in Sent :
            th' = [th EXCEPT ![t].pc = "done", ![t].result = "Response",
                             ![t].answer = [kind |-> "response", status |-> "ok",
                                            url |-> "ok", headers |-> s]]
    /\ UNCHANGED <<forced, callback, buffers, requests>>

Return(t) ==
    /\ th[t].pc = "done"
    /\ th' = [th EXCEPT ![t] = Idle]
    /\ UNCHANGED <<forced, callback, buffers, requests>>

Next ==
    \/ force_enable_ffi_backend \/ viaduct_initialize
    \/ \E t \in Threads :
         \/ RequestNew(t, "Get") \/ RequestNew(t, "Post") \/ RequestJson(t)
         \/ \E w \in Written, v \in Values : RequestHeader(t, w, v) \/ RequestHeaders(t, w, v)
         \/ Send(t) \/ SendFfi(t) \/ SendReqwest(t) \/ doFetch(t) \/ Decode(t)
         \/ reqwest_send(t) \/ Return(t)

Spec == Init /\ [][Next]_vars

(***************************************************************************)
(* Properties.                                                             *)
(***************************************************************************)
RequestHeadersRight(t, w) ==
    LET hs == th[t].req.headers
        set == SelectSeq(th[t].set, LAMBDA s : s.name = w.name)
    IN  /\ Cardinality(Find(hs, w)) <= 1
        /\ IF set = <<>> THEN Find(hs, w) = {} ELSE get(hs, w) = Ok(set[1].value)

ResponseHeadersRight(t, w) ==
    LET list == ValidHeaders(th[t].answer.headers)
        hs == ResponseHeaders(th[t].answer.headers)
    IN  /\ get(from_iter(list), w) = get(hs, w)
        /\ Cardinality(Find(from_iter(list), w)) <= 1
        /\ get(hs, w).ok => \E i \in DOMAIN list : SameName(w, list[i].name)
                                               /\ list[i].value = get(hs, w).val

\* What a request sends under a name, in whichever case it is written, is what
\* was last set for it, by header(), headers() or json(), and it is sent once;
\* json() never overrides a type the caller gave.  The headers of a response
\* answer a lookup with a value the server sent, the same whether they were
\* added one after the other or collected from an iterator (from_iter).
LastHeaderWins ==
    \A t \in Threads, w \in Written :
      /\ RequestHeadersRight(t, w)
      /\ th[t].answer.kind = "response" => ResponseHeadersRight(t, w)

=============================================================================

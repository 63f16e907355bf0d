----------------------------- MODULE GrpcStream -----------------------------
(***************************************************************************)
(* The server's gRPC layer: http2_session + grpc_session, one connection.  *)
(* A request arrives as HEADERS, DATA frames and END_STREAM; the answer is *)
(* HEADERS, DATA pulled by nghttp2 from stream_ctx::resp_body through a    *)
(* data provider that may pause, and a trailer that ends the stream.       *)
(*                                                                         *)
(* nghttp2 is external.  It sends HEADERS (the trailer too) at the next    *)
(* flush, DATA only while the client's window is open, and once a trailer  *)
(* has ended the stream it drops the DATA it still holds.                  *)
(***************************************************************************)
EXTENDS Naturals, Sequences

CONSTANTS
  Streams,    \* stream ids; the client never uses one twice
  MaxUnits,   \* bound: half messages the client sends on a stream
  MaxChunks,  \* bound: DATA chunks the server produces on a stream
  Window      \* chunks the client takes before it must send WINDOW_UPDATE

ASSUME GrpcStreamAssumption ==
  MaxUnits \in Nat /\ MaxChunks \in Nat \ {0} /\ Window \in Nat \ {0}

VARIABLES
  nv,             \* nghttp2's stream: "idle", "open", "half" (client done), "closed"
  call,           \* [method, grpc]: what the request HEADERS said
  body,           \* request::body: half messages not consumed
  resp,           \* response side of the stream_ctx, its provider and the wire
  m_bidi_opened,  \* grpc_session::m_bidi_opened
  subscribed,     \* streams sub_hub keeps for telemetry
  received,       \* half messages received
  dispatched,     \* messages handed to a client-stream or bidi handler
  produced        \* chunks accepted from the application

request == <<call, body, received, dispatched>>
vars == <<nv, request, resp, m_bidi_opened, subscribed, produced>>

\* A path without a handler is answered like a unary method (UNIMPLEMENTED).
Methods == {"unary", "client", "server", "bidi"}
Calls   == [method : Methods, grpc : BOOLEAN]   \* grpc: content-type is gRPC

\* Client-stream and bidi paths share m_client_stream_handlers.
Incremental(c) == c.method \in {"client", "bidi"}

\* on_begin_headers creates the stream_ctx, on_stream_close erases it.
HasContext(s) == nv[s] \in {"open", "half"}

Header == [frame |-> "HEADERS", chunk |-> 0]
Data(n) == [frame |-> "DATA", chunk |-> n]
End == [frame |-> "END_STREAM", chunk |-> 0]
Frames == {Header, End} \cup {Data(n) : n \in 1 .. MaxChunks}

NoResponse == [resp_body |-> <<>>, streaming |-> FALSE, finished |-> FALSE,
               provider |-> "none", credit |-> Window, wire |-> <<>>]

Init ==
  /\ nv = [s \in Streams |-> "idle"]
  /\ call = [s \in Streams |-> [method |-> "unary", grpc |-> TRUE]]
  /\ body = [s \in Streams |-> 0]
  /\ resp = [s \in Streams |-> NoResponse]
  /\ m_bidi_opened = {}
  /\ subscribed = {}
  /\ received = [s \in Streams |-> 0]
  /\ dispatched = [s \in Streams |-> 0]
  /\ produced = [s \in Streams |-> 0]

-----------------------------------------------------------------------------
(* The response side, as functions of one stream's record.                 *)

Chunks(from, n) == [i \in 1 .. n |-> Data(from + i)]

\* How many chunks nghttp2 takes now.
TakenIgnoringWindow(r) == Len(r.resp_body)
Taken(r) == IF Len(r.resp_body) <= r.credit THEN Len(r.resp_body) ELSE r.credit

\* response_body_read as nghttp2 calls it while the window is open: DATA, then
\* pause (streaming) or end of the body.  A unary body ends with its last
\* chunk; a streaming one is asked again.
Drain(r) ==
  LET n    == Taken(r)
      left == SubSeq(r.resp_body, n + 1, Len(r.resp_body))
      pauses == r.streaming /\ ~r.finished
      asked  == r.credit > n \/ ~r.streaming
  IN  IF r.provider # "active" \/ r.credit = 0 THEN r
      ELSE [r EXCEPT
        !.resp_body = left,
        !.credit = @ - n,
        !.wire = @ \o SubSeq(r.resp_body, 1, n),
        !.provider = IF left # <<>> \/ ~asked THEN "active"
                     ELSE IF pauses THEN "deferred" ELSE "eof"]

\* submit_response with trailers, and submit_response_stream.
SubmitResponse(r, chunks) ==
  [r EXCEPT !.resp_body = chunks, !.provider = "active",
            !.wire = Append(@, Header)]
SubmitResponseStream(r) ==
  [r EXCEPT !.resp_body = <<>>, !.streaming = TRUE, !.finished = FALSE,
            !.provider = "active", !.wire = Append(@, Header)]

\* nghttp2_session_resume_data.
Resumed(r) == [r EXCEPT !.provider = IF @ = "deferred" THEN "active" ELSE @]

\* push_stream_data and finish_stream.
PushStreamDataNoResume(r, chunks) == [r EXCEPT !.resp_body = @ \o chunks]
PushStreamData(r, chunks) == Resumed([r EXCEPT !.resp_body = @ \o chunks])
FinishStream(r) == Resumed([r EXCEPT !.finished = TRUE])

\* submit_trailer and the flush after it: END_STREAM overtakes blocked DATA.
SubmitTrailer(r) == [r EXCEPT !.wire = Append(@, End), !.provider = "shut"]

\* stream_send, stream_finish, send_unary_response, each with its flushes.
StreamSent(r, chunks) == Drain(PushStreamData(r, chunks))
\* A handler that sends k chunks after the first n, or none.
Replied(r, n, k) == IF k = 0 THEN r ELSE StreamSent(r, Chunks(n, k))
StreamFinishedNoTrailer(r) == Drain(FinishStream(r))
StreamFinished(r) == SubmitTrailer(Drain(FinishStream(r)))
UnaryResponse(r, chunks) == SubmitTrailer(Drain(SubmitResponse(r, chunks)))

\* HTTP 415: HEADERS that end the stream, no body.
UnsupportedMediaType(r) ==
  [r EXCEPT !.resp_body = <<>>, !.provider = "shut",
            !.wire = @ \o <<Header, End>>]

\* on_request_headers: a bidi response opens with the first request HEADERS;
\* request trailers come here too.
OpenedOnHeadersAlways(s, c, r) ==
  IF c.method = "bidi" THEN Drain(SubmitResponseStream(r)) ELSE r
OpenedOnHeaders(s, c, r) ==
  IF c.method = "bidi" /\ s \notin m_bidi_opened
    THEN Drain(SubmitResponseStream(r)) ELSE r

-----------------------------------------------------------------------------
(* The request side.                                                       *)

\* on_request_stream: decode_frame takes every complete message (two halves)
\* out of the buffer, dispatches it and leaves a partial one.
MessagesIn(n) == n \div 2
LeftInBodyPeeked(n) == n
LeftInBody(n) == n % 2
Dispatches(c, held) == IF Incremental(c) THEN MessagesIn(held) ELSE 0

\* A bidi handler may answer each message at once (a tunnel flushes what it
\* buffered).
Replies(c, messages, n) ==
  IF c.method = "bidi" /\ messages > 0 THEN 0 .. (MaxChunks - n) ELSE {0}

\* A stream is answered: what the record, the number of chunks and sub_hub
\* hold afterwards.
Answer(r, n, sub) == [resp |-> r, produced |-> n, subscribes |-> sub]

\* start_subscription on an opened response: a bad request is refused, ONCE ends
\* after sync_response, STREAM stays open and is added to sub_hub.
Subscription(r) ==
  LET synced == StreamSent(r, Chunks(0, 1))
  IN  {Answer(StreamFinished(r), 0, FALSE),
       Answer(StreamFinished(synced), 1, FALSE),
       Answer(synced, 1, TRUE)}

\* grpc_session::on_request, at END_STREAM of a request, once it has looked at
\* the body of a client stream or bidi call.
Answers(c, r, n) ==
  IF ~c.grpc
    THEN {Answer(UnsupportedMediaType(r), n, FALSE)}
    ELSE CASE c.method = "bidi"   -> {Answer(StreamFinished(r), n, FALSE)}
           [] c.method = "server" -> Subscription(Drain(SubmitResponseStream(r)))
           [] OTHER -> {Answer(UnaryResponse(r, Chunks(0, len)), len, FALSE) :
                          len \in 1 .. MaxChunks}

\* The response at the end of a frame: without END_STREAM it stays as the
\* handlers left it, with it the call is answered; nghttp2 closes a stream that
\* both sides have ended.
Answered(s, c, r, n, opened, end) ==
  \E a \in IF end THEN Answers(c, r, n) ELSE {Answer(r, n, FALSE)} :
    /\ resp' = [resp EXCEPT ![s] = a.resp]
    /\ produced' = [produced EXCEPT ![s] = a.produced]
    /\ subscribed' = IF a.subscribes THEN subscribed \cup {s} ELSE subscribed
    /\ nv' = [nv EXCEPT ![s] = IF ~end THEN "open"
                               ELSE IF a.resp.provider = "shut" THEN "closed"
                               ELSE "half"]
    /\ m_bidi_opened' = IF end /\ c.grpc THEN opened \ {s} ELSE opened

\* The end of on_frame_recv, after on_request_stream has dispatched `messages'
\* and left `held' in the body.  At END_STREAM on_request copies that body and
\* calls on_request_stream again: whatever it still finds whole is dispatched,
\* and may be replied to, before the answer.
FrameDone(s, c, r, n, opened, held, messages, end) ==
  LET again == IF end /\ c.grpc THEN Dispatches(c, held) ELSE 0
  IN  /\ dispatched' = [dispatched EXCEPT ![s] = @ + messages + again]
      /\ \E k \in Replies(c, again, n) :
           Answered(s, c, Replied(r, n, k), n + k, opened, end)

OpenedSet(s, c) ==
  IF c.method = "bidi" THEN m_bidi_opened \cup {s} ELSE m_bidi_opened

-----------------------------------------------------------------------------
(* Frames from the client.                                                 *)

\* Opening a bidi stream may send on it at once (the management hub's probe).
RequestHeaders(s, c, greetings, end) ==
  LET r == Replied(OpenedOnHeaders(s, c, resp[s]), 0, greetings)
  IN  /\ nv[s] = "idle"
      /\ greetings > 0 => c.method = "bidi"
      /\ call' = [call EXCEPT ![s] = c]
      /\ FrameDone(s, c, r, greetings, OpenedSet(s, c), body[s], 0, end)
      /\ UNCHANGED <<body, received>>

\* A DATA frame with `units' halves.
RequestData(s, units, end) ==
  LET c        == call[s]
      n        == produced[s]
      arrived  == body[s] + units
      messages == Dispatches(c, arrived)
      held     == IF Incremental(c) THEN LeftInBody(arrived) ELSE arrived
  IN  /\ nv[s] = "open"
      /\ received[s] + units <= MaxUnits
      /\ received' = [received EXCEPT ![s] = @ + units]
      /\ body' = [body EXCEPT ![s] = held]
      /\ \E k \in Replies(c, messages, n) :
           FrameDone(s, c, Replied(resp[s], n, k), n + k, m_bidi_opened,
                     held, messages, end)
      /\ UNCHANGED call

\* Request trailers always carry END_STREAM.
RequestTrailers(s) ==
  /\ nv[s] = "open"
  /\ FrameDone(s, call[s], OpenedOnHeaders(s, call[s], resp[s]), produced[s],
               OpenedSet(s, call[s]), body[s], 0, TRUE)
  /\ UNCHANGED <<call, body, received>>

\* RST_STREAM: the stream_ctx goes; sub_hub and m_bidi_opened are not told.
Reset(s) ==
  /\ HasContext(s)
  /\ nv' = [nv EXCEPT ![s] = "closed"]
  /\ UNCHANGED <<request, resp, m_bidi_opened, subscribed, produced>>

WindowUpdate(s) ==
  /\ HasContext(s)
  /\ resp[s].credit < Window
  /\ resp' = [resp EXCEPT ![s] = Drain([resp[s] EXCEPT !.credit = @ + 1])]
  /\ UNCHANGED <<nv, request, m_bidi_opened, subscribed, produced>>

-----------------------------------------------------------------------------
\* A hub sends on a stream it knows, at any time: grpc_session::stream_send.  On
\* a stream without a context the bytes are dropped and nothing changes.
StreamSend(s) ==
  /\ s \in m_bidi_opened \cup subscribed
  /\ HasContext(s)
  /\ produced[s] < MaxChunks
  /\ resp' = [resp EXCEPT ![s] = StreamSent(@, Chunks(produced[s], 1))]
  /\ produced' = [produced EXCEPT ![s] = @ + 1]
  /\ UNCHANGED <<nv, request, m_bidi_opened, subscribed>>

\* Every stream has run its course.
Done ==
  /\ \A s \in Streams : nv[s] = "closed"
  /\ UNCHANGED vars

Next ==
  \/ \E s \in Streams :
       \/ \E end \in BOOLEAN :
            \/ \E c \in Calls, greetings \in 0 .. 1 :
                 RequestHeaders(s, c, greetings, end)
            \/ \E units \in 0 .. MaxUnits : RequestData(s, units, end)
       \/ RequestTrailers(s) \/ Reset(s) \/ WindowUpdate(s) \/ StreamSend(s)
  \/ Done

\* The client reads what it was sent, so its window opens again; it need not
\* ever end or reset a stream, and the hubs need not ever send.
Spec == Init /\ [][Next]_vars /\ \A s \in Streams : WF_vars(WindowUpdate(s))

-----------------------------------------------------------------------------
(* Properties.                                                             *)

\* Shapes of the buffers and of the wire.
TypeOK ==
  /\ nv \in [Streams -> {"idle", "open", "half", "closed"}]
  /\ call \in [Streams -> Calls]
  /\ body \in [Streams -> 0 .. MaxUnits]
  /\ resp \in [Streams -> [resp_body : Seq(Frames), streaming : BOOLEAN,
                           finished : BOOLEAN,
                           provider : {"none", "active", "deferred", "eof", "shut"},
                           credit : 0 .. Window, wire : Seq(Frames)]]
  /\ m_bidi_opened \subseteq Streams
  /\ subscribed \subseteq Streams
  /\ received \in [Streams -> 0 .. MaxUnits]
  /\ dispatched \in [Streams -> 0 .. MaxUnits]
  /\ produced \in [Streams -> 0 .. MaxChunks]

\* Every answer is HEADERS once and first, then the chunks in the order they
\* were produced with none skipped or repeated, then at most one END_STREAM and
\* nothing after it, whatever order pushes, window updates, request trailers
\* and END_STREAM come in.  (A bidi call that is not gRPC gets a second HEADERS.)
WireGrammar ==
  \A s \in Streams : call[s].grpc \/ call[s].method # "bidi" =>
    LET wire == resp[s].wire
    IN  \A i \in DOMAIN wire :
          /\ wire[i] = Header <=> i = 1
          /\ wire[i] = End => i = Len(wire)
          /\ wire[i] \notin {Header, End} => wire[i] = Data(i - 1)

\* Client-stream and bidi messages are dispatched exactly once and as soon as
\* they are complete, however DATA frames cut them, and on_request, which
\* decodes the body once more at END_STREAM, finds none of them there again.
DispatchedOnce ==
  \A s \in Streams : Incremental(call[s]) => dispatched[s] = MessagesIn(received[s])

\* A call the client has ended is answered with a trailer, unless it is a
\* subscription that sub_hub keeps feeding: no call is left hanging.
NoHangingCall ==
  \A s \in Streams : nv[s] = "half" => s \in subscribed

\* A chunk pushed while the provider sleeps, or while the window is shut, still
\* reaches the client, unless the stream ends first.
PushedIsSent ==
  \A s \in Streams : \A n \in 1 .. MaxChunks :
    produced[s] >= n ~> Len(resp[s].wire) > n \/ nv[s] = "closed"

\* What grpc_session::stream_finish and the README say of the trailer: it is
\* sent after the pending DATA.
TrailerAfterData ==
  \A s \in Streams :
    (\E i \in DOMAIN resp[s].wire : resp[s].wire[i] = End) /\ call[s].grpc =>
      Len(resp[s].wire) = produced[s] + 2
=============================================================================

-------------------------- MODULE GrpcStream_proofs --------------------------
(***************************************************************************)
(* Proofs about GrpcStream, for any set of streams and any bounds: what a  *)
(* client reads of an answer is HEADERS, the chunks in order and at most   *)
(* one END_STREAM; messages are dispatched once; no call the client has    *)
(* ended is left hanging.                                                  *)
(*                                                                         *)
(* The work is in the response record of one stream. Until it is opened it *)
(* is untouched; then the wire and resp_body together hold HEADERS and the *)
(* chunks produced so far in order (Flowing), and draining only moves the  *)
(* border between the two; a stream that is ended is closed, so nothing is *)
(* pushed on it any more. What an open response holds back waits for the   *)
(* window alone (Awake), so by the fairness of the window it moves on.     *)
(***************************************************************************)
EXTENDS GrpcStream, SequenceTheorems, TLAPS

USE GrpcStreamAssumption

Resp == [resp_body : Seq(Frames), streaming : BOOLEAN, finished : BOOLEAN,
         provider : {"none", "active", "deferred", "eof", "shut"},
         credit : 0 .. Window, wire : Seq(Frames)]

\* A response that has been opened and not ended, of which n chunks were
\* produced: those on the wire, then those that wait in resp_body.
Flowing(r, n) ==
  /\ r.provider \in {"active", "deferred", "eof"}
  /\ Len(r.wire) >= 1 /\ r.wire[1] = Header
  /\ \A i \in 2 .. Len(r.wire) : r.wire[i] = Data(i - 1)
  /\ \A i \in 1 .. Len(r.resp_body) : r.resp_body[i] = Data(Len(r.wire) - 1 + i)
  /\ Len(r.wire) - 1 + Len(r.resp_body) = n

Grammar(wire) ==
  \A i \in 1 .. Len(wire) :
    /\ wire[i] = Header <=> i = 1
    /\ wire[i] = End => i = Len(wire)
    /\ wire[i] \notin {Header, End} => wire[i] = Data(i - 1)

\* The response side of a stream in each state of nghttp2's stream.
Answering(s) ==
  /\ nv[s] = "idle" =>
       resp[s] = NoResponse /\ produced[s] = 0 /\ s \notin m_bidi_opened \cup subscribed
  /\ nv[s] = "open" =>
       /\ s \notin subscribed
       /\ IF call[s].method = "bidi"
          THEN Flowing(resp[s], produced[s]) /\ s \in m_bidi_opened
          ELSE resp[s] = NoResponse /\ produced[s] = 0 /\ s \notin m_bidi_opened
  /\ nv[s] = "half" => Flowing(resp[s], produced[s]) /\ s \in subscribed
  /\ nv[s] = "closed" =>
       (call[s].grpc \/ call[s].method # "bidi" => Grammar(resp[s].wire))

\* The request side: what is left in the body is what was not dispatched.
Receiving(s) ==
  /\ nv[s] = "idle" => received[s] = 0 /\ body[s] = 0 /\ dispatched[s] = 0
  /\ IF Incremental(call[s])
     THEN received[s] = 2 * dispatched[s] + body[s] /\ body[s] \in 0 .. 1
     ELSE dispatched[s] = 0 /\ body[s] = received[s]

IInv == TypeOK /\ \A s \in Streams : Answering(s) /\ Receiving(s)

-----------------------------------------------------------------------------
(* Lemmas about sequences and frames.                                      *)

LEMMA FramesDiffer ==
  /\ Header # End
  /\ \A n \in Nat : Data(n) # Header /\ Data(n) # End
  /\ Header \in Frames /\ End \in Frames
  /\ \A n \in 1 .. MaxChunks : Data(n) \in Frames
  BY DEF Header, End, Data, Frames

\* A sequence cut after its n-th element.
LEMMA CutSeq ==
  ASSUME NEW S, NEW s \in Seq(S), NEW n \in 0 .. Len(s)
  PROVE  /\ SubSeq(s, 1, n) \in Seq(S) /\ Len(SubSeq(s, 1, n)) = n
         /\ \A i \in 1 .. n : SubSeq(s, 1, n)[i] = s[i]
         /\ SubSeq(s, n + 1, Len(s)) \in Seq(S)
         /\ Len(SubSeq(s, n + 1, Len(s))) = Len(s) - n
         /\ \A i \in 1 .. Len(s) - n : SubSeq(s, n + 1, Len(s))[i] = s[n + i]
  <1> DEFINE m == Len(s)
             taken == SubSeq(s, 1, n)
             left == SubSeq(s, n + 1, Len(s))
  <1>1. m \in Nat /\ n \in 0 .. m
    BY LenProperties
  <1>2. \A i \in 1 .. m : s[i] \in S
    OBVIOUS
  <1>3. taken \in Seq(S) /\ Len(taken) = n /\ \A i \in 1 .. n : taken[i] = s[i]
    <2>1. \A i \in 1 .. n : s[i] \in S
      BY <1>1, <1>2
    <2>2. 1 \in Int /\ n \in Int
      BY <1>1
    <2>3. /\ taken \in Seq(S)
          /\ Len(taken) = IF 1 <= n THEN n - 1 + 1 ELSE 0
          /\ \A i \in 1 .. (n - 1 + 1) : taken[i] = s[1 + i - 1]
      BY <2>1, <2>2, SubSeqProperties
    <2> HIDE DEF taken, m
    <2> QED BY <1>1, <2>3
  <1>4. left \in Seq(S) /\ Len(left) = m - n /\ \A i \in 1 .. m - n : left[i] = s[n + i]
    <2>1. \A i \in n + 1 .. m : s[i] \in S
      BY <1>1, <1>2
    <2>2. n + 1 \in Int /\ m \in Int
      BY <1>1
    <2>3. /\ left \in Seq(S)
          /\ Len(left) = IF n + 1 <= m THEN m - (n + 1) + 1 ELSE 0
          /\ \A i \in 1 .. (m - (n + 1) + 1) : left[i] = s[(n + 1) + i - 1]
      BY <2>1, <2>2, SubSeqProperties
    <2> HIDE DEF left, m
    <2>4. Len(left) = m - n
      BY <1>1, <2>3
    <2>5. ASSUME NEW i \in 1 .. m - n PROVE left[i] = s[n + i]
      <3>1. i \in 1 .. (m - (n + 1) + 1) /\ (n + 1) + i - 1 = n + i
        BY <1>1
      <3> QED BY <2>3, <3>1
    <2> QED BY <2>3, <2>4, <2>5
  <1> QED BY <1>3, <1>4

LEMMA ChunksAre ==
  ASSUME NEW from \in Nat, NEW k \in Nat, from + k <= MaxChunks
  PROVE  /\ Chunks(from, k) \in Seq(Frames) /\ Len(Chunks(from, k)) = k
         /\ \A i \in 1 .. k : Chunks(from, k)[i] = Data(from + i)
  <1>1. \A i \in 1 .. k : from + i \in 1 .. MaxChunks
    OBVIOUS
  <1>2. Chunks(from, k) \in [1 .. k -> Frames]
    BY <1>1, FramesDiffer DEF Chunks
  <1> QED BY <1>2 DEF Chunks

-----------------------------------------------------------------------------
(* Lemmas about the response record.                                       *)

LEMMA NoResponseIsTyped == NoResponse \in Resp
  BY DEF NoResponse, Resp

\* response_body_read moves chunks from the buffer to the wire, in order, and
\* does nothing for a response that is not open or already ended.
LEMMA DrainKeeps ==
  ASSUME NEW r \in Resp
  PROVE  /\ Drain(r) \in Resp
         /\ r.provider \in {"none", "shut"} => Drain(r) = r
         /\ \A n \in Nat : Flowing(r, n) => Flowing(Drain(r), n)
         /\ Drain(r).streaming = r.streaming /\ Drain(r).finished = r.finished
  <1>1. CASE r.provider # "active" \/ r.credit = 0
    BY <1>1 DEF Drain
  <1>2. CASE r.provider = "active" /\ r.credit # 0
    <2> DEFINE b == r.resp_body
               w == r.wire
               n == Taken(r)
               q == SubSeq(b, 1, n)
               left == SubSeq(b, n + 1, Len(b))
               pauses == r.streaming /\ ~r.finished
               asked  == r.credit > n \/ ~r.streaming
               prov == IF left # <<>> \/ ~asked THEN "active"
                       ELSE IF pauses THEN "deferred" ELSE "eof"
               d == [r EXCEPT !.resp_body = left, !.credit = @ - n,
                              !.wire = @ \o q, !.provider = prov]
    <2>1. Drain(r) = d
      BY <1>2 DEF Drain
    <2>2. b \in Seq(Frames) /\ w \in Seq(Frames) /\ r.credit \in 0 .. Window
      BY DEF Resp
    <2>3. Len(b) \in Nat /\ Len(w) \in Nat
      BY <2>2, LenProperties
    <2>4. n \in 0 .. Len(b) /\ n <= r.credit
      BY <2>2, <2>3 DEF Taken
    <2> HIDE DEF b, w, n
    <2>5. /\ q \in Seq(Frames) /\ Len(q) = n /\ \A i \in 1 .. n : q[i] = b[i]
          /\ left \in Seq(Frames) /\ Len(left) = Len(b) - n
          /\ \A i \in 1 .. Len(b) - n : left[i] = b[n + i]
      BY <2>2, <2>4, CutSeq
    <2> HIDE DEF q, left
    <2>6. /\ w \o q \in Seq(Frames) /\ Len(w \o q) = Len(w) + n
          /\ \A i \in 1 .. Len(w) + n :
               (w \o q)[i] = IF i <= Len(w) THEN w[i] ELSE q[i - Len(w)]
      BY <2>2, <2>5, ConcatProperties, SMTT(30)
    <2>7. prov \in {"active", "deferred", "eof"}
      OBVIOUS
    <2> HIDE DEF prov
    <2>8. /\ d.resp_body = left /\ d.wire = w \o q /\ d.provider = prov
          /\ d.streaming = r.streaming /\ d.finished = r.finished
          /\ d \in Resp
      <3>1. r.credit - n \in 0 .. Window
        BY <2>2, <2>3, <2>4
      <3> QED BY <2>5, <2>6, <2>7, <3>1 DEF Resp, w
    <2> HIDE DEF d
    <2>9. ASSUME NEW m \in Nat, Flowing(r, m) PROVE Flowing(d, m)
      <3>1. /\ Len(w) >= 1 /\ w[1] = Header
            /\ \A i \in 2 .. Len(w) : w[i] = Data(i - 1)
            /\ \A i \in 1 .. Len(b) : b[i] = Data(Len(w) - 1 + i)
            /\ Len(w) - 1 + Len(b) = m
        BY <2>9 DEF Flowing, w, b
      <3> DEFINE v == w \o q
      <3>2. Len(v) = Len(w) + n /\ Len(v) >= 1 /\ v[1] = Header
        <4>1. 1 \in 1 .. Len(w) + n
          BY <2>3, <2>4, <3>1
        <4> QED BY <2>3, <2>4, <2>6, <3>1, <4>1
      <3>3. ASSUME NEW i \in 2 .. Len(v) PROVE v[i] = Data(i - 1)
        <4>1. i \in 1 .. Len(w) + n
          BY <2>3, <2>4, <3>2
        <4>2. CASE i <= Len(w)
          <5>1. i \in 2 .. Len(w)
            BY <2>3, <4>2
          <5> QED BY <2>6, <3>1, <4>1, <4>2, <5>1
        <4>3. CASE ~(i <= Len(w))
          <5>1. /\ i - Len(w) \in 1 .. n /\ i - Len(w) \in 1 .. Len(b)
                /\ Len(w) - 1 + (i - Len(w)) = i - 1
            BY <2>3, <2>4, <4>1, <4>3
          <5>2. v[i] = q[i - Len(w)]
            BY <2>6, <4>1, <4>3
          <5>3. q[i - Len(w)] = b[i - Len(w)]
            BY <2>5, <5>1
          <5>4. b[i - Len(w)] = Data(Len(w) - 1 + (i - Len(w)))
            BY <3>1, <5>1
          <5> QED BY <5>1, <5>2, <5>3, <5>4
        <4> QED BY <4>2, <4>3
      <3>4. ASSUME NEW i \in 1 .. Len(left) PROVE left[i] = Data(Len(v) - 1 + i)
        <4>1. /\ i \in 1 .. Len(b) - n /\ n + i \in 1 .. Len(b)
              /\ Len(w) - 1 + (n + i) = Len(v) - 1 + i
          BY <2>3, <2>4, <2>5, <3>2
        <4>2. left[i] = b[n + i]
          BY <2>5, <4>1
        <4>3. b[n + i] = Data(Len(w) - 1 + (n + i))
          BY <3>1, <4>1
        <4> QED BY <4>1, <4>2, <4>3
      <3>5. Len(v) - 1 + Len(left) = m
        <4>1. Len(v) = Len(w) + n /\ Len(left) = Len(b) - n /\ Len(w) - 1 + Len(b) = m
          BY <2>5, <3>1, <3>2
        <4> HIDE DEF v
        <4> QED BY <2>3, <2>4, <4>1
      <3> HIDE DEF v
      <3>6. d.wire = v
        BY <2>8 DEF v
      <3> QED BY <2>7, <2>8, <3>2, <3>3, <3>4, <3>5, <3>6 DEF Flowing
    <2> QED BY <1>2, <2>1, <2>8, <2>9
  <1> QED BY <1>1, <1>2

\* push_stream_data appends after what was produced before.
LEMMA PushKeeps ==
  ASSUME NEW r \in Resp, NEW from \in Nat, NEW k \in Nat, from + k <= MaxChunks
  PROVE  /\ PushStreamData(r, Chunks(from, k)) \in Resp
         /\ r.provider \in {"none", "shut"} =>
              PushStreamData(r, Chunks(from, k)).provider = r.provider
         /\ Flowing(r, from) => Flowing(PushStreamData(r, Chunks(from, k)), from + k)
  <1> DEFINE c == Chunks(from, k)
             b == r.resp_body
             w == r.wire
             p == PushStreamData(r, c)
  <1>1. c \in Seq(Frames) /\ Len(c) = k /\ \A i \in 1 .. k : c[i] = Data(from + i)
    BY ChunksAre
  <1>2. b \in Seq(Frames) /\ w \in Seq(Frames) /\ Len(b) \in Nat /\ Len(w) \in Nat
    BY LenProperties DEF Resp
  <1> HIDE DEF c, b
  <1>3. /\ b \o c \in Seq(Frames) /\ Len(b \o c) = Len(b) + k
        /\ \A i \in 1 .. Len(b) + k : (b \o c)[i] = IF i <= Len(b) THEN b[i] ELSE c[i - Len(b)]
    BY <1>1, <1>2, ConcatProperties
  <1>4. /\ p.resp_body = b \o c /\ p.wire = w /\ p \in Resp
        /\ p.provider = IF r.provider = "deferred" THEN "active" ELSE r.provider
    BY <1>3 DEF PushStreamData, Resumed, Resp, b
  <1> HIDE DEF p, w
  <1>5. ASSUME Flowing(r, from) PROVE Flowing(p, from + k)
    <2>1. /\ r.provider \in {"active", "deferred", "eof"}
          /\ Len(w) >= 1 /\ w[1] = Header
          /\ \A i \in 2 .. Len(w) : w[i] = Data(i - 1)
          /\ \A i \in 1 .. Len(b) : b[i] = Data(Len(w) - 1 + i)
          /\ Len(w) - 1 + Len(b) = from
      BY <1>5 DEF Flowing, w, b
    <2>a. Len(w) - 1 + Len(b) = from /\ Len(w) \in Nat /\ Len(b) \in Nat
      BY <1>2, <2>1
    <2>2. ASSUME NEW i \in 1 .. Len(b) + k PROVE (b \o c)[i] = Data(Len(w) - 1 + i)
      <3>1. CASE i <= Len(b)
        <4>1. i \in 1 .. Len(b)
          BY <1>2, <3>1
        <4> QED BY <1>3, <2>1, <3>1, <4>1
      <3>2. CASE ~(i <= Len(b))
        <4>1. i - Len(b) \in 1 .. k /\ from + (i - Len(b)) = Len(w) - 1 + i
          BY <2>a, <3>2
        <4>2. (b \o c)[i] = c[i - Len(b)]
          BY <1>3, <3>2
        <4> QED BY <1>1, <4>1, <4>2
      <3> QED BY <3>1, <3>2
    <2>3. Len(w) - 1 + Len(b \o c) = from + k
      <3> DEFINE a == Len(b \o c)
      <3>1. a = Len(b) + k
        BY <1>3
      <3> HIDE DEF a
      <3>2. Len(w) - 1 + a = from + k
        BY <2>a, <3>1
      <3> QED BY <3>2 DEF a
    <2>4. p.provider \in {"active", "deferred", "eof"}
      BY <1>4, <2>1
    <2>5. Len(b \o c) = Len(b) + k
      BY <1>3
    <2> DEFINE v == b \o c
    <2>6. /\ p.resp_body = v /\ \A i \in 1 .. Len(v) : v[i] = Data(Len(w) - 1 + i)
          /\ Len(w) - 1 + Len(v) = from + k
      BY <1>4, <2>2, <2>3, <2>5
    <2> HIDE DEF v
    <2> QED BY <1>4, <2>1, <2>4, <2>6 DEF Flowing
  <1> QED BY <1>4, <1>5 DEF p, c

\* HEADERS open a response that is untouched, with or without a body.
LEMMA OpenFlows ==
  ASSUME NEW k \in 0 .. MaxChunks
  PROVE  /\ SubmitResponse(NoResponse, Chunks(0, k)) \in Resp
         /\ Flowing(SubmitResponse(NoResponse, Chunks(0, k)), k)
         /\ SubmitResponseStream(NoResponse) \in Resp
         /\ Flowing(SubmitResponseStream(NoResponse), 0)
  <1> DEFINE c == Chunks(0, k)
             r == SubmitResponse(NoResponse, c)
             t == SubmitResponseStream(NoResponse)
  <1>1. c \in Seq(Frames) /\ Len(c) = k /\ \A i \in 1 .. k : c[i] = Data(0 + i)
    BY ChunksAre
  <1> HIDE DEF c
  <1>2. Append(<<>>, Header) = <<Header>> /\ <<Header>> \in Seq(Frames)
    BY FramesDiffer
  <1>3. NoResponse \in Resp /\ NoResponse.wire = <<>>
    BY NoResponseIsTyped DEF NoResponse
  <1>4. /\ r.resp_body = c /\ r.wire = <<Header>> /\ r.provider = "active" /\ r \in Resp
    BY <1>1, <1>2, <1>3 DEF SubmitResponse, Resp
  <1>5. /\ t.resp_body = <<>> /\ t.wire = <<Header>> /\ t.provider = "active" /\ t \in Resp
    BY <1>2, <1>3 DEF SubmitResponseStream, Resp
  <1> HIDE DEF r, t
  <1>6. Len(<<Header>>) = 1 /\ <<Header>>[1] = Header
    OBVIOUS
  <1>7. Flowing(r, k)
    <2>1. \A i \in 1 .. k : c[i] = Data(1 - 1 + i)
      BY <1>1
    <2> QED BY <1>1, <1>4, <1>6, <2>1 DEF Flowing
  <1>8. Flowing(t, 0)
    BY <1>5, <1>6 DEF Flowing
  <1> QED BY <1>4, <1>5, <1>7, <1>8 DEF r, t, c

LEMMA FinishKeeps ==
  ASSUME NEW r \in Resp
  PROVE  /\ FinishStream(r) \in Resp
         /\ \A n \in Nat : Flowing(r, n) => Flowing(FinishStream(r), n)
  BY DEF FinishStream, Resumed, Resp, Flowing

\* The trailer ends an open response and leaves what the grammar allows.
LEMMA TrailerEnds ==
  ASSUME NEW r \in Resp, NEW n \in Nat
  PROVE  /\ SubmitTrailer(r) \in Resp /\ SubmitTrailer(r).provider = "shut"
         /\ Flowing(r, n) => Grammar(SubmitTrailer(r).wire)
  <1> DEFINE w == r.wire
             v == Append(w, End)
  <1>1. w \in Seq(Frames) /\ Len(w) \in Nat
    BY LenProperties DEF Resp
  <1> HIDE DEF w
  <1>2. /\ v \in Seq(Frames) /\ Len(v) = Len(w) + 1 /\ v[Len(w) + 1] = End
        /\ \A i \in 1 .. Len(w) : v[i] = w[i]
    BY <1>1, FramesDiffer, AppendProperties
  <1> HIDE DEF v
  <1>3. SubmitTrailer(r) \in Resp /\ SubmitTrailer(r).provider = "shut"
        /\ SubmitTrailer(r).wire = v
    BY <1>2 DEF SubmitTrailer, Resp, v, w
  <1>4. ASSUME Flowing(r, n) PROVE Grammar(v)
    <2>1. Len(w) >= 1 /\ w[1] = Header /\ \A i \in 2 .. Len(w) : w[i] = Data(i - 1)
      BY <1>4 DEF Flowing, w
    <2> SUFFICES ASSUME NEW i \in 1 .. Len(v)
                 PROVE  /\ v[i] = Header <=> i = 1
                        /\ v[i] = End => i = Len(v)
                        /\ v[i] \notin {Header, End} => v[i] = Data(i - 1)
      BY DEF Grammar
    <2>2. CASE i = Len(w) + 1
      BY <1>1, <1>2, <2>1, <2>2, FramesDiffer
    <2>3. CASE i = 1
      <3>1. 1 \in 1 .. Len(w)
        BY <1>1, <2>1
      <3> QED BY <1>2, <2>1, <2>3, <3>1, FramesDiffer
    <2>4. CASE i # 1 /\ i # Len(w) + 1
      <3>1. i \in 1 .. Len(w) /\ i \in 2 .. Len(w) /\ i - 1 \in Nat
        BY <1>1, <1>2, <2>4
      <3>2. v[i] = Data(i - 1)
        BY <1>2, <2>1, <3>1
      <3> QED BY <2>4, <3>1, <3>2, FramesDiffer
    <2> QED BY <2>2, <2>3, <2>4
  <1> QED BY <1>3, <1>4

LEMMA OpenGrammar ==
  ASSUME NEW r \in Resp, NEW n \in Nat, Flowing(r, n)
  PROVE  Grammar(r.wire)
  <1> DEFINE w == r.wire
  <1>1. /\ w \in Seq(Frames) /\ Len(w) \in Nat
        /\ Len(w) >= 1 /\ w[1] = Header /\ \A i \in 2 .. Len(w) : w[i] = Data(i - 1)
    BY LenProperties DEF Resp, Flowing
  <1> HIDE DEF w
  <1>2. ASSUME NEW i \in 2 .. Len(w) PROVE i - 1 \in Nat /\ w[i] = Data(i - 1)
    BY <1>1
  <1>3. \A i \in 1 .. Len(w) : i = 1 \/ i \in 2 .. Len(w)
    BY <1>1
  <1>4. Grammar(w)
    BY <1>1, <1>2, <1>3, FramesDiffer DEF Grammar
  <1> QED BY <1>4 DEF w

LEMMA RefusalGrammar ==
  ASSUME NEW r \in Resp
  PROVE  /\ UnsupportedMediaType(r) \in Resp
         /\ UnsupportedMediaType(r).provider = "shut"
         /\ r = NoResponse => Grammar(UnsupportedMediaType(r).wire)
  <1> DEFINE e == <<Header, End>>
  <1>1. e \in Seq(Frames) /\ Len(e) = 2 /\ e[1] = Header /\ e[2] = End
    BY FramesDiffer
  <1>2. r.wire \o e \in Seq(Frames)
    BY <1>1, ConcatProperties DEF Resp
  <1>3. <<>> \in Seq(Frames)
    OBVIOUS
  <1>4. /\ UnsupportedMediaType(r) \in Resp
        /\ UnsupportedMediaType(r).provider = "shut"
        /\ UnsupportedMediaType(r).wire = r.wire \o e
    BY <1>2, <1>3 DEF UnsupportedMediaType, Resp
  <1>5. NoResponse.wire \o e = e
    BY <1>1 DEF NoResponse
  <1>6. Grammar(e)
    <2> HIDE DEF e
    <2>1. \A i \in 1 .. 2 : i = 1 \/ i = 2
      OBVIOUS
    <2> QED BY <1>1, <2>1, FramesDiffer DEF Grammar
  <1> QED BY <1>4, <1>5, <1>6

\* stream_send: push and flush.
LEMMA SentKeeps ==
  ASSUME NEW r \in Resp, NEW from \in Nat, NEW k \in Nat, from + k <= MaxChunks
  PROVE  /\ StreamSent(r, Chunks(from, k)) \in Resp
         /\ Flowing(r, from) => Flowing(StreamSent(r, Chunks(from, k)), from + k)
  <1> DEFINE p == PushStreamData(r, Chunks(from, k))
  <1>1. p \in Resp /\ (Flowing(r, from) => Flowing(p, from + k))
    BY PushKeeps
  <1>2. StreamSent(r, Chunks(from, k)) = Drain(p)
    BY DEF StreamSent
  <1> HIDE DEF p
  <1> QED BY <1>1, <1>2, DrainKeeps

\* stream_finish and send_unary_response.
LEMMA FinishedEnds ==
  ASSUME NEW r \in Resp, NEW n \in Nat
  PROVE  /\ StreamFinished(r) \in Resp /\ StreamFinished(r).provider = "shut"
         /\ Flowing(r, n) => Grammar(StreamFinished(r).wire)
  <1> DEFINE f == FinishStream(r)
             d == Drain(f)
  <1>1. f \in Resp /\ (Flowing(r, n) => Flowing(f, n))
    BY FinishKeeps
  <1> HIDE DEF f
  <1>2. d \in Resp /\ (Flowing(r, n) => Flowing(d, n))
    BY <1>1, DrainKeeps
  <1> HIDE DEF d
  <1>3. StreamFinished(r) = SubmitTrailer(d)
    BY DEF StreamFinished, d, f
  <1> QED BY <1>2, <1>3, TrailerEnds

LEMMA UnaryEnds ==
  ASSUME NEW k \in 0 .. MaxChunks
  PROVE  LET u == UnaryResponse(NoResponse, Chunks(0, k))
         IN  u \in Resp /\ u.provider = "shut" /\ Grammar(u.wire)
  <1> DEFINE o == SubmitResponse(NoResponse, Chunks(0, k))
             d == Drain(o)
  <1>1. o \in Resp /\ Flowing(o, k)
    BY OpenFlows
  <1> HIDE DEF o
  <1>2. d \in Resp /\ Flowing(d, k)
    BY <1>1, DrainKeeps
  <1> HIDE DEF d
  <1>3. UnaryResponse(NoResponse, Chunks(0, k)) = SubmitTrailer(d)
    BY DEF UnaryResponse, d, o
  <1> QED BY <1>2, <1>3, TrailerEnds

\* What on_headers may have opened: a bidi call's response.
Prepared(c, r, n) ==
  /\ r \in Resp /\ n \in 0 .. MaxChunks
  /\ IF c.method = "bidi" THEN Flowing(r, n) ELSE r = NoResponse /\ n = 0

\* What a handler replies follows what was produced before.
LEMMA RepliedKeeps ==
  ASSUME NEW c \in Calls, NEW r, NEW n, Prepared(c, r, n), NEW m,
         NEW k \in Replies(c, m, n)
  PROVE  /\ Prepared(c, Replied(r, n, k), n + k)
         /\ n \in Nat /\ k \in Nat /\ n + k <= MaxChunks
         /\ k # 0 => c.method = "bidi"
  <1>1. r \in Resp /\ n \in 0 .. MaxChunks
    BY DEF Prepared
  <1>2. k \in Nat /\ n + k \in 0 .. MaxChunks /\ (k # 0 => c.method = "bidi")
    BY <1>1 DEF Replies
  <1>3. CASE k = 0
    BY <1>1, <1>2, <1>3 DEF Replied
  <1>4. CASE k # 0
    <2>1. Flowing(r, n)
      BY <1>2, <1>4 DEF Prepared
    <2>2. StreamSent(r, Chunks(n, k)) \in Resp /\ Flowing(StreamSent(r, Chunks(n, k)), n + k)
      BY <1>1, <1>2, <2>1, SentKeeps
    <2> QED BY <1>1, <1>2, <1>4, <2>2 DEF Prepared, Replied
  <1> QED BY <1>3, <1>4

\* on_request ends every answer but that of a subscription it keeps.
LEMMA AnswersKeep ==
  ASSUME NEW c \in Calls, NEW r, NEW n, Prepared(c, r, n), NEW a \in Answers(c, r, n)
  PROVE  /\ a.resp \in Resp /\ a.produced \in 0 .. MaxChunks
         /\ \/ /\ a.resp.provider = "shut" /\ a.subscribes = FALSE
               /\ c.grpc \/ c.method # "bidi" => Grammar(a.resp.wire)
            \/ /\ a.resp.provider # "shut" /\ a.subscribes = TRUE
               /\ Flowing(a.resp, a.produced)
  <1> USE DEF Answer
  <1>1. r \in Resp /\ n \in 0 .. MaxChunks /\ c.method \in Methods
    BY DEF Prepared, Calls
  <1>2. CASE ~c.grpc
    <2>1. a = Answer(UnsupportedMediaType(r), n, FALSE)
      BY <1>2 DEF Answers
    <2>2. c.method # "bidi" => r = NoResponse
      BY DEF Prepared
    <2> QED BY <1>1, <1>2, <2>1, <2>2, RefusalGrammar
  <1>3. CASE c.grpc /\ c.method = "bidi"
    <2>1. a = Answer(StreamFinished(r), n, FALSE)
      BY <1>3 DEF Answers
    <2>2. Flowing(r, n)
      BY <1>3 DEF Prepared
    <2> QED BY <1>1, <2>1, <2>2, FinishedEnds
  <1>4. CASE c.grpc /\ c.method = "server"
    <2> DEFINE o == Drain(SubmitResponseStream(NoResponse))
               y == StreamSent(o, Chunks(0, 1))
    <2>1. a \in Subscription(o)
      BY <1>4 DEF Answers, Prepared
    <2>2. o \in Resp /\ Flowing(o, 0)
      <3> DEFINE q == SubmitResponseStream(NoResponse)
      <3>1. q \in Resp /\ Flowing(q, 0)
        BY OpenFlows
      <3> HIDE DEF q
      <3>2. Drain(q) \in Resp /\ Flowing(Drain(q), 0)
        BY <3>1, DrainKeeps
      <3> QED BY <3>2 DEF q
    <2> HIDE DEF o
    <2>3. y \in Resp /\ Flowing(y, 1)
      <3>1. StreamSent(o, Chunks(0, 1)) \in Resp
            /\ Flowing(StreamSent(o, Chunks(0, 1)), 0 + 1)
        BY <2>2, SentKeeps
      <3> QED BY <3>1
    <2>4. a \in {Answer(StreamFinished(o), 0, FALSE), Answer(StreamFinished(y), 1, FALSE),
                 Answer(y, 1, TRUE)}
      BY <2>1 DEF Subscription
    <2> HIDE DEF y
    <2>5. CASE a = Answer(StreamFinished(o), 0, FALSE)
      BY <2>2, <2>5, FinishedEnds
    <2>6. CASE a = Answer(StreamFinished(y), 1, FALSE)
      BY <2>3, <2>6, FinishedEnds
    <2>7. CASE a = Answer(y, 1, TRUE)
      <3>1. y.provider # "shut"
        BY <2>3 DEF Flowing
      <3> QED BY <2>3, <2>7, <3>1
    <2> QED BY <2>4, <2>5, <2>6, <2>7
  <1>5. CASE c.grpc /\ c.method \notin {"bidi", "server"}
    <2>1. r = NoResponse
      BY <1>5 DEF Prepared
    <2>2. PICK k \in 1 .. MaxChunks : a = Answer(UnaryResponse(r, Chunks(0, k)), k, FALSE)
      BY <1>5 DEF Answers
    <2>3. k \in 0 .. MaxChunks
      OBVIOUS
    <2>4. /\ UnaryResponse(r, Chunks(0, k)) \in Resp
          /\ UnaryResponse(r, Chunks(0, k)).provider = "shut"
          /\ Grammar(UnaryResponse(r, Chunks(0, k)).wire)
      BY <2>1, <2>3, UnaryEnds
    <2> QED BY <2>2, <2>3, <2>4
  <1> QED BY <1>2, <1>3, <1>4, <1>5

-----------------------------------------------------------------------------
(* The steps.                                                              *)

\* The containers that the answer side of a step changes.
AnswerTypes ==
  /\ nv \in [Streams -> {"idle", "open", "half", "closed"}]
  /\ resp \in [Streams -> Resp]
  /\ m_bidi_opened \subseteq Streams /\ subscribed \subseteq Streams
  /\ produced \in [Streams -> 0 .. MaxChunks]

RequestTypes ==
  /\ call \in [Streams -> Calls]
  /\ body \in [Streams -> 0 .. MaxUnits]
  /\ received \in [Streams -> 0 .. MaxUnits]
  /\ dispatched \in [Streams -> 0 .. MaxUnits]

LEMMA TypesSplit == TypeOK <=> AnswerTypes /\ RequestTypes
  BY DEF TypeOK, AnswerTypes, RequestTypes, Resp

LEMMA TypesSplitNext == TypeOK' <=> AnswerTypes' /\ RequestTypes'
  BY DEF TypeOK, AnswerTypes, RequestTypes, Resp

LEMMA InitIInv == ASSUME Init PROVE IInv
  <1>1. AnswerTypes
    BY NoResponseIsTyped DEF Init, AnswerTypes
  <1>2. RequestTypes
    BY DEF Init, RequestTypes, Calls, Methods
  <1>3. ASSUME NEW s \in Streams PROVE Answering(s) /\ Receiving(s)
    BY DEF Init, Answering, Receiving
  <1> QED BY <1>1, <1>2, <1>3, TypesSplit DEF IInv

\* A stream that a step does not touch.
LEMMA AnsweringFrame ==
  ASSUME NEW x, Answering(x), nv'[x] = nv[x], resp'[x] = resp[x],
         produced'[x] = produced[x], call'[x] = call[x],
         x \in subscribed' <=> x \in subscribed,
         x \in m_bidi_opened' <=> x \in m_bidi_opened
  PROVE  Answering(x)'
  BY DEF Answering

\* No whole message is left in the body of an incremental call.
Cut(c, held) == Incremental(c) => held \in 0 .. 1

\* on_request finds no whole message in a body that on_request_stream has left,
\* so it dispatches and replies to nothing before it answers.
LEMMA NothingFoundAgain ==
  ASSUME NEW s \in Streams, NEW c, NEW r, NEW n \in Nat, NEW opened, NEW held,
         NEW messages \in Nat, NEW end \in BOOLEAN,
         FrameDone(s, c, r, n, opened, held, messages, end),
         Cut(c, held), RequestTypes
  PROVE  /\ dispatched' = [dispatched EXCEPT ![s] = @ + messages]
         /\ Answered(s, c, r, n, opened, end)
  <1> DEFINE again == IF end /\ c.grpc THEN Dispatches(c, held) ELSE 0
  <1>1. /\ dispatched' = [dispatched EXCEPT ![s] = @ + messages + again]
        /\ \E k \in Replies(c, again, n) :
             Answered(s, c, Replied(r, n, k), n + k, opened, end)
    BY DEF FrameDone
  <1>2. again = 0
    <2>1. \A i \in 0 .. 1 : i \div 2 = 0
      OBVIOUS
    <2> QED BY <2>1 DEF Dispatches, MessagesIn, Cut
  <1> HIDE DEF again
  <1>3. dispatched[s] + messages + again = dispatched[s] + messages
    BY <1>2 DEF RequestTypes
  <1>4. dispatched' = [dispatched EXCEPT ![s] = dispatched[s] + messages]
    BY <1>1, <1>3
  <1>5. Replies(c, again, n) = {0}
    BY <1>2 DEF Replies
  <1>6. Replied(r, n, 0) = r /\ n + 0 = n
    BY DEF Replied
  <1>7. Answered(s, c, r, n, opened, end)
    BY <1>1, <1>5, <1>6
  <1> QED BY <1>4, <1>7

\* The end of on_frame_recv for a stream whose response is prepared.
LEMMA FrameStep ==
  ASSUME IInv, NEW s \in Streams, NEW c \in Calls, NEW r, NEW n, NEW opened,
         NEW end \in BOOLEAN,
         Answered(s, c, r, n, opened, end), Prepared(c, r, n),
         opened = IF c.method = "bidi" THEN m_bidi_opened \cup {s} ELSE m_bidi_opened,
         c.method # "bidi" => s \notin m_bidi_opened,
         s \notin subscribed,
         call'[s] = c, \A x \in Streams \ {s} : call'[x] = call[x]
  PROVE  AnswerTypes' /\ \A x \in Streams : Answering(x)'
  <1>1. AnswerTypes /\ \A x \in Streams : Answering(x)
    BY TypesSplit DEF IInv
  <1>2. PICK a \in IF end THEN Answers(c, r, n) ELSE {Answer(r, n, FALSE)} :
          /\ resp' = [resp EXCEPT ![s] = a.resp]
          /\ produced' = [produced EXCEPT ![s] = a.produced]
          /\ subscribed' = IF a.subscribes THEN subscribed \cup {s} ELSE subscribed
          /\ nv' = [nv EXCEPT ![s] = IF ~end THEN "open"
                                     ELSE IF a.resp.provider = "shut" THEN "closed"
                                     ELSE "half"]
          /\ m_bidi_opened' = IF end /\ c.grpc THEN opened \ {s} ELSE opened
    BY DEF Answered
  <1>3. /\ a.resp \in Resp /\ a.produced \in 0 .. MaxChunks
        /\ end => \/ /\ a.resp.provider = "shut" /\ a.subscribes = FALSE
                     /\ c.grpc \/ c.method # "bidi" => Grammar(a.resp.wire)
                  \/ /\ a.resp.provider # "shut" /\ a.subscribes = TRUE
                     /\ Flowing(a.resp, a.produced)
        /\ ~end => a.resp = r /\ a.produced = n /\ a.subscribes = FALSE
    <2>1. CASE end
      BY <1>2, <2>1, AnswersKeep
    <2>2. CASE ~end
      BY <1>2, <2>2 DEF Answer, Prepared
    <2> QED BY <2>1, <2>2
  <1>4. /\ nv'[s] = IF ~end THEN "open"
                    ELSE IF a.resp.provider = "shut" THEN "closed" ELSE "half"
        /\ resp'[s] = a.resp /\ produced'[s] = a.produced
        /\ s \in subscribed' <=> a.subscribes = TRUE
        /\ ~end => m_bidi_opened' = opened
    BY <1>1, <1>2, <1>3 DEF AnswerTypes
  <1>5. AnswerTypes'
    BY <1>1, <1>2, <1>3 DEF AnswerTypes
  <1>6. Answering(s)'
    <2>1. CASE ~end
      BY <1>3, <1>4, <2>1 DEF Answering, Prepared
    <2>2. CASE end
      BY <1>3, <1>4, <2>2 DEF Answering
    <2> QED BY <2>1, <2>2
  <1>7. ASSUME NEW x \in Streams \ {s} PROVE Answering(x)'
    <2>1. /\ nv'[x] = nv[x] /\ resp'[x] = resp[x] /\ produced'[x] = produced[x]
          /\ x \in subscribed' <=> x \in subscribed
          /\ x \in m_bidi_opened' <=> x \in m_bidi_opened
      BY <1>1, <1>2 DEF AnswerTypes
    <2> QED BY <1>1, <2>1, AnsweringFrame
  <1> QED BY <1>5, <1>6, <1>7

\* A stream whose response only moves on.
LEMMA ResponseStep ==
  ASSUME IInv, NEW s \in Streams, NEW r \in Resp, NEW n \in 0 .. MaxChunks,
         HasContext(s), nv[s] = "open" => call[s].method = "bidi",
         Flowing(r, n),
         resp' = [resp EXCEPT ![s] = r], produced' = [produced EXCEPT ![s] = n],
         UNCHANGED <<nv, request, m_bidi_opened, subscribed>>
  PROVE  IInv'
  <1>1. AnswerTypes /\ RequestTypes /\ \A x \in Streams : Answering(x) /\ Receiving(x)
    BY TypesSplit DEF IInv
  <1>2. AnswerTypes' /\ RequestTypes'
    BY <1>1 DEF AnswerTypes, RequestTypes, request
  <1>3. \A x \in Streams : Receiving(x)'
    BY <1>1 DEF Receiving, request
  <1>4. Answering(s)'
    BY <1>1 DEF Answering, AnswerTypes, HasContext, request
  <1>5. ASSUME NEW x \in Streams \ {s} PROVE Answering(x)'
    <2>1. resp'[x] = resp[x] /\ produced'[x] = produced[x]
      BY <1>1 DEF AnswerTypes
    <2> QED BY <1>1, <2>1, AnsweringFrame DEF request
  <1> QED BY <1>2, <1>3, <1>4, <1>5, TypesSplitNext DEF IInv

LEMMA WindowUpdateStep ==
  ASSUME IInv, NEW s \in Streams, WindowUpdate(s) PROVE IInv'
  <1>1. AnswerTypes /\ Answering(s) /\ resp[s] \in Resp /\ produced[s] \in 0 .. MaxChunks
    BY TypesSplit DEF IInv, AnswerTypes
  <1>2. HasContext(s) /\ resp[s].credit < Window
    BY DEF WindowUpdate
  <1>3. /\ nv[s] = "open" => call[s].method = "bidi"
        /\ Flowing(resp[s], produced[s])
    <2>1. resp[s] # NoResponse
      BY <1>2 DEF NoResponse
    <2> QED BY <1>1, <1>2, <2>1 DEF Answering, HasContext
  <1> DEFINE r == [resp[s] EXCEPT !.credit = @ + 1]
  <1>4. r \in Resp /\ Flowing(r, produced[s])
    <2>1. resp[s].credit + 1 \in 0 .. Window
      BY <1>1, <1>2 DEF Resp
    <2>2. r \in Resp /\ r.wire = resp[s].wire /\ r.resp_body = resp[s].resp_body
          /\ r.provider = resp[s].provider
      BY <1>1, <2>1 DEF Resp
    <2> HIDE DEF r
    <2> QED BY <1>3, <2>2 DEF Flowing
  <1>5. resp' = [resp EXCEPT ![s] = Drain(r)]
    BY DEF WindowUpdate
  <1> HIDE DEF r
  <1>6. Drain(r) \in Resp /\ Flowing(Drain(r), produced[s])
    BY <1>1, <1>4, DrainKeeps
  <1>7. /\ produced' = [produced EXCEPT ![s] = produced[s]]
        /\ UNCHANGED <<nv, request, m_bidi_opened, subscribed>>
    BY <1>1 DEF WindowUpdate, AnswerTypes
  <1> QED BY <1>1, <1>2, <1>3, <1>5, <1>6, <1>7, ResponseStep

LEMMA StreamSendStep ==
  ASSUME IInv, NEW s \in Streams, StreamSend(s) PROVE IInv'
  <1>1. AnswerTypes /\ Answering(s) /\ resp[s] \in Resp /\ produced[s] \in 0 .. MaxChunks
    BY TypesSplit DEF IInv, AnswerTypes
  <1>2. /\ s \in m_bidi_opened \cup subscribed /\ HasContext(s) /\ produced[s] < MaxChunks
        /\ resp' = [resp EXCEPT ![s] = StreamSent(@, Chunks(produced[s], 1))]
        /\ produced' = [produced EXCEPT ![s] = @ + 1]
        /\ UNCHANGED <<nv, request, m_bidi_opened, subscribed>>
    BY DEF StreamSend
  <1>3. /\ nv[s] = "open" => call[s].method = "bidi"
        /\ Flowing(resp[s], produced[s])
    BY <1>1, <1>2 DEF Answering, HasContext
  <1> DEFINE r == StreamSent(resp[s], Chunks(produced[s], 1))
  <1>4. r \in Resp /\ Flowing(r, produced[s] + 1)
    BY <1>1, <1>2, <1>3, SentKeeps
  <1>5. /\ resp' = [resp EXCEPT ![s] = r] /\ produced' = [produced EXCEPT ![s] = produced[s] + 1]
        /\ produced[s] + 1 \in 0 .. MaxChunks
    BY <1>1, <1>2
  <1> HIDE DEF r
  <1> QED BY <1>2, <1>3, <1>4, <1>5, ResponseStep

\* A reset stream keeps what was on the wire.
LEMMA ResetStep ==
  ASSUME IInv, NEW s \in Streams, Reset(s) PROVE IInv'
  <1>1. AnswerTypes /\ RequestTypes /\ \A x \in Streams : Answering(x) /\ Receiving(x)
    BY TypesSplit DEF IInv
  <1>2. /\ HasContext(s) /\ nv' = [nv EXCEPT ![s] = "closed"]
        /\ UNCHANGED <<request, resp, m_bidi_opened, subscribed, produced>>
    BY DEF Reset
  <1>3. AnswerTypes' /\ RequestTypes'
    BY <1>1, <1>2 DEF AnswerTypes, RequestTypes, request
  <1>4. \A x \in Streams : Receiving(x)'
    BY <1>1, <1>2 DEF Receiving, request, AnswerTypes
  <1>5. Answering(s)'
    <2>1. resp[s] \in Resp /\ produced[s] \in Nat
      BY <1>1 DEF AnswerTypes
    <2>2. Grammar(resp[s].wire)
      <3>1. CASE resp[s] = NoResponse
        BY <3>1 DEF Grammar, NoResponse
      <3>2. CASE Flowing(resp[s], produced[s])
        BY <2>1, <3>2, OpenGrammar
      <3> QED BY <1>1, <1>2, <3>1, <3>2 DEF Answering, HasContext
    <2>3. nv'[s] = "closed" /\ resp'[s] = resp[s]
      BY <1>1, <1>2 DEF AnswerTypes
    <2> QED BY <2>2, <2>3 DEF Answering
  <1>6. ASSUME NEW x \in Streams \ {s} PROVE Answering(x)'
    <2>1. nv'[x] = nv[x]
      BY <1>1, <1>2 DEF AnswerTypes
    <2> QED BY <1>1, <1>2, <2>1, AnsweringFrame DEF request
  <1> QED BY <1>3, <1>4, <1>5, <1>6, TypesSplitNext DEF IInv

\* What on_request_headers opens and a greeting sends is prepared.
LEMMA GreetingPrepared ==
  ASSUME NEW s \in Streams, NEW c \in Calls, NEW greetings \in 0 .. 1,
         greetings > 0 => c.method = "bidi",
         resp[s] = NoResponse, s \notin m_bidi_opened
  PROVE  Prepared(c, Replied(OpenedOnHeaders(s, c, resp[s]), 0, greetings), greetings)
  <1> DEFINE o == OpenedOnHeaders(s, c, resp[s])
             q == SubmitResponseStream(NoResponse)
  <1>1. CASE c.method = "bidi"
    <2>1. q \in Resp /\ Flowing(q, 0)
      BY OpenFlows
    <2>2. o = Drain(q)
      BY <1>1 DEF OpenedOnHeaders
    <2> HIDE DEF q, o
    <2>3. o \in Resp /\ Flowing(o, 0)
      BY <2>1, <2>2, DrainKeeps
    <2>4. Prepared(c, o, 0)
      BY <1>1, <2>3 DEF Prepared
    <2>5. greetings \in Replies(c, 1, 0) /\ 0 + greetings = greetings
      BY <1>1 DEF Replies
    <2> QED BY <2>4, <2>5, RepliedKeeps DEF o
  <1>2. CASE c.method # "bidi"
    <2>1. greetings = 0 /\ o = NoResponse
      BY <1>2 DEF OpenedOnHeaders
    <2> QED BY <1>2, <2>1, NoResponseIsTyped DEF Prepared, Replied
  <1> QED BY <1>1, <1>2

LEMMA RequestHeadersStep ==
  ASSUME IInv, NEW s \in Streams, NEW c \in Calls, NEW greetings \in 0 .. 1,
         NEW end \in BOOLEAN, RequestHeaders(s, c, greetings, end)
  PROVE  IInv'
  <1> DEFINE r == Replied(OpenedOnHeaders(s, c, resp[s]), 0, greetings)
             opened == OpenedSet(s, c)
             held == body[s]
  <1>1. /\ nv[s] = "idle" /\ (greetings > 0 => c.method = "bidi")
        /\ call' = [call EXCEPT ![s] = c]
        /\ FrameDone(s, c, r, greetings, opened, held, 0, end)
        /\ UNCHANGED <<body, received>>
    BY DEF RequestHeaders
  <1>2. AnswerTypes /\ RequestTypes /\ \A x \in Streams : Answering(x) /\ Receiving(x)
    BY TypesSplit DEF IInv
  <1>3. /\ resp[s] = NoResponse /\ s \notin m_bidi_opened \cup subscribed
        /\ received[s] = 0 /\ body[s] = 0 /\ dispatched[s] = 0
    BY <1>1, <1>2 DEF Answering, Receiving
  <1>4. Prepared(c, r, greetings)
    BY <1>1, <1>3, GreetingPrepared
  <1>5. call'[s] = c /\ \A x \in Streams \ {s} : call'[x] = call[x]
    BY <1>1, <1>2 DEF RequestTypes
  <1>6. opened = IF c.method = "bidi" THEN m_bidi_opened \cup {s} ELSE m_bidi_opened
    BY DEF OpenedSet
  <1> HIDE DEF r, opened, held
  <1>7. /\ Answered(s, c, r, greetings, opened, end)
        /\ dispatched' = [dispatched EXCEPT ![s] = @ + 0]
    <2>1. FrameDone(s, c, r, greetings, opened, held, 0, end)
      BY <1>1
    <2>2. RequestTypes /\ Cut(c, held) /\ greetings \in Nat /\ 0 \in Nat
      BY <1>2, <1>3 DEF held, Cut
    <2> QED BY ONLY <2>1, <2>2, end \in BOOLEAN, s \in Streams, NothingFoundAgain
  <1>8. AnswerTypes' /\ \A x \in Streams : Answering(x)'
    BY <1>3, <1>4, <1>5, <1>6, <1>7, FrameStep
  <1>9. RequestTypes' /\ \A x \in Streams : dispatched'[x] = dispatched[x]
    BY <1>1, <1>2, <1>3, <1>7 DEF RequestTypes
  <1>10. ASSUME NEW x \in Streams PROVE Receiving(x)'
    <2>1. CASE x = s
      BY <1>1, <1>3, <1>9, <2>1 DEF Receiving
    <2>2. CASE x # s
      <3>1. nv'[x] = nv[x]
        BY <1>2, <1>7, <2>2 DEF Answered, AnswerTypes
      <3> QED BY <1>1, <1>2, <1>5, <1>9, <2>2, <3>1 DEF Receiving
    <2> QED BY <2>1, <2>2
  <1> QED BY <1>8, <1>9, <1>10, TypesSplitNext DEF IInv

\* decode_frame takes every message that is complete and leaves the rest.
LEMMA MessagesTaken ==
  ASSUME NEW n \in Nat
  PROVE  /\ MessagesIn(n) \in Nat /\ LeftInBody(n) \in 0 .. 1
         /\ n = 2 * MessagesIn(n) + LeftInBody(n)
  <1>1. n \div 2 \in Nat /\ n % 2 \in 0 .. 1 /\ n = 2 * (n \div 2) + (n % 2)
    OBVIOUS
  <1> QED BY <1>1 DEF MessagesIn, LeftInBody

LEMMA RequestDataStep ==
  ASSUME IInv, NEW s \in Streams, NEW units \in 0 .. MaxUnits, NEW end \in BOOLEAN,
         RequestData(s, units, end)
  PROVE  IInv'
  <1> DEFINE c == call[s]
             p == produced[s]
             arrived == body[s] + units
             messages == Dispatches(c, arrived)
             held == IF Incremental(c) THEN LeftInBody(arrived) ELSE arrived
             opened == m_bidi_opened
  <1>1. AnswerTypes /\ RequestTypes /\ \A x \in Streams : Answering(x) /\ Receiving(x)
    BY TypesSplit DEF IInv
  <1>2. /\ nv[s] = "open" /\ received[s] + units <= MaxUnits
        /\ received' = [received EXCEPT ![s] = @ + units]
        /\ body' = [body EXCEPT ![s] = held]
        /\ UNCHANGED call
    BY DEF RequestData
  <1>3. PICK k \in Replies(c, messages, p) :
          FrameDone(s, c, Replied(resp[s], p, k), p + k, opened, held, messages, end)
    BY DEF RequestData
  <1> DEFINE r == Replied(resp[s], p, k)
             n == p + k
  <1>4. /\ c \in Calls /\ body[s] \in Nat /\ received[s] \in Nat /\ dispatched[s] \in Nat
        /\ s \notin subscribed /\ Prepared(c, resp[s], p)
        /\ opened = IF c.method = "bidi" THEN m_bidi_opened \cup {s} ELSE m_bidi_opened
        /\ c.method # "bidi" => s \notin m_bidi_opened
    BY <1>1, <1>2 DEF AnswerTypes, RequestTypes, Answering, Prepared
  <1>5. Prepared(c, r, n) /\ n \in Nat
    BY <1>4, RepliedKeeps
  <1>6. arrived \in Nat /\ MessagesIn(arrived) \in Nat /\ LeftInBody(arrived) \in 0 .. 1
        /\ arrived = 2 * MessagesIn(arrived) + LeftInBody(arrived)
    BY <1>4, MessagesTaken
  <1>7. /\ Incremental(c) => messages = MessagesIn(arrived) /\ held = LeftInBody(arrived)
        /\ ~Incremental(c) => messages = 0 /\ held = arrived
        /\ messages \in Nat
    BY <1>6 DEF Dispatches
  <1>8. call'[s] = c /\ \A x \in Streams \ {s} : call'[x] = call[x]
    BY <1>2
  <1> DEFINE inMsgs == MessagesIn(arrived)
             left == LeftInBody(arrived)
  <1> HIDE DEF r, n, c, opened, p, messages, held, inMsgs, left
  <1>9. /\ Answered(s, c, r, n, opened, end)
        /\ dispatched' = [dispatched EXCEPT ![s] = @ + messages]
    <2>1. FrameDone(s, c, r, n, opened, held, messages, end)
      BY <1>3 DEF r, n
    <2>2. RequestTypes /\ Cut(c, held) /\ n \in Nat /\ messages \in Nat
      BY <1>1, <1>5, <1>6, <1>7 DEF Cut
    <2> QED BY ONLY <2>1, <2>2, end \in BOOLEAN, s \in Streams, NothingFoundAgain
  <1>10. AnswerTypes' /\ \A x \in Streams : Answering(x)'
    BY <1>4, <1>5, <1>8, <1>9, FrameStep
  <1>11. (\A x \in Streams \ {s} : nv'[x] = nv[x]) /\ nv'[s] # "idle"
    BY <1>1, <1>9 DEF Answered, AnswerTypes
  <1>12. /\ received'[s] = received[s] + units
         /\ dispatched'[s] = dispatched[s] + messages
         /\ body'[s] = held
    BY <1>1, <1>2, <1>9 DEF RequestTypes
  <1>13. /\ IF Incremental(c)
            THEN received'[s] = 2 * dispatched'[s] + body'[s] /\ body'[s] \in 0 .. 1
            ELSE dispatched'[s] = 0 /\ body'[s] = received'[s]
         /\ dispatched'[s] \in Nat /\ body'[s] \in Nat
         /\ received'[s] \in 0 .. MaxUnits
    <2>1. Receiving(s)
      BY <1>1
    <2>2. CASE Incremental(c)
      <3>1. received[s] = 2 * dispatched[s] + body[s]
        BY <2>1, <2>2 DEF Receiving, c
      <3>2. /\ messages \in Nat /\ held \in 0 .. 1
            /\ body[s] + units = 2 * messages + held
        BY <1>6, <1>7, <2>2
      <3> QED BY <1>2, <1>4, <1>12, <2>2, <3>1, <3>2
    <2>3. CASE ~Incremental(c)
      <3>1. dispatched[s] = 0 /\ body[s] = received[s]
        BY <2>1, <2>3 DEF Receiving, c
      <3>2. messages = 0 /\ held = body[s] + units
        BY <1>7, <2>3
      <3> QED BY <1>2, <1>4, <1>12, <2>3, <3>1, <3>2
    <2> QED BY <2>2, <2>3
  <1>14. RequestTypes'
    <2>1. /\ received'[s] \in 0 .. MaxUnits /\ dispatched'[s] \in 0 .. MaxUnits
          /\ body'[s] \in 0 .. MaxUnits
      <3> DEFINE d == dispatched'[s]
                 b == body'[s]
                 v == received'[s]
      <3>1. d \in Nat /\ b \in Nat /\ v \in 0 .. MaxUnits /\ (v = 2 * d + b \/ (d = 0 /\ b = v))
        BY <1>13
      <3> HIDE DEF d, b, v
      <3>2. d \in 0 .. MaxUnits /\ b \in 0 .. MaxUnits
        BY <3>1
      <3> QED BY <1>13, <3>2 DEF d, b
    <2> QED BY <1>1, <1>2, <1>9, <2>1 DEF RequestTypes
  <1>15. ASSUME NEW x \in Streams PROVE Receiving(x)'
    <2>1. CASE x = s
      BY <1>8, <1>11, <1>13, <2>1 DEF Receiving
    <2>2. CASE x # s
      BY <1>1, <1>2, <1>9, <1>11, <2>2 DEF Receiving, RequestTypes
    <2> QED BY <2>1, <2>2
  <1> QED BY <1>10, <1>14, <1>15, TypesSplitNext DEF IInv

-----------------------------------------------------------------------------
(* The invariant and what follows from it.                                 *)

LEMMA RequestTrailersStep ==
  ASSUME IInv, NEW s \in Streams, RequestTrailers(s) PROVE IInv'
  <1> DEFINE c == call[s]
             r == OpenedOnHeaders(s, c, resp[s])
             n == produced[s]
             opened == OpenedSet(s, c)
             held == body[s]
  <1>1. /\ nv[s] = "open" /\ FrameDone(s, c, r, n, opened, held, 0, TRUE)
        /\ UNCHANGED <<call, body, received>>
    BY DEF RequestTrailers
  <1>2. AnswerTypes /\ RequestTypes /\ \A x \in Streams : Answering(x) /\ Receiving(x)
    BY TypesSplit DEF IInv
  <1>3. /\ resp[s] \in Resp /\ n \in 0 .. MaxChunks /\ c \in Calls /\ s \notin subscribed
        /\ IF c.method = "bidi"
           THEN Flowing(resp[s], n) /\ s \in m_bidi_opened
           ELSE resp[s] = NoResponse /\ n = 0 /\ s \notin m_bidi_opened
        /\ n \in Nat /\ Cut(c, held)
    BY <1>1, <1>2 DEF AnswerTypes, RequestTypes, Answering, Receiving, Cut
  <1>4. r = resp[s]
    BY <1>3 DEF OpenedOnHeaders
  <1>5. Prepared(c, r, n)
    BY <1>3, <1>4 DEF Prepared
  <1>6. opened = IF c.method = "bidi" THEN m_bidi_opened \cup {s} ELSE m_bidi_opened
    BY DEF OpenedSet
  <1>7. call'[s] = c /\ \A x \in Streams \ {s} : call'[x] = call[x]
    BY <1>1
  <1> HIDE DEF r, n, c, opened, held
  <1>a. /\ Answered(s, c, r, n, opened, TRUE)
        /\ dispatched' = [dispatched EXCEPT ![s] = @ + 0]
    BY <1>1, <1>2, <1>3, NothingFoundAgain
  <1>8. AnswerTypes' /\ \A x \in Streams : Answering(x)'
    BY <1>3, <1>5, <1>6, <1>7, <1>a, FrameStep
  <1>9. RequestTypes' /\ \A x \in Streams : dispatched'[x] = dispatched[x]
    BY <1>1, <1>2, <1>a DEF RequestTypes
  <1>10. ASSUME NEW x \in Streams PROVE Receiving(x)'
    <2>1. nv'[x] = "idle" => nv[x] = "idle"
      BY <1>1, <1>2, <1>a DEF Answered, AnswerTypes
    <2> QED BY <1>1, <1>2, <1>9, <2>1 DEF Receiving
  <1> QED BY <1>8, <1>9, <1>10, TypesSplitNext DEF IInv

LEMMA NextIInv == ASSUME IInv, [Next]_vars PROVE IInv'
  <1>1. CASE UNCHANGED vars
    <2>1. AnswerTypes' /\ RequestTypes'
      BY <1>1, TypesSplit DEF IInv, AnswerTypes, RequestTypes, vars, request
    <2>2. \A s \in Streams : Answering(s)' /\ Receiving(s)'
      BY <1>1 DEF IInv, Answering, Receiving, vars, request
    <2> QED BY <2>1, <2>2, TypesSplitNext DEF IInv
  <1> QED BY <1>1, RequestHeadersStep, RequestDataStep, RequestTrailersStep, ResetStep,
             WindowUpdateStep, StreamSendStep DEF Next, Done

\* The containers keep their shapes and each stream's response stands where
\* nghttp2's stream is: for every set of streams and every bound.
THEOREM StreamInvariant == Spec => []IInv
  <1>1. Init => IInv
    BY InitIInv
  <1>2. IInv /\ [Next]_vars => IInv'
    BY NextIInv
  <1> QED BY <1>1, <1>2, PTL DEF Spec

\* The session's buffers, flags and counters keep their types.
THEOREM StreamTypeCorrect == Spec => []TypeOK
  BY StreamInvariant, PTL DEF IInv

\* submit_response, response_body_read, submit_trailer: what a client reads of
\* any answer is HEADERS, the chunks in order, and at most one END_STREAM.
THEOREM AnswersAreWellFormed == Spec => []WireGrammar
  <1>1. IInv => WireGrammar
    <2> SUFFICES ASSUME IInv, NEW s \in Streams, call[s].grpc \/ call[s].method # "bidi"
                 PROVE  \A i \in DOMAIN resp[s].wire :
                          /\ resp[s].wire[i] = Header <=> i = 1
                          /\ resp[s].wire[i] = End => i = Len(resp[s].wire)
                          /\ resp[s].wire[i] \notin {Header, End} =>
                               resp[s].wire[i] = Data(i - 1)
      BY DEF WireGrammar
    <2>1. AnswerTypes /\ Answering(s)
      BY TypesSplit DEF IInv
    <2>2. resp[s] \in Resp /\ produced[s] \in Nat
      BY <2>1 DEF AnswerTypes
    <2>3. Grammar(resp[s].wire)
      <3>1. CASE resp[s] = NoResponse
        BY <3>1 DEF Grammar, NoResponse
      <3>2. CASE Flowing(resp[s], produced[s])
        BY <2>2, <3>2, OpenGrammar
      <3> QED BY <2>1, <3>1, <3>2 DEF Answering, AnswerTypes
    <2>4. DOMAIN resp[s].wire = 1 .. Len(resp[s].wire)
      BY <2>2, LenProperties DEF Resp
    <2> QED BY <2>3, <2>4 DEF Grammar
  <1> QED BY <1>1, StreamInvariant, PTL

\* on_request_stream and on_request: a message of a client stream or a bidi
\* call is handed over once and as soon as it is complete, although the body is
\* decoded once more at END_STREAM.
THEOREM MessagesDispatchedOnce == Spec => []DispatchedOnce
  <1>1. IInv => DispatchedOnce
    <2> SUFFICES ASSUME IInv, NEW s \in Streams, Incremental(call[s])
                 PROVE  dispatched[s] = MessagesIn(received[s])
      BY DEF DispatchedOnce
    <2>1. /\ received[s] = 2 * dispatched[s] + body[s] /\ body[s] \in 0 .. 1
          /\ dispatched[s] \in Nat /\ received[s] \in Nat
      BY TypesSplit DEF IInv, Receiving, RequestTypes
    <2> DEFINE v == received[s]
               d == dispatched[s]
               b == body[s]
    <2>2. v \in Nat /\ d \in Nat /\ b \in 0 .. 1 /\ v = 2 * d + b
      BY <2>1
    <2> HIDE DEF v, d, b
    <2>3. v \div 2 = d
      BY <2>2
    <2> QED BY <2>3 DEF v, d, MessagesIn
  <1> QED BY <1>1, StreamInvariant, PTL

\* on_request answers every call the client has ended, or sub_hub keeps it.
THEOREM NoCallHangs == Spec => []NoHangingCall
  <1>1. IInv => NoHangingCall
    BY DEF IInv, Answering, NoHangingCall
  <1> QED BY <1>1, StreamInvariant, PTL

-----------------------------------------------------------------------------
(* No chunk waits for anything but the window.                             *)

\* A streaming response that is not finished: what it still holds back, it
\* holds back because the window is shut, with its provider ready to go on.
Fed(r) ==
  /\ r.streaming /\ ~r.finished
  /\ r.provider \in {"active", "deferred"}
  /\ r.resp_body # <<>> => r.provider = "active" /\ r.credit = 0

\* The streams whose response is open: a bidi call from its HEADERS on, a
\* subscription once it is answered.
Running(s) ==
  nv[s] = "half" \/ (nv[s] = "open" /\ call[s].method = "bidi")

Awake == \A s \in Streams : Running(s) => Fed(resp[s])

\* response_body_read: what it leaves behind fits this, whatever was pushed.
LEMMA DrainFeeds ==
  ASSUME NEW r \in Resp, r.streaming, ~r.finished,
         r.provider \in {"active", "deferred"},
         r.provider = "deferred" => r.resp_body = <<>>
  PROVE  /\ Fed(Drain(r))
         /\ Len(Drain(r).wire) >= Len(r.wire)
         /\ r.credit > 0 /\ r.resp_body # <<>> => Len(Drain(r).wire) > Len(r.wire)
  <1> DEFINE b == r.resp_body
             w == r.wire
             n == Taken(r)
             left == SubSeq(b, n + 1, Len(b))
             taken == SubSeq(b, 1, n)
  <1>1. /\ b \in Seq(Frames) /\ w \in Seq(Frames)
        /\ Len(b) \in Nat /\ Len(w) \in Nat /\ r.credit \in 0 .. Window
    BY LenProperties DEF Resp
  <1>2. CASE r.provider = "deferred" \/ r.credit = 0
    <2>1. Drain(r) = r BY <1>2 DEF Drain
    <2> QED BY <1>1, <1>2, <2>1 DEF Fed
  <1>3. CASE r.provider = "active" /\ r.credit # 0
    <2>1. /\ n \in 0 .. Len(b) /\ n <= r.credit
          /\ n = Len(b) \/ n = r.credit
      BY <1>1 DEF Taken
    <2> HIDE DEF n
    <2>2. /\ taken \in Seq(Frames) /\ Len(taken) = n
          /\ left \in Seq(Frames) /\ Len(left) = Len(b) - n
      BY <1>1, <2>1, CutSeq
    <2> HIDE DEF taken, left, w
    <2>3. w \o taken \in Seq(Frames) /\ Len(w \o taken) = Len(w) + n
      BY <1>1, <2>2, ConcatProperties
    <2> DEFINE d == Drain(r)
    <2> USE DEF w
    <2>4. /\ d.resp_body = left /\ d.credit = r.credit - n /\ d.wire = w \o taken
          /\ d.provider \in {"active", "deferred"} /\ (left # <<>> => d.provider = "active")
          /\ d.streaming = r.streaming /\ d.finished = r.finished
      BY <1>3 DEF Drain, Resp, n, taken, left
    <2> HIDE DEF d, w
    <2>5. left # <<>> => n = r.credit
      <3>1. left # <<>> => Len(left) # 0 BY <2>2, EmptySeq
      <3> QED BY <1>1, <2>1, <2>2, <3>1
    <2>6. b # <<>> => n > 0
      <3>1. b # <<>> => Len(b) # 0 BY <1>1, EmptySeq
      <3> QED BY <1>1, <1>3, <2>1, <3>1
    <2>7. Fed(d)
      BY <1>1, <2>4, <2>5 DEF Fed
    <2>8. Len(d.wire) = Len(w) + n BY <2>3, <2>4
    <2>9. Len(w) + n >= Len(w) /\ (n > 0 => Len(w) + n > Len(w)) BY <1>1, <2>1
    <2> QED BY <2>6, <2>7, <2>8, <2>9 DEF d, w
  <1> QED BY <1>2, <1>3

\* push_stream_data wakes the provider and the flush drains it.
LEMMA SentFeeds ==
  ASSUME NEW r \in Resp, NEW from \in Nat, NEW k \in Nat, from + k <= MaxChunks, Fed(r)
  PROVE  /\ Fed(StreamSent(r, Chunks(from, k)))
         /\ Len(StreamSent(r, Chunks(from, k)).wire) >= Len(r.wire)
  <1> DEFINE c == Chunks(from, k)
             p == PushStreamData(r, c)
  <1>1. p \in Resp BY PushKeeps
  <1>2. /\ p.streaming = r.streaming /\ p.finished = r.finished /\ p.wire = r.wire
        /\ p.provider = IF r.provider = "deferred" THEN "active" ELSE r.provider
    BY DEF PushStreamData, Resumed, Resp
  <1>3. StreamSent(r, c) = Drain(p) BY DEF StreamSent
  <1> HIDE DEF p, c
  <1>4. Fed(Drain(p)) /\ Len(Drain(p).wire) >= Len(p.wire)
    BY <1>1, <1>2, DrainFeeds DEF Fed
  <1> QED BY <1>2, <1>3, <1>4 DEF c

LEMMA RepliedFeeds ==
  ASSUME NEW c \in Calls, NEW r, NEW n, Prepared(c, r, n), NEW m,
         NEW k \in Replies(c, m, n), Fed(r)
  PROVE  /\ Fed(Replied(r, n, k))
         /\ Len(Replied(r, n, k).wire) >= Len(r.wire)
  <1>1. r \in Resp /\ Len(r.wire) \in Nat /\ n \in Nat /\ k \in Nat /\ n + k <= MaxChunks
    BY RepliedKeeps, LenProperties DEF Prepared, Resp
  <1>2. CASE k = 0 BY <1>1, <1>2 DEF Replied
  <1>3. CASE k # 0 BY <1>1, <1>3, SentFeeds DEF Replied
  <1> QED BY <1>2, <1>3

\* submit_response_stream: the opened response, drained.
LEMMA OpenFeeds == Fed(Drain(SubmitResponseStream(NoResponse)))
  <1> DEFINE q == SubmitResponseStream(NoResponse)
  <1>1. 0 \in 0 .. MaxChunks OBVIOUS
  <1>2. q \in Resp BY <1>1, OpenFlows
  <1>3. q.streaming /\ ~q.finished /\ q.provider = "active"
    BY DEF SubmitResponseStream, NoResponse
  <1> HIDE DEF q
  <1> QED BY <1>2, <1>3, DrainFeeds DEF q

\* on_request leaves a response open only for a subscription, and that is fed.
LEMMA AnswersFed ==
  ASSUME NEW c \in Calls, NEW r, NEW n, Prepared(c, r, n), NEW a \in Answers(c, r, n)
  PROVE  /\ c.method = "bidi" => a.resp.provider = "shut"
         /\ a.resp.provider # "shut" => Fed(a.resp)
  <1> USE DEF Answer
  <1>1. r \in Resp /\ n \in 0 .. MaxChunks /\ c.method \in Methods
    BY DEF Prepared, Calls
  <1>2. CASE ~c.grpc
    <2>1. a.resp = UnsupportedMediaType(r) BY <1>2 DEF Answers
    <2>2. UnsupportedMediaType(r).provider = "shut"
      BY <1>1 DEF UnsupportedMediaType, Resp
    <2> QED BY <2>1, <2>2
  <1>3. CASE c.grpc /\ c.method = "bidi"
    BY <1>1, <1>3, FinishedEnds DEF Answers
  <1>4. CASE c.grpc /\ c.method = "server"
    <2> DEFINE o == Drain(SubmitResponseStream(NoResponse))
               synced == StreamSent(o, Chunks(0, 1))
    <2>1. r = NoResponse BY <1>4 DEF Prepared
    <2>2. o \in Resp /\ Fed(o)
      <3>1. 0 \in 0 .. MaxChunks OBVIOUS
      <3> QED BY <3>1, OpenFlows, OpenFeeds, DrainKeeps
    <2>3. a \in Subscription(o) BY <1>4, <2>1 DEF Answers
    <2> HIDE DEF o
    <2>4. synced \in Resp /\ Fed(synced)
      <3>1. 0 \in Nat /\ 1 \in Nat /\ 0 + 1 <= MaxChunks OBVIOUS
      <3> QED BY <2>2, <3>1, SentKeeps, SentFeeds
    <2>5. \/ a.resp = StreamFinished(o) \/ a.resp = StreamFinished(synced)
          \/ a.resp = synced
      BY <2>3 DEF Subscription
    <2> HIDE DEF synced
    <2> QED BY <1>4, <2>2, <2>4, <2>5, FinishedEnds
  <1>5. CASE c.grpc /\ c.method \notin {"bidi", "server"}
    <2>1. r = NoResponse BY <1>5 DEF Prepared
    <2>2. \E len \in 1 .. MaxChunks : a.resp = UnaryResponse(r, Chunks(0, len))
      BY <1>5 DEF Answers
    <2>3. \A len \in 1 .. MaxChunks : len \in 0 .. MaxChunks OBVIOUS
    <2> QED BY <1>5, <2>1, <2>2, <2>3, UnaryEnds
  <1> QED BY <1>2, <1>3, <1>4, <1>5

\* What a step does to a stream whose response is open: it goes on, with no
\* chunk taken back, or the stream is closed.
Onward(s) ==
  \/ nv'[s] = "closed"
  \/ /\ Running(s)' /\ Fed(resp'[s])
     /\ produced'[s] >= produced[s]
     /\ Len(resp'[s].wire) >= Len(resp[s].wire)

LEMMA FrameFeeds ==
  ASSUME IInv, Awake, NEW s \in Streams, NEW c \in Calls, NEW r, NEW n, NEW opened,
         NEW end \in BOOLEAN,
         Answered(s, c, r, n, opened, end), Prepared(c, r, n),
         call'[s] = c, \A x \in Streams \ {s} : call'[x] = call[x],
         c.method = "bidi" => Fed(r)
  PROVE  /\ Awake'
         /\ \A x \in Streams \ {s} : Running(x) => Onward(x)
         /\ Running(s) /\ c.method = "bidi" /\ n >= produced[s]
              /\ Len(r.wire) >= Len(resp[s].wire) => Onward(s)
  <1>1. AnswerTypes /\ \A x \in Streams : Answering(x)
    BY TypesSplit DEF IInv
  <1>2. PICK a \in IF end THEN Answers(c, r, n) ELSE {Answer(r, n, FALSE)} :
          /\ resp' = [resp EXCEPT ![s] = a.resp]
          /\ produced' = [produced EXCEPT ![s] = a.produced]
          /\ nv' = [nv EXCEPT ![s] = IF ~end THEN "open"
                                     ELSE IF a.resp.provider = "shut" THEN "closed"
                                     ELSE "half"]
    BY DEF Answered
  <1>3. /\ end => /\ c.method = "bidi" => a.resp.provider = "shut"
                  /\ a.resp.provider # "shut" => Fed(a.resp)
        /\ ~end => a.resp = r /\ a.produced = n
    <2>1. CASE end BY <1>2, <2>1, AnswersFed
    <2>2. CASE ~end BY <1>2, <2>2 DEF Answer
    <2> QED BY <2>1, <2>2
  <1>4. /\ nv'[s] = IF ~end THEN "open"
                    ELSE IF a.resp.provider = "shut" THEN "closed" ELSE "half"
        /\ resp'[s] = a.resp /\ produced'[s] = a.produced
    BY <1>1, <1>2 DEF AnswerTypes
  <1>5. \A x \in Streams \ {s} :
          /\ nv'[x] = nv[x] /\ resp'[x] = resp[x] /\ produced'[x] = produced[x]
          /\ produced[x] \in Nat /\ Len(resp[x].wire) \in Nat
    BY <1>1, <1>2, LenProperties DEF AnswerTypes, Resp
  <1>6. Running(s)' => Fed(resp'[s])
    BY <1>3, <1>4 DEF Running
  <1>7. \A x \in Streams \ {s} : Running(x)' <=> Running(x)
    BY <1>5 DEF Running
  <1>8. Awake'
    BY <1>5, <1>6, <1>7 DEF Awake
  <1>9. \A x \in Streams \ {s} : Running(x) => Onward(x)
    <2> SUFFICES ASSUME NEW x \in Streams \ {s}, Running(x) PROVE Onward(x) OBVIOUS
    <2>1. Fed(resp[x]) /\ Running(x)' BY <1>7 DEF Awake
    <2> QED BY <1>5, <2>1 DEF Onward
  <1>10. Running(s) /\ c.method = "bidi" /\ n >= produced[s]
              /\ Len(r.wire) >= Len(resp[s].wire) => Onward(s)
    <2>1. CASE end BY <1>3, <1>4, <2>1 DEF Onward
    <2>2. CASE ~end
      <3>1. c.method = "bidi" => Running(s)' /\ Fed(resp'[s])
        BY <1>3, <1>4, <2>2 DEF Running
      <3> QED BY <1>3, <1>4, <2>2, <3>1 DEF Onward
    <2> QED BY <2>1, <2>2
  <1> QED BY <1>8, <1>9, <1>10

\* A step that only moves the response of one stream on.
LEMMA RecordFeeds ==
  ASSUME IInv, Awake, NEW s \in Streams, NEW r \in Resp, NEW n \in Nat,
         Fed(r), n >= produced[s], Len(r.wire) >= Len(resp[s].wire),
         resp' = [resp EXCEPT ![s] = r], produced' = [produced EXCEPT ![s] = n],
         UNCHANGED <<nv, request>>
  PROVE  Awake' /\ \A x \in Streams : Running(x) => Onward(x)
  <1>1. /\ resp'[s] = r /\ produced'[s] = n
        /\ \A x \in Streams \ {s} : resp'[x] = resp[x] /\ produced'[x] = produced[x]
        /\ \A x \in Streams : produced[x] \in Nat /\ Len(resp[x].wire) \in Nat
    BY TypesSplit, LenProperties DEF IInv, AnswerTypes, Resp
  <1>2. \A x \in Streams : Running(x)' <=> Running(x)
    BY DEF Running, request
  <1>3. \A x \in Streams : Running(x) => Fed(resp'[x])
    BY <1>1 DEF Awake
  <1>4. Awake' BY <1>2, <1>3 DEF Awake
  <1>5. ASSUME NEW x \in Streams, Running(x) PROVE Onward(x)
    <2>1. produced'[x] >= produced[x] /\ Len(resp'[x].wire) >= Len(resp[x].wire)
      BY <1>1
    <2> QED BY <1>2, <1>3, <1>5, <2>1 DEF Onward
  <1> QED BY <1>4, <1>5

\* The stream's window opens by one chunk.
LEMMA WindowFeeds ==
  ASSUME IInv, Awake, NEW s \in Streams, WindowUpdate(s)
  PROVE  /\ Awake' /\ \A x \in Streams : Running(x) => Onward(x)
         /\ Running(s) /\ resp[s].resp_body # <<>> =>
              Len(resp'[s].wire) > Len(resp[s].wire)
  <1>1. AnswerTypes /\ Answering(s) /\ resp[s] \in Resp /\ produced[s] \in 0 .. MaxChunks
    BY TypesSplit DEF IInv, AnswerTypes
  <1>2. HasContext(s) /\ resp[s].credit < Window
    BY DEF WindowUpdate
  <1>3. Running(s) /\ Fed(resp[s])
    <2>1. resp[s] # NoResponse BY <1>2 DEF NoResponse
    <2>2. Running(s) BY <1>1, <1>2, <2>1 DEF Answering, HasContext, Running
    <2> QED BY <2>2 DEF Awake
  <1> DEFINE r == [resp[s] EXCEPT !.credit = @ + 1]
  <1>4. /\ r \in Resp /\ r.wire = resp[s].wire /\ r.resp_body = resp[s].resp_body
        /\ r.provider = resp[s].provider /\ r.streaming = resp[s].streaming
        /\ r.finished = resp[s].finished /\ r.credit > 0
    <2>1. resp[s].credit + 1 \in 0 .. Window /\ resp[s].credit + 1 > 0
      BY <1>1, <1>2 DEF Resp
    <2> QED BY <1>1, <2>1 DEF Resp
  <1>5. resp' = [resp EXCEPT ![s] = Drain(r)]
    BY DEF WindowUpdate
  <1> HIDE DEF r
  <1>6. /\ Drain(r) \in Resp /\ Fed(Drain(r)) /\ Len(Drain(r).wire) >= Len(resp[s].wire)
        /\ resp[s].resp_body # <<>> => Len(Drain(r).wire) > Len(resp[s].wire)
    BY <1>3, <1>4, DrainFeeds, DrainKeeps DEF Fed
  <1>7. produced' = [produced EXCEPT ![s] = produced[s]] /\ UNCHANGED <<nv, request>>
        /\ resp'[s] = Drain(r) /\ produced[s] \in Nat /\ produced[s] >= produced[s]
    BY <1>1, <1>5 DEF WindowUpdate, AnswerTypes
  <1> DEFINE d == Drain(r)
             n == produced[s]
  <1>8. /\ d \in Resp /\ Fed(d) /\ Len(d.wire) >= Len(resp[s].wire) /\ n \in Nat
        /\ n >= produced[s] /\ resp' = [resp EXCEPT ![s] = d]
        /\ produced' = [produced EXCEPT ![s] = n] /\ UNCHANGED <<nv, request>>
    BY <1>5, <1>6, <1>7
  <1> HIDE DEF d, n
  <1>9. Awake' /\ \A x \in Streams : Running(x) => Onward(x)
    BY <1>8, RecordFeeds
  <1> QED BY <1>6, <1>7, <1>9

\* A hub pushes one chunk.
LEMMA PushFeeds ==
  ASSUME IInv, Awake, NEW s \in Streams, StreamSend(s)
  PROVE  Awake' /\ \A x \in Streams : Running(x) => Onward(x)
  <1>1. AnswerTypes /\ Answering(s) /\ resp[s] \in Resp /\ produced[s] \in 0 .. MaxChunks
    BY TypesSplit DEF IInv, AnswerTypes
  <1>2. /\ s \in m_bidi_opened \cup subscribed /\ HasContext(s) /\ produced[s] < MaxChunks
        /\ resp' = [resp EXCEPT ![s] = StreamSent(@, Chunks(produced[s], 1))]
        /\ produced' = [produced EXCEPT ![s] = @ + 1]
        /\ UNCHANGED <<nv, request>>
    BY DEF StreamSend
  <1>3. Fed(resp[s])
    <2>1. Running(s) BY <1>1, <1>2 DEF Answering, HasContext, Running
    <2> QED BY <2>1 DEF Awake
  <1> DEFINE p == produced[s]
             r == StreamSent(resp[s], Chunks(p, 1))
  <1>4. p \in Nat /\ 1 \in Nat /\ p + 1 <= MaxChunks /\ p + 1 \in Nat /\ p + 1 >= p
    BY <1>1, <1>2
  <1>5. r \in Resp /\ Fed(r) /\ Len(r.wire) >= Len(resp[s].wire)
    <2> HIDE DEF p
    <2> QED BY <1>1, <1>3, <1>4, SentKeeps, SentFeeds
  <1>6. resp' = [resp EXCEPT ![s] = r] /\ produced' = [produced EXCEPT ![s] = p + 1]
    BY <1>1, <1>2 DEF AnswerTypes
  <1> DEFINE n == p + 1
  <1>7. n \in Nat /\ n >= produced[s] /\ produced' = [produced EXCEPT ![s] = n]
    BY <1>4, <1>6
  <1> HIDE DEF r, p, n
  <1> QED BY <1>2, <1>5, <1>6, <1>7, RecordFeeds

\* HEADERS, DATA and trailers of a request: a bidi response is opened, or fed
\* with the replies, and nothing else on the connection moves.
LEMMA HeadersFeed ==
  ASSUME IInv, Awake, NEW s \in Streams, NEW c \in Calls, NEW greetings \in 0 .. 1,
         NEW end \in BOOLEAN, RequestHeaders(s, c, greetings, end)
  PROVE  Awake' /\ \A x \in Streams : Running(x) => Onward(x)
  <1> DEFINE o == OpenedOnHeaders(s, c, resp[s])
             r == Replied(o, 0, greetings)
             opened == OpenedSet(s, c)
             held == body[s]
  <1>1. /\ nv[s] = "idle" /\ (greetings > 0 => c.method = "bidi")
        /\ call' = [call EXCEPT ![s] = c]
        /\ FrameDone(s, c, r, greetings, opened, held, 0, end)
    BY DEF RequestHeaders
  <1>2. AnswerTypes /\ RequestTypes /\ Answering(s) /\ Receiving(s)
    BY TypesSplit DEF IInv
  <1>3. resp[s] = NoResponse /\ s \notin m_bidi_opened /\ held = 0
    BY <1>1, <1>2 DEF Answering, Receiving
  <1>4. Prepared(c, r, greetings)
    BY <1>1, <1>3, GreetingPrepared
  <1>5. ASSUME c.method = "bidi" PROVE Fed(r)
    <2> DEFINE q == SubmitResponseStream(NoResponse)
    <2>1. q \in Resp /\ Flowing(q, 0) /\ Fed(Drain(q))
      <3>1. 0 \in 0 .. MaxChunks OBVIOUS
      <3> QED BY <3>1, OpenFlows, OpenFeeds
    <2>2. o = Drain(q)
      BY <1>3, <1>5 DEF OpenedOnHeaders
    <2> HIDE DEF q, o
    <2>3. Prepared(c, o, 0) /\ Fed(o)
      BY <1>5, <2>1, <2>2, DrainKeeps DEF Prepared
    <2>4. greetings \in Replies(c, 1, 0)
      BY <1>5 DEF Replies
    <2> QED BY <2>3, <2>4, RepliedFeeds
  <1> HIDE DEF r, o, opened, held
  <1>6. call'[s] = c /\ \A x \in Streams \ {s} : call'[x] = call[x]
    BY <1>1, <1>2 DEF RequestTypes
  <1>7. Answered(s, c, r, greetings, opened, end)
    <2>1. FrameDone(s, c, r, greetings, opened, held, 0, end) /\ RequestTypes
      BY <1>1, <1>2
    <2>2. Cut(c, held) /\ greetings \in Nat /\ 0 \in Nat
      BY <1>3 DEF Cut
    <2>3. /\ dispatched' = [dispatched EXCEPT ![s] = @ + 0]
          /\ Answered(s, c, r, greetings, opened, end)
      BY ONLY <2>1, <2>2, end \in BOOLEAN, s \in Streams, NothingFoundAgain
    <2> QED BY <2>3
  <1>8. Awake' /\ \A x \in Streams \ {s} : Running(x) => Onward(x)
    BY <1>4, <1>5, <1>6, <1>7, FrameFeeds
  <1>9. ~Running(s) BY <1>1 DEF Running
  <1> QED BY <1>8, <1>9

LEMMA DataFeeds ==
  ASSUME IInv, Awake, NEW s \in Streams, NEW units \in 0 .. MaxUnits,
         NEW end \in BOOLEAN, RequestData(s, units, end)
  PROVE  Awake' /\ \A x \in Streams : Running(x) => Onward(x)
  <1> DEFINE c == call[s]
             p == produced[s]
             arrived == body[s] + units
             messages == Dispatches(c, arrived)
             held == IF Incremental(c) THEN LeftInBody(arrived) ELSE arrived
             opened == m_bidi_opened
  <1>1. AnswerTypes /\ RequestTypes /\ Answering(s) /\ Receiving(s)
    BY TypesSplit DEF IInv
  <1>2. nv[s] = "open" /\ UNCHANGED call
    BY DEF RequestData
  <1>3. PICK k \in Replies(c, messages, p) :
          FrameDone(s, c, Replied(resp[s], p, k), p + k, opened, held, messages, end)
    BY DEF RequestData
  <1> DEFINE r == Replied(resp[s], p, k)
             n == p + k
  <1>4. c \in Calls /\ arrived \in Nat /\ Prepared(c, resp[s], p)
    BY <1>1, <1>2 DEF AnswerTypes, RequestTypes, Answering, Prepared
  <1>5. Prepared(c, r, n) /\ n \in Nat /\ n >= p
    <2>1. Prepared(c, r, n) /\ k \in Nat /\ p \in Nat
      BY <1>4, RepliedKeeps
    <2> QED BY <2>1
  <1>6. c.method = "bidi" => Fed(r) /\ Len(r.wire) >= Len(resp[s].wire)
    <2>1. c.method = "bidi" => Fed(resp[s])
      BY <1>2 DEF Awake, Running
    <2> QED BY <1>4, <2>1, RepliedFeeds
  <1>7. messages \in Nat /\ Cut(c, held)
    BY <1>4, MessagesTaken DEF Dispatches, Cut
  <1>8. call'[s] = c /\ \A x \in Streams \ {s} : call'[x] = call[x]
    BY <1>2
  <1>9. n >= produced[s] /\ (Running(s) => c.method = "bidi")
    BY <1>2, <1>5 DEF Running
  <1> HIDE DEF r, n, c, opened, p, messages, held
  <1>10. Answered(s, c, r, n, opened, end)
    <2>1. FrameDone(s, c, r, n, opened, held, messages, end)
      BY <1>3 DEF r, n
    <2>2. RequestTypes /\ Cut(c, held) /\ n \in Nat /\ messages \in Nat
      BY <1>1, <1>5, <1>7
    <2>3. /\ dispatched' = [dispatched EXCEPT ![s] = @ + messages]
          /\ Answered(s, c, r, n, opened, end)
      BY ONLY <2>1, <2>2, end \in BOOLEAN, s \in Streams, NothingFoundAgain
    <2> QED BY <2>3
  <1>11. /\ Awake' /\ \A x \in Streams \ {s} : Running(x) => Onward(x)
         /\ Running(s) => Onward(s)
    BY <1>4, <1>5, <1>6, <1>8, <1>9, <1>10, FrameFeeds
  <1> QED BY <1>11

LEMMA TrailersFeed ==
  ASSUME IInv, Awake, NEW s \in Streams, RequestTrailers(s)
  PROVE  Awake' /\ \A x \in Streams : Running(x) => Onward(x)
  <1> DEFINE c == call[s]
             r == OpenedOnHeaders(s, c, resp[s])
             n == produced[s]
             opened == OpenedSet(s, c)
             end == TRUE
             held == body[s]
  <1>1. /\ nv[s] = "open" /\ FrameDone(s, c, r, n, opened, held, 0, end)
        /\ UNCHANGED call
    BY DEF RequestTrailers
  <1>2. AnswerTypes /\ RequestTypes /\ Answering(s) /\ Receiving(s)
    BY TypesSplit DEF IInv
  <1>3. /\ resp[s] \in Resp /\ n \in 0 .. MaxChunks /\ c \in Calls
        /\ IF c.method = "bidi"
           THEN Flowing(resp[s], n) /\ s \in m_bidi_opened
           ELSE resp[s] = NoResponse /\ n = 0 /\ s \notin m_bidi_opened
        /\ n \in Nat /\ Cut(c, held)
    BY <1>1, <1>2 DEF AnswerTypes, RequestTypes, Answering, Receiving, Cut
  <1>4. r = resp[s]
    BY <1>3 DEF OpenedOnHeaders
  <1>5. Prepared(c, r, n) /\ (c.method = "bidi" => Fed(r))
    BY <1>1, <1>3, <1>4 DEF Prepared, Awake, Running
  <1>6. call'[s] = c /\ \A x \in Streams \ {s} : call'[x] = call[x]
    BY <1>1
  <1>7. /\ n >= produced[s] /\ Len(r.wire) >= Len(resp[s].wire)
        /\ Running(s) => c.method = "bidi"
    <2>1. Len(resp[s].wire) \in Nat BY <1>3, LenProperties DEF Resp
    <2>2. Len(r.wire) >= Len(resp[s].wire) BY <1>4, <2>1
    <2> QED BY <1>1, <1>3, <2>2 DEF Running
  <1>8. end \in BOOLEAN OBVIOUS
  <1> HIDE DEF r, n, c, opened, end, held
  <1>a. Answered(s, c, r, n, opened, end)
    <2>1. FrameDone(s, c, r, n, opened, held, 0, end) /\ RequestTypes /\ 0 \in Nat
      BY <1>1, <1>2
    <2>2. n \in Nat /\ Cut(c, held) /\ end \in BOOLEAN
      BY <1>3, <1>8
    <2> QED BY ONLY <2>1, <2>2, s \in Streams, NothingFoundAgain
  <1>9. /\ Awake' /\ \A x \in Streams \ {s} : Running(x) => Onward(x)
        /\ Running(s) => Onward(s)
    BY <1>3, <1>5, <1>6, <1>7, <1>8, <1>a, FrameFeeds
  <1> QED BY <1>9

LEMMA NextFeeds ==
  ASSUME IInv, Awake, [Next]_vars
  PROVE  Awake' /\ \A x \in Streams : Running(x) => Onward(x)
  <1>1. AnswerTypes BY TypesSplit DEF IInv
  <1>2. CASE UNCHANGED vars
    <2>1. \A x \in Streams : Running(x)' <=> Running(x)
      BY <1>2 DEF Running, vars, request
    <2>2. \A x \in Streams : produced[x] \in Nat /\ Len(resp[x].wire) \in Nat
      BY <1>1, LenProperties DEF AnswerTypes, Resp
    <2>3. UNCHANGED <<nv, resp, produced>> BY <1>2 DEF vars
    <2> QED BY <2>1, <2>2, <2>3 DEF Awake, Onward
  <1>3. ASSUME NEW s \in Streams, Reset(s)
        PROVE  Awake' /\ \A x \in Streams : Running(x) => Onward(x)
    <2>1. nv' = [nv EXCEPT ![s] = "closed"] /\ UNCHANGED <<call, resp, produced>>
      BY <1>3 DEF Reset, request
    <2>2. \A x \in Streams : nv'[x] = IF x = s THEN "closed" ELSE nv[x]
      BY <1>1, <2>1 DEF AnswerTypes
    <2>3. \A x \in Streams : Running(x)' <=> Running(x) /\ x # s
      BY <2>1, <2>2 DEF Running
    <2>4. \A x \in Streams : produced[x] \in Nat /\ Len(resp[x].wire) \in Nat
      BY <1>1, LenProperties DEF AnswerTypes, Resp
    <2> QED BY <2>1, <2>2, <2>3, <2>4 DEF Awake, Onward
  <1> QED BY <1>2, <1>3, HeadersFeed, DataFeeds, TrailersFeed, WindowFeeds, PushFeeds
          DEF Next, Done

LEMMA InitAwake == ASSUME Init PROVE Awake
BY DEF Init, Awake, Running

\* push_stream_data, response_body_read: no wakeup is lost. However pushes,
\* flushes and window updates meet, a chunk that is held back is held back by
\* the client's window alone, and its provider is not asleep.
THEOREM NoChunkSleeps == Spec => []Awake
BY InitAwake, NextFeeds, StreamInvariant, PTL DEF Spec

-----------------------------------------------------------------------------
(* The chunks move on, under fairness.                                     *)

\* Of at least n chunks produced on s, the n-th is not sent: k frames are.
Held(s, n, k) ==
  Running(s) /\ produced[s] >= n /\ Len(resp[s].wire) = k
Ahead(s, k)  == Len(resp[s].wire) > k
Closed(s)    == nv[s] = "closed"

\* A client that reads can send WINDOW_UPDATE, as the guard says. The provers
\* cannot compute ENABLED, so this is a hypothesis of what follows.
WindowMayOpen(s) ==
  [](HasContext(s) /\ resp[s].credit < Window => ENABLED <<WindowUpdate(s)>>_vars)

\* The step of the argument that a pushed chunk is sent (PushedIsSent): as long
\* as it is not, one more frame goes out, or the stream is closed.
FrameGoesOut(s, n, k) ==
  produced[s] >= n /\ Len(resp[s].wire) = k ~> Len(resp[s].wire) > k \/ nv[s] = "closed"
WindowOpens(s) == WF_vars(WindowUpdate(s))


LEMMA HeldIsShut ==
  ASSUME IInv, Awake, NEW s \in Streams, NEW n \in 1 .. MaxChunks, NEW k \in 0 .. n,
         Held(s, n, k)
  PROVE  HasContext(s) /\ resp[s].credit < Window /\ resp[s].resp_body # <<>>
  <1> DEFINE b == resp[s].resp_body
             p == produced[s]
  <1>1. AnswerTypes /\ Answering(s) /\ resp[s] \in Resp
    BY TypesSplit DEF IInv, AnswerTypes
  <1>2. Running(s) /\ p >= n /\ Len(resp[s].wire) = k BY DEF Held
  <1>3. Flowing(resp[s], p) /\ HasContext(s)
    BY <1>1, <1>2 DEF Answering, Running, HasContext
  <1>4. k - 1 + Len(b) = p BY <1>2, <1>3 DEF Flowing
  <1>5. b # <<>>
    <2> SUFFICES ASSUME b = <<>> PROVE FALSE OBVIOUS
    <2>1. Len(b) = 0 OBVIOUS
    <2> DEFINE l == Len(b)
    <2>2. l = 0 /\ k - 1 + l = p BY <1>4, <2>1
    <2> HIDE DEF l, p, b
    <2> QED BY <1>2, <2>2
  <1>6. resp[s].credit = 0
    BY <1>2, <1>5 DEF Awake, Fed
  <1> QED BY <1>3, <1>5, <1>6

LEMMA HeldGoesOn ==
  ASSUME IInv, Awake, [Next]_vars, NEW s \in Streams, NEW n \in 1 .. MaxChunks,
         NEW k \in 0 .. n, Held(s, n, k)
  PROVE  Held(s, n, k)' \/ Ahead(s, k)' \/ Closed(s)'
  <1>1. AnswerTypes /\ AnswerTypes'
    BY NextIInv, TypesSplit, TypesSplitNext DEF IInv
  <1>2. /\ produced[s] \in Nat /\ produced'[s] \in Nat
        /\ Len(resp[s].wire) \in Nat /\ Len(resp'[s].wire) \in Nat
    BY <1>1, LenProperties DEF AnswerTypes, Resp
  <1>3. Running(s) /\ produced[s] >= n /\ Len(resp[s].wire) = k BY DEF Held
  <1>4. CASE nv'[s] = "closed" BY <1>4 DEF Closed
  <1>5. CASE /\ Running(s)' /\ produced'[s] >= produced[s]
             /\ Len(resp'[s].wire) >= Len(resp[s].wire)
    <2> DEFINE w == Len(resp'[s].wire)
               v == Len(resp[s].wire)
               p == produced[s]
               q == produced'[s]
    <2>1. /\ w \in Nat /\ v = k /\ w >= v /\ p \in Nat /\ q \in Nat
          /\ p >= n /\ q >= p
      BY <1>2, <1>3, <1>5
    <2>2. (w = k /\ q >= n) => Held(s, n, k)' BY <1>5 DEF Held
    <2>3. w > k => Ahead(s, k)' BY DEF Ahead
    <2> HIDE DEF w, v, p, q
    <2>4. q >= n /\ (w = k \/ w > k) BY <2>1
    <2> QED BY <2>2, <2>3, <2>4
  <1> QED BY <1>3, <1>4, <1>5, NextFeeds DEF Onward

LEMMA HeldAtFirst ==
  ASSUME IInv, NEW s \in Streams, NEW n \in 1 .. MaxChunks, NEW k \in 0 .. n,
         produced[s] >= n, Len(resp[s].wire) = k
  PROVE  Held(s, n, k) \/ Closed(s)
  <1>1. AnswerTypes /\ Answering(s) BY TypesSplit DEF IInv
  <1>2. produced[s] # 0 BY <1>1 DEF AnswerTypes
  <1>3. nv[s] # "closed" => Running(s) BY <1>1, <1>2 DEF AnswerTypes, Answering, Running
  <1> QED BY <1>3 DEF Held, Closed

\* grpc_session::stream_send, and nghttp2 on a WINDOW_UPDATE: a stream that
\* holds chunks back sends another frame, whatever else happens on the
\* connection, from the fairness of its window updates.
LEMMA HeldChunkMoves ==
  ASSUME NEW s \in Streams, NEW n \in 1 .. MaxChunks, NEW k \in 0 .. n
  PROVE  Spec /\ WindowOpens(s) /\ WindowMayOpen(s) => FrameGoesOut(s, n, k)
  <1> DEFINE Open == HasContext(s) /\ resp[s].credit < Window
             Sent == produced[s] >= n /\ Len(resp[s].wire) = k
  <1>1. IInv /\ Awake => (Held(s, n, k) => Open)
    BY HeldIsShut
  <1>2. IInv /\ Awake /\ [Next]_vars =>
          (Held(s, n, k) => Held(s, n, k)' \/ Ahead(s, k)' \/ Closed(s)')
    BY HeldGoesOn
  <1>3. IInv /\ Awake /\ <<WindowUpdate(s)>>_vars => (Held(s, n, k) => Ahead(s, k)')
    <2> SUFFICES ASSUME IInv, Awake, WindowUpdate(s), Held(s, n, k) PROVE Ahead(s, k)'
      OBVIOUS
    <2>1. Len(resp'[s].wire) > Len(resp[s].wire)
      BY HeldIsShut, WindowFeeds DEF Held
    <2> QED BY <2>1 DEF Held, Ahead
  <1>4. IInv => (Sent => Held(s, n, k) \/ Closed(s))
    BY HeldAtFirst
  <1>5. Ahead(s, k) <=> Len(resp[s].wire) > k BY DEF Ahead
  <1>6. Closed(s) <=> nv[s] = "closed" BY DEF Closed
  <1> QED
    BY <1>1, <1>2, <1>3, <1>4, <1>5, <1>6, NoChunkSleeps, StreamInvariant, PTL
    DEF Spec, WindowOpens, WindowMayOpen, FrameGoesOut

\* The same of every stream and every number of chunks, from the fairness of
\* the specification.
THEOREM HeldChunksMove ==
  Spec /\ (\A s \in Streams : WindowMayOpen(s)) =>
    \A s \in Streams : \A n \in 1 .. MaxChunks : \A k \in 0 .. n : FrameGoesOut(s, n, k)
  <1>1. Spec => \A s \in Streams : WindowOpens(s)
    BY PTL DEF Spec, WindowOpens
  <1> QED BY <1>1, HeldChunkMoves

=============================================================================

-------------------------- MODULE GnmiClient_proofs --------------------------
(***************************************************************************)
(* Proofs about GnmiClient, for any sets of requests: a request completes  *)
(* exactly once, the unary calls implement AsyncCall, messages arrive      *)
(* whole and in order, and a report never changes. The first invariant     *)
(* (IInv) relates m_done, the count of completions, the socket and the     *)
(* trailer units still on the wire; the second (PInv) says that what was   *)
(* notified, what is buffered and what is on the wire are numbered in      *)
(* order; the third (Armed), that a unary call that waits has its read     *)
(* timer armed, so that by the fairness of the timer it completes.         *)
(***************************************************************************)
EXTENDS GnmiClient, SequenceTheorems, TLAPS

USE GnmiClientAssumption

Types ==
  /\ socket \in [Reqs -> {"none", "connecting", "up", "closed", "freed"}]
  /\ enabled \in [Reqs -> SUBSET {"read", "write"}]
  /\ wire \in [Reqs -> Seq(Unit)]
  /\ sent \in [Reqs -> Nat]
  /\ \A c \in Reqs : sent[c] <= Pieces(c)
  /\ over \in [Reqs -> BOOLEAN]
  /\ trailer \in [Reqs -> SUBSET Answers]

\* The completion of a request: its status is one a response may have, and a
\* request nobody has answered reads as failed.
Outcomes ==
  /\ m_done \in [Reqs -> BOOLEAN]
  /\ fired \in [Reqs -> Nat]
  /\ result = [c \in Reqs |-> result[c]]
  /\ \A c \in Reqs :
       /\ result[c].status \in {TransportError, OK, Unavailable}
       /\ ~m_done[c] => result[c].status = TransportError

\* A trailer on the wire is one the peer has sent.
TrailersAreSaid ==
  \A c \in Reqs : \A i \in 1..Len(wire[c]) :
    wire[c][i].kind = "trailer" => wire[c][i].arg \in trailer[c]

\* A request nobody has made is not done.
FreshIsOpen == \A c \in Reqs : socket[c] = "none" => ~m_done[c]

IInv == Types /\ Outcomes /\ TrailersAreSaid /\ FreshIsOpen /\ CompletedOnce

-----------------------------------------------------------------------------
(* What the steps do to a completion.                                      *)

\* A response the connection c may report now: a failure, or a status that
\* stands in a trailer on its wire. A closed subscription reports OK.
MayReport(c, r) ==
  \/ r.status = TransportError
  \/ c \in Subs /\ r.status = OK
  \/ \E s \in trailer[c] : r.status = StatusOf(c, s)

LEMMA StatusIsTyped ==
  ASSUME IInv, NEW c \in Reqs, NEW r, MayReport(c, r)
  PROVE  r.status \in {TransportError, OK, Unavailable}
  BY DEF IInv, Types, MayReport, StatusOf, Answers, TransportError, OK, NoStatus,
         Unavailable

\* finish keeps the outcomes in order, and leaves c done.
LEMMA FinishOutcomes ==
  ASSUME IInv, NEW c \in Reqs, NEW r, Finish(c, r), MayReport(c, r)
  PROVE  /\ Outcomes'
         /\ m_done' = [m_done EXCEPT ![c] = TRUE]
         /\ \A x \in Reqs : fired'[x] = IF m_done'[x] THEN 1 ELSE 0
  <1>1. r.status \in {TransportError, OK, Unavailable}
    BY StatusIsTyped
  <1>2. CASE m_done[c]
    BY <1>2 DEF IInv, Outcomes, CompletedOnce, Finish, outcome
  <1>3. CASE ~m_done[c]
    <2>1. /\ m_done' = [m_done EXCEPT ![c] = TRUE]
          /\ result' = [result EXCEPT ![c] = r]
          /\ fired' = [fired EXCEPT ![c] = @ + 1]
      BY <1>3 DEF Finish
    <2>2. \A x \in Reqs : result'[x] = IF x = c THEN r ELSE result[x]
      BY <2>1 DEF IInv, Outcomes
    <2>3. result' = [x \in Reqs |-> result'[x]]
      BY <2>1 DEF IInv, Outcomes
    <2>4. \A x \in Reqs : m_done'[x] = IF x = c THEN TRUE ELSE m_done[x]
      BY <2>1 DEF IInv, Outcomes
    <2>5. m_done' \in [Reqs -> BOOLEAN] /\ fired' \in [Reqs -> Nat]
      BY <2>1 DEF IInv, Outcomes
    <2>6. \A x \in Reqs : fired'[x] = IF m_done'[x] THEN 1 ELSE 0
      BY <2>1, <1>3 DEF IInv, Outcomes, CompletedOnce
    <2> QED
      BY <1>1, <2>1, <2>2, <2>3, <2>4, <2>5, <2>6 DEF IInv, Outcomes
  <1> QED BY <1>2, <1>3

\* What is left of the wire after a read are units that were on it.
LEMMA RestOfWire ==
  ASSUME IInv, NEW c \in Reqs, NEW n \in 1..Len(wire[c]),
         wire' = [wire EXCEPT ![c] = SubSeq(@, n + 1, Len(@))], trailer' = trailer
  PROVE  wire' \in [Reqs -> Seq(Unit)] /\ TrailersAreSaid'
  <1>1. wire[c] \in Seq(Unit) /\ Len(wire[c]) \in Nat
    BY DEF IInv, Types
  <1>2. \A i \in n + 1..Len(wire[c]) : wire[c][i] \in Unit
    BY <1>1
  <1> DEFINE left == SubSeq(wire[c], n + 1, Len(wire[c]))
  <1>3. /\ left \in Seq(Unit)
        /\ Len(left) = IF n + 1 <= Len(wire[c]) THEN Len(wire[c]) - n ELSE 0
        /\ \A i \in 1..Len(wire[c]) - n : left[i] = wire[c][n + i]
    <2>1. /\ left \in Seq(Unit)
          /\ Len(left) = IF n + 1 <= Len(wire[c])
                         THEN Len(wire[c]) - (n + 1) + 1 ELSE 0
          /\ \A i \in 1..Len(wire[c]) - (n + 1) + 1 :
               left[i] = wire[c][(n + 1) + i - 1]
      BY <1>1, <1>2, SubSeqProperties, n + 1 \in Int
    <2> HIDE DEF left
    <2> QED BY <2>1, <1>1
  <1>4. \A x \in Reqs : wire'[x] = IF x = c THEN left ELSE wire[x]
    BY DEF IInv, Types
  <1>5. wire' \in [Reqs -> Seq(Unit)]
    BY <1>3 DEF IInv, Types
  <1> HIDE DEF left
  <1>6. \A i \in 1..Len(left) : left[i].kind = "trailer" => left[i].arg \in trailer[c]
    <2> SUFFICES ASSUME NEW i \in 1..Len(left), left[i].kind = "trailer"
                 PROVE  left[i].arg \in trailer[c]
      OBVIOUS
    <2>1. i \in 1..Len(wire[c]) - n /\ n + i \in 1..Len(wire[c])
      BY <1>1, <1>3
    <2> QED BY <2>1, <1>3 DEF IInv, TrailersAreSaid
  <1> QED BY <1>4, <1>5, <1>6 DEF IInv, TrailersAreSaid

\* A read takes units off the wire and may complete the request with a
\* failure or with a status the peer has sent.
LEMMA ReadEffect ==
  ASSUME IInv, NEW c \in Reqs, HandleRead(c)
  PROVE  /\ wire' \in [Reqs -> Seq(Unit)] /\ TrailersAreSaid'
         /\ UNCHANGED <<link, sent, over, trailer>>
         /\ socket[c] = "up"
         /\ UNCHANGED outcome \/ \E r : Finish(c, r) /\ MayReport(c, r)
  <1> DEFINE taken(n) == SubSeq(wire[c], 1, n)
             buf(n) == rxbuf[c] \o [i \in 1..DataIn(taken(n)) |-> taken(n)[i].arg]
  <1>1. PICK n \in 1..Len(wire[c]) :
          /\ wire' = [wire EXCEPT ![c] = SubSeq(@, n + 1, Len(@))]
          /\ Ended(c, SubSeq(wire[c], 1, n)[n], buf(n))
    BY DEF HandleRead
  <1>2. UNCHANGED <<link, sent, over, trailer>> /\ socket[c] = "up"
    BY DEF HandleRead
  <1>3. wire' \in [Reqs -> Seq(Unit)] /\ TrailersAreSaid'
    BY <1>1, <1>2, RestOfWire
  <1>4. SubSeq(wire[c], 1, n)[n] = wire[c][n]
    <2>1. wire[c] \in Seq(Unit) BY DEF IInv, Types
    <2>2. \A i \in 1..n : wire[c][i] \in Unit BY <2>1
    <2>3. \A i \in 1..n - 1 + 1 : SubSeq(wire[c], 1, n)[i] = wire[c][1 + i - 1]
      BY <2>2, SubSeqProperties
    <2> QED BY <2>3
  <1> DEFINE last == wire[c][n]
             b == buf(n)
  <1>5. Ended(c, last, b)
    BY <1>1, <1>4
  <1>6. last.kind = "trailer" => last.arg \in trailer[c]
    BY DEF IInv, TrailersAreSaid
  <1> HIDE DEF last, b
  <1>7. UNCHANGED outcome \/ \E r : Finish(c, r) /\ MayReport(c, r)
    <2>1. CASE last.kind = "trailer"
      <3> DEFINE r == [status |-> StatusOf(c, last.arg), why |-> "trailer",
                       body |-> Body(c, b)]
      <3>1. Finish(c, r)
        BY <1>5, <2>1 DEF Ended
      <3>2. MayReport(c, r)
        BY <1>6, <2>1 DEF MayReport
      <3> QED BY <3>1, <3>2
    <2>2. CASE last.kind = "garbage"
      <3>1. Finish(c, Failed("protocol"))
        BY <1>5, <2>2 DEF Ended
      <3>2. MayReport(c, Failed("protocol"))
        BY DEF MayReport, Failed, NoResponse
      <3> QED BY <3>1, <3>2
    <2>3. CASE last.kind \notin {"trailer", "garbage"}
      BY <1>5, <2>3 DEF Ended
    <2> QED BY <2>1, <2>2, <2>3
  <1> QED BY <1>2, <1>3, <1>7

\* Every step either leaves the completions alone, or finishes one request
\* that has been made. The links move only forwards.
Finishes(c) ==
  /\ socket[c] # "none"
  /\ \E r : Finish(c, r) /\ MayReport(c, r)

LEMMA InitIInv == ASSUME Init PROVE IInv
  <1>1. Types
    BY DEF Init, Types, Pieces
  <1>2. Outcomes
    BY DEF Init, Outcomes, NoResponse
  <1>3. TrailersAreSaid /\ FreshIsOpen /\ CompletedOnce
    BY DEF Init, TrailersAreSaid, FreshIsOpen, CompletedOnce
  <1> QED BY <1>1, <1>2, <1>3 DEF IInv

\* A step that completes nothing and closes or frees only done requests.
LEMMA QuietStep ==
  ASSUME IInv, UNCHANGED outcome, Types', TrailersAreSaid',
         \A c \in Reqs : \/ socket'[c] = socket[c]
                         \/ socket[c] = "none" /\ socket'[c] = "connecting"
                         \/ socket'[c] = "up"
                         \/ m_done[c] /\ socket'[c] # "none"
  PROVE  IInv'
  <1>1. Outcomes'
    BY DEF IInv, Outcomes, outcome
  <1>2. FreshIsOpen'
    BY DEF IInv, FreshIsOpen, outcome
  <1>3. CompletedOnce'
    BY DEF IInv, CompletedOnce, outcome
  <1> QED BY <1>1, <1>2, <1>3 DEF IInv

\* A step that finishes c and may close its connection.
LEMMA FinishStep ==
  ASSUME IInv, NEW c \in Reqs, Finishes(c), Types', TrailersAreSaid',
         socket[c] # "none" => socket'[c] # "none",
         \A x \in Reqs \ {c} : socket'[x] = socket[x]
  PROVE  IInv'
  <1>1. PICK r : Finish(c, r) /\ MayReport(c, r)
    BY DEF Finishes
  <1>2. /\ Outcomes'
        /\ m_done' = [m_done EXCEPT ![c] = TRUE]
        /\ \A x \in Reqs : fired'[x] = IF m_done'[x] THEN 1 ELSE 0
    BY <1>1, FinishOutcomes
  <1>3. \A x \in Reqs : m_done'[x] = IF x = c THEN TRUE ELSE m_done[x]
    BY <1>2 DEF IInv, Outcomes
  <1>4. FreshIsOpen'
    BY <1>3 DEF IInv, FreshIsOpen, Finishes
  <1>5. CompletedOnce'
    BY <1>2, <1>3 DEF IInv, CompletedOnce
  <1> QED BY <1>2, <1>4, <1>5 DEF IInv

LEMMA PeerStep ==
  ASSUME IInv, NEW c \in Reqs, Peer(c)
  PROVE  IInv' /\ UNCHANGED <<link, outcome>>
  <1>1. UNCHANGED <<link, outcome>>
    BY DEF Peer, PeerSends, PeerAnswers, PeerBreaks
  <1>2. ASSUME NEW u \in Unit, wire' = [wire EXCEPT ![c] = Append(@, u)],
               \A x \in Reqs : trailer[x] \subseteq trailer'[x],
               u.kind = "trailer" => u.arg \in trailer'[c]
        PROVE  wire' \in [Reqs -> Seq(Unit)] /\ TrailersAreSaid'
    <2>1. wire[c] \in Seq(Unit)
      BY DEF IInv, Types
    <2>2. /\ Append(wire[c], u) \in Seq(Unit)
          /\ Len(Append(wire[c], u)) = Len(wire[c]) + 1
          /\ \A i \in 1..Len(wire[c]) : Append(wire[c], u)[i] = wire[c][i]
          /\ Append(wire[c], u)[Len(wire[c]) + 1] = u
      BY <2>1, AppendProperties
    <2>3. \A x \in Reqs : wire'[x] = IF x = c THEN Append(wire[c], u) ELSE wire[x]
      BY <1>2 DEF IInv, Types
    <2>4. wire' \in [Reqs -> Seq(Unit)]
      BY <1>2, <2>2 DEF IInv, Types
    <2>5. ASSUME NEW x \in Reqs, NEW i \in 1..Len(wire'[x]), wire'[x][i].kind = "trailer"
          PROVE  wire'[x][i].arg \in trailer'[x]
      <3>1. CASE x # c
        BY <2>3, <2>5, <3>1, <1>2 DEF IInv, TrailersAreSaid
      <3>2. CASE x = c /\ i = Len(wire[c]) + 1
        BY <2>2, <2>3, <2>5, <3>2, <1>2
      <3>3. CASE x = c /\ i # Len(wire[c]) + 1
        <4> DEFINE n == Len(wire[c])
        <4>d. wire'[x] = Append(wire[c], u)
          BY <2>3, <3>3
        <4>e. n \in Nat
          BY <2>1, LenProperties
        <4>a. n \in Nat /\ Len(wire'[x]) = n + 1
          BY <2>2, <4>d, <4>e
        <4>b. i \in 1..n + 1 /\ i # n + 1
          BY <4>a, <3>3
        <4> HIDE DEF n
        <4>c. i \in 1..n
          BY <4>a, <4>b
        <4>1. i \in 1..Len(wire[c])
          BY <4>c DEF n
        <4>2. wire'[x][i] = wire[c][i]
          BY <2>2, <2>3, <3>3, <4>1
        <4> QED BY <2>5, <3>3, <4>1, <4>2, <1>2 DEF IInv, TrailersAreSaid
      <3> QED BY <3>1, <3>2, <3>3
    <2> QED BY <2>4, <2>5 DEF TrailersAreSaid
  <1>3. CASE PeerSends(c)
    <2>1. sent[c] + 1 \in 1..2 * (MaxMsgs + 1)
      BY <1>3 DEF PeerSends, Pieces, IInv, Types, GnmiClientAssumption
    <2>2. Data(sent[c] + 1) \in Unit
      BY <2>1 DEF Data, Unit
    <2>3. wire' \in [Reqs -> Seq(Unit)] /\ TrailersAreSaid'
      <3> DEFINE u == Data(sent[c] + 1)
      <3>1. u.kind # "trailer"
        BY DEF Data
      <3>2. wire' = [wire EXCEPT ![c] = Append(@, u)] /\ trailer' = trailer
        BY <1>3 DEF PeerSends
      <3> HIDE DEF u
      <3> QED BY <2>2, <3>1, <3>2, <1>2 DEF u
    <2>4. Types'
      BY <1>3, <1>1, <2>3 DEF PeerSends, IInv, Types, Pieces, link
    <2> QED BY <1>1, <2>3, <2>4, QuietStep DEF link
  <1>4. ASSUME NEW s \in Answers, PeerAnswers(c, s) PROVE IInv'
    <2> DEFINE u == [kind |-> "trailer", arg |-> s]
    <2>1. u \in Unit /\ u.arg = s
      BY DEF Unit
    <2>2. /\ wire' = [wire EXCEPT ![c] = Append(@, u)]
          /\ trailer' = [trailer EXCEPT ![c] = @ \cup {s}]
          /\ over' = [over EXCEPT ![c] = TRUE]
          /\ sent' = sent
      BY <1>4 DEF PeerAnswers
    <2>3. \A x \in Reqs : trailer[x] \subseteq trailer'[x]
      BY <2>2 DEF IInv, Types
    <2>4. s \in trailer'[c]
      BY <2>2 DEF IInv, Types
    <2> HIDE DEF u
    <2>5. wire' \in [Reqs -> Seq(Unit)] /\ TrailersAreSaid'
      BY <2>1, <2>2, <2>3, <2>4, <1>2
    <2>6. Types'
      BY <1>1, <2>2, <2>5 DEF IInv, Types, link
    <2> QED BY <1>1, <2>5, <2>6, QuietStep DEF link
  <1>5. ASSUME NEW how \in {"reset", "garbage"}, PeerBreaks(c, how) PROVE IInv'
    <2> DEFINE u == [kind |-> how, arg |-> 0]
    <2>1. u \in Unit /\ u.kind # "trailer"
      BY DEF Unit
    <2>2. /\ wire' = [wire EXCEPT ![c] = Append(@, u)]
          /\ over' = [over EXCEPT ![c] = TRUE]
          /\ trailer' = trailer /\ sent' = sent
      BY <1>5 DEF PeerBreaks
    <2> HIDE DEF u
    <2>3. wire' \in [Reqs -> Seq(Unit)] /\ TrailersAreSaid'
      BY <2>1, <2>2, <1>2
    <2>4. Types'
      BY <1>1, <2>2, <2>3 DEF IInv, Types, link
    <2> QED BY <1>1, <2>3, <2>4, QuietStep DEF link
  <1> QED BY <1>1, <1>3, <1>4, <1>5 DEF Peer

\* The end of a connection and a timer of a unary call finish the request.
LEMMA CloseFinishes ==
  ASSUME NEW c \in Reqs, HandleClose(c)
  PROVE  Finishes(c)
  <1>1. socket[c] # "none"
    BY DEF HandleClose
  <1>2. CASE c \in Subs
    <2> DEFINE r == [status |-> OK, why |-> "closed", body |-> <<>>]
    <2>1. Finish(c, r)
      BY <1>2 DEF HandleClose
    <2>2. MayReport(c, r)
      BY <1>2 DEF MayReport
    <2> QED BY <1>1, <2>1, <2>2 DEF Finishes
  <1>3. CASE c \notin Subs
    <2>1. Finish(c, Failed("closed"))
      BY <1>3 DEF HandleClose
    <2>2. MayReport(c, Failed("closed"))
      BY DEF MayReport, Failed, NoResponse
    <2> QED BY <1>1, <2>1, <2>2 DEF Finishes
  <1> QED BY <1>2, <1>3

LEMMA TimeoutFinishes ==
  ASSUME NEW c \in Reqs, c \notin Subs, NEW dir, HandleEvent(c, dir)
  PROVE  Finishes(c)
  <1>1. socket[c] # "none" /\ Finish(c, Failed("timeout"))
    BY DEF HandleEvent
  <1>2. MayReport(c, Failed("timeout"))
    BY DEF MayReport, Failed, NoResponse
  <1> QED BY <1>1, <1>2 DEF Finishes

-----------------------------------------------------------------------------
(* The invariant.                                                          *)

LEMMA NextIInv == ASSUME IInv, [Next]_vars PROVE IInv'
  <1>1. ASSUME NEW c \in Reqs, Open(c) PROVE IInv'
    <2>1. UNCHANGED <<peer, outcome>>
      BY <1>1 DEF Open
    <2>2. \A x \in Reqs : socket'[x] = IF x = c THEN "connecting"
                                      ELSE IF Collected(c, x) THEN "freed"
                                      ELSE socket[x]
      BY <1>1 DEF Open
    <2>3. Types'
      BY <1>1, <2>1 DEF Open, IInv, Types, peer
    <2>4. TrailersAreSaid'
      BY <2>1 DEF IInv, TrailersAreSaid, peer
    <2> QED BY <1>1, <2>1, <2>2, <2>3, <2>4, QuietStep DEF Open, Collected
  <1>2. ASSUME NEW c \in Reqs, Return(c) PROVE IInv'
    <2>1. UNCHANGED <<peer, outcome>> /\ m_done[c]
      BY <1>2 DEF Return
    <2>2. Types' /\ TrailersAreSaid'
      BY <1>2, <2>1 DEF Return, IInv, Types, TrailersAreSaid, peer
    <2>3. \A x \in Reqs : socket'[x] = IF x = c THEN "freed" ELSE socket[x]
      BY <1>2 DEF Return, IInv, Types
    <2> QED BY <2>1, <2>2, <2>3, QuietStep
  <1>3. ASSUME NEW c \in Reqs, HandleConnect(c) PROVE IInv'
    <2>1. UNCHANGED <<peer, outcome>>
      BY <1>3 DEF HandleConnect
    <2>2. Types' /\ TrailersAreSaid'
      BY <1>3, <2>1 DEF HandleConnect, IInv, Types, TrailersAreSaid, peer
    <2>3. \A x \in Reqs : socket'[x] = IF x = c THEN "up" ELSE socket[x]
      BY <1>3 DEF HandleConnect, IInv, Types
    <2> QED BY <2>1, <2>2, <2>3, QuietStep
  <1>4. ASSUME NEW c \in Reqs, HandleRead(c) PROVE IInv'
    <2>1. /\ wire' \in [Reqs -> Seq(Unit)] /\ TrailersAreSaid'
          /\ UNCHANGED <<link, sent, over, trailer>>
          /\ socket[c] = "up"
          /\ UNCHANGED outcome \/ \E r : Finish(c, r) /\ MayReport(c, r)
      BY <1>4, ReadEffect
    <2>2. Types'
      BY <2>1 DEF IInv, Types, link
    <2>3. CASE UNCHANGED outcome
      BY <2>1, <2>2, <2>3, QuietStep DEF link
    <2>4. CASE \E r : Finish(c, r) /\ MayReport(c, r)
      <3>1. Finishes(c)
        BY <2>1, <2>4 DEF Finishes
      <3> QED BY <2>1, <2>2, <3>1, FinishStep DEF link
    <2> QED BY <2>1, <2>3, <2>4
  <1>5. ASSUME NEW c \in Reqs, HandleClose(c) PROVE IInv'
    <2>1. Finishes(c)
      BY <1>5, CloseFinishes
    <2>2. /\ UNCHANGED <<enabled, sent, over, trailer>>
          /\ socket' = [socket EXCEPT ![c] = "closed"]
          /\ wire' = [wire EXCEPT ![c] = <<>>]
      BY <1>5 DEF HandleClose
    <2>3. \A x \in Reqs : wire'[x] = IF x = c THEN <<>> ELSE wire[x]
      BY <2>2 DEF IInv, Types
    <2>4. wire' \in [Reqs -> Seq(Unit)]
      BY <2>2 DEF IInv, Types
    <2>5. TrailersAreSaid'
      BY <2>2, <2>3 DEF IInv, TrailersAreSaid
    <2>6. Types' /\ TrailersAreSaid'
      BY <2>2, <2>4, <2>5 DEF IInv, Types
    <2>7. \A x \in Reqs : socket'[x] = IF x = c THEN "closed" ELSE socket[x]
      BY <2>2 DEF IInv, Types
    <2> QED BY <2>1, <2>6, <2>7, FinishStep
  <1>6. ASSUME NEW c \in Reqs, NEW dir \in {"read", "write"}, HandleEvent(c, dir)
        PROVE  IInv'
    <2>1. UNCHANGED peer /\ socket' = socket
      BY <1>6 DEF HandleEvent
    <2>2. TrailersAreSaid'
      BY <2>1 DEF IInv, TrailersAreSaid, peer
    <2>3. CASE c \in Subs
      <3>1. UNCHANGED <<enabled, outcome>>
        BY <1>6, <2>3 DEF HandleEvent
      <3>2. Types'
        BY <2>1, <3>1 DEF IInv, Types, peer
      <3> QED BY <2>1, <2>2, <3>1, <3>2, QuietStep
    <2>4. CASE c \notin Subs
      <3>1. enabled' = [enabled EXCEPT ![c] = @ \ {dir}]
        BY <1>6, <2>4 DEF HandleEvent
      <3>2. Types'
        BY <2>1, <3>1 DEF IInv, Types, peer
      <3>3. Finishes(c)
        BY <1>6, <2>4, TimeoutFinishes
      <3> QED BY <2>1, <2>2, <3>2, <3>3, FinishStep
    <2> QED BY <2>3, <2>4
  <1>7. ASSUME NEW c \in Reqs, Peer(c) PROVE IInv'
    BY <1>7, PeerStep
  <1>8. CASE UNCHANGED vars
    <2>1. Types' /\ TrailersAreSaid'
      BY <1>8 DEF vars, link, peer, IInv, Types, TrailersAreSaid
    <2> QED BY <1>8, <2>1, QuietStep DEF vars, link
  <1> QED BY <1>1, <1>2, <1>3, <1>4, <1>5, <1>6, <1>7, <1>8 DEF Next, Quiet

\* In every reachable state, for any sets of requests, the completions are in
\* order and the statuses they carry are accounted for.
THEOREM ClientInvariant == Spec => []IInv
  <1> QED BY InitIInv, NextIInv, PTL DEF Spec

\* on_done of gnmi_client runs exactly once per request that ends.
THEOREM CallsCompleteOnce == Spec => []CompletedOnce
  <1>1. IInv => CompletedOnce
    BY DEF IInv
  <1> QED BY <1>1, ClientInvariant, PTL

\* The state of gnmi_client keeps its types.
THEOREM ClientTypeCorrect == Spec => []TypeOK
  <1>1. IInv => TypeOK
    <2> SUFFICES ASSUME IInv PROVE TypeOK
      OBVIOUS
    <2>1. \A c \in Reqs : \A i \in DOMAIN wire[c] : wire[c][i] \in Unit
      BY DEF IInv, Types
    <2>2. \A c \in Reqs : sent[c] \in 0..Pieces(c)
      BY DEF IInv, Types, Pieces, GnmiClientAssumption
    <2> QED BY <2>1, <2>2 DEF TypeOK, IInv, Types, Outcomes
  <1> QED BY <1>1, ClientInvariant, PTL

-----------------------------------------------------------------------------
(* Refinement: the unary calls implement AsyncCall.                        *)

\* A unary call completes with a status the peer sent, or with -1; AsyncCall
\* does not see the end of a subscription.
LEMMA FinishRefines ==
  ASSUME IInv, NEW c \in Reqs, Finishes(c), socket'[c] # "none",
         \A x \in Reqs \ {c} : socket'[x] = socket[x], trailer' = trailer
  PROVE  [Async!AsyncNext]_Async!asyncVars
  <1> DEFINE st == [x \in Unary |-> IF socket[x] = "none" THEN "idle"
                                    ELSE IF m_done[x] THEN "done" ELSE "pending"]
             sd == [x \in Unary |-> trailer[x]]
             oc == [x \in Unary |-> result[x].status]
  <1>1. PICK r : Finish(c, r) /\ MayReport(c, r)
    BY DEF Finishes
  <1>2. Unary \subseteq Reqs /\ (c \in Unary => c \notin Subs)
    BY GnmiClientAssumption DEF Reqs
  <1>3. CASE m_done[c]
    <2>1. UNCHANGED outcome
      BY <1>1, <1>3 DEF Finish
    <2>2. st' = st /\ sd' = sd /\ oc' = oc
      BY <1>2, <2>1 DEF Finishes, outcome
    <2> QED BY <2>2 DEF Async!asyncVars
  <1>a. ASSUME ~m_done[c]
        PROVE  \A x \in Reqs : /\ m_done'[x] = IF x = c THEN TRUE ELSE m_done[x]
                               /\ result'[x] = IF x = c THEN r ELSE result[x]
    <2>1. /\ m_done' = [m_done EXCEPT ![c] = TRUE]
          /\ result' = [result EXCEPT ![c] = r]
      BY <1>1, <1>a DEF Finish
    <2> QED BY <2>1 DEF IInv, Outcomes
  <1>b. CASE ~m_done[c] /\ c \notin Unary
    <2>1. st' = st /\ sd' = sd /\ oc' = oc
      BY <1>2, <1>a, <1>b
    <2> QED BY <2>1 DEF Async!asyncVars
  <1>4. CASE ~m_done[c] /\ c \in Unary
    <2>1. \A x \in Reqs : /\ m_done'[x] = IF x = c THEN TRUE ELSE m_done[x]
                          /\ result'[x] = IF x = c THEN r ELSE result[x]
      BY <1>a, <1>4
    <2>2. r.status \in trailer[c] \cup {TransportError}
      BY <1>1, <1>2, <1>4 DEF MayReport, StatusOf
    <2>3. r.status \in Answers \cup {TransportError}
      BY <1>2, <2>2 DEF IInv, Types
    <2>4. st' = [st EXCEPT ![c] = "done"]
      BY <1>2, <2>1
    <2>5. sd' = sd
      OBVIOUS
    <2>6. oc' = [oc EXCEPT ![c] = r.status]
      BY <1>2, <2>1
    <2>7. st[c] = "pending" /\ sd[c] = trailer[c]
      BY <1>4 DEF Finishes
    <2>8. Async!Complete(c, r.status)
      BY <2>2, <2>4, <2>5, <2>6, <2>7 DEF Async!Complete
    <2> HIDE DEF st, sd, oc
    <2> QED BY <1>4, <2>3, <2>8 DEF Async!AsyncNext
  <1> QED BY <1>3, <1>b, <1>4

\* A step that completes nothing: it issues a request or is not seen.
LEMMA QuietRefines ==
  ASSUME IInv, UNCHANGED <<outcome, trailer>>,
         \/ \A c \in Reqs : socket'[c] = "none" <=> socket[c] = "none"
         \/ \E c \in Reqs : Open(c)
  PROVE  [Async!AsyncNext]_Async!asyncVars
  <1> DEFINE st == [x \in Unary |-> IF socket[x] = "none" THEN "idle"
                                    ELSE IF m_done[x] THEN "done" ELSE "pending"]
             sd == [x \in Unary |-> trailer[x]]
             oc == [x \in Unary |-> result[x].status]
  <1>1. sd' = sd /\ oc' = oc
    BY DEF outcome
  <1>2. CASE \A c \in Reqs : socket'[c] = "none" <=> socket[c] = "none"
    <2>1. st' = st
      BY <1>2 DEF Reqs, outcome
    <2> QED BY <1>1, <2>1 DEF Async!asyncVars
  <1>3. ASSUME NEW c \in Reqs, Open(c) PROVE [Async!AsyncNext]_Async!asyncVars
    <2>1. \A x \in Reqs : socket'[x] = IF x = c THEN "connecting"
                                      ELSE IF Collected(c, x) THEN "freed"
                                      ELSE socket[x]
      BY <1>3 DEF Open
    <2>2. \A x \in Reqs : x # c => (socket'[x] = "none" <=> socket[x] = "none")
      BY <2>1 DEF Collected, IInv, FreshIsOpen
    <2>3. socket[c] = "none" /\ ~m_done[c] /\ m_done' = m_done
      BY <1>3 DEF Open, IInv, FreshIsOpen, outcome
    <2>4. CASE c \in Unary
      <3>1. st' = [st EXCEPT ![c] = "pending"] /\ st[c] = "idle"
        BY <2>1, <2>2, <2>3, <2>4 DEF Reqs
      <3>2. Async!Issue(c)
        BY <1>1, <3>1 DEF Async!Issue
      <3> QED BY <2>4, <3>2 DEF Async!AsyncNext
    <2>5. CASE c \notin Unary
      <3>1. st' = st
        BY <2>2, <2>3, <2>5 DEF Reqs
      <3> QED BY <1>1, <3>1 DEF Async!asyncVars
    <2> QED BY <2>4, <2>5
  <1> QED BY <1>2, <1>3

\* A peer's trailer is a Say, anything else it does is not seen.
LEMMA PeerRefines ==
  ASSUME IInv, NEW c \in Reqs, Peer(c)
  PROVE  [Async!AsyncNext]_Async!asyncVars
  <1> DEFINE st == [x \in Unary |-> IF socket[x] = "none" THEN "idle"
                                    ELSE IF m_done[x] THEN "done" ELSE "pending"]
             sd == [x \in Unary |-> trailer[x]]
             oc == [x \in Unary |-> result[x].status]
  <1>1. UNCHANGED <<link, outcome>>
    BY PeerStep
  <1>2. st' = st /\ oc' = oc
    BY <1>1 DEF link, outcome
  <1>3. CASE trailer' = trailer
    BY <1>2, <1>3 DEF Async!asyncVars
  <1>4. ASSUME NEW s \in Answers, PeerAnswers(c, s)
        PROVE  [Async!AsyncNext]_Async!asyncVars
    <2>1. \A x \in Reqs : trailer'[x] = IF x = c THEN trailer[c] \cup {s} ELSE trailer[x]
      BY <1>4 DEF PeerAnswers, IInv, Types
    <2>2. CASE c \in Unary
      <3>1. sd' = [sd EXCEPT ![c] = @ \cup {s}]
        BY <2>1, <2>2 DEF Reqs
      <3>2. Async!Say(c, s)
        BY <1>2, <3>1 DEF Async!Say
      <3> QED BY <2>2, <3>2 DEF Async!AsyncNext
    <2>3. CASE c \notin Unary
      <3>1. sd' = sd
        BY <2>1, <2>3 DEF Reqs
      <3> QED BY <1>2, <3>1 DEF Async!asyncVars
    <2> QED BY <2>2, <2>3
  <1> QED BY <1>3, <1>4 DEF Peer, PeerSends, PeerBreaks

LEMMA NextRefines ==
  ASSUME IInv, IInv', [Next]_vars
  PROVE  [Async!AsyncNext]_Async!asyncVars
  <1>1. ASSUME NEW c \in Reqs, Open(c) PROVE [Async!AsyncNext]_Async!asyncVars
    BY <1>1, QuietRefines DEF Open, peer
  <1>2. ASSUME NEW c \in Reqs, Return(c) \/ HandleConnect(c)
        PROVE  [Async!AsyncNext]_Async!asyncVars
    <2>1. UNCHANGED <<outcome, trailer>>
      BY <1>2 DEF Return, HandleConnect, peer
    <2>2. \A x \in Reqs : socket'[x] = "none" <=> socket[x] = "none"
      BY <1>2 DEF Return, HandleConnect, IInv, Types, FreshIsOpen
    <2> QED BY <2>1, <2>2, QuietRefines
  <1>3. ASSUME NEW c \in Reqs, HandleRead(c) PROVE [Async!AsyncNext]_Async!asyncVars
    <2>1. /\ UNCHANGED <<link, trailer>> /\ socket[c] = "up"
          /\ UNCHANGED outcome \/ \E r : Finish(c, r) /\ MayReport(c, r)
      BY <1>3, ReadEffect
    <2>2. CASE UNCHANGED outcome
      BY <2>1, <2>2, QuietRefines DEF link
    <2>3. CASE \E r : Finish(c, r) /\ MayReport(c, r)
      <3>1. Finishes(c)
        BY <2>1, <2>3 DEF Finishes
      <3> QED BY <2>1, <3>1, FinishRefines DEF link
    <2> QED BY <2>1, <2>2, <2>3
  <1>4. ASSUME NEW c \in Reqs, HandleClose(c) PROVE [Async!AsyncNext]_Async!asyncVars
    <2>1. Finishes(c)
      BY <1>4, CloseFinishes
    <2>2. trailer' = trailer /\ socket' = [socket EXCEPT ![c] = "closed"]
      BY <1>4 DEF HandleClose
    <2>3. \A x \in Reqs : socket'[x] = IF x = c THEN "closed" ELSE socket[x]
      BY <2>2 DEF IInv, Types
    <2> QED BY <2>1, <2>2, <2>3, FinishRefines
  <1>5. ASSUME NEW c \in Reqs, NEW dir \in {"read", "write"}, HandleEvent(c, dir)
        PROVE  [Async!AsyncNext]_Async!asyncVars
    <2>1. trailer' = trailer /\ socket' = socket
      BY <1>5 DEF HandleEvent, peer
    <2>2. CASE c \in Subs
      <3>1. UNCHANGED outcome
        BY <1>5, <2>2 DEF HandleEvent
      <3> QED BY <2>1, <3>1, QuietRefines
    <2>3. CASE c \notin Subs
      <3>1. Finishes(c)
        BY <1>5, <2>3, TimeoutFinishes
      <3>2. socket'[c] # "none"
        BY <2>1, <3>1 DEF Finishes
      <3> QED BY <2>1, <3>1, <3>2, FinishRefines
    <2> QED BY <2>2, <2>3
  <1>6. ASSUME NEW c \in Reqs, Peer(c) PROVE [Async!AsyncNext]_Async!asyncVars
    BY <1>6, PeerRefines
  <1>7. CASE UNCHANGED vars
    BY <1>7, QuietRefines DEF vars, link, peer
  <1> QED BY <1>1, <1>2, <1>3, <1>4, <1>5, <1>6, <1>7 DEF Next, Quiet

\* The unary calls of gnmi_client keep the promise of AsyncCall: one
\* completion each, with the peer's status or a transport error.
THEOREM ClientImplementsAsyncCall == Spec => ImplementsAsyncCall
  <1>1. Init => Async!AsyncInit
    <2> SUFFICES ASSUME Init PROVE Async!AsyncInit
      OBVIOUS
    <2>1. \A c \in Unary : c \in Reqs /\ NoResponse.status = TransportError
      BY DEF Reqs, NoResponse
    <2> QED BY <2>1 DEF Init, Async!AsyncInit
  <1>2. IInv /\ [Next]_vars => [Async!AsyncNext]_(Async!asyncVars)
    BY NextRefines, NextIInv
  <1> QED BY <1>1, <1>2, ClientInvariant, PTL
      DEF Spec, ImplementsAsyncCall, Async!AsyncSpec

-----------------------------------------------------------------------------
(* The messages. Pieces are numbered in the order the peer sends them, so  *)
(* every place a piece can be in - a message handed to on_notif, the       *)
(* buffer, the wire - holds the numbers that follow those of the place     *)
(* before it.                                                              *)

\* Pieces of c that on_notif has been given.
Handed(c) == IF c \in Subs THEN 2 * Len(notified[c]) ELSE 0

NotifiedInOrder(c) ==
  /\ notified[c] \in Seq(Nat \X Nat)
  /\ \A i \in 1..Len(notified[c]) : notified[c][i] = <<2 * i - 1, 2 * i>>

BufferInOrder(c) ==
  /\ rxbuf[c] \in Seq(Nat)
  /\ \A i \in 1..Len(rxbuf[c]) : rxbuf[c][i] = Handed(c) + i
  /\ c \in Subs => Len(rxbuf[c]) < 2

\* While the connection lives, nothing is lost between the peer and on_notif.
WireInOrder(c) ==
  /\ \A i \in 1..DataIn(wire[c]) : wire[c][i].kind = "data"
  /\ DataIn(wire[c]) # Len(wire[c]) => over[c]
  /\ socket[c] = "up" =>
       /\ Handed(c) + Len(rxbuf[c]) + DataIn(wire[c]) = sent[c]
       /\ \A i \in 1..DataIn(wire[c]) :
            wire[c][i].arg = Handed(c) + Len(rxbuf[c]) + i
  /\ socket[c] \in {"none", "connecting"} =>
       sent[c] = 0 /\ wire[c] = <<>> /\ rxbuf[c] = <<>> /\ notified[c] = <<>>

\* A trailer ends the stream; a success is sent after whole messages only.
SaysWhole(c) ==
  /\ trailer[c] # {} => over[c]
  /\ trailer[c] = {OK} => IF c \in Subs THEN sent[c] % 2 = 0 ELSE sent[c] = 2

\* Nothing can be read any more once a trailer or the end of a subscription
\* is reported, and a success was reported with everything.
ReportIsFinal(c) ==
  /\ c \in Subs /\ m_done[c] => socket[c] \notin {"none", "connecting"}
  /\ c \in Subs /\ m_done[c] /\ socket[c] = "up" => over[c] /\ wire[c] = <<>>
  /\ result[c].why = "trailer" => m_done[c] /\ over[c] /\ wire[c] = <<>>
  /\ result[c].why = "trailer" /\ trailer[c] = {OK} =>
       IF c \in Subs THEN 2 * Len(notified[c]) = sent[c] ELSE result[c].body = <<1, 2>>

InOrder(c) ==
  NotifiedInOrder(c) /\ BufferInOrder(c) /\ WireInOrder(c) /\ SaysWhole(c) /\ ReportIsFinal(c)

Buffers == rxbuf = [c \in Reqs |-> rxbuf[c]] /\ notified = [c \in Reqs |-> notified[c]]

PInv == Buffers /\ \A c \in Reqs : InOrder(c)

-----------------------------------------------------------------------------
(* Lemmas about the operators of a read.                                   *)

\* on_data: the whole messages of a buffer continue the numbering of those
\* before them, and what is left is less than one.
LEMMA CutIntoMessages ==
  ASSUME NEW done \in Seq(Nat \X Nat), NEW buf \in Seq(Nat),
         \A i \in 1..Len(done) : done[i] = <<2 * i - 1, 2 * i>>,
         \A i \in 1..Len(buf) : buf[i] = 2 * Len(done) + i
  PROVE  /\ done \o Whole(buf) \in Seq(Nat \X Nat)
         /\ \A i \in 1..Len(done \o Whole(buf)) :
              (done \o Whole(buf))[i] = <<2 * i - 1, 2 * i>>
         /\ Rest(buf) \in Seq(Nat) /\ Len(Rest(buf)) < 2
         /\ 2 * Len(done \o Whole(buf)) + Len(Rest(buf)) = 2 * Len(done) + Len(buf)
         /\ \A i \in 1..Len(Rest(buf)) :
              Rest(buf)[i] = 2 * Len(done \o Whole(buf)) + i
  <1> DEFINE m == Len(done)
             n == Len(buf)
             q == n \div 2
             w == Whole(buf)
             s == done \o w
             r == Rest(buf)
  <1>1. m \in Nat /\ n \in Nat
    BY LenProperties
  <1>2. q \in Nat /\ (n = 2 * q \/ n = 2 * q + 1)
    <2> HIDE DEF n
    <2> QED BY <1>1
  <1>3. w = [i \in 1..q |-> <<buf[2 * i - 1], buf[2 * i]>>]
    BY DEF Whole
  <1>4. r = SubSeq(buf, 2 * q + 1, n)
    BY DEF Rest
  <1>e. \A i \in 1..n : buf[i] = 2 * m + i
    OBVIOUS
  <1> HIDE DEF m, n, q, w, s, r
  <1>5. \A i \in 1..q : w[i] = <<2 * (m + i) - 1, 2 * (m + i)>>
    <2> TAKE i \in 1..q
    <2>1. 2 * i - 1 \in 1..n /\ 2 * i \in 1..n
      BY <1>1, <1>2
    <2>2. buf[2 * i - 1] = 2 * m + (2 * i - 1) /\ buf[2 * i] = 2 * m + 2 * i
      BY <1>e, <2>1
    <2>3. 2 * m + (2 * i - 1) = 2 * (m + i) - 1 /\ 2 * m + 2 * i = 2 * (m + i)
      BY <1>1, <1>2
    <2> QED BY <1>3, <2>2, <2>3
  <1>6. \A i \in 1..q : w[i] \in Nat \X Nat
    <2> TAKE i \in 1..q
    <2> DEFINE a == 2 * (m + i) - 1
               b == 2 * (m + i)
    <2>1. a \in Nat /\ b \in Nat
      BY <1>1, <1>2
    <2>2. w[i] = <<a, b>>
      BY <1>5
    <2> HIDE DEF a, b
    <2> QED BY <2>1, <2>2
  <1>7. w \in Seq(Nat \X Nat) /\ Len(w) = q
    <2>1. w \in [1..q -> Nat \X Nat]
      BY <1>3, <1>6
    <2> QED BY <1>2, <2>1
  <1>8. /\ s \in Seq(Nat \X Nat) /\ Len(s) = m + q
        /\ \A i \in 1..(m + q) : s[i] = IF i <= m THEN done[i] ELSE w[i - m]
    BY <1>7, ConcatProperties DEF s, m
  <1>9. \A i \in 1..(m + q) : s[i] = <<2 * i - 1, 2 * i>>
    <2> TAKE i \in 1..(m + q)
    <2>1. CASE i <= m
      <3>1. i \in 1..m BY <1>1, <1>2, <2>1
      <3> QED BY <1>8, <2>1, <3>1 DEF m
    <2>2. CASE ~(i <= m)
      <3>1. i - m \in 1..q /\ m + (i - m) = i BY <1>1, <1>2, <2>2
      <3>2. s[i] = w[i - m] BY <1>8, <2>2
      <3> QED BY <1>5, <3>1, <3>2
    <2> QED BY <2>1, <2>2
  <1>10. /\ r \in Seq(Nat) /\ Len(r) = n - 2 * q
         /\ \A i \in 1..(n - 2 * q) : r[i] = buf[2 * q + i]
    <2>1. \A i \in (2 * q + 1)..n : buf[i] \in Nat
      BY <1>1, <1>2, <1>e
    <2>2. 2 * q + 1 \in Int /\ n \in Int
      BY <1>1, <1>2
    <2>3. /\ r \in Seq(Nat)
          /\ Len(r) = IF 2 * q + 1 <= n THEN n - (2 * q + 1) + 1 ELSE 0
          /\ \A i \in 1..(n - (2 * q + 1) + 1) : r[i] = buf[(2 * q + 1) + i - 1]
      BY <1>4, <2>1, <2>2, SubSeqProperties
    <2>4. Len(r) = n - 2 * q
      BY <1>1, <1>2, <2>3
    <2>5. ASSUME NEW i \in 1..(n - 2 * q) PROVE r[i] = buf[2 * q + i]
      <3>1. i \in 1..(n - (2 * q + 1) + 1) /\ (2 * q + 1) + i - 1 = 2 * q + i
        BY <1>1, <1>2
      <3> QED BY <2>3, <3>1
    <2> QED BY <2>3, <2>4, <2>5
  <1>11. Len(r) < 2 /\ 2 * Len(s) + Len(r) = 2 * m + n
    BY <1>1, <1>2, <1>8, <1>10
  <1>12. \A i \in 1..Len(r) : r[i] = 2 * Len(s) + i
    <2> TAKE i \in 1..Len(r)
    <2>1. i \in 1..(n - 2 * q) /\ 2 * q + i \in 1..n
      BY <1>1, <1>2, <1>10
    <2>2. r[i] = 2 * m + (2 * q + i)
      BY <1>10, <1>e, <2>1
    <2>3. 2 * Len(s) + i = 2 * m + (2 * q + i)
      BY <1>1, <1>2, <1>8
    <2> QED BY <2>2, <2>3
  <1> QED BY <1>8, <1>9, <1>10, <1>11, <1>12 DEF s, w, r, m, n

\* The units of a read and those that stay on the wire share the pieces out
\* between them; only the last unit of the wire may be something else.
LEMMA ShareUnits ==
  ASSUME NEW s \in Seq(Unit), NEW n \in 1..Len(s),
         \A i \in 1..DataIn(s) : s[i].kind = "data"
  PROVE  LET taken == SubSeq(s, 1, n)
             left  == SubSeq(s, n + 1, Len(s))
         IN /\ left \in Seq(Unit)
            /\ taken[n] = s[n]
            /\ DataIn(taken) \in Nat /\ DataIn(left) \in Nat
            /\ DataIn(taken) + DataIn(left) = DataIn(s)
            /\ \A i \in 1..DataIn(taken) : taken[i] = s[i]
            /\ \A i \in 1..DataIn(left) : left[i] = s[DataIn(taken) + i]
            /\ DataIn(left) # Len(left) => DataIn(s) # Len(s)
            /\ s[n].kind # "data" => left = <<>> /\ DataIn(s) # Len(s)
  <1> DEFINE taken == SubSeq(s, 1, n)
             left == SubSeq(s, n + 1, Len(s))
             m == Len(s)
  <1>1. m \in Nat /\ n \in 1..m
    BY LenProperties
  <1>2. \A i \in 1..m : s[i] \in Unit
    OBVIOUS
  <1>3. s # <<>>
    BY EmptySeq, <1>1
  <1>4. DataIn(s) = IF s[m].kind = "data" THEN m ELSE m - 1
    BY <1>3 DEF DataIn
  <1>5. /\ taken \in Seq(Unit) /\ Len(taken) = n
        /\ \A i \in 1..n : taken[i] = s[i]
    <2>1. \A i \in 1..n : s[i] \in Unit
      BY <1>1, <1>2
    <2>2. 1 \in Int /\ n \in Int
      BY <1>1
    <2>3. /\ taken \in Seq(Unit)
          /\ Len(taken) = IF 1 <= n THEN n - 1 + 1 ELSE 0
          /\ \A i \in 1..(n - 1 + 1) : taken[i] = s[1 + i - 1]
      BY <2>1, <2>2, SubSeqProperties
    <2> HIDE DEF taken
    <2> QED BY <1>1, <2>3
  <1>6. /\ left \in Seq(Unit) /\ Len(left) = m - n
        /\ \A i \in 1..(m - n) : left[i] = s[n + i]
    <2>1. \A i \in (n + 1)..m : s[i] \in Unit
      BY <1>1, <1>2
    <2>2. n + 1 \in Int /\ m \in Int
      BY <1>1
    <2>3. /\ left \in Seq(Unit)
          /\ Len(left) = IF n + 1 <= m THEN m - (n + 1) + 1 ELSE 0
          /\ \A i \in 1..(m - (n + 1) + 1) : left[i] = s[(n + 1) + i - 1]
      BY <2>1, <2>2, SubSeqProperties
    <2> HIDE DEF left, m
    <2>4. Len(left) = m - n
      BY <1>1, <2>3
    <2>5. ASSUME NEW i \in 1..(m - n) PROVE left[i] = s[n + i]
      <3>1. i \in 1..(m - (n + 1) + 1) /\ (n + 1) + i - 1 = n + i
        BY <1>1
      <3> QED BY <2>3, <3>1
    <2> QED BY <2>3, <2>4, <2>5
  <1> HIDE DEF taken, left
  <1>7. taken # <<>> /\ DataIn(taken) = IF s[n].kind = "data" THEN n ELSE n - 1
    <2>1. taken # <<>>
      BY <1>1, <1>5, EmptySeq
    <2>2. taken[Len(taken)] = s[n]
      BY <1>1, <1>5
    <2> QED BY <1>5, <2>1, <2>2 DEF DataIn
  <1>8. n < m => s[n].kind = "data"
    BY <1>1, <1>4
  <1>9. DataIn(left) = IF n = m THEN 0 ELSE IF s[m].kind = "data" THEN m - n ELSE m - n - 1
    <2>1. CASE n = m
      <3>1. left = <<>> BY <1>1, <1>6, <2>1, EmptySeq
      <3> QED BY <2>1, <3>1, <1>6 DEF DataIn
    <2>2. CASE n # m
      <3>1. Len(left) \in Nat \ {0} /\ left[m - n] = s[m]
        BY <1>1, <1>6, <2>2
      <3>2. left # <<>>
        BY <3>1, EmptySeq
      <3> QED BY <1>6, <2>2, <3>1, <3>2 DEF DataIn
    <2> QED BY <2>1, <2>2
  <1>10. n = m => left = <<>>
    BY <1>1, <1>6, EmptySeq
  <1>11. taken[n] = s[n] /\ \A i \in 1..DataIn(taken) : taken[i] = s[i]
    BY <1>1, <1>5, <1>7
  <1>12. \A i \in 1..DataIn(left) : left[i] = s[DataIn(taken) + i]
    <2> TAKE i \in 1..DataIn(left)
    <2>1. n < m /\ i \in 1..(m - n)
      BY <1>1, <1>9
    <2> QED BY <1>6, <1>7, <1>8, <2>1
  <1>13. /\ DataIn(taken) \in Nat /\ DataIn(left) \in Nat
         /\ DataIn(taken) + DataIn(left) = DataIn(s)
    <2> HIDE DEF m
    <2>1. CASE n = m
      BY <1>1, <1>4, <1>7, <1>9, <2>1
    <2>2. CASE n # m
      <3>1. n < m /\ s[n].kind = "data"
        BY <1>1, <1>8, <2>2
      <3> QED BY <1>1, <1>4, <1>7, <1>9, <3>1
    <2> QED BY <2>1, <2>2
  <1>14. DataIn(left) # Len(left) => DataIn(s) # Len(s)
    BY <1>1, <1>4, <1>6, <1>9
  <1>15. s[n].kind # "data" => left = <<>> /\ DataIn(s) # Len(s)
    <2>1. s[n].kind # "data" => n = m
      BY <1>1, <1>8
    <2> QED BY <1>1, <1>4, <1>10, <2>1
  <1> QED BY <1>6, <1>11, <1>12, <1>13, <1>14, <1>15 DEF taken, left

-----------------------------------------------------------------------------
(* The steps.                                                              *)

LEMMA InitPInv == ASSUME Init PROVE PInv
  <1>1. Buffers
    BY DEF Init, Buffers
  <1>2. ASSUME NEW c \in Reqs PROVE InOrder(c)
    <2>1. /\ socket[c] = "none" /\ wire[c] = <<>> /\ sent[c] = 0 /\ ~over[c]
          /\ trailer[c] = {} /\ rxbuf[c] = <<>> /\ notified[c] = <<>> /\ ~m_done[c]
          /\ result[c].why = "none"
      BY DEF Init, NoResponse
    <2>2. <<>> \in Seq(Nat \X Nat) /\ <<>> \in Seq(Nat) /\ Len(<<>>) = 0
      OBVIOUS
    <2>3. DataIn(<<>>) = 0
      BY DEF DataIn
    <2>4. NotifiedInOrder(c)
      BY <2>1, <2>2 DEF NotifiedInOrder
    <2>5. BufferInOrder(c)
      BY <2>1, <2>2 DEF BufferInOrder
    <2>6. WireInOrder(c)
      BY <2>1, <2>2, <2>3 DEF WireInOrder
    <2>7. SaysWhole(c) /\ ReportIsFinal(c)
      BY <2>1 DEF SaysWhole, ReportIsFinal
    <2> QED BY <2>4, <2>5, <2>6, <2>7 DEF InOrder
  <1> QED BY <1>1, <1>2 DEF PInv

\* A connection nothing happens to but its socket moving on.
SameMessages(x) ==
  /\ wire'[x] = wire[x] /\ sent'[x] = sent[x] /\ over'[x] = over[x]
  /\ trailer'[x] = trailer[x] /\ rxbuf'[x] = rxbuf[x] /\ notified'[x] = notified[x]
  /\ m_done'[x] = m_done[x] /\ result'[x] = result[x]

LEMMA Frame ==
  ASSUME NEW x \in Reqs, InOrder(x), SameMessages(x),
         \/ socket'[x] = socket[x]
         \/ socket'[x] \in {"closed", "freed"}
         \/ socket[x] = "none" /\ socket'[x] = "connecting"
         \/ socket[x] = "connecting" /\ socket'[x] = "up"
  PROVE  InOrder(x)'
  <1>1. Handed(x)' = Handed(x)
    BY DEF Handed, SameMessages
  <1>2. NotifiedInOrder(x)'
    BY DEF InOrder, NotifiedInOrder, SameMessages
  <1>3. BufferInOrder(x)'
    BY <1>1 DEF InOrder, BufferInOrder, SameMessages
  <1>4. WireInOrder(x)'
    <2>1. CASE socket[x] = "connecting" /\ socket'[x] = "up"
      <3>1. sent[x] = 0 /\ wire[x] = <<>> /\ rxbuf[x] = <<>> /\ notified[x] = <<>>
        BY <2>1 DEF InOrder, WireInOrder
      <3>2. DataIn(wire[x]) = 0 /\ Len(rxbuf[x]) = 0 /\ Handed(x) = 0
        BY <3>1 DEF DataIn, Handed
      <3> QED BY <1>1, <2>1, <3>1, <3>2 DEF InOrder, WireInOrder, SameMessages
    <2>2. CASE ~(socket[x] = "connecting" /\ socket'[x] = "up")
      BY <1>1, <2>2 DEF InOrder, WireInOrder, SameMessages
    <2> QED BY <2>1, <2>2
  <1>5. SaysWhole(x)'
    BY DEF InOrder, SaysWhole, SameMessages
  <1>6. ReportIsFinal(x)'
    BY DEF InOrder, ReportIsFinal, SameMessages
  <1> QED BY <1>2, <1>3, <1>4, <1>5, <1>6 DEF InOrder

\* finish reports the first response given, and only to c.
LEMMA FirstReport ==
  ASSUME IInv, NEW c \in Reqs, NEW r, Finish(c, r)
  PROVE  \A x \in Reqs :
           /\ m_done'[x] = (m_done[x] \/ x = c)
           /\ result'[x] = IF x = c /\ ~m_done[c] THEN r ELSE result[x]
  <1>1. CASE m_done[c]
    BY <1>1 DEF Finish, outcome, IInv, Outcomes
  <1>2. CASE ~m_done[c]
    BY <1>2 DEF Finish, IInv, Outcomes
  <1> QED BY <1>1, <1>2

\* A response that is not read from a trailer, on a connection that is not
\* read from: the messages stay as they are.
LEMMA FinishKeepsOrder ==
  ASSUME IInv, PInv, NEW c \in Reqs, NEW r, Finish(c, r), r.why # "trailer",
         wire' = [wire EXCEPT ![c] = <<>>] \/ wire' = wire,
         UNCHANGED <<sent, over, trailer, rxbuf, notified>>,
         \A x \in Reqs \ {c} : socket'[x] = socket[x],
         \/ socket'[c] = "closed"
         \/ socket'[c] = socket[c] /\ wire' = wire /\ c \notin Subs
  PROVE  PInv'
  <1>1. \A x \in Reqs :
           /\ m_done'[x] = (m_done[x] \/ x = c)
           /\ result'[x] = IF x = c /\ ~m_done[c] THEN r ELSE result[x]
    BY FirstReport
  <1>2. ASSUME NEW x \in Reqs \ {c} PROVE InOrder(x)'
    <2>1. wire'[x] = wire[x]
      BY DEF IInv, Types
    <2>2. SameMessages(x)
      BY <1>1, <2>1 DEF SameMessages, IInv, Outcomes
    <2> QED BY <2>2, Frame DEF PInv
  <1>3. InOrder(c)'
    <2> USE DEF PInv
    <2>1. Handed(c)' = Handed(c)
      BY DEF Handed
    <2>2. NotifiedInOrder(c)' /\ BufferInOrder(c)'
      BY <2>1 DEF InOrder, NotifiedInOrder, BufferInOrder
    <2>3. wire'[c] = wire[c] \/ (wire'[c] = <<>> /\ socket'[c] = "closed")
      BY DEF IInv, Types
    <2>4. WireInOrder(c)'
      <3>1. CASE wire'[c] = <<>> /\ socket'[c] = "closed"
        <4>1. DataIn(<<>>) = 0 /\ Len(<<>>) = 0
          BY DEF DataIn
        <4> QED BY <3>1, <4>1 DEF WireInOrder
      <3>2. CASE wire'[c] = wire[c]
        BY <2>1, <3>2 DEF InOrder, WireInOrder
      <3> QED BY <2>3, <3>1, <3>2
    <2>5. SaysWhole(c)'
      BY DEF InOrder, SaysWhole
    <2>6. ReportIsFinal(c)'
      BY <1>1, <2>3 DEF InOrder, ReportIsFinal
    <2> QED BY <2>2, <2>4, <2>5, <2>6 DEF InOrder
  <1>4. Buffers'
    BY DEF PInv, Buffers
  <1> QED BY <1>2, <1>3, <1>4 DEF PInv

\* A read moves pieces from the wire to the buffer and from there to
\* on_notif, and leaves every place in order. A unit that is no piece is the
\* last one: with it the connection has handed over everything.
LEMMA ReadMoves ==
  ASSUME IInv, PInv, NEW c \in Reqs, HandleRead(c)
  PROVE  /\ NotifiedInOrder(c)' /\ BufferInOrder(c)' /\ WireInOrder(c)'
         /\ wire[c] # <<>>
         /\ \E u \in Unit, buf \in Seq(Nat) :
              /\ Ended(c, u, buf)
              /\ \A i \in 1..Len(buf) : buf[i] = Handed(c) + i
              /\ c \notin Subs => rxbuf'[c] = buf
              /\ u.kind # "data" =>
                   /\ over[c] /\ wire'[c] = <<>>
                   /\ Handed(c)' + Len(rxbuf'[c]) = sent[c]
  <1> USE DEF PInv
  <1> DEFINE taken(n) == SubSeq(wire[c], 1, n)
             left(n) == SubSeq(wire[c], n + 1, Len(wire[c]))
             k(n) == DataIn(taken(n))
             got(n) == [i \in 1..k(n) |-> taken(n)[i].arg]
             buf(n) == rxbuf[c] \o got(n)
  <1>1. PICK n \in 1..Len(wire[c]) :
          /\ wire' = [wire EXCEPT ![c] = SubSeq(@, n + 1, Len(@))]
          /\ IF c \in Subs
             THEN /\ notified' = [notified EXCEPT ![c] = @ \o Whole(buf(n))]
                  /\ rxbuf' = [rxbuf EXCEPT ![c] = Rest(buf(n))]
             ELSE /\ rxbuf' = [rxbuf EXCEPT ![c] = buf(n)]
                  /\ UNCHANGED notified
          /\ Ended(c, taken(n)[n], buf(n))
    BY DEF HandleRead
  <1>2. UNCHANGED <<link, sent, over, trailer>> /\ socket[c] = "up"
    BY DEF HandleRead
  <1>3. wire[c] \in Seq(Unit) /\ sent[c] \in Nat
    BY DEF IInv, Types
  <1>4. /\ \A i \in 1..DataIn(wire[c]) : wire[c][i].kind = "data"
        /\ DataIn(wire[c]) # Len(wire[c]) => over[c]
        /\ Handed(c) + Len(rxbuf[c]) + DataIn(wire[c]) = sent[c]
        /\ \A i \in 1..DataIn(wire[c]) :
             wire[c][i].arg = Handed(c) + Len(rxbuf[c]) + i
    BY <1>2 DEF InOrder, WireInOrder
  <1> DEFINE T == taken(n)
             L == left(n)
             K == k(n)
             G == got(n)
             B == buf(n)
  <1>5. /\ L \in Seq(Unit) /\ T[n] = wire[c][n]
        /\ K \in Nat /\ DataIn(L) \in Nat /\ K + DataIn(L) = DataIn(wire[c])
        /\ \A i \in 1..K : T[i] = wire[c][i]
        /\ \A i \in 1..DataIn(L) : L[i] = wire[c][K + i]
        /\ DataIn(L) # Len(L) => DataIn(wire[c]) # Len(wire[c])
        /\ wire[c][n].kind # "data" => L = <<>> /\ DataIn(wire[c]) # Len(wire[c])
    <2> DEFINE W == wire[c]
    <2>1. /\ W \in Seq(Unit) /\ n \in 1..Len(W)
          /\ \A i \in 1..DataIn(W) : W[i].kind = "data"
      BY <1>3, <1>4
    <2> HIDE DEF W
    <2>2. LET t == SubSeq(W, 1, n)
              l == SubSeq(W, n + 1, Len(W))
          IN /\ l \in Seq(Unit)
             /\ t[n] = W[n]
             /\ DataIn(t) \in Nat /\ DataIn(l) \in Nat
             /\ DataIn(t) + DataIn(l) = DataIn(W)
             /\ \A i \in 1..DataIn(t) : t[i] = W[i]
             /\ \A i \in 1..DataIn(l) : l[i] = W[DataIn(t) + i]
             /\ DataIn(l) # Len(l) => DataIn(W) # Len(W)
             /\ W[n].kind # "data" => l = <<>> /\ DataIn(W) # Len(W)
      BY <2>1, ShareUnits
    <2> QED BY <2>2 DEF W
  <1>6. wire'[c] = L
    BY <1>1 DEF IInv, Types
  <1>7. B = rxbuf[c] \o G /\ G = [i \in 1..K |-> T[i].arg]
    OBVIOUS
  <1>8. /\ IF c \in Subs
           THEN notified'[c] = notified[c] \o Whole(B) /\ rxbuf'[c] = Rest(B)
           ELSE rxbuf'[c] = B /\ notified'[c] = notified[c]
        /\ Ended(c, T[n], B)
    BY <1>1 DEF Buffers
  <1>9. /\ rxbuf[c] \in Seq(Nat) /\ \A i \in 1..Len(rxbuf[c]) : rxbuf[c][i] = Handed(c) + i
        /\ notified[c] \in Seq(Nat \X Nat)
        /\ \A i \in 1..Len(notified[c]) : notified[c][i] = <<2 * i - 1, 2 * i>>
    BY DEF InOrder, BufferInOrder, NotifiedInOrder
  <1> DEFINE h == Handed(c)
             m == Len(rxbuf[c])
             d == DataIn(wire[c])
  <1>10. h \in Nat /\ m \in Nat /\ d \in Nat
    <2>1. Len(notified[c]) \in Nat /\ m \in Nat
      BY <1>9, LenProperties
    <2>2. h \in Nat
      BY <2>1 DEF Handed
    <2> HIDE DEF K, L, d
    <2>3. d \in Nat
      BY <1>5 DEF d
    <2> QED BY <2>1, <2>2, <2>3
  <1>p. \A i \in 1..m : rxbuf[c][i] = h + i
    BY <1>9
  <1>q. \A i \in 1..d : wire[c][i].kind = "data" /\ wire[c][i].arg = h + m + i
    BY <1>4
  <1>r. h + m + d = sent[c] /\ K + DataIn(L) = d
    BY <1>4, <1>5
  <1>s. c \in Subs => h = 2 * Len(notified[c])
    BY DEF Handed
  <1>t. \A i \in 1..K : T[i] = wire[c][i]
    BY <1>5
  <1>u. \A i \in 1..DataIn(L) : L[i] = wire[c][K + i]
    BY <1>5
  <1>v. /\ DataIn(L) # Len(L) => over[c]
        /\ wire[c][n].kind # "data" => L = <<>> /\ over[c]
    BY <1>4, <1>5
  <1>w. K \in Nat /\ DataIn(L) \in Nat
    BY <1>5
  <1> HIDE DEF T, L, K, G, B, h, m, d
  <1>11. /\ B \in Seq(Nat) /\ Len(B) = m + K
         /\ \A i \in 1..m + K : B[i] = h + i
    <2>1. \A i \in 1..K : T[i].arg = h + m + i
      <3> TAKE i \in 1..K
      <3>1. i \in 1..d
        BY <1>w, <1>r, <1>10
      <3> QED BY <3>1, <1>q, <1>t
    <2>2. G \in Seq(Nat) /\ Len(G) = K /\ \A i \in 1..K : G[i] = h + m + i
      <3>1. G \in [1..K -> Nat]
        BY <1>7, <2>1, <1>10
      <3> QED BY <1>7, <1>w, <2>1, <3>1
    <2>3. /\ B \in Seq(Nat) /\ Len(B) = m + K
          /\ \A i \in 1..m + K : B[i] = IF i <= m THEN rxbuf[c][i] ELSE G[i - m]
      <3> DEFINE X == rxbuf[c]
      <3>1. X \in Seq(Nat) /\ m = Len(X) /\ B = X \o G
        BY <1>7, <1>9 DEF m
      <3> HIDE DEF X
      <3>a. X \in Seq(Nat) /\ G \in Seq(Nat)
        BY <3>1, <2>2
      <3>2. /\ X \o G \in Seq(Nat) /\ Len(X \o G) = Len(X) + Len(G)
            /\ \A i \in 1..Len(X) + Len(G) :
                 (X \o G)[i] = IF i <= Len(X) THEN X[i] ELSE G[i - Len(X)]
        BY <3>a, ConcatProperties
      <3>3. Len(G) = K
        BY <2>2
      <3> QED BY <3>1, <3>2, <3>3 DEF X
    <2>4. ASSUME NEW i \in 1..m + K PROVE B[i] = h + i
      <3>1. CASE i <= m
        <4>1. i \in 1..m
          BY <3>1, <1>10, <1>w
        <4> QED BY <2>3, <3>1, <4>1, <1>p
      <3>2. CASE ~(i <= m)
        <4>1. i - m \in 1..K /\ h + m + (i - m) = h + i
          BY <3>2, <1>10, <1>w
        <4>2. B[i] = G[i - m]
          BY <2>3, <3>2
        <4> QED BY <2>2, <4>1, <4>2
      <3> QED BY <3>1, <3>2
    <2> QED BY <2>3, <2>4
  <1> DEFINE p == Handed(c)'
             q == Len(rxbuf'[c])
  <1>12. /\ NotifiedInOrder(c)' /\ BufferInOrder(c)'
         /\ p + q = h + m + K /\ p \in Nat /\ q \in Nat
    <2>1. CASE c \in Subs
      <3>1. /\ notified'[c] = notified[c] \o Whole(B) /\ rxbuf'[c] = Rest(B)
            /\ h = 2 * Len(notified[c])
        BY <1>8, <1>s, <2>1
      <3>2. \A i \in 1..Len(B) : B[i] = 2 * Len(notified[c]) + i
        BY <1>11, <3>1
      <3>3. /\ notified'[c] \in Seq(Nat \X Nat)
            /\ \A i \in 1..Len(notified'[c]) : notified'[c][i] = <<2 * i - 1, 2 * i>>
            /\ rxbuf'[c] \in Seq(Nat) /\ Len(rxbuf'[c]) < 2
            /\ 2 * Len(notified'[c]) + Len(rxbuf'[c]) = 2 * Len(notified[c]) + Len(B)
            /\ \A i \in 1..Len(rxbuf'[c]) : rxbuf'[c][i] = 2 * Len(notified'[c]) + i
        <4> DEFINE D == notified[c]
        <4>1. /\ D \in Seq(Nat \X Nat) /\ B \in Seq(Nat)
              /\ \A i \in 1..Len(D) : D[i] = <<2 * i - 1, 2 * i>>
              /\ \A i \in 1..Len(B) : B[i] = 2 * Len(D) + i
          BY <1>9, <1>11, <3>2
        <4> HIDE DEF D
        <4>2. /\ D \o Whole(B) \in Seq(Nat \X Nat)
              /\ \A i \in 1..Len(D \o Whole(B)) :
                   (D \o Whole(B))[i] = <<2 * i - 1, 2 * i>>
              /\ Rest(B) \in Seq(Nat) /\ Len(Rest(B)) < 2
              /\ 2 * Len(D \o Whole(B)) + Len(Rest(B)) = 2 * Len(D) + Len(B)
              /\ \A i \in 1..Len(Rest(B)) :
                   Rest(B)[i] = 2 * Len(D \o Whole(B)) + i
          BY <4>1, CutIntoMessages
        <4> QED BY <3>1, <4>2 DEF D
      <3>4. Handed(c)' = 2 * Len(notified'[c])
        BY <2>1 DEF Handed
      <3>5. Len(notified'[c]) \in Nat /\ Len(rxbuf'[c]) \in Nat
        BY <3>3, LenProperties
      <3>6. p + q = h + m + K /\ p \in Nat /\ q \in Nat
        <4> DEFINE a == Len(notified'[c])
                   b == Len(rxbuf'[c])
                   e == Len(notified[c])
        <4>1. 2 * a + b = 2 * e + (m + K) /\ h = 2 * e /\ p = 2 * a /\ q = b
          BY <3>1, <3>3, <3>4, <1>11
        <4>2. a \in Nat /\ b \in Nat /\ e \in Nat
          BY <3>5, <1>9, LenProperties
        <4> HIDE DEF a, b, e, p, q
        <4> QED BY <4>1, <4>2, <1>10, <1>w
      <3>7. NotifiedInOrder(c)'
        BY <3>3 DEF NotifiedInOrder
      <3>8. BufferInOrder(c)'
        BY <3>3, <3>4 DEF BufferInOrder
      <3> QED BY <3>6, <3>7, <3>8
    <2>2. CASE c \notin Subs
      <3>1. rxbuf'[c] = B /\ notified'[c] = notified[c]
        BY <1>8, <2>2
      <3>2. Handed(c)' = 0 /\ h = 0
        BY <2>2 DEF Handed, h
      <3>3. NotifiedInOrder(c)'
        BY <1>9, <3>1 DEF NotifiedInOrder
      <3>4. BufferInOrder(c)'
        BY <1>11, <2>2, <3>1, <3>2 DEF BufferInOrder
      <3> QED BY <1>10, <1>11, <1>w, <3>1, <3>2, <3>3, <3>4
    <2> QED BY <2>1, <2>2
  <1> HIDE DEF p, q
  <1>13. WireInOrder(c)'
    <2>1. ASSUME NEW i \in 1..DataIn(L)
          PROVE  L[i].kind = "data" /\ L[i].arg = p + q + i
      <3>1. K + i \in 1..d /\ h + m + (K + i) = p + q + i
        BY <1>w, <1>r, <1>10, <1>12
      <3>2. L[i] = wire[c][K + i]
        BY <1>u
      <3> QED BY <1>q, <3>1, <3>2
    <2>2. p + q + DataIn(L) = sent[c]
      BY <1>r, <1>w, <1>10, <1>12, <1>3
    <2>3. socket'[c] = "up" /\ sent'[c] = sent[c] /\ over'[c] = over[c]
      BY <1>2 DEF link
    <2> QED BY <1>6, <1>v, <2>1, <2>2, <2>3 DEF WireInOrder, p, q
  <1>14. wire[c] # <<>>
    BY <1>1
  <1>15. T[n] \in Unit /\ T[n] = wire[c][n]
    BY <1>3, <1>5
  <1>16. ASSUME wire[c][n].kind # "data"
         PROVE  over[c] /\ wire'[c] = <<>> /\ p + q = sent[c]
    <2>1. L = <<>> /\ over[c]
      BY <1>v, <1>16
    <2>2. DataIn(L) = 0
      BY <2>1 DEF DataIn
    <2> QED BY <1>6, <1>r, <1>w, <1>10, <1>12, <2>1, <2>2
  <1>17. \A i \in 1..Len(B) : B[i] = Handed(c) + i
    BY <1>11 DEF h
  <1>18. c \notin Subs => rxbuf'[c] = B
    BY <1>8
  <1> QED BY <1>8, <1>11, <1>12, <1>13, <1>14, <1>15, <1>16, <1>17, <1>18 DEF p, q

LEMMA ReadPInv ==
  ASSUME IInv, PInv, NEW c \in Reqs, HandleRead(c)
  PROVE  PInv'
  <1>1. /\ NotifiedInOrder(c)' /\ BufferInOrder(c)' /\ WireInOrder(c)'
        /\ wire[c] # <<>>
    BY ReadMoves
  <1>2. PICK u \in Unit, buf \in Seq(Nat) :
          /\ Ended(c, u, buf)
          /\ \A i \in 1..Len(buf) : buf[i] = Handed(c) + i
          /\ c \notin Subs => rxbuf'[c] = buf
          /\ u.kind # "data" =>
               /\ over[c] /\ wire'[c] = <<>>
               /\ Handed(c)' + Len(rxbuf'[c]) = sent[c]
    BY ReadMoves
  <1>3. /\ UNCHANGED <<socket, sent, over, trailer>> /\ socket[c] = "up"
        /\ \A x \in Reqs \ {c} : /\ wire'[x] = wire[x] /\ rxbuf'[x] = rxbuf[x]
                                 /\ notified'[x] = notified[x]
        /\ Buffers'
    BY DEF HandleRead, IInv, Types, PInv, Buffers, link
  <1>4. InOrder(c)
    BY DEF PInv
  <1>5. \/ UNCHANGED <<m_done, result>>
        \/ \E r : /\ Finish(c, r) /\ u.kind # "data"
                  /\ r.why = "trailer" => r.body = Body(c, buf)
    <2>1. CASE u.kind = "trailer"
      <3> DEFINE r == [status |-> StatusOf(c, u.arg), why |-> "trailer",
                       body |-> Body(c, buf)]
      <3>1. Finish(c, r) /\ r.body = Body(c, buf)
        BY <1>2, <2>1 DEF Ended
      <3> HIDE DEF r
      <3> QED BY <2>1, <3>1
    <2>2. CASE u.kind = "garbage"
      <3>1. Finish(c, Failed("protocol")) /\ Failed("protocol").why = "protocol"
        BY <1>2, <2>2 DEF Ended, Failed, NoResponse
      <3> QED BY <2>2, <3>1
    <2>3. CASE u.kind \notin {"trailer", "garbage"}
      BY <1>2, <2>3 DEF Ended, outcome
    <2> QED BY <2>1, <2>2, <2>3
  <1>6. \/ \A x \in Reqs : m_done'[x] = m_done[x] /\ result'[x] = result[x]
        \/ \E r : /\ u.kind # "data"
                  /\ r.why = "trailer" => r.body = Body(c, buf)
                  /\ \A x \in Reqs :
                       /\ m_done'[x] = (m_done[x] \/ x = c)
                       /\ result'[x] = IF x = c /\ ~m_done[c] THEN r ELSE result[x]
    BY <1>5, FirstReport
  <1>7. ASSUME NEW x \in Reqs \ {c} PROVE InOrder(x)'
    <2>1. m_done'[x] = m_done[x] /\ result'[x] = result[x]
      BY <1>6 DEF IInv, Outcomes
    <2>2. SameMessages(x)
      BY <1>3, <2>1 DEF SameMessages
    <2> QED BY <1>3, <2>2, Frame DEF PInv
  <1>8. SaysWhole(c)'
    BY <1>3, <1>4 DEF InOrder, SaysWhole
  <1>9. result[c].why # "trailer" /\ (c \in Subs => ~m_done[c])
    BY <1>1, <1>3, <1>4 DEF InOrder, ReportIsFinal
  <1>10. ASSUME u.kind # "data", trailer[c] = {OK}
         PROVE  IF c \in Subs THEN 2 * Len(notified'[c]) = sent[c]
                ELSE Body(c, buf) = <<1, 2>>
    <2>1. Handed(c)' + Len(rxbuf'[c]) = sent[c]
      BY <1>2, <1>10
    <2>2. IF c \in Subs THEN sent[c] % 2 = 0 ELSE sent[c] = 2
      BY <1>4, <1>10 DEF InOrder, SaysWhole
    <2>3. rxbuf'[c] \in Seq(Nat) /\ notified'[c] \in Seq(Nat \X Nat)
      BY <1>1 DEF BufferInOrder, NotifiedInOrder
    <2>4. Len(rxbuf'[c]) \in Nat /\ Len(notified'[c]) \in Nat
      BY <2>3, LenProperties
    <2>5. CASE c \in Subs
      <3>1. Len(rxbuf'[c]) < 2 /\ Handed(c)' = 2 * Len(notified'[c])
        BY <1>1, <2>5 DEF BufferInOrder, Handed
      <3> DEFINE a == Len(rxbuf'[c])
                 b == Len(notified'[c])
                 s == sent[c]
      <3>2. 2 * b + a = s /\ a < 2 /\ s % 2 = 0 /\ a \in Nat /\ b \in Nat
        BY <2>1, <2>2, <2>4, <2>5, <3>1
      <3> HIDE DEF a, b, s
      <3>3. 2 * b = s
        BY <3>2
      <3> QED BY <2>5, <3>3 DEF b, s
    <2>6. CASE c \notin Subs
      <3>1. Handed(c) = 0 /\ Handed(c)' = 0 /\ rxbuf'[c] = buf /\ sent[c] = 2
        BY <1>2, <2>2, <2>6 DEF Handed
      <3>2. Len(buf) = 2
        BY <2>1, <2>4, <3>1
      <3>3. buf[1] = 1 /\ buf[2] = 2
        BY <1>2, <3>1, <3>2
      <3>4. Body(c, buf) = SubSeq(buf, 1, 2)
        BY <2>6, <3>2 DEF Body
      <3>5. SubSeq(buf, 1, 2) = <<buf[1], buf[2]>>
        <4> DEFINE t == SubSeq(buf, 1, 2)
        <4>1. \A i \in 1..2 : buf[i] \in Nat
          BY <3>2, SMTT(30)
        <4>2. t \in Seq(Nat) /\ Len(t) = 2 /\ \A i \in 1..2 : t[i] = buf[1 + i - 1]
          BY <4>1, SubSeqProperties
        <4>3. t[1] = buf[1] /\ t[2] = buf[2]
          BY <4>2
        <4> HIDE DEF t
        <4>4. t = <<t[1], t[2]>>
          BY <4>2
        <4> QED BY <4>3, <4>4 DEF t
      <3> QED BY <2>6, <3>3, <3>4, <3>5
    <2> QED BY <2>5, <2>6
  <1>11. ReportIsFinal(c)'
    <2>1. CASE m_done'[c] = m_done[c] /\ result'[c] = result[c]
      BY <1>3, <1>9, <2>1, <1>4 DEF ReportIsFinal, InOrder
    <2>2. ASSUME NEW r, u.kind # "data", r.why = "trailer" => r.body = Body(c, buf),
                 m_done'[c] = TRUE,
                 result'[c] = IF ~m_done[c] THEN r ELSE result[c]
          PROVE  ReportIsFinal(c)'
      <3>1. over'[c] /\ wire'[c] = <<>> /\ socket'[c] = "up"
        BY <1>2, <1>3, <2>2
      <3>2. result'[c].why = "trailer" => result'[c].body = Body(c, buf)
        BY <1>9, <2>2
      <3> QED BY <1>3, <1>10, <2>2, <3>1, <3>2 DEF ReportIsFinal
    <2> QED BY <1>6, <2>1, <2>2
  <1> QED BY <1>1, <1>3, <1>7, <1>8, <1>11 DEF PInv, InOrder

\* A unit put on a wire that holds nothing but pieces.
LEMMA AppendUnit ==
  ASSUME NEW s \in Seq(Unit), NEW u \in Unit, DataIn(s) = Len(s)
  PROVE  LET t == Append(s, u)
         IN /\ t \in Seq(Unit) /\ Len(t) = Len(s) + 1
            /\ DataIn(t) = IF u.kind = "data" THEN Len(s) + 1 ELSE Len(s)
            /\ \A i \in 1..Len(s) : t[i] = s[i]
            /\ t[Len(s) + 1] = u
  <1> DEFINE t == Append(s, u)
             n == Len(s)
  <1>1. n \in Nat
    BY LenProperties
  <1>2. /\ t \in Seq(Unit) /\ Len(t) = n + 1 /\ \A i \in 1..n : t[i] = s[i]
        /\ t[n + 1] = u
    BY AppendProperties
  <1> HIDE DEF t, n
  <1>3. t # <<>>
    BY <1>1, <1>2, EmptySeq
  <1>4. DataIn(t) = IF u.kind = "data" THEN n + 1 ELSE n
    BY <1>1, <1>2, <1>3 DEF DataIn
  <1> QED BY <1>2, <1>4 DEF t, n

\* The peer adds one unit to the wire of a stream it has not ended.
LEMMA PeerPInv ==
  ASSUME IInv, PInv, NEW c \in Reqs, Peer(c)
  PROVE  PInv'
  <1>1. /\ UNCHANGED <<link, rxbuf, notified, outcome>> /\ socket[c] = "up" /\ ~over[c]
    BY DEF Peer, PeerSends, PeerAnswers, PeerBreaks
  <1>2. PICK u \in Unit :
          /\ wire' = [wire EXCEPT ![c] = Append(@, u)]
          /\ \/ /\ u = Data(sent[c] + 1)
                /\ sent' = [sent EXCEPT ![c] = @ + 1] /\ UNCHANGED <<over, trailer>>
             \/ /\ u.kind # "data"
                /\ sent' = sent /\ over' = [over EXCEPT ![c] = TRUE]
                /\ trailer' = trailer
             \/ /\ u.kind # "data"
                /\ sent' = sent /\ over' = [over EXCEPT ![c] = TRUE]
                /\ \E s \in Answers :
                     /\ trailer' = [trailer EXCEPT ![c] = @ \cup {s}]
                     /\ s = OK => IF c \in Subs THEN sent[c] % 2 = 0 ELSE sent[c] = 2
    <2>1. CASE PeerSends(c)
      <3>1. sent[c] + 1 \in 1..2 * (MaxMsgs + 1)
        BY <2>1 DEF PeerSends, Pieces, IInv, Types, GnmiClientAssumption
      <3>2. Data(sent[c] + 1) \in Unit
        BY <3>1 DEF Data, Unit
      <3> QED BY <2>1, <3>2 DEF PeerSends
    <2>2. ASSUME NEW s \in Answers, PeerAnswers(c, s)
          PROVE  \E u \in Unit :
                   /\ wire' = [wire EXCEPT ![c] = Append(@, u)]
                   /\ u.kind # "data"
                   /\ sent' = sent /\ over' = [over EXCEPT ![c] = TRUE]
                   /\ trailer' = [trailer EXCEPT ![c] = @ \cup {s}]
                   /\ s = OK => IF c \in Subs THEN sent[c] % 2 = 0 ELSE sent[c] = 2
      <3> DEFINE u == [kind |-> "trailer", arg |-> s]
      <3>1. u \in Unit /\ u.kind # "data"
        BY DEF Unit
      <3>2. wire' = [wire EXCEPT ![c] = Append(@, u)]
        BY <2>2 DEF PeerAnswers
      <3> HIDE DEF u
      <3> QED BY <2>2, <3>1, <3>2 DEF PeerAnswers
    <2>3. ASSUME NEW how \in {"reset", "garbage"}, PeerBreaks(c, how)
          PROVE  \E u \in Unit :
                   /\ wire' = [wire EXCEPT ![c] = Append(@, u)]
                   /\ u.kind # "data"
                   /\ sent' = sent /\ over' = [over EXCEPT ![c] = TRUE]
                   /\ trailer' = trailer
      <3> DEFINE u == [kind |-> how, arg |-> 0]
      <3>1. u \in Unit /\ u.kind # "data"
        BY DEF Unit
      <3>2. wire' = [wire EXCEPT ![c] = Append(@, u)]
        BY <2>3 DEF PeerBreaks
      <3> HIDE DEF u
      <3> QED BY <2>3, <3>1, <3>2 DEF PeerBreaks
    <2> QED BY <2>1, <2>2, <2>3 DEF Peer
  <1>3. InOrder(c) /\ wire[c] \in Seq(Unit) /\ sent[c] \in Nat
    BY DEF PInv, IInv, Types
  <1>4. /\ wire'[c] = Append(wire[c], u)
        /\ \/ u = Data(sent[c] + 1) /\ sent'[c] = sent[c] + 1 /\ over'[c] = over[c]
              /\ trailer'[c] = trailer[c]
           \/ /\ u.kind # "data" /\ sent'[c] = sent[c] /\ over'[c]
              /\ \/ trailer'[c] = trailer[c]
                 \/ \E s \in Answers :
                      /\ trailer'[c] = trailer[c] \cup {s}
                      /\ s = OK => IF c \in Subs THEN sent[c] % 2 = 0 ELSE sent[c] = 2
    BY <1>2 DEF IInv, Types
  <1>5. ASSUME NEW x \in Reqs \ {c} PROVE InOrder(x)'
    <2>1. /\ wire'[x] = wire[x] /\ sent'[x] = sent[x] /\ over'[x] = over[x]
          /\ trailer'[x] = trailer[x]
      BY <1>2 DEF IInv, Types
    <2>2. SameMessages(x) /\ socket'[x] = socket[x]
      BY <1>1, <2>1 DEF SameMessages, link, outcome
    <2> QED BY <2>2, Frame DEF PInv
  <1>6. DataIn(wire[c]) = Len(wire[c]) /\ trailer[c] = {}
    BY <1>1, <1>3 DEF InOrder, WireInOrder, SaysWhole
  <1>7. Handed(c)' = Handed(c) /\ NotifiedInOrder(c)' /\ BufferInOrder(c)'
    <2>1. Handed(c)' = Handed(c)
      BY <1>1 DEF Handed
    <2> QED BY <1>1, <1>3, <2>1 DEF InOrder, NotifiedInOrder, BufferInOrder
  <1> DEFINE W == wire[c]
             n == Len(W)
             t == Append(W, u)
             k == Handed(c) + Len(rxbuf[c])
  <1>8. /\ t \in Seq(Unit) /\ Len(t) = n + 1
        /\ DataIn(t) = IF u.kind = "data" THEN n + 1 ELSE n
        /\ \A i \in 1..n : t[i] = W[i]
        /\ t[n + 1] = u
    <2>1. W \in Seq(Unit) /\ DataIn(W) = Len(W)
      BY <1>3, <1>6
    <2> HIDE DEF W
    <2> QED BY <2>1, AppendUnit
  <1>9. /\ k + n = sent[c] /\ n \in Nat /\ k \in Nat
        /\ \A i \in 1..n : W[i].kind = "data" /\ W[i].arg = k + i
    <2>1. /\ k + n = sent[c]
          /\ \A i \in 1..n : W[i].kind = "data" /\ W[i].arg = k + i
      BY <1>1, <1>3, <1>6 DEF InOrder, WireInOrder
    <2>2. n \in Nat /\ Len(rxbuf[c]) \in Nat /\ Len(notified[c]) \in Nat
      BY <1>3, LenProperties DEF InOrder, BufferInOrder, NotifiedInOrder
    <2>3. Handed(c) \in Nat
      BY <2>2 DEF Handed
    <2> QED BY <2>1, <2>2, <2>3
  <1>10. WireInOrder(c)'
    <2>1. /\ wire'[c] = t /\ Handed(c)' + Len(rxbuf'[c]) = k
          /\ socket'[c] = "up"
      BY <1>1, <1>4, <1>7 DEF link
    <2> HIDE DEF t, n, k, W
    <2>2. CASE u.kind = "data"
      <3>1. DataIn(t) = n + 1 /\ Len(t) = n + 1 /\ u = Data(sent[c] + 1)
        BY <1>4, <1>8, <2>2
      <3>2. sent'[c] = sent[c] + 1 /\ u.arg = sent[c] + 1
        BY <1>4, <2>2, <3>1 DEF Data
      <3>3. k + DataIn(t) = sent'[c]
        BY <1>3, <1>9, <3>1, <3>2
      <3>4. ASSUME NEW i \in 1..DataIn(t)
            PROVE  t[i].kind = "data" /\ t[i].arg = k + i
        <4>1. CASE i = n + 1
          BY <1>3, <1>8, <1>9, <2>2, <3>2, <4>1
        <4>2. CASE i # n + 1
          <5>1. i \in 1..n
            BY <1>9, <3>1, <4>2
          <5> QED BY <1>8, <1>9, <5>1
        <4> QED BY <4>1, <4>2
      <3> QED BY <2>1, <3>1, <3>3, <3>4 DEF WireInOrder
    <2>3. CASE u.kind # "data"
      <3>1. DataIn(t) = n /\ sent'[c] = sent[c] /\ over'[c]
        BY <1>4, <1>8, <2>3 DEF Data
      <3>2. \A i \in 1..n : t[i].kind = "data" /\ t[i].arg = k + i
        BY <1>8, <1>9
      <3> QED BY <1>9, <2>1, <3>1, <3>2 DEF WireInOrder
    <2> QED BY <2>2, <2>3
  <1>11. SaysWhole(c)'
    BY <1>4, <1>6 DEF SaysWhole
  <1>12. ReportIsFinal(c)'
    BY <1>1, <1>3 DEF InOrder, ReportIsFinal, outcome, link
  <1> QED BY <1>1, <1>5, <1>7, <1>10, <1>11, <1>12 DEF PInv, InOrder, Buffers

LEMMA NextPInv == ASSUME IInv, PInv, [Next]_vars PROVE PInv'
  <1>1. ASSUME UNCHANGED <<peer, rxbuf, notified, outcome>>,
               \A x \in Reqs : \/ socket'[x] = socket[x]
                               \/ socket'[x] \in {"closed", "freed"}
                               \/ socket[x] = "none" /\ socket'[x] = "connecting"
                               \/ socket[x] = "connecting" /\ socket'[x] = "up"
        PROVE  PInv'
    <2>1. \A x \in Reqs : SameMessages(x)
      BY <1>1 DEF SameMessages, peer, outcome
    <2>2. \A x \in Reqs : InOrder(x)'
      BY <1>1, <2>1, Frame DEF PInv
    <2> QED BY <1>1, <2>2 DEF PInv, Buffers
  <1>2. ASSUME NEW c \in Reqs, Open(c) PROVE PInv'
    BY <1>1, <1>2 DEF Open, IInv, Types
  <1>3. ASSUME NEW c \in Reqs, Return(c) \/ HandleConnect(c) PROVE PInv'
    BY <1>1, <1>3 DEF Return, HandleConnect, IInv, Types
  <1>4. ASSUME NEW c \in Reqs, HandleRead(c) PROVE PInv'
    BY <1>4, ReadPInv
  <1>5. ASSUME NEW c \in Reqs, HandleClose(c) PROVE PInv'
    <2>1. PICK r : Finish(c, r) /\ r.why = "closed"
      BY <1>5 DEF HandleClose, Failed, NoResponse
    <2>2. /\ wire' = [wire EXCEPT ![c] = <<>>]
          /\ UNCHANGED <<sent, over, trailer, rxbuf, notified>>
          /\ socket' = [socket EXCEPT ![c] = "closed"]
      BY <1>5 DEF HandleClose
    <2>3. socket'[c] = "closed" /\ \A x \in Reqs \ {c} : socket'[x] = socket[x]
      BY <2>2 DEF IInv, Types
    <2> QED BY <2>1, <2>2, <2>3, FinishKeepsOrder
  <1>6. ASSUME NEW c \in Reqs, NEW dir \in {"read", "write"}, HandleEvent(c, dir)
        PROVE  PInv'
    <2>1. socket' = socket /\ UNCHANGED <<peer, rxbuf, notified>>
      BY <1>6 DEF HandleEvent
    <2>2. CASE c \in Subs
      BY <1>1, <1>6, <2>1, <2>2 DEF HandleEvent
    <2>3. CASE c \notin Subs
      <3>1. PICK r : Finish(c, r) /\ r.why = "timeout"
        BY <1>6, <2>3 DEF HandleEvent, Failed, NoResponse
      <3> QED BY <2>1, <2>3, <3>1, FinishKeepsOrder DEF peer
    <2> QED BY <2>2, <2>3
  <1>7. ASSUME NEW c \in Reqs, Peer(c) PROVE PInv'
    BY <1>7, PeerPInv
  <1>8. CASE UNCHANGED vars
    BY <1>1, <1>8 DEF vars, link
  <1> QED BY <1>2, <1>3, <1>4, <1>5, <1>6, <1>7, <1>8 DEF Next, Quiet

LEMMA MessagesInvariant == Spec => [](IInv /\ PInv)
  <1>1. IInv /\ PInv /\ [Next]_vars => PInv'
    BY NextPInv
  <1> QED BY <1>1, InitIInv, InitPInv, NextIInv, PTL DEF Spec

\* gnmi_client::on_data: whatever the cut of the stream into reads, the
\* messages reach on_notif whole, in order and once each.
THEOREM MessagesReachNotif == Spec => []MessagesIntact
  <1>1. IInv /\ PInv => MessagesIntact
    <2> SUFFICES ASSUME IInv, PInv, NEW c \in Subs
                 PROVE  /\ \A i \in DOMAIN notified[c] :
                             notified[c][i] = <<2 * i - 1, 2 * i>>
                        /\ socket[c] = "up" =>
                             2 * Len(notified[c]) + Len(rxbuf[c]) + DataIn(wire[c])
                               = sent[c]
      BY DEF MessagesIntact
    <2>1. InOrder(c)
      BY DEF PInv, Reqs
    <2>2. DOMAIN notified[c] = 1..Len(notified[c])
      BY <2>1, LenProperties DEF InOrder, NotifiedInOrder
    <2>3. Handed(c) = 2 * Len(notified[c])
      BY DEF Handed
    <2> QED BY <2>1, <2>2, <2>3 DEF InOrder, NotifiedInOrder, WireInOrder
  <1> QED BY <1>1, MessagesInvariant, PTL

\* capture_response, on_stream_end: a success that was read from a trailer
\* stands for everything the peer sent before it.
THEOREM SuccessCarriesAll == Spec => []SuccessIsWhole
  <1>1. PInv => SuccessIsWhole
    BY DEF PInv, InOrder, ReportIsFinal, SuccessIsWhole
  <1> QED BY <1>1, MessagesInvariant, PTL

\* finish: once a request is done, no step changes what was reported of it
\* nor hands its subscription another message.
THEOREM ReportNeverChanges == Spec => ReportStands
  <1> DEFINE Stands == \A c \in Reqs :
               m_done[c] => /\ result'[c] = result[c]
                            /\ notified'[c] = notified[c]
  <1>1. ASSUME IInv, PInv, [Next]_vars PROVE [Stands]_vars
    <2>1. ASSUME NEW c \in Reqs, Open(c) \/ Return(c) \/ HandleConnect(c) PROVE Stands
      BY <2>1 DEF Open, Return, HandleConnect, outcome
    <2>2. ASSUME NEW c \in Reqs, HandleRead(c) PROVE Stands
      <3>1. UNCHANGED outcome \/ \E r : Finish(c, r)
        BY <1>1, <2>2, ReadEffect
      <3>2. \A x \in Reqs : m_done[x] => result'[x] = result[x]
        BY <1>1, <3>1, FirstReport DEF outcome
      <3>3. c \in Subs => ~m_done[c]
        BY <1>1, <2>2, ReadMoves DEF PInv, InOrder, ReportIsFinal, HandleRead
      <3>4. \A x \in Reqs : m_done[x] => notified'[x] = notified[x]
        BY <1>1, <2>2, <3>3 DEF HandleRead, PInv, Buffers
      <3> QED BY <3>2, <3>4
    <2>3. ASSUME NEW c \in Reqs, HandleClose(c) PROVE Stands
      <3>1. notified' = notified /\ \E r : Finish(c, r)
        BY <2>3 DEF HandleClose
      <3> QED BY <1>1, <3>1, FirstReport
    <2>4. ASSUME NEW c \in Reqs, NEW dir \in {"read", "write"}, HandleEvent(c, dir)
          PROVE  Stands
      <3>1. notified' = notified /\ (UNCHANGED outcome \/ \E r : Finish(c, r))
        BY <2>4 DEF HandleEvent
      <3> QED BY <1>1, <3>1, FirstReport DEF outcome
    <2>5. ASSUME NEW c \in Reqs, Peer(c) PROVE Stands
      BY <2>5 DEF Peer, PeerSends, PeerAnswers, PeerBreaks, outcome
    <2> QED BY <1>1, <2>1, <2>2, <2>3, <2>4, <2>5 DEF Next, Quiet
  <1> QED BY <1>1, MessagesInvariant, PTL DEF Spec, ReportStands

-----------------------------------------------------------------------------
(* Every call completes.                                                   *)

\* A unary call that is neither reported nor disconnected has its read timer
\* armed.
Armed == \A c \in Unary :
  socket[c] \in {"connecting", "up"} /\ ~m_done[c] => "read" \in enabled[c]

\* The read timer of c is armed, and c waits for its completion.
TimerRuns(c) == socket[c] \in {"connecting", "up"} /\ "read" \in enabled[c]
Pending(c)   == socket[c] # "none" /\ ~m_done[c]
Completed(c) == m_done[c]

\* An armed timer can fire: the guard of HandleEvent is all it takes. The
\* provers cannot compute ENABLED, so this is a hypothesis of what follows.
TimerMayFire(c) == [](TimerRuns(c) => ENABLED <<HandleEvent(c, "read")>>_vars)

LEMMA InitArmed == ASSUME Init PROVE Armed
BY DEF Init, Armed, Reqs, Unary

\* No step undoes a completion, a request stays made, and the read event of an
\* unfinished call is enabled by Open and disabled only as the call finishes.
LEMMA Completions ==
  ASSUME IInv, [Next]_vars, NEW c \in Unary
  PROVE  /\ m_done[c] => m_done'[c]
         /\ socket[c] # "none" => socket'[c] # "none"
         /\ "read" \in enabled[c] => "read" \in enabled'[c] \/ m_done'[c]
         /\ socket[c] = "none" /\ socket'[c] # "none" => "read" \in enabled'[c]
  <1> DEFINE Goal == /\ m_done[c] => m_done'[c]
                     /\ socket[c] # "none" => socket'[c] # "none"
                     /\ "read" \in enabled[c] => "read" \in enabled'[c] \/ m_done'[c]
                     /\ socket[c] = "none" /\ socket'[c] # "none" => "read" \in enabled'[c]
  <1>0. /\ c \in Reqs /\ c \notin Subs
        /\ socket = [x \in Reqs |-> socket[x]] /\ enabled = [x \in Reqs |-> enabled[x]]
        /\ m_done = [x \in Reqs |-> m_done[x]]
        /\ socket[c] = "none" => ~m_done[c]
    BY DEF Reqs, IInv, Types, Outcomes, FreshIsOpen
  <1>1. ASSUME NEW d \in Reqs, NEW r, Finish(d, r)
        PROVE  (m_done[c] => m_done'[c]) /\ (c = d => m_done'[c])
    BY <1>0, <1>1 DEF Finish, outcome
  <1>2. ASSUME NEW d \in Reqs, Open(d) PROVE Goal
    BY <1>0, <1>2 DEF Open, outcome, Collected
  <1>3. ASSUME NEW d \in Reqs, Return(d) \/ HandleConnect(d) PROVE Goal
    BY <1>0, <1>3 DEF Return, HandleConnect, outcome
  <1>4. ASSUME NEW d \in Reqs, HandleRead(d) PROVE Goal
    <2>1. UNCHANGED outcome \/ \E r : Finish(d, r)
      BY <1>4, ReadEffect
    <2> QED BY <1>1, <1>4, <2>1 DEF HandleRead, link, outcome
  <1>5. ASSUME NEW d \in Reqs, HandleClose(d) PROVE Goal
    <2>1. \E r : Finish(d, r)
      BY <1>5 DEF HandleClose
    <2> QED BY <1>0, <1>1, <1>5, <2>1 DEF HandleClose
  <1>6. ASSUME NEW d \in Reqs, NEW dir \in {"read", "write"}, HandleEvent(d, dir) PROVE Goal
    <2>1. CASE d \in Subs BY <1>6, <2>1 DEF HandleEvent, outcome
    <2>2. CASE d \notin Subs
      <3>1. Finish(d, Failed("timeout")) BY <1>6, <2>2 DEF HandleEvent
      <3>2. c # d => enabled'[c] = enabled[c]
        BY <1>0, <1>6, <2>2 DEF HandleEvent
      <3> QED BY <1>1, <1>6, <3>1, <3>2 DEF HandleEvent
    <2> QED BY <2>1, <2>2
  <1>7. ASSUME NEW d \in Reqs, Peer(d) PROVE Goal
    BY <1>7 DEF Peer, PeerSends, PeerAnswers, PeerBreaks, link, outcome
  <1>8. CASE UNCHANGED vars BY <1>8 DEF vars, link, outcome
  <1> QED BY <1>2, <1>3, <1>4, <1>5, <1>6, <1>7, <1>8 DEF Next, Quiet

LEMMA StepArmed == ASSUME IInv, Armed, [Next]_vars PROVE Armed'
  <1> SUFFICES ASSUME NEW c \in Unary, socket'[c] # "none", ~m_done'[c]
               PROVE  "read" \in enabled'[c]
    BY DEF Armed
  <1>1. CASE socket[c] = "none" BY <1>1, Completions
  <1>2. CASE socket[c] # "none"
    <2>1. c \in Reqs /\ ~m_done[c] BY Completions DEF Reqs
    <2>2. socket[c] \in {"connecting", "up"}
      BY <1>2, <2>1 DEF IInv, Types, CompletedOnce
    <2> QED BY <2>1, <2>2, Completions DEF Armed
  <1> QED BY <1>1, <1>2

\* handle_event arms and disarms the timers of a unary call: at every moment
\* a call that waits has its read timer armed, so no call waits for a peer
\* alone.
THEOREM CallsAreTimed == Spec => []Armed
BY InitArmed, StepArmed, ClientInvariant, PTL DEF Spec

LEMMA EachCallCompletes ==
  ASSUME NEW c \in Unary
  PROVE  Spec /\ TimerFires(c) /\ TimerMayFire(c) => CallCompletes(c)
  <1>1. IInv /\ Armed => (Pending(c) => TimerRuns(c))
    BY DEF IInv, Types, CompletedOnce, Armed, Pending, TimerRuns, Reqs
  <1>2. IInv /\ [Next]_vars => (Pending(c) => Pending(c)' \/ Completed(c)')
    BY Completions DEF Pending, Completed
  <1>3. <<HandleEvent(c, "read")>>_vars /\ IInv => Completed(c)'
    <2> SUFFICES ASSUME HandleEvent(c, "read"), IInv PROVE Completed(c)'
      OBVIOUS
    <2>1. Finish(c, Failed("timeout")) /\ c \in Reqs
      BY DEF HandleEvent, Reqs
    <2> QED BY <2>1 DEF Finish, outcome, IInv, Outcomes, Completed
  <1>4. socket[c] # "none" => Pending(c) \/ Completed(c)
    BY DEF Pending, Completed
  <1> QED
    BY <1>1, <1>2, <1>3, <1>4, CallsAreTimed, ClientInvariant, PTL
    DEF Spec, Completed, TimerFires, TimerMayFire, CallCompletes

\* call, push_async: every unary call completes, whatever the peer does, from
\* the fairness of its read timer and what TimerMayFire says of the guard of
\* HandleEvent.
THEOREM CallsComplete ==
  FairSpec /\ (\A c \in Unary : TimerMayFire(c)) => EveryCallCompletes
BY EachCallCompletes DEF FairSpec, Fairness, EveryCallCompletes

=============================================================================

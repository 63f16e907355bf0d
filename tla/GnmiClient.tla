----------------------------- MODULE GnmiClient -----------------------------
(***************************************************************************)
(* gnmi_client: a blocking unary call, a non-blocking unary push and a     *)
(* streaming subscription, each on an outbound connection of its own.      *)
(* One action is one libevent callback of a connection, one call of the    *)
(* public interface, or a step of the peer.                                *)
(*                                                                         *)
(* A gRPC message travels as two pieces, numbered 2m-1 and 2m: decoding    *)
(* goes by length, so any two consecutive pieces in a buffer decode as one *)
(* message, and a piece taken twice or dropped shows in the pairs.         *)
(***************************************************************************)
EXTENDS Integers, FiniteSets, Sequences

CONSTANTS
  Blocking,   \* requests made with gnmi_client::call
  Pushes,     \* requests made with gnmi_client::push_async
  Subs,       \* requests made with gnmi_client::subscribe_async
  MaxMsgs,    \* bound: messages a peer sends on one subscription
  MaxMade     \* bound: requests made in one behaviour

Unary == Blocking \cup Pushes
Reqs == Unary \cup Subs

ASSUME GnmiClientAssumption ==
  /\ Blocking \cap Pushes = {}
  /\ Unary \cap Subs = {}
  /\ MaxMsgs \in Nat \ {0}
  /\ MaxMade \in Nat

VARIABLES
  socket,   \* "none", "connecting", "up", "closed" or "freed"
  enabled,  \* events enabled on the bufferevent: a subset of {"read", "write"}
  wire,     \* units the peer has sent and the connection has not read
  sent,     \* pieces the peer has sent so far
  over,     \* the peer has ended the stream (or the connection's protocol)
  trailer,  \* statuses the peer has put in a trailer: none or one
  rxbuf,    \* m_rxbuf of a subscription, body of the response of a unary call
  notified, \* what on_notif was given, in order
  m_done,   \* m_done
  result,   \* the response on_done was given (or call returned)
  fired     \* how often it was given one

link    == <<socket, enabled>>
peer    == <<wire, sent, over, trailer>>
outcome == <<m_done, result, fired>>
vars    == <<link, peer, rxbuf, notified, outcome>>

-----------------------------------------------------------------------------
(* Statuses, units on the wire, responses.                                 *)

OK == 0
Unavailable == 14
TransportError == -1
NoStatus == -2              \* the trailing HEADERS carry no grpc-status
Answers == {OK, Unavailable, NoStatus}

\* Pieces that a peer sends before it ends the stream.
Pieces(c) == IF c \in Subs THEN 2 * MaxMsgs ELSE 2

Unit == [kind : {"data"}, arg : 1..2 * (MaxMsgs + 1)]
        \cup [kind : {"trailer"}, arg : Answers]
        \cup [kind : {"reset", "garbage"}, arg : {0}]
Data(p) == [kind |-> "data", arg |-> p]

Response == [status : {TransportError, OK, Unavailable},
             why : {"none", "trailer", "timeout", "closed", "protocol"},
             body : Seq(Nat)]
NoResponse == [status |-> TransportError, why |-> "none", body |-> <<>>]
Failed(why) == [NoResponse EXCEPT !.why = why]

StatusOfLenient(c, s) == IF s = NoStatus THEN OK ELSE s
\* capture_response: a missing grpc-status reads as the default of response,
\* -1 for a unary call and 0 for a subscription.
StatusOfRaw(c, s) == s
StatusOf(c, s) ==
  IF s # NoStatus THEN s ELSE IF c \in Subs THEN OK ELSE TransportError

Init ==
  /\ socket = [c \in Reqs |-> "none"]
  /\ enabled = [c \in Reqs |-> {}]
  /\ wire = [c \in Reqs |-> <<>>]
  /\ sent = [c \in Reqs |-> 0]
  /\ over = [c \in Reqs |-> FALSE]
  /\ trailer = [c \in Reqs |-> {}]
  /\ rxbuf = [c \in Reqs |-> <<>>]
  /\ notified = [c \in Reqs |-> <<>>]
  /\ m_done = [c \in Reqs |-> FALSE]
  /\ result = [c \in Reqs |-> NoResponse]
  /\ fired = [c \in Reqs |-> 0]

-----------------------------------------------------------------------------
(* The public interface.                                                   *)

\* The lazy collection: the finished connections of the list c goes to.
Collected(c, x) ==
  /\ m_done[x]
  /\ \/ c \in Pushes /\ x \in Pushes
     \/ c \in Subs /\ x \in Subs

\* call, push_async, subscribe_async: the constructor of evt_io starts the
\* connect with both events enabled under the five second timeouts.
Open(c) ==
  /\ socket[c] = "none"
  /\ Cardinality({x \in Reqs : socket[x] # "none"}) < MaxMade
  /\ socket' = [x \in Reqs |-> IF x = c THEN "connecting"
                               ELSE IF Collected(c, x) THEN "freed"
                               ELSE socket[x]]
  /\ enabled' = [enabled EXCEPT ![c] = {"read", "write"}]
  /\ UNCHANGED <<peer, rxbuf, notified, outcome>>

\* call leaves its loop once done and destroys the connection.
Return(c) ==
  /\ c \in Blocking
  /\ m_done[c]
  /\ socket[c] # "freed"
  /\ socket' = [socket EXCEPT ![c] = "freed"]
  /\ UNCHANGED <<enabled, peer, rxbuf, notified, outcome>>

-----------------------------------------------------------------------------
(* Completion.                                                             *)

FinishOverwriting(c, r) ==
  /\ m_done' = [m_done EXCEPT ![c] = TRUE]
  /\ result' = [result EXCEPT ![c] = r]
  /\ fired' = [fired EXCEPT ![c] = IF m_done[c] THEN @ ELSE @ + 1]
FinishAgain(c, r) ==
  /\ m_done' = [m_done EXCEPT ![c] = TRUE]
  /\ result' = [result EXCEPT ![c] = r]
  /\ fired' = [fired EXCEPT ![c] = @ + 1]
Finish(c, r) ==
  IF m_done[c] THEN UNCHANGED outcome
  ELSE /\ m_done' = [m_done EXCEPT ![c] = TRUE]
       /\ result' = [result EXCEPT ![c] = r]
       /\ fired' = [fired EXCEPT ![c] = @ + 1]

-----------------------------------------------------------------------------
(* Callbacks of the connection.                                            *)

\* The request goes out. A subscription lifts its timeouts here.
HandleConnect(c) ==
  /\ socket[c] = "connecting"
  /\ "write" \in enabled[c]
  /\ socket' = [socket EXCEPT ![c] = "up"]
  /\ UNCHANGED <<enabled, peer, rxbuf, notified, outcome>>

\* on_data: every complete message in the buffer is delivered, the rest kept.
Whole(buf) == [i \in 1..(Len(buf) \div 2) |-> <<buf[2 * i - 1], buf[2 * i]>>]
RestDropped(buf) == <<>>
Rest(buf) == SubSeq(buf, 2 * (Len(buf) \div 2) + 1, Len(buf))

\* decode_frame on the body of a unary response: empty when incomplete.
Body(c, buf) == IF c \in Subs \/ Len(buf) < 2 THEN <<>> ELSE SubSeq(buf, 1, 2)

EndedBeforeData(c, last, buf) ==
  IF last.kind = "trailer"
  THEN Finish(c, [status |-> StatusOf(c, last.arg), why |-> "trailer",
                  body |-> Body(c, rxbuf[c])])
  ELSE UNCHANGED outcome
\* capture_response runs when the trailing HEADERS arrive; a reset stream is
\* forgotten without a word; garbage makes recv fail.
Ended(c, last, buf) ==
  CASE last.kind = "trailer" ->
         Finish(c, [status |-> StatusOf(c, last.arg), why |-> "trailer",
                    body |-> Body(c, buf)])
    [] last.kind = "garbage" -> Finish(c, Failed("protocol"))
    [] OTHER -> UNCHANGED outcome

\* How many of the units are pieces. A peer sends nothing after the unit that
\* ends its stream, so only the last one may be something else.
DataIn(units) ==
  IF units = <<>> \/ units[Len(units)].kind = "data" THEN Len(units) ELSE Len(units) - 1

\* One read hands the session any number of the units that have arrived.
HandleRead(c) ==
  /\ socket[c] = "up"
  /\ "read" \in enabled[c]
  /\ \E n \in 1..Len(wire[c]) :
       LET taken == SubSeq(wire[c], 1, n)
           buf   == rxbuf[c] \o [i \in 1..DataIn(taken) |-> taken[i].arg]
       IN /\ wire' = [wire EXCEPT ![c] = SubSeq(@, n + 1, Len(@))]
          /\ IF c \in Subs
             THEN /\ notified' = [notified EXCEPT ![c] = @ \o Whole(buf)]
                  /\ rxbuf' = [rxbuf EXCEPT ![c] = Rest(buf)]
             ELSE /\ rxbuf' = [rxbuf EXCEPT ![c] = buf]
                  /\ UNCHANGED notified
          /\ Ended(c, taken[n], buf)
  /\ UNCHANGED <<link, sent, over, trailer>>

\* The five second timer of one direction runs out; libevent stops that
\* direction. A unary call gives up; a subscription, whose timers only run
\* until it is connected, enables both directions again and goes on.
HandleEventForgiving(c, dir) == dir \in enabled[c] /\ UNCHANGED vars
HandleEvent(c, dir) ==
  /\ socket[c] = "connecting" \/ (socket[c] = "up" /\ c \in Unary /\ dir = "read")
  /\ dir \in enabled[c]
  /\ IF c \in Subs THEN UNCHANGED <<enabled, outcome>>
     ELSE /\ enabled' = [enabled EXCEPT ![c] = @ \ {dir}]
          /\ Finish(c, Failed("timeout"))
  /\ UNCHANGED <<socket, peer, rxbuf, notified>>

\* EOF or an error: the connect was refused, or the peer is gone. Bytes the
\* peer had under way may be lost with the connection.
HandleClose(c) ==
  /\ \/ socket[c] = "connecting" /\ "write" \in enabled[c]
     \/ socket[c] = "up" /\ "read" \in enabled[c]
  /\ socket' = [socket EXCEPT ![c] = "closed"]
  /\ IF c \in Subs
     THEN Finish(c, [status |-> OK, why |-> "closed", body |-> <<>>])
     ELSE Finish(c, Failed("closed"))
  /\ wire' = [wire EXCEPT ![c] = <<>>]
  /\ UNCHANGED <<enabled, sent, over, trailer, rxbuf, notified>>

-----------------------------------------------------------------------------
(* The peer: a gNMI server, or something else that listens on the port.    *)

PeerSends(c) ==
  /\ socket[c] = "up"
  /\ ~over[c]
  /\ sent[c] < Pieces(c)
  /\ sent' = [sent EXCEPT ![c] = @ + 1]
  /\ wire' = [wire EXCEPT ![c] = Append(@, Data(sent[c] + 1))]
  /\ UNCHANGED <<link, over, trailer, rxbuf, notified, outcome>>

\* A success carries the whole message; an error may come at any time.
PeerAnswers(c, s) ==
  /\ socket[c] = "up"
  /\ ~over[c]
  /\ s = OK => IF c \in Subs THEN sent[c] % 2 = 0 ELSE sent[c] = 2
  /\ over' = [over EXCEPT ![c] = TRUE]
  /\ trailer' = [trailer EXCEPT ![c] = @ \cup {s}]
  /\ wire' = [wire EXCEPT ![c] = Append(@, [kind |-> "trailer", arg |-> s])]
  /\ UNCHANGED <<link, sent, rxbuf, notified, outcome>>

PeerBreaks(c, how) ==
  /\ socket[c] = "up"
  /\ ~over[c]
  /\ over' = [over EXCEPT ![c] = TRUE]
  /\ wire' = [wire EXCEPT ![c] = Append(@, [kind |-> how, arg |-> 0])]
  /\ UNCHANGED <<link, sent, trailer, rxbuf, notified, outcome>>

Peer(c) ==
  \/ PeerSends(c)
  \/ \E s \in Answers : PeerAnswers(c, s)
  \/ \E how \in {"reset", "garbage"} : PeerBreaks(c, how)

\* Every request made is done: the loop idles.
Quiet ==
  /\ \A c \in Reqs : socket[c] # "none" => m_done[c]
  /\ UNCHANGED vars

Next ==
  \/ \E c \in Reqs :
       \/ Open(c) \/ Return(c)
       \/ HandleConnect(c) \/ HandleRead(c) \/ HandleClose(c)
       \/ \E dir \in {"read", "write"} : HandleEvent(c, dir)
       \/ Peer(c)
  \/ Quiet

Spec == Init /\ [][Next]_vars

\* The event loop is dispatched for ever, so a timer that stays armed fires.
TimerFires(c) == WF_vars(HandleEvent(c, "read"))
Fairness == \A c \in Unary : TimerFires(c)
FairSpec == Spec /\ Fairness

-----------------------------------------------------------------------------
(* Properties.                                                             *)

TypeOK ==
  /\ socket \in [Reqs -> {"none", "connecting", "up", "closed", "freed"}]
  /\ enabled \in [Reqs -> SUBSET {"read", "write"}]
  /\ \A c \in Reqs :
       /\ \A i \in DOMAIN wire[c] : wire[c][i] \in Unit
       /\ sent[c] \in 0..Pieces(c)
       /\ trailer[c] \in SUBSET Answers
       /\ result[c].status \in {TransportError, OK, Unavailable}
       /\ fired[c] \in Nat
  /\ over \in [Reqs -> BOOLEAN]
  /\ m_done \in [Reqs -> BOOLEAN]

\* on_done is invoked exactly once: never a second time, whichever of the
\* answer, the timers and the end of the connection race, and never omitted
\* by a connection that has ended or that the lazy collection has freed.
CompletedOnce ==
  \A c \in Reqs :
    /\ fired[c] = IF m_done[c] THEN 1 ELSE 0
    /\ socket[c] \in {"closed", "freed"} => m_done[c]

\* However the peer's bytes are cut into reads, on_notif gets the messages
\* whole, in order, each once, and none is lost while the connection lives.
MessagesIntact ==
  \A c \in Subs :
    /\ \A i \in DOMAIN notified[c] : notified[c][i] = <<2 * i - 1, 2 * i>>
    /\ socket[c] = "up" =>
         2 * Len(notified[c]) + Len(rxbuf[c]) + DataIn(wire[c]) = sent[c]

\* A success reported from a trailer comes with everything the peer sent
\* before it: the whole body of a unary call, every message of a stream.
SuccessIsWhole ==
  \A c \in Reqs :
    result[c].why = "trailer" /\ trailer[c] = {OK} =>
      IF c \in Subs THEN 2 * Len(notified[c]) = sent[c]
      ELSE result[c].body = <<1, 2>>

\* What was reported stands: a late answer, timer or close changes neither
\* the response call returns nor adds a notification after on_done.
ReportStands ==
  [][\A c \in Reqs :
       m_done[c] => /\ result'[c] = result[c]
                    /\ notified'[c] = notified[c]]_vars

\* Every unary call completes, against a silent peer, a peer that resets the
\* stream, or no peer at all: the read timer of the connection sees to it.
CallCompletes(c) == socket[c] # "none" ~> m_done[c]
EveryCallCompletes == \A c \in Unary : CallCompletes(c)

\* The unary calls implement AsyncCall.
Async == INSTANCE AsyncCall WITH
  Calls <- Unary,
  Statuses <- Answers,
  state <- [c \in Unary |-> IF socket[c] = "none" THEN "idle"
                            ELSE IF m_done[c] THEN "done" ELSE "pending"],
  said <- [c \in Unary |-> trailer[c]],
  outcome <- [c \in Unary |-> result[c].status]

ImplementsAsyncCall == Async!AsyncSpec
=============================================================================

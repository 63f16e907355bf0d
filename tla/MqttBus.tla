------------------------------- MODULE MqttBus -------------------------------
(***************************************************************************)
(* The MQTT broker as the programs use it, and the relay that copies       *)
(* requests from cli/<vip> to fwd/<vip> and answers from resp/<vip> to     *)
(* cli_resp/<vip>. Each program has one session, so what the broker sends  *)
(* it arrives in order. All messages have QoS 0: without a subscriber a    *)
(* message is lost, unless it is retained.                                 *)
(***************************************************************************)
EXTENDS Naturals, FiniteSets, SequencesExt, Maps

CONSTANTS Vips   \* virtual addresses of the devices

VARIABLES
  cliUp,      \* the broker has a session with the CLI
  subs,       \* addresses v whose cli_resp/<v> goes to the CLI
  fromCli,    \* packets the CLI has sent and the broker has not handled
  toRelay,    \* messages on their way to the relay
  toPeer,     \* fwd/<v> subscriptions, each with the requests on their way
  retained,   \* addresses v with a retained clients/<v> message
  toCli       \* messages on their way to the CLI

bus == <<cliUp, subs, fromCli, toRelay, toPeer, retained, toCli>>

\* A request or its answer. The bytes, and in an answer the status, are
\* abstracted to the number of the command that made the request.
Request == [id : Nat, vip : Vips]
NoRequest == [id |-> 0]

\* A lifecycle message; FALSE is the empty payload that clears it.
Event == [vip : Vips, up : BOOLEAN]

BusTypeOK ==
  /\ cliUp \in BOOLEAN
  /\ subs \subseteq Vips
  /\ fromCli \in Seq([packet : {"subscribe", "publish", "unsubscribe"}, req : Request])
  /\ toRelay \in Seq([topic : {"cli", "resp"}, req : Request])
  /\ DOMAIN toPeer \subseteq Vips
  /\ \A v \in DOMAIN toPeer : toPeer[v] \in Seq(Request)
  /\ retained \subseteq Vips
  /\ toCli \in Seq([topic : {"clients"}, msg : Event]
                   \cup [topic : {"cli_resp"}, msg : Request])

BusInit ==
  /\ cliUp = FALSE
  /\ subs = {}
  /\ fromCli = <<>> /\ toRelay = <<>> /\ toCli = <<>>
  /\ toPeer = EmptyMap
  /\ retained = {}

\* The broker hands messages to the session of the CLI.
SendToCli(messages) == toCli' = IF cliUp THEN toCli \o messages ELSE toCli

EventOf(v, up) == [topic |-> "clients", msg |-> [vip |-> v, up |-> up]]
Events(vips, up) == SetToSeq({EventOf(v, up) : v \in vips})

\* Retained clients/<v> messages: set for the addresses came, cleared for
\* the addresses left.
Announce(came, left) ==
  /\ retained' = (retained \cup came) \ left
  /\ SendToCli(Events(came, TRUE) \o Events(left, FALSE))

\* The broker handles the next packet of the CLI.
BrokerHandlesCli ==
  /\ fromCli # <<>>
  /\ LET p == Head(fromCli) IN
       /\ subs' = CASE p.packet = "subscribe"   -> subs \cup {p.req.vip}
                    [] p.packet = "unsubscribe" -> subs \ {p.req.vip}
                    [] p.packet = "publish"     -> subs
       /\ toRelay' = IF p.packet = "publish"
                     THEN Append(toRelay, [topic |-> "cli", req |-> p.req])
                     ELSE toRelay
  /\ fromCli' = Tail(fromCli)
  /\ UNCHANGED <<cliUp, toPeer, retained, toCli>>

\* The session of the CLI ends: its subscriptions and what it had sent are
\* gone, what is already on the way can still be read.
BrokerDropsCli ==
  /\ cliUp' = FALSE
  /\ subs' = {}
  /\ fromCli' = <<>>

\* relay_msg_cb.
Forward(r) ==
  toPeer' = IF r.vip \in DOMAIN toPeer
            THEN [toPeer EXCEPT ![r.vip] = Append(@, r)] ELSE toPeer
Return(r) ==
  SendToCli(IF r.vip \in subs THEN <<[topic |-> "cli_resp", msg |-> r]>> ELSE <<>>)
RelayTwice(m) ==
  IF m.topic = "cli" THEN Forward(m.req) /\ UNCHANGED toCli
  ELSE /\ SendToCli(IF m.req.vip \in subs
                    THEN <<[topic |-> "cli_resp", msg |-> m.req],
                           [topic |-> "cli_resp", msg |-> m.req]>> ELSE <<>>)
       /\ UNCHANGED toPeer
RelayMessage(m) ==
  IF m.topic = "cli" THEN Forward(m.req) /\ UNCHANGED toCli
                     ELSE Return(m.req) /\ UNCHANGED toPeer
Relay ==
  /\ toRelay # <<>>
  /\ RelayMessage(Head(toRelay))
  /\ toRelay' = Tail(toRelay)
  /\ UNCHANGED <<cliUp, subs, fromCli, retained>>
=============================================================================

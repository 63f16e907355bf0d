--------------------------------- MODULE Cli ---------------------------------
(***************************************************************************)
(* cli_app: one command at a time, its request published on cli/<vip>, and *)
(* at most five seconds of waiting for an answer on cli_resp/<vip>. The    *)
(* program reads its MQTT connection only in mosquitto_loop, that is while *)
(* it starts and while a command waits; at the prompt readline blocks.     *)
(***************************************************************************)
EXTENDS MqttBus

CONSTANTS
  MaxCommands,   \* bound: gNMI commands
  MaxStarts,     \* bound: starts of the program
  MaxDrops       \* bound: sessions the broker ends

VARIABLES
  phase,      \* where the program is: off, at the prompt, in a command
  cur,        \* the request of the command that waits
  resp,       \* g_cli_resp: the answer received, if any
  known,      \* g_connected_vips
  shown,      \* pairs <<command, answer printed for it>>
  unanswered, \* commands that ended without an answer
  spent       \* commands, starts and drops so far

cli == <<phase, cur, resp, known, shown, unanswered, spent>>

CliTypeOK ==
  /\ phase \in {"off", "prompt", "waiting"}
  /\ cur \in Request \cup {NoRequest}
  /\ resp \in Request \cup {NoRequest}
  /\ known \subseteq Vips
  /\ shown \subseteq Request \X Request
  /\ unanswered \subseteq 1..MaxCommands
  /\ spent \in [commands : 0..MaxCommands, starts : 0..MaxStarts, drops : 0..MaxDrops]

CliInit ==
  /\ phase = "off"
  /\ cur = NoRequest /\ resp = NoRequest
  /\ known = {}
  /\ shown = {} /\ unanswered = {}
  /\ spent = [commands |-> 0, starts |-> 0, drops |-> 0]

\* main: subscribe to clients/#; the broker sends what it retains, and the
\* first mosquitto_loop reads some of it.
Start ==
  /\ phase = "off"
  /\ spent.starts < MaxStarts
  /\ phase' = "prompt"
  /\ cliUp' = TRUE
  /\ \E early \in SUBSET retained :
       /\ known' = early
       /\ toCli' = Events(retained \ early, TRUE)
  /\ spent' = [spent EXCEPT !.starts = @ + 1]
  /\ UNCHANGED <<subs, fromCli, toRelay, toPeer, retained, cur, resp, shown, unanswered>>

\* run_cli: end of input leaves the loop, and main disconnects.
Quit ==
  /\ phase = "prompt"
  /\ phase' = "off"
  /\ BrokerDropsCli
  /\ toCli' = <<>>
  /\ known' = {}
  /\ UNCHANGED <<toRelay, toPeer, retained, cur, resp, shown, unanswered, spent>>

\* The broker ends a session it has heard nothing from: at the prompt the
\* program sends no PINGREQ.
KeepaliveExpires ==
  /\ phase = "prompt" /\ cliUp
  /\ spent.drops < MaxDrops
  /\ spent' = [spent EXCEPT !.drops = @ + 1]
  /\ BrokerDropsCli
  /\ UNCHANGED <<toCli, toRelay, toPeer, retained, phase, cur, resp, known, shown,
                 unanswered>>

-----------------------------------------------------------------------------
(* mqtt_gnmi_publish.                                                      *)

Packet(kind, r) == [packet |-> kind, req |-> r]
CliSends(packets) == fromCli' = IF cliUp THEN fromCli \o packets ELSE fromCli

\* Forget the last answer, subscribe to the topic of this one, publish.
Publish(r) ==
  /\ phase' = "waiting"
  /\ cur' = r
  /\ resp' = NoRequest
  /\ CliSends(<<Packet("subscribe", r), Packet("publish", r)>>)
  /\ UNCHANGED unanswered

\* The library has noticed that the connection is gone: no waiting.
PublishFails(r) ==
  /\ ~cliUp
  /\ resp' = NoRequest
  /\ unanswered' = unanswered \cup {r.id}
  /\ UNCHANGED <<phase, cur, fromCli>>

NewCommand ==
  /\ phase = "prompt"
  /\ spent.commands < MaxCommands
  /\ spent' = [spent EXCEPT !.commands = @ + 1]
Command(v) ==
  /\ NewCommand
  /\ LET r == [id |-> spent.commands + 1, vip |-> v]
     IN Publish(r) \/ PublishFails(r)
  /\ UNCHANGED <<cliUp, subs, toRelay, toPeer, retained, toCli, known, shown>>

\* vpn_tunnel_client::connect fails: the handler returns before it publishes.
TunnelFails ==
  /\ NewCommand
  /\ unanswered' = unanswered \cup {spent.commands + 1}
  /\ UNCHANGED <<bus, phase, cur, resp, known, shown>>

\* process_command. The commands clients and help only print, an unknown
\* command too. The three writing commands send a SetRequest, each after the
\* tunnel is up when tunnel_host= is given.
GnmiGet(v) == Command(v)
GnmiUpdate(v) == Command(v) \/ TunnelFails
GnmiReplace(v) == Command(v) \/ TunnelFails
GnmiDelete(v) == Command(v) \/ TunnelFails
ProcessCommand ==
  \E v \in Vips : GnmiGet(v) \/ GnmiUpdate(v) \/ GnmiReplace(v) \/ GnmiDelete(v)

\* on_message. Any cli_resp/ topic fills g_cli_resp.
OnLifecycle(m) ==
  /\ known' = IF m.msg.up THEN known \cup {m.msg.vip} ELSE known \ {m.msg.vip}
  /\ UNCHANGED resp
OnAnswerWhole(m) == resp' = m /\ UNCHANGED known
OnAnswer(m) == resp' = m.msg /\ UNCHANGED known
OnMessageInsertOnly(m) ==
  IF m.topic = "clients" THEN known' = known \cup {m.msg.vip} /\ UNCHANGED resp
                         ELSE OnAnswer(m)
OnMessage(m) == IF m.topic = "clients" THEN OnLifecycle(m) ELSE OnAnswer(m)

\* A mosquitto_loop while the command waits; one call may read several
\* messages, so a message is read after the answer too.
Loop ==
  /\ phase = "waiting"
  /\ toCli # <<>>
  /\ OnMessage(Head(toCli))
  /\ toCli' = Tail(toCli)
  /\ UNCHANGED <<cliUp, subs, fromCli, toRelay, toPeer, retained, phase, cur, shown,
                 unanswered, spent>>

\* The command ends, and with it the subscription.
EndCommand ==
  /\ phase = "waiting"
  /\ phase' = "prompt"
  /\ cur' = NoRequest
  /\ CliSends(<<Packet("unsubscribe", cur)>>)
  /\ UNCHANGED <<cliUp, subs, toRelay, toPeer, retained, toCli, known, resp, spent>>

\* print_mqtt_response: whatever arrived, decoded as the answer says it is.
Printed(r) == shown' = shown \cup {<<cur, r>>}
PrintResponse ==
  /\ resp # NoRequest
  /\ EndCommand
  /\ Printed(resp)
  /\ UNCHANGED unanswered

\* Five seconds without an answer.
ResponseTimeout ==
  /\ resp = NoRequest
  /\ EndCommand
  /\ unanswered' = unanswered \cup {cur.id}
  /\ UNCHANGED shown

CliNext ==
  \/ Start \/ Quit \/ KeepaliveExpires
  \/ ProcessCommand
  \/ Loop \/ PrintResponse \/ ResponseTimeout
=============================================================================

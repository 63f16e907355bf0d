----------------------------- MODULE RequestPath -----------------------------
(***************************************************************************)
(* The way of a gNMI request: CLI, broker, relay, OpenVPN supervisor, and  *)
(* back. Composes Cli and OpenvpnServer over MqttBus.                      *)
(***************************************************************************)
EXTENDS OpenvpnServer, Cli

ASSUME RequestPathAssumption ==
  /\ IsFiniteSet(Vips) /\ "" \notin Vips
  /\ {MaxPolls, MaxChanges, MaxRestarts, MaxCommands, MaxStarts, MaxDrops} \subseteq Nat

vars == <<bus, server, cli>>

TypeOK == BusTypeOK /\ ServerTypeOK /\ CliTypeOK

Init == BusInit /\ ServerInit /\ CliInit

Next ==
  \/ CliNext /\ UNCHANGED server
  \/ ServerNext /\ UNCHANGED cli
  \/ (BrokerHandlesCli \/ Relay) /\ UNCHANGED <<server, cli>>

Spec == Init /\ [][Next]_vars

-----------------------------------------------------------------------------
(* Properties.                                                             *)

\* Every listing read to its end makes the supervisor's clients exactly the
\* addresses openvpn listed, whatever a lost connection left of an earlier
\* listing (parse_mgmt_line, handle_close, and m_mgmt_buf and
\* m_in_routing_table, which no reconnect resets).
ListingIsWhole == active = listed

\* The peers are the clients of the last listing, and the addresses announced
\* to the CLI are those of the peers, apart from what an earlier run of the
\* supervisor left retained (on_client_connect, on_client_disconnect).
AnnouncedArePeers == peers = active /\ retained = peers \cup orphans

\* The addresses the CLI would list once it had read what is on its way: the
\* last message about an address decides, and without one its present list.
About(m, v) == m.topic = "clients" /\ m.msg.vip = v
CaughtUp ==
  {v \in Vips :
     \/ v \in known /\ \A i \in DOMAIN toCli : ~About(toCli[i], v)
     \/ \E i \in DOMAIN toCli :
          /\ About(toCli[i], v) /\ toCli[i].msg.up
          /\ \A j \in DOMAIN toCli : j > i => ~About(toCli[j], v)}

\* A session of the CLI loses no lifecycle message: what it knows and what is
\* on its way give the retained set (main's subscription, on_message, the
\* order of on_client_connect and on_client_disconnect).
ListCatchesUp == cliUp => CaughtUp = retained

\* An answer is printed once, for the command that made the request or for a
\* later one, and then only because a command no later than the request
\* ended without an answer: nothing in the relay, the callbacks or the
\* subscriptions makes two answers of one (relay_msg_cb, on_mqtt_message,
\* mqtt_gnmi_publish). One answer that comes late may put every later
\* command one answer behind.
AnswersAreNotReused ==
  /\ \A p, q \in shown : p[2].id = q[2].id => p = q
  /\ \A p \in shown :
       \/ p[2] = p[1]
       \/ p[2].id < p[1].id /\ \E u \in unanswered : u <= p[2].id

\* The answer printed for a command is the answer to its request: "State for
\* the one outstanding request at any time (CLI is synchronous)"
\* (readline.cpp:30). A request that timed out is still outstanding.
AnswerMatchesRequest == \A p \in shown : p[1] = p[2]
=============================================================================

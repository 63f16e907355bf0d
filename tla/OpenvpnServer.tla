---------------------------- MODULE OpenvpnServer ----------------------------
(***************************************************************************)
(* openvpn_server: polls the management interface of the openvpn process,  *)
(* compares each status listing with the one before, keeps one MQTT        *)
(* subscriber for every connected address, announces the address, and      *)
(* forwards requests to the device's gNMI server. One action is one        *)
(* libevent callback (a read is cut into its lines), a step of the openvpn *)
(* process, or a restart of the supervisor.                                *)
(***************************************************************************)
EXTENDS MqttBus

CONSTANTS
  MaxPolls,      \* bound: status polls
  MaxChanges,    \* bound: devices that join or leave
  MaxRestarts    \* bound: restarts of the supervisor

VARIABLES
  table,     \* addresses in the routing table of the openvpn process
  link,      \* the management connection is up; its timers are TIMER_POLL
             \* while it is, TIMER_CONNECT while it is not
  lines,     \* lines openvpn has sent on it
  buf,       \* m_mgmt_buf: the row a lost connection left unfinished
  inTable,   \* m_in_routing_table
  polled,    \* m_polled_vips
  active,    \* m_active_vips
  peers,     \* keys of m_peers
  calls,     \* requests handed to push_async and not answered
  runs,      \* polls, changes and restarts so far
  listed,    \* the addresses of the last listing read to its end
  orphans    \* retained addresses an earlier supervisor left behind

mgmt == <<link, lines, buf, inTable, polled>>
server == <<table, mgmt, active, peers, calls, runs, listed, orphans>>

NoRow == ""
Row(v) == [is |-> "row", vip |-> v]
Title == [is |-> "ROUTING TABLE"]
\* GLOBAL STATS; of is the table that it ends.
Stats(t) == [is |-> "GLOBAL STATS", of |-> t]
End == [is |-> "END"]
Line == {Row(v) : v \in Vips} \cup {Title, End} \cup {Stats(t) : t \in SUBSET Vips}

\* The answer to `status 2'.
Listing(t) == <<Title>> \o SetToSeq({Row(v) : v \in t}) \o <<Stats(t), End>>

ServerTypeOK ==
  /\ {table, polled, active, peers, listed, orphans} \subseteq SUBSET Vips
  /\ link \in BOOLEAN
  /\ lines \in Seq(Line)
  /\ buf \in Vips \cup {NoRow}
  /\ inTable \in BOOLEAN
  /\ calls \subseteq Request
  /\ runs \in [polls : 0..MaxPolls, changes : 0..MaxChanges, restarts : 0..MaxRestarts]

\* What a new supervisor starts from.
Fresh ==
  [link |-> FALSE, lines |-> <<>>, buf |-> NoRow, inTable |-> FALSE,
   polled |-> {}, active |-> {}, peers |-> {}, calls |-> {}]
ServerInit ==
  /\ table = {} /\ listed = {} /\ orphans = {}
  /\ link = Fresh.link /\ lines = Fresh.lines /\ buf = Fresh.buf
  /\ inTable = Fresh.inTable /\ polled = Fresh.polled
  /\ active = Fresh.active /\ peers = Fresh.peers /\ calls = Fresh.calls
  /\ runs = [polls |-> 0, changes |-> 0, restarts |-> 0]

-----------------------------------------------------------------------------
(* The management connection.                                              *)

\* A device joins or leaves the VPN.
TableChanges(v) ==
  /\ runs.changes < MaxChanges
  /\ table' = IF v \in table THEN table \ {v} ELSE table \cup {v}
  /\ runs' = [runs EXCEPT !.changes = @ + 1]
  /\ UNCHANGED <<mgmt, active, peers, calls, listed, orphans, bus>>

\* What a row adds to the table being read.
PolledWith(v) == IF inTable /\ v # NoRow THEN polled \cup {v} ELSE polled

\* TIMER_CONNECT has fired and the connection is up. openvpn greets, and the
\* end of its greeting ends the line that was left in the buffer.
HandleConnect ==
  /\ ~link
  /\ link' = TRUE
  /\ lines' = <<>>
  /\ polled' = PolledWith(buf)
  /\ buf' = NoRow
  /\ UNCHANGED <<table, inTable, active, peers, calls, runs, listed, orphans, bus>>

\* TIMER_POLL: openvpn answers with its current table.
HandleTimeout ==
  /\ link
  /\ runs.polls < MaxPolls
  /\ runs' = [runs EXCEPT !.polls = @ + 1]
  /\ lines' = lines \o Listing(table)
  /\ UNCHANGED <<table, link, buf, inTable, polled, active, peers, calls, listed,
                 orphans, bus>>

\* handle_close, handle_event: anywhere in a listing, and in the middle of a
\* row, whose address has arrived or not. The table read so far is kept.
CutRows == {NoRow} \cup {v \in Vips : lines # <<>> /\ Head(lines) = Row(v)}
HandleClose ==
  /\ link
  /\ link' = FALSE
  /\ \E row \in CutRows : buf' = row
  /\ lines' = <<>>
  /\ UNCHANGED <<table, inTable, polled, active, peers, calls, runs, listed, orphans,
                 bus>>

-----------------------------------------------------------------------------
(* One line of handle_read, in parse_mgmt_line.                            *)

\* on_client_connect: an address that has a peer is left alone. The new
\* subscriber connects in the background.
Connected(came) == came \ peers
KeepsPeer(gone) ==
  /\ peers' = peers \cup (polled \ active)
  /\ UNCHANGED toPeer
\* on_client_disconnect: the peer is destroyed, with its subscription.
Disconnected(gone) ==
  /\ peers' = (peers \cup (polled \ active)) \ gone
  /\ toPeer' = MapErase(toPeer, gone)

ReadTitleOnly ==
  /\ inTable' = TRUE
  /\ UNCHANGED <<polled, active, listed, peers, bus>>
ReadTitle ==
  /\ inTable' = TRUE
  /\ polled' = {}
  /\ UNCHANGED <<active, listed, peers, bus>>
ReadRow(v) ==
  /\ polled' = PolledWith(v)
  /\ UNCHANGED <<inTable, active, listed, peers, bus>>
\* The difference of the two listings becomes the calls of on_client_connect
\* and on_client_disconnect. Only the first of GLOBAL STATS and END counts.
ReadStats(t) ==
  /\ inTable
  /\ inTable' = FALSE
  /\ Disconnected(active \ polled)
  /\ Announce(Connected(polled \ active), active \ polled)
  /\ active' = polled
  /\ listed' = t
  /\ UNCHANGED <<polled, cliUp, subs, fromCli, toRelay>>

ParseMgmtLine(line) ==
  \/ line = Title /\ ReadTitle
  \/ \E v \in Vips : line = Row(v) /\ ReadRow(v)
  \/ line.is = "GLOBAL STATS" /\ ReadStats(line.of)
  \/ line = End /\ UNCHANGED <<inTable, polled, active, listed, peers, bus>>

HandleRead ==
  /\ link /\ lines # <<>>
  /\ ParseMgmtLine(Head(lines))
  /\ lines' = Tail(lines)
  /\ buf' = NoRow
  /\ orphans' = orphans \ (active' \cup active)
  /\ UNCHANGED <<table, link, calls, runs>>

-----------------------------------------------------------------------------
(* The subscribers and the calls.                                          *)

\* The connection of a new peer is up and its SUBSCRIBE handled.
PeerSubscribes(v) ==
  /\ v \in peers \ DOMAIN toPeer
  /\ toPeer' = MapPut(toPeer, v, <<>>)
  /\ UNCHANGED <<cliUp, subs, fromCli, toRelay, retained, toCli, server>>

\* on_mqtt_message: the request goes to push_async with a callback that
\* keeps the address.
OnMqttMessage(v) ==
  /\ v \in DOMAIN toPeer /\ toPeer[v] # <<>>
  /\ v \in peers
  /\ calls' = calls \cup {Head(toPeer[v])}
  /\ toPeer' = [toPeer EXCEPT ![v] = Tail(@)]
  /\ UNCHANGED <<cliUp, subs, fromCli, toRelay, retained, toCli, table, mgmt, active,
                 peers, runs, listed, orphans>>

\* The callback: whatever became of the call, its outcome is published, if
\* the address has a peer then.
CallDone(r) ==
  /\ r \in calls
  /\ calls' = calls \ {r}
  /\ toRelay' = IF r.vip \in peers
                THEN Append(toRelay, [topic |-> "resp", req |-> r]) ELSE toRelay
  /\ UNCHANGED <<cliUp, subs, fromCli, toPeer, retained, toCli, table, mgmt, active,
                 peers, runs, listed, orphans>>

\* The supervisor stops and is started again; openvpn goes with it. Neither
\* ~openvpn_server nor a crash clears what is retained.
Restart ==
  /\ runs.restarts < MaxRestarts
  /\ runs' = [runs EXCEPT !.restarts = @ + 1]
  /\ link' = Fresh.link /\ lines' = Fresh.lines /\ buf' = Fresh.buf
  /\ inTable' = Fresh.inTable /\ polled' = Fresh.polled
  /\ active' = Fresh.active /\ peers' = Fresh.peers /\ calls' = Fresh.calls
  /\ table' = {} /\ listed' = {}
  /\ orphans' = retained
  /\ toPeer' = EmptyMap
  /\ UNCHANGED <<cliUp, subs, fromCli, toRelay, retained, toCli>>

ServerNext ==
  \/ \E v \in Vips : TableChanges(v) \/ PeerSubscribes(v) \/ OnMqttMessage(v)
  \/ HandleConnect \/ HandleTimeout \/ HandleClose \/ HandleRead
  \/ \E r \in calls : CallDone(r)
  \/ Restart
=============================================================================

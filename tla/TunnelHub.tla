------------------------------ MODULE TunnelHub ------------------------------
(***************************************************************************)
(* The gRPC tunnel of the server: devices dial in, register targets on a   *)
(* Register stream and open Tunnel streams; operators connect to a local   *)
(* listener per target; the hub bridges an operator socket to a Tunnel     *)
(* stream by a session tag.  Everything runs on one libevent thread, so    *)
(* one action is one callback; what interleaves is the order of callbacks. *)
(*                                                                         *)
(* A pair <<g, sid>> stands for (grpc_session*, stream_id).  A connection  *)
(* id g is the address of a session: it may be allocated again once freed, *)
(* and stream ids restart on a new session, exactly as in the program.     *)
(***************************************************************************)
EXTENDS Naturals, Sequences, Maps

CONSTANTS
  Conns,      \* addresses of device connections (connected_client + session)
  Targets,    \* target names; each has a local listener
  Fds,        \* operator socket descriptors
  MaxSid,     \* bound: streams opened on one connection
  MaxTag,     \* bound: sessions opened
  MaxBytes,   \* bound: bytes an operator sends in one session
  NoStream    \* bridge::tunnel_grpc == nullptr

ASSUME TunnelHubAssumption ==
  /\ MaxSid \in Nat
  /\ MaxTag \in Nat
  /\ MaxBytes \in Nat
  /\ NoStream \notin Conns \X (1 .. MaxSid)

VARIABLES
  m_clients,   \* server::m_clients: the live connections
  last_sid,    \* per connection: streams its client has opened so far
  m_streams,   \* http2_session::m_streams: <<g, sid>> -> RPC
  m_targets,   \* tunnel_hub::m_targets: target -> <<g, sid>> of its Register
  m_bridges,   \* tunnel_hub::m_bridges: tag -> bridge
  m_next_tag,  \* tunnel_hub::m_next_tag
  m_conns,     \* tunnel_gnmi_listener::m_conns: fd -> m_tag of the tunnel_bridge
  asked,       \* tags whose Session message reached the device
  sent,        \* per tag: bytes read from the operator
  got,         \* per tag: bytes put on an open Tunnel stream, in order
  alive        \* FALSE once the process has crashed

device == <<m_clients, last_sid, m_streams>>
hub    == <<m_targets, m_bridges, m_next_tag>>
bytes  == <<asked, sent, got>>
vars   == <<device, hub, m_conns, bytes, alive>>

Tags      == 1 .. MaxTag
StreamIds == Conns \X (1 .. MaxSid)
Rpcs      == {"Register", "Tunnel"}
Bridge    == [target : Targets, fd : Fds, tunnel : StreamIds \cup {NoStream},
              buffered : Seq(1 .. MaxBytes)]

Paired(b) == b.tunnel # NoStream

Init ==
  /\ m_clients = {}
  /\ last_sid = [g \in Conns |-> 0]
  /\ m_streams = EmptyMap
  /\ m_targets = EmptyMap
  /\ m_bridges = EmptyMap
  /\ m_next_tag = 0
  /\ m_conns = EmptyMap
  /\ asked = {}
  /\ sent = [t \in Tags |-> 0]
  /\ got = [t \in Tags |-> <<>>]
  /\ alive = TRUE

-----------------------------------------------------------------------------
\* Calling through a grpc_session pointer.  If the session has been freed the
\* behaviour is undefined: the process dies, or the call has no effect that
\* matters here (a new session may even live at that address).
UseSession(g) == alive' \in (IF g \in m_clients THEN {TRUE} ELSE BOOLEAN)

\* stream_send / push_stream_data: bytes for a stream that is gone are dropped.
Reaches(stream) == stream \in DOMAIN m_streams

-----------------------------------------------------------------------------
(* Device connections and their HTTP/2 streams.                            *)

\* server::handle_connect: the connection enters m_clients.
HandleConnect(g) ==
  /\ alive
  /\ g \notin m_clients
  /\ m_clients' = m_clients \cup {g}
  /\ last_sid' = [last_sid EXCEPT ![g] = 0]
  /\ UNCHANGED <<m_streams, hub, m_conns, bytes, alive>>

\* HEADERS for a bidi method: the response side opens at once.
OpenStream(g, rpc) ==
  /\ alive
  /\ g \in m_clients
  /\ last_sid[g] < MaxSid
  /\ last_sid' = [last_sid EXCEPT ![g] = @ + 1]
  /\ m_streams' = MapPut(m_streams, <<g, last_sid[g] + 1>>, rpc)
  /\ UNCHANGED <<m_clients, hub, m_conns, bytes, alive>>

\* The client half-closes (the server answers with the trailer) or resets the
\* stream: http2_session forgets it, and no hub is told.
EndStream(s) ==
  /\ alive
  /\ s \in DOMAIN m_streams
  /\ m_streams' = MapErase(m_streams, {s})
  /\ UNCHANGED <<m_clients, last_sid, hub, m_conns, bytes, alive>>

\* tunnel_hub::remove_by_stream: the targets whose Register stream is on g...
GoneTargetsFirstOnly(g) ==
  LET mine == {t \in DOMAIN m_targets : m_targets[t][1] = g}
  IN  IF mine = {} THEN {} ELSE {CHOOSE t \in mine : TRUE}
GoneTargetsAll(g) == DOMAIN m_targets
GoneTargets(g) == {t \in DOMAIN m_targets : m_targets[t][1] = g}

\* ... and the bridges to them.
GoneBridges(g) ==
  {tag \in DOMAIN m_bridges : m_bridges[tag].target \in GoneTargets(g)}

\* close_operator of each bridge in S: the listener drops the tunnel_bridge.
CloseOperatorsLeaky(S) == m_conns
CloseOperators(S) == MapErase(m_conns, {m_bridges[tag].fd : tag \in S})

\* connected_client::handle_close, then server::handle_close frees the session.
HandleClose(g) ==
  /\ alive
  /\ g \in m_clients
  /\ m_clients' = m_clients \ {g}
  /\ m_streams' = MapErase(m_streams, {s \in DOMAIN m_streams : s[1] = g})
  /\ m_targets' = MapErase(m_targets, GoneTargets(g))
  /\ m_bridges' = MapErase(m_bridges, GoneBridges(g))
  /\ m_conns' = CloseOperators(GoneBridges(g))
  /\ UNCHANGED <<last_sid, m_next_tag, bytes, alive>>

-----------------------------------------------------------------------------
(* Register stream: Target{ADD} and Target{REMOVE}.  Subscription and      *)
(* Session acks change no state.                                           *)

AddTarget(s, t) ==
  /\ alive
  /\ s \in DOMAIN m_streams
  /\ m_streams[s] = "Register"
  /\ m_targets' = MapPut(m_targets, t, s)
  /\ UNCHANGED <<device, m_bridges, m_next_tag, m_conns, bytes, alive>>

RemoveTarget(s, t) ==
  /\ alive
  /\ s \in DOMAIN m_streams
  /\ m_streams[s] = "Register"
  /\ t \in DOMAIN m_targets
  /\ m_targets' = MapErase(m_targets, {t})
  /\ UNCHANGED <<device, m_bridges, m_next_tag, m_conns, bytes, alive>>

-----------------------------------------------------------------------------
(* Tunnel stream: Data{tag} and Data{tag, close}.  A device uses the tags  *)
(* of the Session messages it received.                                    *)

\* pair_tunnel on bridge b: remember the stream, and flush what was buffered.
PairedBridgeKeepsBuffer(b, s) == [b EXCEPT !.tunnel = s]
PairedBridge(b, s) == [b EXCEPT !.tunnel = s, !.buffered = <<>>]

Flushed(tag) == [got EXCEPT ![tag] = @ \o m_bridges[tag].buffered]

MayCarry(s, tag) ==
  /\ alive
  /\ s \in DOMAIN m_streams
  /\ m_streams[s] = "Tunnel"
  /\ tag \in asked
  /\ tag \in DOMAIN m_bridges  \* Data for a tag that is gone is ignored

\* Data{tag, data}: pair_tunnel, then from_device writes to the operator socket.
TunnelData(s, tag) ==
  /\ MayCarry(s, tag)
  /\ m_bridges' = [m_bridges EXCEPT ![tag] = PairedBridge(@, s)]
  /\ got' = Flushed(tag)
  /\ UNCHANGED <<device, m_targets, m_next_tag, m_conns, asked, sent, alive>>

\* Data{tag, close}: pair_tunnel, then close_from_device.
TunnelClose(s, tag) ==
  /\ MayCarry(s, tag)
  /\ m_bridges' = MapErase(m_bridges, {tag})
  /\ m_conns' = CloseOperators({tag})
  /\ got' = Flushed(tag)
  /\ UNCHANGED <<device, m_targets, m_next_tag, asked, sent, alive>>

-----------------------------------------------------------------------------
(* Operator side: the listener of target t and its tunnel_bridge objects.  *)

\* ++m_next_tag: tags start at 1, 0 means "target not connected".
NewTagPostIncrement == m_next_tag
NewTag == m_next_tag + 1

\* Accept: open_bridge sends Session{tag} on the Register stream.  With no
\* such target the connection is dropped at once, which changes nothing.
OperatorConnect(fd, t) ==
  LET tag == NewTag
      reg == m_targets[t]
  IN  /\ alive
      /\ fd \notin DOMAIN m_conns
      /\ t \in DOMAIN m_targets
      /\ tag <= MaxTag
      /\ m_next_tag' = m_next_tag + 1
      /\ m_bridges' = MapPut(m_bridges, tag,
                        [target |-> t, fd |-> fd, tunnel |-> NoStream,
                         buffered |-> <<>>])
      /\ m_conns' = MapPut(m_conns, fd, tag)
      /\ UseSession(reg[1])
      /\ asked' = IF Reaches(reg) THEN asked \cup {tag} ELSE asked
      /\ UNCHANGED <<device, m_targets, sent, got>>

\* tunnel_bridge::handle_read -> from_operator: buffer, or send_data.
OperatorRead(fd) ==
  LET tag  == m_conns[fd]
      b    == m_bridges[tag]
      byte == sent[tag] + 1
  IN  /\ alive
      /\ fd \in DOMAIN m_conns
      /\ tag \in DOMAIN m_bridges
      /\ sent[tag] < MaxBytes
      /\ sent' = [sent EXCEPT ![tag] = byte]
      /\ \/ /\ ~Paired(b)
            /\ m_bridges' =
                 [m_bridges EXCEPT ![tag].buffered = Append(@, byte)]
            /\ UNCHANGED <<got, alive>>
         \/ /\ Paired(b)
            /\ UseSession(b.tunnel[1])
            /\ got' = IF Reaches(b.tunnel)
                        THEN [got EXCEPT ![tag] = Append(@, byte)]
                        ELSE got
            /\ UNCHANGED m_bridges
      /\ UNCHANGED <<device, m_targets, m_next_tag, m_conns, asked>>

\* tunnel_bridge::handle_close: close_from_operator (Data{close} if paired),
\* then the listener destroys the tunnel_bridge.
OperatorClose(fd) ==
  LET tag == m_conns[fd]
  IN  /\ alive
      /\ fd \in DOMAIN m_conns
      /\ IF tag \in DOMAIN m_bridges /\ Paired(m_bridges[tag])
           THEN UseSession(m_bridges[tag].tunnel[1])
           ELSE UNCHANGED alive
      /\ m_bridges' = MapErase(m_bridges, {tag})
      /\ m_conns' = MapErase(m_conns, {fd})
      /\ UNCHANGED <<device, m_targets, m_next_tag, bytes>>

\* A crashed process takes no more steps.
Down == ~alive /\ UNCHANGED vars

Next ==
  \/ \E g \in Conns : HandleConnect(g) \/ HandleClose(g)
  \/ \E g \in Conns, rpc \in Rpcs : OpenStream(g, rpc)
  \/ \E s \in StreamIds : EndStream(s)
  \/ \E s \in StreamIds, t \in Targets : AddTarget(s, t) \/ RemoveTarget(s, t)
  \/ \E s \in StreamIds, tag \in Tags : TunnelData(s, tag) \/ TunnelClose(s, tag)
  \/ \E fd \in Fds, t \in Targets : OperatorConnect(fd, t)
  \/ \E fd \in Fds : OperatorRead(fd) \/ OperatorClose(fd)
  \/ Down

Spec == Init /\ [][Next]_vars

-----------------------------------------------------------------------------
(* Properties.                                                             *)

\* Shapes of the containers and counters.
TypeOK ==
  /\ m_clients \subseteq Conns
  /\ last_sid \in [Conns -> 0 .. MaxSid]
  /\ DOMAIN m_streams \subseteq StreamIds
  /\ \A s \in DOMAIN m_streams : m_streams[s] \in Rpcs
  /\ DOMAIN m_targets \subseteq Targets
  /\ \A t \in DOMAIN m_targets : m_targets[t] \in StreamIds
  /\ DOMAIN m_bridges \subseteq Tags
  /\ \A tag \in DOMAIN m_bridges : m_bridges[tag] \in Bridge
  /\ m_next_tag \in 0 .. MaxTag
  /\ DOMAIN m_conns \subseteq Fds
  /\ \A fd \in DOMAIN m_conns : m_conns[fd] \in Tags
  /\ asked \subseteq Tags
  /\ sent \in [Tags -> 0 .. MaxBytes]
  /\ got \in [Tags -> Seq(1 .. MaxBytes)]
  /\ alive \in BOOLEAN

\* A registered target's grpc_session is always one that still exists, so
\* open_bridge never sends Session{tag} through a freed pointer (the comment at
\* connected_client::handle_close), however registrations move between
\* connections.
RegistryNeverDangles ==
  \A t \in DOMAIN m_targets : m_targets[t][1] \in m_clients

\* The to_operator / close_operator closures of a bridge capture a raw
\* tunnel_bridge pointer: every bridge's object is alive and owns its socket,
\* and no operator socket is left open without a bridge behind it.
OperatorsMatchBridges ==
  /\ \A tag \in DOMAIN m_bridges :
       /\ m_bridges[tag].fd \in DOMAIN m_conns
       /\ m_conns[m_bridges[tag].fd] = tag
  /\ \A fd \in DOMAIN m_conns :
       /\ m_conns[fd] \in DOMAIN m_bridges
       /\ m_bridges[m_conns[fd]].fd = fd

\* A connection that closes after its device has registered again elsewhere
\* takes neither the new registration nor any operator of it down.
StaleCloseIsHarmless ==
  [][\A t \in DOMAIN m_targets :
       m_clients' # m_clients /\ m_targets[t][1] \in m_clients' =>
         /\ t \in DOMAIN m_targets'
         /\ \A tag \in DOMAIN m_bridges :
              m_bridges[tag].target = t => tag \in DOMAIN m_bridges']_vars

\* The life of each session as its operator sees it.
Phase ==
  [tag \in Tags |->
     IF tag > m_next_tag THEN "idle"
     ELSE IF tag \notin DOMAIN m_bridges THEN "closed"
     ELSE IF Paired(m_bridges[tag]) THEN "joined" ELSE "waiting"]

Pipe == INSTANCE SessionPipe WITH phase <- Phase, inp <- sent, out <- got

\* The hub implements the operator's byte pipe: bytes buffered before pairing
\* are flushed once and first, nothing is reordered or duplicated by a second
\* pairing, and a tag is never brought back.
ImplementsSessionPipe == Pipe!PipeSpec

\* What connected_client::handle_close claims for the hubs: none holds a
\* pointer to a session that has been destroyed.
BridgeNeverDangles ==
  \A tag \in DOMAIN m_bridges :
    Paired(m_bridges[tag]) => m_bridges[tag].tunnel[1] \in m_clients
=============================================================================

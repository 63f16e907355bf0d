------------------------------ MODULE VpnClient ------------------------------
(***************************************************************************)
(* vpn_client: the outbound tunnel connection with its reconnect timer,    *)
(* the frames that arrive on it, the TUN device, the iptables rule that    *)
(* forwards gNMI from the virtual address, and the status file.            *)
(* One action is one libevent callback, a step of the server's side of the *)
(* connection, or a crash followed by a restart of the program.            *)
(*                                                                         *)
(* A frame arrives in two pieces. The decoder goes by length: it takes any *)
(* two consecutive pieces of the buffer for a frame.                       *)
(***************************************************************************)
EXTENDS Naturals, SequencesExt

CONSTANTS
  Vips,          \* virtual addresses the server assigns
  Fds,           \* descriptors the TUN device may get
  Forwarding,    \* gnmi_fwd_ip is set
  MaxConns,      \* bound: connections established in one behaviour
  MaxFrames,     \* bound: frames the server sends on one connection
  MaxRestarts    \* bound: crashes

ASSUME VpnClientAssumption ==
  /\ "" \notin Vips
  /\ Forwarding \in BOOLEAN
  /\ Fds \subseteq Nat \ {0} /\ Fds # {}
  /\ {MaxConns, MaxFrames, MaxRestarts} \subseteq Nat

VARIABLES
  up,        \* the connection is established
  attempt,   \* a connect is outstanding
  timing,    \* the five second timeouts of the bufferevent are set
  timer,     \* TIMER_RECONNECT is armed
  buf,       \* m_recv_buf, in pieces
  me,        \* the members m_ip_assigned, m_assigned_ip, m_tun_fd, m_tun_io
  host,      \* the kernel's and the disk's view: TUN descriptors, DNAT and
             \* MASQUERADE rules, the status file
  uplink,    \* source addresses of the packets sent on this connection
  wire,      \* pieces the server has sent and the client has not read
  script,    \* frames the server has sent on this connection
  conns,     \* connections established so far
  restarts,  \* crashes so far
  left       \* what the current process found on the host when it started

conn == <<up, attempt, timing, timer>>
srv  == <<wire, script>>
run  == <<conns, restarts, left>>
vars == <<conn, buf, me, host, uplink, srv, run>>

NoVip == ""
NoFd == 0

Frame == [type : {"IP_ASSIGN"}, vip : Vips]
         \cup [type : {"DATA", "DISCONNECT"}, vip : {NoVip}]
PieceOf(f, part) == [frame |-> f, part |-> part]

NotAssigned == [assigned |-> FALSE, ip |-> NoVip, fd |-> NoFd, io |-> NoFd]
CleanHost == [tuns |-> {}, dnat |-> [v \in Vips |-> 0], masq |-> 0,
              status |-> [state |-> "none", ip |-> NoVip]]

\* The constructor has started to connect.
Init ==
  /\ up = FALSE /\ attempt = TRUE /\ timing = TRUE /\ timer = FALSE
  /\ buf = <<>>
  /\ me = NotAssigned
  /\ host = CleanHost
  /\ uplink = {}
  /\ wire = <<>> /\ script = <<>>
  /\ conns = 0 /\ restarts = 0 /\ left = CleanHost

-----------------------------------------------------------------------------
(* The TUN device, the forwarding rule, the status file. Each operator maps *)
(* the pair s of the members (s.me) and the host (s.host).                  *)

\* teardown_nat_forwarding: -D removes one matching rule, if there is one.
\* setup_nat_forwarding: -A adds one.
RuleKept(s) == s.host.dnat
RuleRemoved(s) ==
  IF Forwarding /\ s.me.ip # NoVip
  THEN [s.host.dnat EXCEPT ![s.me.ip] = IF @ = 0 THEN 0 ELSE @ - 1]
  ELSE s.host.dnat

RuleAdded(s, vip) ==
  IF Forwarding THEN [s.host.dnat EXCEPT ![vip] = @ + 1] ELSE s.host.dnat

CloseTunRuleOnly(s) == [s EXCEPT !.host.dnat = RuleRemoved(s)]
\* close_tun: destroying tun_io closes its descriptor, close the other.
CloseTun(s) ==
  [me   |-> [s.me EXCEPT !.fd = NoFd, !.io = NoFd],
   host |-> [s.host EXCEPT !.tuns = @ \ {s.me.fd, s.me.io},
                           !.dnat = RuleRemoved(s)]]

WriteStatus(s, state) ==
  [s EXCEPT !.host.status = [state |-> state, ip |-> s.me.ip]]

\* The descriptor the kernel hands out: the lowest that is free.
FreeFd(h) == CHOOSE fd \in Fds \ h.tuns : \A other \in Fds \ h.tuns : fd <= other

\* IP_ASSIGN: the new tun_io replaces, and so closes, an older one; the rule
\* and the MASQUERADE rule are appended. Without a TUN device there is no
\* rule, but the status still says Connected.
Assign(s, vip, device) ==
  LET m  == [s.me EXCEPT !.assigned = TRUE, !.ip = vip]
      fd == FreeFd(s.host)
      opened == IF device
                THEN [me |-> [m EXCEPT !.fd = fd, !.io = fd],
                      host |-> [s.host EXCEPT
                                  !.tuns = (@ \cup {fd}) \ {s.me.io},
                                  !.dnat = RuleAdded(s, vip),
                                  !.masq = IF Forwarding THEN @ + 1 ELSE @]]
                ELSE [s EXCEPT !.me = [m EXCEPT !.fd = NoFd]]
  IN WriteStatus(opened, "Connected")

\* One frame of process_frames.
Processed(s, f, device) ==
  CASE f.type = "IP_ASSIGN" -> Assign(s, f.vip, device)
    [] f.type = "DISCONNECT" -> CloseTun(WriteStatus(s, "Down"))
    [] OTHER -> s

Now == [me |-> me, host |-> host]

\* process_frames: one complete frame after the other.
ProcessFrames(bytes, device) ==
  LET whole == Len(bytes) \div 2
      after[i \in 0..whole] ==
        IF i = 0 THEN Now ELSE Processed(after[i - 1], bytes[2 * i - 1].frame, device)
  IN after[whole]

\* What handle_close and handle_event do before they schedule the reconnect.
LostStatusKept(s) == [CloseTun(s) EXCEPT !.me = NotAssigned]
LostIpKept(s) ==
  [CloseTun(IF s.me.assigned THEN WriteStatus(s, "Down") ELSE s)
     EXCEPT !.me.assigned = FALSE]
Lost(s) ==
  [CloseTun(IF s.me.assigned THEN WriteStatus(s, "Down") ELSE s)
     EXCEPT !.me = NotAssigned]

Becomes(s) == me' = s.me /\ host' = s.host

\* handle_close, handle_event: forget the session, arm the timer.
BufferKept == buf' = buf
BufferCleared == buf' = <<>>
GiveUpUntimed == Becomes(Lost(Now)) /\ BufferCleared /\ UNCHANGED timer
GiveUp ==
  /\ Becomes(Lost(Now))
  /\ BufferCleared
  /\ timer' = TRUE

-----------------------------------------------------------------------------
(* Callbacks.                                                              *)

\* The timeouts are lifted; the server speaks first.
HandleConnect ==
  /\ attempt
  /\ conns < MaxConns
  /\ up' = TRUE /\ attempt' = FALSE /\ timing' = FALSE
  /\ uplink' = {}
  /\ wire' = <<>> /\ script' = <<>>
  /\ conns' = conns + 1
  /\ UNCHANGED <<timer, buf, me, host, restarts, left>>

\* A timeout while connecting. libevent runs one timer per direction: when
\* the one for reading ends first, the connect itself is still outstanding.
HandleEvent ==
  /\ attempt
  /\ timing
  /\ GiveUp
  /\ attempt' \in BOOLEAN
  /\ UNCHANGED <<up, timing, uplink, srv, run>>

\* A refused connect, the end of the connection, or its failure: bytes that
\* were under way may be lost.
HandleClose ==
  /\ up \/ attempt
  /\ GiveUp
  /\ up' = FALSE /\ attempt' = FALSE
  /\ wire' = <<>> /\ script' = <<>>
  /\ UNCHANGED <<timing, uplink, run>>

\* handle_timeout: connect again on the bufferevent. If the connection is up
\* after all, that fails at once and its error ends the connection.
HandleTimeout ==
  /\ timer
  /\ IF up
     THEN /\ GiveUp
          /\ up' = FALSE /\ UNCHANGED attempt
          /\ wire' = <<>> /\ script' = <<>>
     ELSE /\ timer' = FALSE
          /\ attempt' = TRUE
          /\ UNCHANGED <<up, buf, me, host, srv>>
  /\ UNCHANGED <<timing, uplink, run>>

\* handle_read: every complete frame in the buffer is processed, the rest is
\* kept. open_tun fails without the privilege.
HandleRead ==
  /\ up
  /\ \E n \in 1..Len(wire), device \in BOOLEAN :
       LET bytes  == buf \o SubSeq(wire, 1, n)
           whole  == Len(bytes) \div 2
       IN /\ Becomes(ProcessFrames(bytes, device))
          /\ buf' = SubSeq(bytes, 2 * whole + 1, Len(bytes))
          /\ wire' = SubSeq(wire, n + 1, Len(wire))
  /\ UNCHANGED <<conn, uplink, script, run>>

\* tun_io::handle_read: a packet from the TUN device goes up the connection.
TunPacket ==
  /\ me.io # NoFd
  /\ uplink' = uplink \cup {me.ip}
  /\ UNCHANGED <<conn, buf, me, host, srv, run>>

-----------------------------------------------------------------------------
(* The server's side, and crashes.                                         *)

\* vpn_peer sends IP_ASSIGN first and once, then packets; the protocol also
\* has DISCONNECT, after which there is nothing to send. A frame is cut
\* anywhere: its pieces go out one by one.
MayFollow(f) ==
  IF script = <<>> THEN f.type = "IP_ASSIGN"
  ELSE f.type # "IP_ASSIGN" /\ Last(script).type # "DISCONNECT"
Begun == script # <<>> /\ IF wire = <<>> THEN buf # <<>> ELSE Last(wire).part = 1

ServerSends ==
  /\ up
  /\ IF Begun
     THEN /\ wire' = Append(wire, PieceOf(Last(script), 2))
          /\ UNCHANGED script
     ELSE /\ Len(script) < MaxFrames
          /\ \E f \in Frame :
               /\ MayFollow(f)
               /\ script' = Append(script, f)
               /\ wire' = Append(wire, PieceOf(f, 1))
  /\ UNCHANGED <<conn, buf, me, host, uplink, run>>

\* The process dies and is started again. Its descriptors go with it, the
\* rules and the status file stay.
Crash ==
  /\ restarts < MaxRestarts
  /\ restarts' = restarts + 1
  /\ host' = [host EXCEPT !.tuns = {}]
  /\ left' = host'
  /\ up' = FALSE /\ attempt' = TRUE /\ timing' = TRUE /\ timer' = FALSE
  /\ buf' = <<>> /\ me' = NotAssigned /\ uplink' = {}
  /\ wire' = <<>> /\ script' = <<>>
  /\ UNCHANGED conns

\* The bound on connections is used up.
Exhausted == conns = MaxConns /\ attempt /\ UNCHANGED vars

Next ==
  \/ HandleConnect \/ HandleEvent \/ HandleClose \/ HandleTimeout
  \/ HandleRead \/ TunPacket \/ ServerSends \/ Crash
  \/ Exhausted

Spec == Init /\ [][Next]_vars

\* The event loop runs for ever: an armed timer fires.
FairSpec == Spec /\ WF_vars(HandleTimeout)

-----------------------------------------------------------------------------
(* Properties.                                                             *)

TypeOK ==
  /\ {up, attempt, timing, timer} \subseteq BOOLEAN
  /\ IF me.assigned THEN me.ip \in Vips ELSE me.ip = NoVip
  /\ {me.fd, me.io} \subseteq Fds \cup {NoFd}
  /\ host.tuns \subseteq Fds
  /\ host.dnat \in [Vips -> Nat] /\ host.masq \in Nat
  /\ host.status.state \in {"none", "Connected", "Down"}
  /\ \A i \in DOMAIN script : script[i] \in Frame
  /\ conns \in 0..MaxConns /\ restarts \in 0..MaxRestarts

\* "The rule is torn down on disconnect/reconnect so it stays in sync with
\* the VIP": while the tunnel carries an address its rule is there, and no
\* rule of this process outlives its tunnel. Rules a crashed process left are
\* not counted against this one.
RuleFollowsVip ==
  \A v \in Vips :
    IF me.io # NoFd /\ me.ip = v
    THEN Forwarding => host.dnat[v] >= 1
    ELSE host.dnat[v] <= left.dnat[v]

\* One TUN device per session: the open descriptors are exactly the one the
\* client reads, none outlives its connection, and packets went up under no
\* address but the one assigned on this connection.
TunFollowsSession ==
  /\ host.tuns = {me.io} \ {NoFd}
  /\ me.fd = me.io
  /\ me.io # NoFd => up /\ me.assigned /\ me.ip # NoVip
  /\ up /\ me.ip # NoVip => uplink \subseteq {me.ip}

\* The status file of this process says Connected only while the session it
\* names lives, and never stays behind a tunnel that carries packets.
StatusIsCurrent ==
  /\ host.status.state = "Connected" /\ host.status # left.status =>
       up /\ me.assigned /\ host.status.ip = me.ip
  /\ me.io # NoFd => host.status = [state |-> "Connected", ip |-> me.ip]

\* Frames are never put together from the bytes of two connections: buffer
\* and wire hold the two pieces of each frame next to each other.
FramesStayWhole ==
  LET bytes == buf \o wire IN
  \A i \in 1..Len(bytes) :
    IF i % 2 = 1 THEN bytes[i].part = 1
    ELSE bytes[i] = PieceOf(bytes[i - 1].frame, 2)

\* A client without a connection always tries again: it is connecting, or its
\* timer runs and will make it connect. The waiting never becomes for ever.
NeverGivesUp ==
  /\ [](up \/ attempt \/ timer)
  /\ []<>(up \/ attempt)
=============================================================================

------------------------------ MODULE VpnServer ------------------------------
(***************************************************************************)
(* The built-in VPN server: the pool of virtual addresses, one vpn_peer    *)
(* per accepted connection, the host route of each client, the packets the *)
(* server TUN hands to peers, and the gNMI requests that arrive over MQTT  *)
(* for a client and are pushed through its tunnel by gnmi_client.          *)
(* One action is one libevent callback.                                    *)
(*                                                                         *)
(* A descriptor and a vpn_peer address may both be used again after they   *)
(* are freed; the gNMI call in flight keeps the raw address of its peer.   *)
(***************************************************************************)
EXTENDS Naturals, Maps

CONSTANTS
  Fds,     \* descriptors of accepted connections
  Pool,    \* addresses pool_start .. pool_end
  Peers,   \* addresses at which a vpn_peer may be allocated
  Reqs     \* requests the MQTT broker delivers, each at most once

ASSUME VpnServerAssumption == Pool \subseteq Nat

VARIABLES
  m_server_tun,  \* m_server_tun_name is set: open_server_tun succeeded
  m_free,        \* ip_pool::m_free
  m_assigned,    \* ip_pool::m_assigned: fd -> address
  m_peers,       \* vpn_server::m_peers: fd -> address of the vpn_peer
  peer_ip,       \* live vpn_peer objects: address -> m_assigned_ip
  parked,        \* accepted descriptors that were given no vpn_peer
  routes,        \* host routes of the kernel through the server TUN
  refused,       \* addresses whose last route request the kernel refused
  told,          \* fd -> address the client was told in IP_ASSIGN
  rx,            \* fd -> destinations of the packets sent down the connection
  s_active,      \* gNMI calls not done: [req, self, vip] as captured
  forwarded,     \* requests already delivered by the broker
  alive          \* FALSE once the process has crashed

pool  == <<m_free, m_assigned>>
peers == <<m_peers, peer_ip, parked>>
kernel == <<routes, refused>>
wire  == <<told, rx>>
calls == <<s_active, forwarded>>
vars  == <<m_server_tun, pool, peers, kernel, wire, calls, alive>>

Call == [req : Reqs, self : Peers, vip : Pool]

\* The keys of a map that carry value v.
KeysOf(m, v) == {k \in DOMAIN m : m[k] = v}

\* open_server_tun may fail: the server then runs without routes and packets.
Init ==
  /\ m_server_tun \in BOOLEAN
  /\ m_free = Pool
  /\ m_assigned = EmptyMap
  /\ m_peers = EmptyMap
  /\ peer_ip = EmptyMap
  /\ parked = {}
  /\ routes = {}
  /\ refused = {}
  /\ told = EmptyMap
  /\ rx = EmptyMap
  /\ s_active = {}
  /\ forwarded = {}
  /\ alive = TRUE

-----------------------------------------------------------------------------
(* ip_pool.                                                                *)

\* *m_free.begin(): the lowest free address.
Lowest(ip) == ip \in m_free /\ \A other \in m_free : ip <= other

\* What assign and release leave in m_free and m_assigned.
FreeAfterAssignKept(ip) == m_free
FreeAfterAssign(ip) == m_free \ {ip}
FreeAfterReleaseChannel(fd) == m_free \cup {fd}
FreeAfterRelease(fd) == m_free \cup {m_assigned[fd]}
LeasesAfterReleaseKept(fd) == m_assigned
LeasesAfterRelease(fd) == MapErase(m_assigned, {fd})

\* find_channel, then m_peers.find: where a packet for ip goes.
ChannelsForAll(ip) == DOMAIN m_peers
ChannelsFor(ip) == KeysOf(m_assigned, ip) \cap DOMAIN m_peers

\* manage_client_route: nothing without a TUN.  The kernel may refuse to add or
\* to delete; that is logged, and the caller goes on all the same.
ManageClientRoute(ip, asked) ==
  IF m_server_tun
    THEN \/ routes' = asked /\ refused' = refused \ {ip}
         \/ UNCHANGED routes /\ refused' = refused \cup {ip}
    ELSE UNCHANGED kernel

RouteAdded(ip) == ManageClientRoute(ip, routes \cup {ip})
RouteRemovedAfterRelease(ip) == UNCHANGED kernel
RouteRemoved(ip) == ManageClientRoute(ip, routes \ {ip})

-----------------------------------------------------------------------------
(* Connections.                                                            *)

Accepted(fd) == fd \in DOMAIN m_peers \cup parked

\* handle_connect with an address left: IP_ASSIGN goes out, the peer object is
\* built at an unused address and subscribes to fwd/<ip>, the route is added.
HandleConnect(fd, self, ip) ==
  /\ alive
  /\ ~Accepted(fd)
  /\ self \notin DOMAIN peer_ip
  /\ Lowest(ip)
  /\ m_free' = FreeAfterAssign(ip)
  /\ m_assigned' = MapPut(m_assigned, fd, ip)
  /\ m_peers' = MapPut(m_peers, fd, self)
  /\ peer_ip' = MapPut(peer_ip, self, ip)
  /\ told' = MapPut(told, fd, ip)
  /\ rx' = MapPut(rx, fd, {})
  /\ RouteAdded(ip)
  /\ UNCHANGED <<m_server_tun, parked, calls, alive>>

\* handle_connect with the pool exhausted: returns -1.  Nothing owns the
\* accepted descriptor and nobody closes it.
RejectConnect(fd) ==
  /\ alive
  /\ ~Accepted(fd)
  /\ m_free = {}
  /\ parked' = parked \cup {fd}
  /\ UNCHANGED <<m_server_tun, pool, m_peers, peer_ip, kernel, wire, calls, alive>>

\* vpn_peer::handle_close (EOF, error) or handle_event (timeout): its MQTT
\* client goes, then vpn_server::handle_close: route, lease and peer object.
HandleClose(fd) ==
  /\ alive
  /\ fd \in DOMAIN m_peers
  /\ RouteRemoved(m_assigned[fd])
  /\ m_free' = FreeAfterRelease(fd)
  /\ m_assigned' = LeasesAfterRelease(fd)
  /\ m_peers' = MapErase(m_peers, {fd})
  /\ peer_ip' = MapErase(peer_ip, {m_peers[fd]})
  /\ told' = MapErase(told, {fd})
  /\ rx' = MapErase(rx, {fd})
  /\ UNCHANGED <<m_server_tun, parked, calls, alive>>

\* server_tun_io::handle_read: an IP packet for dst.
TunPacket(dst) ==
  /\ alive
  /\ m_server_tun
  /\ \E fd \in ChannelsFor(dst) : rx' = MapPut(rx, fd, rx[fd] \cup {dst})
  /\ UNCHANGED <<m_server_tun, pool, peers, kernel, told, calls, alive>>

-----------------------------------------------------------------------------
(* gNMI requests over MQTT.                                                *)

\* vpn_peer::on_mqtt_message on fwd/<vip>: push_async with a callback that
\* captures the peer.
OnMqttMessage(fd, req) ==
  LET self == m_peers[fd]
  IN  /\ alive
      /\ fd \in DOMAIN m_peers
      /\ req \notin forwarded
      /\ forwarded' = forwarded \cup {req}
      /\ s_active' = s_active \cup
           {[req |-> req, self |-> self, vip |-> peer_ip[self]]}
      /\ UNCHANGED <<m_server_tun, pool, peers, kernel, wire, alive>>

\* gnmi_connection::finish (answer, timeout, closed): the callback runs on the
\* captured peer and publishes resp/<vip>; if that peer is gone the behaviour
\* is undefined.
CallDone(call) ==
  /\ alive
  /\ call \in s_active
  /\ s_active' = s_active \ {call}
  /\ alive' \in (IF call.self \in DOMAIN peer_ip THEN {TRUE} ELSE BOOLEAN)
  /\ UNCHANGED <<m_server_tun, pool, peers, kernel, wire, forwarded>>

\* A crashed process takes no more steps.
Down == ~alive /\ UNCHANGED vars

Next ==
  \/ \E fd \in Fds, self \in Peers, ip \in Pool : HandleConnect(fd, self, ip)
  \/ \E fd \in Fds : RejectConnect(fd) \/ HandleClose(fd)
  \/ \E dst \in Pool : TunPacket(dst)
  \/ \E fd \in Fds, req \in Reqs : OnMqttMessage(fd, req)
  \/ \E call \in Call : CallDone(call)
  \/ Down

Spec == Init /\ [][Next]_vars

-----------------------------------------------------------------------------
(* Properties.                                                             *)

\* Shapes of the containers.
TypeOK ==
  /\ m_server_tun \in BOOLEAN
  /\ m_free \subseteq Pool
  /\ DOMAIN m_assigned \subseteq Fds
  /\ \A fd \in DOMAIN m_assigned : m_assigned[fd] \in Pool
  /\ DOMAIN m_peers \subseteq Fds
  /\ \A fd \in DOMAIN m_peers : m_peers[fd] \in Peers
  /\ DOMAIN peer_ip \subseteq Peers
  /\ \A self \in DOMAIN peer_ip : peer_ip[self] \in Pool
  /\ parked \subseteq Fds
  /\ routes \subseteq Pool /\ refused \subseteq Pool
  /\ DOMAIN told = DOMAIN m_peers
  /\ DOMAIN rx = DOMAIN m_peers
  /\ \A fd \in DOMAIN rx : rx[fd] \subseteq Pool
  /\ s_active \subseteq Call
  /\ forwarded \subseteq Reqs
  /\ alive \in BOOLEAN

\* No address is lost or granted twice over any sequence of connections and
\* disconnections: m_free and the leases partition the pool, no two leases
\* share an address.
PoolIsPartitioned ==
  /\ \A ip \in Pool : ip \in m_free <=> KeysOf(m_assigned, ip) = {}
  /\ \A a, b \in DOMAIN m_assigned : m_assigned[a] = m_assigned[b] => a = b

\* The three views of a client agree: the lease, the vpn_peer object (and so
\* the topic fwd/<ip> it subscribed to) and what IP_ASSIGN told the client.
ViewsAgree ==
  /\ DOMAIN m_assigned = DOMAIN m_peers
  /\ \A fd \in DOMAIN m_peers :
       /\ m_peers[fd] \in DOMAIN peer_ip
       /\ peer_ip[m_peers[fd]] = m_assigned[fd]
       /\ told[fd] = m_assigned[fd]
  /\ \A self \in DOMAIN peer_ip :
       \E fd \in DOMAIN m_peers : m_peers[fd] = self

\* The host routes are those of the leased addresses, over any reuse of an
\* address, whatever the kernel did for its earlier holders: a free address has
\* one, or a leased one has none, only if the kernel refused the last request
\* for that address, which the code does not repeat.
RoutesFollowLeases ==
  \A ip \in Pool \ refused : ip \in routes <=> m_server_tun /\ ip \notin m_free

Lease == INSTANCE AddressLease WITH lease <- told

\* The pool, the peers and the TUN reader implement exclusive leases: what
\* reaches a client is addressed to it, before and after an address is reused.
ImplementsAddressLease == Lease!LeaseSpec

\* The callback of a finished gNMI call publishes resp/<vip> through the peer
\* that forwarded the request, so that peer still exists.
CallbackFindsItsPeer ==
  \A call \in s_active :
    call.self \in DOMAIN peer_ip /\ peer_ip[call.self] = call.vip
=============================================================================

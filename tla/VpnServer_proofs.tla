-------------------------- MODULE VpnServer_proofs --------------------------
(***************************************************************************)
(* Proofs about VpnServer for every pool of addresses and every set of     *)
(* descriptors, peer objects and requests: its invariants, and that it     *)
(* implements AddressLease.                                                *)
(***************************************************************************)
EXTENDS VpnServer, TLAPS

\* Without a server TUN the kernel is never asked for a route.
NoTunNoRoutes == ~m_server_tun => routes = {} /\ refused = {}

\* The invariants are inductive together: a connection closes its own lease
\* and peer only because the three views agree, the address it returns is
\* free of other leases only because the pool is partitioned, and a server
\* without a TUN, which asks for no route, never has one.
IInv ==
  /\ TypeOK
  /\ PoolIsPartitioned
  /\ ViewsAgree
  /\ RoutesFollowLeases
  /\ NoTunNoRoutes

-----------------------------------------------------------------------------
\* The empty map has no key.
LEMMA EmptyMapFacts == DOMAIN EmptyMap = {}
BY DEF EmptyMap

\* What a partitioned pool says of one lease and one free address.
LEMMA LeaseFacts ==
  ASSUME TypeOK, PoolIsPartitioned
  PROVE  /\ \A fd \in DOMAIN m_assigned : m_assigned[fd] \notin m_free
         /\ \A ip \in Pool :
              ip \notin m_free => \E fd \in DOMAIN m_assigned : m_assigned[fd] = ip
<1>1. \A fd \in DOMAIN m_assigned : m_assigned[fd] \in Pool
  BY DEF TypeOK
<1>2. \A fd \in DOMAIN m_assigned : fd \in KeysOf(m_assigned, m_assigned[fd])
  BY DEF KeysOf
<1>3. \A ip \in Pool : ip \in m_free <=> KeysOf(m_assigned, ip) = {}
  BY DEF PoolIsPartitioned
<1>4. ASSUME NEW ip \in Pool, ip \notin m_free
      PROVE  \E fd \in DOMAIN m_assigned : m_assigned[fd] = ip
  BY <1>3, <1>4 DEF KeysOf
<1> QED BY <1>1, <1>2, <1>3, <1>4

\* The converse: the two facts and exclusive leases make a partition.
LEMMA PartitionFromFacts ==
  ASSUME \A fd \in DOMAIN m_assigned' : m_assigned'[fd] \notin m_free',
         \A ip \in Pool :
           ip \notin m_free' => \E fd \in DOMAIN m_assigned' : m_assigned'[fd] = ip,
         \A a, b \in DOMAIN m_assigned' :
           m_assigned'[a] = m_assigned'[b] => a = b
  PROVE  PoolIsPartitioned'
<1>1. ASSUME NEW ip \in Pool
      PROVE  ip \in m_free' <=> KeysOf(m_assigned', ip) = {}
  BY DEF KeysOf
<1> QED BY <1>1 DEF PoolIsPartitioned, KeysOf

-----------------------------------------------------------------------------
LEMMA InitIInv == Init => IInv
<1> SUFFICES ASSUME Init PROVE IInv
  OBVIOUS
<1>1. TypeOK
  BY EmptyMapFacts DEF Init, TypeOK
<1>2. PoolIsPartitioned
  BY EmptyMapFacts DEF Init, PoolIsPartitioned, KeysOf
<1>3. ViewsAgree /\ RoutesFollowLeases
  BY EmptyMapFacts DEF Init, ViewsAgree, RoutesFollowLeases
<1>4. NoTunNoRoutes
  BY DEF Init, NoTunNoRoutes
<1> QED BY <1>1, <1>2, <1>3, <1>4 DEF IInv

\* A connection takes the lowest free address.
LEMMA ConnectIInv ==
  ASSUME IInv, NEW fd \in Fds, NEW self \in Peers, NEW ip \in Pool,
         HandleConnect(fd, self, ip)
  PROVE  IInv'
<1> USE DEF IInv
<1>1. /\ ip \in m_free
      /\ fd \notin DOMAIN m_assigned
      /\ self \notin DOMAIN peer_ip
      /\ m_free' = m_free \ {ip}
  BY DEF HandleConnect, Accepted, Lowest, FreeAfterAssign, ViewsAgree
<1>2. /\ DOMAIN m_assigned' = DOMAIN m_assigned \cup {fd}
      /\ m_assigned'[fd] = ip
      /\ \A x \in DOMAIN m_assigned : x # fd => m_assigned'[x] = m_assigned[x]
  BY DEF MapPut, HandleConnect
<1>3. /\ DOMAIN m_peers' = DOMAIN m_peers \cup {fd}
      /\ m_peers'[fd] = self
      /\ \A x \in DOMAIN m_peers : x # fd => m_peers'[x] = m_peers[x]
  BY DEF MapPut, HandleConnect
<1>4. /\ DOMAIN peer_ip' = DOMAIN peer_ip \cup {self}
      /\ peer_ip'[self] = ip
      /\ \A x \in DOMAIN peer_ip : x # self => peer_ip'[x] = peer_ip[x]
  BY DEF MapPut, HandleConnect
<1>5. /\ DOMAIN told' = DOMAIN told \cup {fd}
      /\ told'[fd] = ip
      /\ \A x \in DOMAIN told : x # fd => told'[x] = told[x]
  BY DEF MapPut, HandleConnect
<1>6. /\ DOMAIN rx' = DOMAIN rx \cup {fd}
      /\ rx'[fd] = {}
      /\ \A x \in DOMAIN rx : x # fd => rx'[x] = rx[x]
  BY DEF MapPut, HandleConnect
<1>7. \/ m_server_tun /\ routes' = routes \cup {ip} /\ refused' = refused \ {ip}
      \/ m_server_tun /\ routes' = routes /\ refused' = refused \cup {ip}
      \/ ~m_server_tun /\ UNCHANGED kernel
  BY DEF HandleConnect, RouteAdded, ManageClientRoute
<1>8. TypeOK'
  BY <1>1, <1>2, <1>3, <1>4, <1>5, <1>6, <1>7 DEF HandleConnect, TypeOK, calls, kernel
<1>9. PoolIsPartitioned'
  <2>1. \A x \in DOMAIN m_assigned : m_assigned[x] \notin m_free
    BY LeaseFacts
  <2>2. \A v \in Pool :
          v \notin m_free => \E x \in DOMAIN m_assigned : m_assigned[x] = v
    BY LeaseFacts
  <2>3. \A x \in DOMAIN m_assigned' : m_assigned'[x] \notin m_free'
    BY <1>1, <1>2, <2>1
  <2>4. ASSUME NEW v \in Pool, v \notin m_free'
        PROVE  \E x \in DOMAIN m_assigned' : m_assigned'[x] = v
    BY <1>1, <1>2, <2>2, <2>4
  <2>5. \A a, b \in DOMAIN m_assigned' :
          m_assigned'[a] = m_assigned'[b] => a = b
    BY <1>1, <1>2, <2>1 DEF PoolIsPartitioned
  <2> QED BY <2>3, <2>4, <2>5, PartitionFromFacts
<1>10. ViewsAgree'
  BY <1>1, <1>2, <1>3, <1>4, <1>5 DEF ViewsAgree, TypeOK
<1>11. RoutesFollowLeases' /\ NoTunNoRoutes'
  BY <1>1, <1>7 DEF RoutesFollowLeases, NoTunNoRoutes, HandleConnect, TypeOK, kernel
<1> QED BY <1>8, <1>9, <1>10, <1>11

\* A connection that closes gives its address back without its route.
LEMMA CloseIInv ==
  ASSUME IInv, NEW fd \in Fds, HandleClose(fd)
  PROVE  IInv'
<1> USE DEF IInv
<1> DEFINE ip == m_assigned[fd]
           self == m_peers[fd]
<1>1. /\ fd \in DOMAIN m_peers
      /\ fd \in DOMAIN m_assigned
      /\ ip \in Pool
      /\ self \in DOMAIN peer_ip
      /\ m_free' = m_free \cup {ip}
  BY DEF HandleClose, FreeAfterRelease, ViewsAgree, TypeOK
<1>2. /\ DOMAIN m_assigned' = DOMAIN m_assigned \ {fd}
      /\ \A x \in DOMAIN m_assigned' : m_assigned'[x] = m_assigned[x]
  BY DEF MapErase, Restrict, HandleClose, LeasesAfterRelease
<1>3. /\ DOMAIN m_peers' = DOMAIN m_peers \ {fd}
      /\ \A x \in DOMAIN m_peers' : m_peers'[x] = m_peers[x]
  BY DEF MapErase, Restrict, HandleClose
<1>4. /\ DOMAIN peer_ip' = DOMAIN peer_ip \ {self}
      /\ \A x \in DOMAIN peer_ip' : peer_ip'[x] = peer_ip[x]
  BY DEF MapErase, Restrict, HandleClose
<1>5. /\ DOMAIN told' = DOMAIN told \ {fd}
      /\ \A x \in DOMAIN told' : told'[x] = told[x]
  BY DEF MapErase, Restrict, HandleClose
<1>6. /\ DOMAIN rx' = DOMAIN rx \ {fd}
      /\ \A x \in DOMAIN rx' : rx'[x] = rx[x]
  BY DEF MapErase, Restrict, HandleClose
<1>7. \/ m_server_tun /\ routes' = routes \ {ip} /\ refused' = refused \ {ip}
      \/ m_server_tun /\ routes' = routes /\ refused' = refused \cup {ip}
      \/ ~m_server_tun /\ UNCHANGED kernel
  BY DEF HandleClose, RouteRemoved, ManageClientRoute
<1>8. TypeOK'
  BY <1>1, <1>2, <1>3, <1>4, <1>5, <1>6, <1>7 DEF HandleClose, TypeOK, calls, kernel
<1>9. PoolIsPartitioned'
  <2>1. \A x \in DOMAIN m_assigned : m_assigned[x] \notin m_free
    BY LeaseFacts
  <2>2. \A v \in Pool :
          v \notin m_free => \E x \in DOMAIN m_assigned : m_assigned[x] = v
    BY LeaseFacts
  <2>3. \A a, b \in DOMAIN m_assigned : m_assigned[a] = m_assigned[b] => a = b
    BY DEF PoolIsPartitioned
  <2>4. \A x \in DOMAIN m_assigned' : m_assigned'[x] \notin m_free'
    BY <1>1, <1>2, <2>1, <2>3
  <2>5. ASSUME NEW v \in Pool, v \notin m_free'
        PROVE  \E x \in DOMAIN m_assigned' : m_assigned'[x] = v
    BY <1>1, <1>2, <2>2, <2>5
  <2>6. \A a, b \in DOMAIN m_assigned' :
          m_assigned'[a] = m_assigned'[b] => a = b
    BY <1>2, <2>3
  <2> QED BY <2>4, <2>5, <2>6, PartitionFromFacts
<1>10. ViewsAgree'
  <2>1. ASSUME NEW x \in DOMAIN m_peers, m_peers[x] = self PROVE x = fd
    <3>1. m_assigned[x] = peer_ip[self] /\ ip = peer_ip[self]
      BY <1>1, <2>1 DEF ViewsAgree
    <3>2. x \in DOMAIN m_assigned
      BY <2>1 DEF ViewsAgree
    <3> QED BY <1>1, <3>1, <3>2 DEF PoolIsPartitioned
  <2>2. DOMAIN m_assigned' = DOMAIN m_peers'
    BY <1>2, <1>3 DEF ViewsAgree
  <2>3. ASSUME NEW x \in DOMAIN m_peers'
        PROVE  /\ m_peers'[x] \in DOMAIN peer_ip'
               /\ peer_ip'[m_peers'[x]] = m_assigned'[x]
               /\ told'[x] = m_assigned'[x]
    <3>1. x \in DOMAIN m_peers /\ x # fd /\ m_peers[x] # self
      BY <1>3, <2>1
    <3>2. x \in DOMAIN m_assigned' /\ x \in DOMAIN told'
      BY <1>5, <2>2, <3>1 DEF TypeOK
    <3> QED BY <1>2, <1>3, <1>4, <1>5, <3>1, <3>2 DEF ViewsAgree
  <2>4. ASSUME NEW p \in DOMAIN peer_ip'
        PROVE  \E x \in DOMAIN m_peers' : m_peers'[x] = p
    <3>1. PICK x \in DOMAIN m_peers : m_peers[x] = p
      BY <1>4 DEF ViewsAgree
    <3> QED BY <1>3, <1>4, <3>1
  <2> QED BY <2>2, <2>3, <2>4 DEF ViewsAgree
<1>11. RoutesFollowLeases' /\ NoTunNoRoutes'
  BY <1>1, <1>7 DEF RoutesFollowLeases, NoTunNoRoutes, HandleClose, TypeOK, kernel
<1> QED BY <1>8, <1>9, <1>10, <1>11

LEMMA StepIInv == IInv /\ [Next]_vars => IInv'
<1> SUFFICES ASSUME IInv, [Next]_vars PROVE IInv'
  OBVIOUS
<1>1. ASSUME NEW fd \in Fds, NEW self \in Peers, NEW ip \in Pool,
             HandleConnect(fd, self, ip)
      PROVE  IInv'
  BY <1>1, ConnectIInv
<1>2. ASSUME NEW fd \in Fds, HandleClose(fd) PROVE IInv'
  BY <1>2, CloseIInv
<1> USE DEF IInv
<1>3. ASSUME NEW fd \in Fds, RejectConnect(fd) PROVE IInv'
  BY <1>3
  DEF RejectConnect, TypeOK, PoolIsPartitioned, ViewsAgree, RoutesFollowLeases,
      NoTunNoRoutes, pool, kernel, wire, calls
<1>4. ASSUME NEW dst \in Pool, TunPacket(dst) PROVE IInv'
  <2>1. PICK fd \in ChannelsFor(dst) : rx' = MapPut(rx, fd, rx[fd] \cup {dst})
    BY <1>4 DEF TunPacket
  <2>2. fd \in DOMAIN rx
    BY <2>1 DEF ChannelsFor, TypeOK
  <2>3. /\ DOMAIN rx' = DOMAIN rx
        /\ rx'[fd] = rx[fd] \cup {dst}
        /\ \A x \in DOMAIN rx : x # fd => rx'[x] = rx[x]
    BY <2>1, <2>2 DEF MapPut
  <2>4. TypeOK'
    BY <1>4, <2>2, <2>3 DEF TunPacket, TypeOK, pool, peers, kernel, calls
  <2> QED BY <1>4, <2>4
    DEF TunPacket, PoolIsPartitioned, ViewsAgree, RoutesFollowLeases,
        NoTunNoRoutes, pool, peers, kernel
<1>5. ASSUME NEW fd \in Fds, NEW req \in Reqs, OnMqttMessage(fd, req)
      PROVE  IInv'
  <2>1. [req |-> req, self |-> m_peers[fd], vip |-> peer_ip[m_peers[fd]]] \in Call
    BY <1>5 DEF OnMqttMessage, Call, ViewsAgree, TypeOK
  <2>2. TypeOK'
    BY <1>5, <2>1 DEF OnMqttMessage, TypeOK, pool, peers, kernel, wire
  <2> QED BY <1>5, <2>2
    DEF OnMqttMessage, PoolIsPartitioned, ViewsAgree, RoutesFollowLeases,
        NoTunNoRoutes, pool, peers, kernel, wire
<1>6. ASSUME NEW call \in Call, CallDone(call) PROVE IInv'
  BY <1>6
  DEF CallDone, TypeOK, PoolIsPartitioned, ViewsAgree, RoutesFollowLeases,
      NoTunNoRoutes, pool, peers, kernel, wire
<1>7. CASE UNCHANGED vars
  BY <1>7
  DEF vars, TypeOK, PoolIsPartitioned, ViewsAgree, RoutesFollowLeases,
      NoTunNoRoutes, pool, peers, kernel, wire, calls
<1> QED BY <1>1, <1>2, <1>3, <1>4, <1>5, <1>6, <1>7 DEF Next, Down

\* The inductive invariant holds in every reachable state.
THEOREM ServerInvariant == Spec => []IInv
<1>1. Init => IInv
  BY InitIInv
<1>2. IInv /\ [Next]_vars => IInv'
  BY StepIInv
<1> QED BY <1>1, <1>2, PTL DEF Spec

\* The containers keep their shapes.
THEOREM ServerTypeCorrect == Spec => []TypeOK
<1>1. IInv => TypeOK
  BY DEF IInv
<1> QED BY <1>1, ServerInvariant, PTL

\* No address is lost or leased twice, whatever the pool.
THEOREM PoolSafe == Spec => []PoolIsPartitioned
<1>1. IInv => PoolIsPartitioned
  BY DEF IInv
<1> QED BY <1>1, ServerInvariant, PTL

\* Lease, peer object and IP_ASSIGN always agree.
THEOREM ViewsSafe == Spec => []ViewsAgree
<1>1. IInv => ViewsAgree
  BY DEF IInv
<1> QED BY <1>1, ServerInvariant, PTL

\* manage_client_route: for any pool, over any order of connects and closes and
\* whatever the kernel refuses, a server whose TUN is open has a host route for
\* an address exactly while it is leased, unless the kernel refused the last
\* request for it; one without TUN has none.
THEOREM RoutesSafe == Spec => []RoutesFollowLeases
<1>1. IInv => RoutesFollowLeases
  BY DEF IInv
<1> QED BY <1>1, ServerInvariant, PTL

-----------------------------------------------------------------------------
(* Refinement.                                                             *)

LEMMA LeaseStep ==
  ASSUME IInv, [Next]_vars
  PROVE  [Lease!LeaseNext]_(Lease!leaseVars)
<1> USE DEF IInv, Lease!leaseVars, Lease!LeaseNext
<1>1. ASSUME NEW fd \in Fds, NEW self \in Peers, NEW ip \in Pool,
             HandleConnect(fd, self, ip)
      PROVE  Lease!Grant(fd, ip)
  <2>1. fd \notin DOMAIN told
    BY <1>1 DEF HandleConnect, Accepted, TypeOK
  <2>2. \A other \in Fds : ~Lease!Holds(other, ip)
    <3>1. ip \in m_free
      BY <1>1 DEF HandleConnect, Lowest
    <3>2. \A x \in DOMAIN m_assigned : m_assigned[x] # ip
      BY <3>1, LeaseFacts
    <3> QED BY <3>2 DEF Lease!Holds, ViewsAgree, TypeOK
  <2> QED BY <1>1, <2>1, <2>2
    DEF HandleConnect, Lease!Grant, MapPut, Lease!MapPut
<1>2. ASSUME NEW fd \in Fds, HandleClose(fd) PROVE Lease!Revoke(fd)
  BY <1>2
  DEF HandleClose, Lease!Revoke, TypeOK, MapErase, Lease!MapErase, Restrict,
      Lease!Restrict
<1>3. ASSUME NEW dst \in Pool, TunPacket(dst)
      PROVE  \E fd \in Fds : Lease!Deliver(fd, dst)
  <2>1. PICK fd \in ChannelsFor(dst) : rx' = MapPut(rx, fd, rx[fd] \cup {dst})
    BY <1>3 DEF TunPacket
  <2>2. fd \in Fds /\ fd \in DOMAIN told /\ told[fd] = dst
    BY <2>1 DEF ChannelsFor, KeysOf, ViewsAgree, TypeOK
  <2> QED BY <1>3, <2>1, <2>2
    DEF TunPacket, Lease!Deliver, Lease!Holds, MapPut, Lease!MapPut
<1>4. ASSUME \/ \E fd \in Fds : RejectConnect(fd)
             \/ \E fd \in Fds, req \in Reqs : OnMqttMessage(fd, req)
             \/ \E call \in Call : CallDone(call)
             \/ UNCHANGED vars
      PROVE  UNCHANGED <<told, rx>>
  BY <1>4 DEF RejectConnect, OnMqttMessage, CallDone, vars, wire
<1> QED BY <1>1, <1>2, <1>3, <1>4 DEF Next, Down

\* The server implements exclusive leases: a packet reaches the connection
\* that was told its destination address, or nobody.
THEOREM ServerImplementsLease == Spec => ImplementsAddressLease
<1>1. Init => Lease!LeaseInit
  BY DEF Init, Lease!LeaseInit, EmptyMap, Lease!EmptyMap
<1>2. IInv /\ [Next]_vars => [Lease!LeaseNext]_(Lease!leaseVars)
  BY LeaseStep
<1> QED
  BY <1>1, <1>2, ServerInvariant, PTL
  DEF Spec, ImplementsAddressLease, Lease!LeaseSpec
=============================================================================

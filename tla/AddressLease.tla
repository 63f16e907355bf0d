---------------------------- MODULE AddressLease ----------------------------
(***************************************************************************)
(* What the VPN server promises its clients: a virtual address belongs to  *)
(* at most one connection at a time, and a packet for an address goes down *)
(* the connection that holds it, or nowhere.                               *)
(***************************************************************************)
EXTENDS Maps

CONSTANTS Fds, Pool

VARIABLES
  lease,   \* connection -> its virtual address
  rx       \* connection -> destination addresses of the packets sent down it

leaseVars == <<lease, rx>>

Holds(fd, ip) == fd \in DOMAIN lease /\ lease[fd] = ip

LeaseInit == lease = EmptyMap /\ rx = EmptyMap

\* Any address nobody holds may be granted.
Grant(fd, ip) ==
  /\ fd \notin DOMAIN lease
  /\ \A other \in Fds : ~Holds(other, ip)
  /\ lease' = MapPut(lease, fd, ip)
  /\ rx' = MapPut(rx, fd, {})

Revoke(fd) ==
  /\ fd \in DOMAIN lease
  /\ lease' = MapErase(lease, {fd})
  /\ rx' = MapErase(rx, {fd})

Deliver(fd, ip) ==
  /\ Holds(fd, ip)
  /\ rx' = MapPut(rx, fd, rx[fd] \cup {ip})
  /\ UNCHANGED lease

LeaseNext ==
  \E fd \in Fds :
    \/ Revoke(fd)
    \/ \E ip \in Pool : Grant(fd, ip) \/ Deliver(fd, ip)

LeaseSpec == LeaseInit /\ [][LeaseNext]_leaseVars
=============================================================================

--------------------------- MODULE VpnClient_proofs ---------------------------
(***************************************************************************)
(* Proofs about VpnClient for every set of addresses and descriptors and   *)
(* every number of connections, frames and crashes.                        *)
(*                                                                         *)
(* Two invariants: the bytes under way are whole frames, of which only the *)
(* first assigns an address (Framing), and the members, the TUN device,    *)
(* the rules and the status file of the session agree (Session). A third   *)
(* (Trying), and the fairness of the timer, say that the client never      *)
(* gives up.                                                               *)
(***************************************************************************)
EXTENDS VpnClient, Lists_proofs

Addresses == Vips \cup {NoVip}
Descriptors == Fds \cup {NoFd}
Members == [assigned : BOOLEAN, ip : Addresses, fd : Descriptors, io : Descriptors]
Hosts ==
  [tuns : SUBSET Fds, dnat : [Vips -> Nat], masq : Nat,
   status : [state : {"none", "Connected", "Down"}, ip : Addresses]]

\* A session has an address, and at most one TUN device, which it reads.
Held(s) ==
  /\ s \in [me : Members, host : Hosts]
  /\ s.me.assigned <=> s.me.ip # NoVip
  /\ s.host.tuns = {s.me.io} \ {NoFd}
  /\ s.me.fd = s.me.io
  /\ s.me.io # NoFd => s.me.assigned

\* One rule more than the process found, for the address of its tunnel.
Forwards(s, v) == Forwarding /\ s.me.io # NoFd /\ s.me.ip = v
Ruled(s, l) ==
  \A v \in Vips :
    IF Forwards(s, v) THEN s.host.dnat[v] >= 1 /\ s.host.dnat[v] <= l.dnat[v] + 1
                      ELSE s.host.dnat[v] <= l.dnat[v]

\* What the status file says is about this session or an earlier process.
Told(s, l) ==
  /\ s.host.status.state = "Connected" /\ s.host.status # l.status =>
       s.me.assigned /\ s.host.status.ip = s.me.ip
  /\ s.me.io # NoFd => s.host.status = [state |-> "Connected", ip |-> s.me.ip]

Sound(s, l) == Held(s) /\ Ruled(s, l) /\ Told(s, l)

Session ==
  /\ left \in Hosts
  /\ Sound(Now, left)
  /\ {up, attempt, timing, timer} \subseteq BOOLEAN
  /\ up => ~attempt
  /\ me.assigned => up
  /\ up => uplink \subseteq {me.ip} \ {NoVip}
  /\ conns \in 0..MaxConns /\ restarts \in 0..MaxRestarts

Pieces == [frame : Frame, part : {1, 2}]
Bytes == buf \o wire
IsAssign(p) == p.frame.type = "IP_ASSIGN"

\* The bytes under way are frames, the last perhaps only begun. The one that
\* assigns the address is the first of the connection.
Whole(b) ==
  \A i \in 1..Len(b) :
    IF i % 2 = 1 THEN b[i].part = 1 ELSE b[i] = PieceOf(b[i - 1].frame, 2)
AssignsFirst(b) == \A i \in 1..Len(b) : IsAssign(b[i]) => i <= 2 /\ me.ip = NoVip
Framing ==
  /\ script \in Seq(Frame)
  /\ buf \in Seq(Pieces) /\ wire \in Seq(Pieces)
  /\ Len(buf) <= 1
  /\ ~up => buf = <<>> /\ wire = <<>> /\ script = <<>>
  /\ Whole(Bytes) /\ AssignsFirst(Bytes)
  /\ script = <<>> => Bytes = <<>> /\ me.ip = NoVip
  /\ Len(Bytes) % 2 = 1 => Bytes[Len(Bytes)] = PieceOf(Last(script), 1)

ClientInv == Session /\ Framing

-----------------------------------------------------------------------------
(* Induction over the frames of one read.                                  *)

\* The states between the frames exist, whatever the bytes.
Between(f, w, bytes, device) ==
  f = [i \in 0..w |-> IF i = 0 THEN Now
                      ELSE Processed(f[i - 1], bytes[2 * i - 1].frame, device)]
LEMMA BetweenExists ==
  ASSUME NEW bytes, NEW device, NEW w \in Nat
  PROVE  \E f : Between(f, w, bytes, device)
<1> DEFINE S == {n \in Nat : \E f : Between(f, n, bytes, device)}
<1>1. 0 \in S
  <2> DEFINE f == [i \in 0..0 |-> Now]
  <2>1. \A i \in 0..0 : i = 0 OBVIOUS
  <2>2. Between(f, 0, bytes, device) BY <2>1 DEF Between
  <2> QED BY <2>2
<1>2. ASSUME NEW n \in S PROVE n + 1 \in S
  <2>1. n \in Nat OBVIOUS
  <2>2. PICK f : Between(f, n, bytes, device) OBVIOUS
  <2> DEFINE P(i, x) == Processed(x, bytes[2 * i - 1].frame, device)
             g == [i \in 0..(n + 1) |-> IF i \in 0..n THEN f[i] ELSE P(i, f[n])]
             h == [i \in 0..(n + 1) |-> IF i = 0 THEN Now ELSE P(i, g[i - 1])]
  <2>3. f = [i \in 0..n |-> IF i = 0 THEN Now ELSE P(i, f[i - 1])]
    BY <2>2 DEF Between
  <2> HIDE DEF P
  <2>4. ASSUME NEW i \in 0..(n + 1) PROVE g[i] = h[i]
    <3>1. CASE i = 0 BY <2>1, <2>3, <3>1
    <3>2. CASE i \in 1..n
      <4>1. i \in 0..n /\ i - 1 \in 0..n /\ i # 0 /\ i - 1 \in 0..(n + 1) BY <2>1, <3>2
      <4>2. g[i] = f[i] /\ g[i - 1] = f[i - 1] BY <4>1
      <4>3. f[i] = P(i, f[i - 1]) BY <2>3, <4>1
      <4> QED BY <4>1, <4>2, <4>3
    <3>3. CASE i = n + 1
      <4>1. i \notin 0..n /\ i - 1 = n /\ n \in 0..n /\ n \in 0..(n + 1) /\ i # 0 BY <2>1, <3>3
      <4>2. g[i] = P(i, f[n]) /\ g[i - 1] = f[n] BY <4>1
      <4> QED BY <4>1, <4>2
    <3> QED BY <2>1, <3>1, <3>2, <3>3
  <2>5. g = h BY <2>4
  <2>6. Between(g, n + 1, bytes, device)
    <3> HIDE DEF g
    <3> QED BY <2>5 DEF Between, P
  <2> QED BY <2>1, <2>6
<1>3. S = Nat
  <2>1. S \subseteq Nat OBVIOUS
  <2> HIDE DEF S
  <2> QED BY <1>1, <1>2, <2>1, Induct
<1>4. w \in S BY <1>3
<1> QED BY <1>4

\* A property of the state between two frames, given as the set Good of the
\* states that have it, holds after the last frame when it is kept by each.
LEMMA EachFrame ==
  ASSUME NEW bytes, NEW device, Len(bytes) \in Nat, NEW Good, Now \in Good,
         \A i \in 1..(Len(bytes) \div 2) :
           \A s \in Good : (i > 1 \/ s = Now) =>
             Processed(s, bytes[2 * i - 1].frame, device) \in Good
  PROVE  ProcessFrames(bytes, device) \in Good
<1> DEFINE w == Len(bytes) \div 2
           P(i, x) == Processed(x, bytes[2 * i - 1].frame, device)
<1>1. w \in Nat OBVIOUS
<1>2. PICK f : f = ProcessFrames(bytes, device) OBVIOUS
<1> DEFINE after == CHOOSE g : Between(g, w, bytes, device)
<1>3. Between(after, w, bytes, device)
  <2> HIDE DEF w
  <2>1. \E g : Between(g, w, bytes, device) BY <1>1, BetweenExists
  <2> QED BY <2>1
<1>4. ProcessFrames(bytes, device) = after[w]
  BY DEF ProcessFrames, Between
<1>5. after = [i \in 0..w |-> IF i = 0 THEN Now ELSE P(i, after[i - 1])]
  <2> HIDE DEF after
  <2> QED BY <1>3 DEF Between
<1> HIDE DEF after
<1>6. \A i \in 1..w, s \in Good : (i > 1 \/ s = Now) => P(i, s) \in Good OBVIOUS
<1> HIDE DEF w, P
<1> DEFINE S == {n \in Nat : n \in 0..w => after[n] \in Good}
<1>7. 0 \in S BY <1>1, <1>5
<1>8. ASSUME NEW n \in S PROVE n + 1 \in S
  <2> SUFFICES ASSUME n + 1 \in 0..w PROVE after[n + 1] \in Good OBVIOUS
  <2>1. n \in 0..w /\ n + 1 \in 1..w /\ n + 1 # 0 /\ (n + 1) - 1 = n BY <1>1
  <2>2. after[n] \in Good BY <2>1
  <2>3. n + 1 > 1 \/ after[n] = Now BY <1>1, <1>5, <2>1
  <2>4. after[n + 1] = P(n + 1, after[n]) BY <1>5, <2>1
  <2> QED BY <1>6, <2>1, <2>2, <2>3, <2>4
<1>9. S = Nat
  <2>1. S \subseteq Nat OBVIOUS
  <2> HIDE DEF S
  <2> QED BY <1>7, <1>8, <2>1, Induct
<1>10. w \in S /\ w \in 0..w BY <1>1, <1>9
<1> QED BY <1>4, <1>10

-----------------------------------------------------------------------------
(* What each operator does to the members and the host.                    *)

LEMMA FreeFdIs == ASSUME NEW h, h.tuns = {} PROVE FreeFd(h) \in Fds
<1>1. Fds \subseteq Nat /\ Fds # {} BY VpnClientAssumption
<1>2. \E fd \in Fds : \A other \in Fds : fd <= other BY <1>1, LeastNat
<1>3. Fds \ h.tuns = Fds OBVIOUS
<1>4. FreeFd(h) = CHOOSE fd \in Fds : \A other \in Fds : fd <= other BY <1>3 DEF FreeFd
<1> QED BY <1>2, <1>4

LEMMA Removed ==
  ASSUME NEW s, s.me \in Members, s.host \in Hosts
  PROVE  /\ RuleRemoved(s) \in [Vips -> Nat]
         /\ \A v \in Vips :
              IF Forwarding /\ s.me.ip = v
              THEN RuleRemoved(s)[v] = IF s.host.dnat[v] = 0 THEN 0 ELSE s.host.dnat[v] - 1
              ELSE RuleRemoved(s)[v] = s.host.dnat[v]
<1> DEFINE d == s.host.dnat
           ip == s.me.ip
<1>1. d \in [Vips -> Nat] /\ ip \in Vips \cup {NoVip} /\ NoVip \notin Vips
  BY VpnClientAssumption DEF Members, Hosts, Addresses, NoVip
<1>2. RuleRemoved(s) = IF Forwarding /\ ip # NoVip
                       THEN [d EXCEPT ![ip] = IF d[ip] = 0 THEN 0 ELSE d[ip] - 1] ELSE d
  BY DEF RuleRemoved
<1> HIDE DEF d, ip
<1>3. CASE Forwarding /\ ip # NoVip
  <2>1. ip \in Vips /\ d[ip] \in Nat BY <1>1, <1>3
  <2>2. (IF d[ip] = 0 THEN 0 ELSE d[ip] - 1) \in Nat BY <2>1
  <2> QED BY <1>1, <1>2, <1>3, <2>1, <2>2 DEF d, ip
<1>4. CASE ~(Forwarding /\ ip # NoVip)
  <2>1. \A v \in Vips : ~(Forwarding /\ ip = v) BY <1>1, <1>4
  <2> QED BY <1>1, <1>2, <1>4, <2>1 DEF d, ip
<1> QED BY <1>3, <1>4

\* close_tun.
LEMMA Closed ==
  ASSUME NEW s, s.me \in Members, s.host \in Hosts, NEW l
  PROVE  LET c == CloseTun(s) IN
         /\ c.me \in Members /\ c.host \in Hosts
         /\ c.me = [assigned |-> s.me.assigned, ip |-> s.me.ip, fd |-> NoFd, io |-> NoFd]
         /\ c.host.tuns = s.host.tuns \ {s.me.fd, s.me.io}
         /\ c.host.status = s.host.status
         /\ Ruled(s, l) /\ l \in Hosts => Ruled(c, l)
<1> DEFINE d == RuleRemoved(s)
           m == [s.me EXCEPT !.fd = NoFd, !.io = NoFd]
           h == [s.host EXCEPT !.tuns = s.host.tuns \ {s.me.fd, s.me.io}, !.dnat = d]
           c == CloseTun(s)
<1>1. c.me = m /\ c.host = h BY DEF CloseTun
<1>2. d \in [Vips -> Nat] BY Removed
<1>3. /\ m \in Members
      /\ m = [assigned |-> s.me.assigned, ip |-> s.me.ip, fd |-> NoFd, io |-> NoFd]
  <2> DEFINE x == s.me
  <2>1. x \in Members OBVIOUS
  <2> HIDE DEF x
  <2>2. /\ [x EXCEPT !.fd = NoFd, !.io = NoFd] \in Members
        /\ [x EXCEPT !.fd = NoFd, !.io = NoFd] =
             [assigned |-> x.assigned, ip |-> x.ip, fd |-> NoFd, io |-> NoFd]
    <3> DEFINE y == [x EXCEPT !.fd = NoFd]
               z == [y EXCEPT !.io = NoFd]
               F == {"assigned", "ip", "fd", "io"}
    <3>1. /\ x.assigned \in BOOLEAN /\ x.ip \in Addresses
          /\ x = [f \in F |-> x[f]]
      BY <2>1 DEF Members
    <3> HIDE DEF F
    <3>2. y = [f \in F |-> IF f = "fd" THEN NoFd ELSE x[f]] BY <3>1
    <3> HIDE DEF y
    <3>3. z = [f \in F |-> IF f = "io" THEN NoFd ELSE y[f]] BY <3>2
    <3>4. z = [f \in F |-> IF f = "io" THEN NoFd ELSE IF f = "fd" THEN NoFd ELSE x[f]]
      BY <3>2, <3>3
    <3> HIDE DEF z
    <3>5. z = [assigned |-> x.assigned, ip |-> x.ip, fd |-> NoFd, io |-> NoFd]
      BY <3>4 DEF F
    <3>6. z \in Members BY <3>1, <3>5 DEF Members, Descriptors
    <3> QED BY <3>5, <3>6 DEF y, z
  <2> QED BY <2>2 DEF x
<1> HIDE DEF d
<1>4. /\ h \in Hosts /\ h.tuns = s.host.tuns \ {s.me.fd, s.me.io} /\ h.dnat = d
      /\ h.status = s.host.status
  BY <1>2 DEF Hosts
<1>5. ASSUME Ruled(s, l), l \in Hosts PROVE Ruled(c, l)
  <2>1. c.me.io = NoFd /\ c.host.dnat = d BY <1>1, <1>3, <1>4
  <2> HIDE DEF c, m, h
  <2> SUFFICES ASSUME NEW v \in Vips PROVE d[v] <= l.dnat[v]
    BY <2>1 DEF Ruled, Forwards
  <2> DEFINE n == s.host.dnat[v]
             k == l.dnat[v]
  <2>2. n \in Nat /\ k \in Nat BY <1>5 DEF Hosts
  <2>3. IF Forwarding /\ s.me.ip = v THEN d[v] = IF n = 0 THEN 0 ELSE n - 1 ELSE d[v] = n
    BY Removed DEF d
  <2>4. IF Forwards(s, v) THEN n >= 1 /\ n <= k + 1 ELSE n <= k
    BY <1>5 DEF Ruled
  <2>5. Forwards(s, v) => Forwarding /\ s.me.ip = v BY DEF Forwards
  <2> HIDE DEF n, k, d
  <2>6. d[v] <= k BY <2>2, <2>3, <2>4, <2>5
  <2> QED BY <2>6 DEF k
<1> HIDE DEF m, h, c
<1>6. /\ c.me \in Members /\ c.host \in Hosts
      /\ c.me = [assigned |-> s.me.assigned, ip |-> s.me.ip, fd |-> NoFd, io |-> NoFd]
      /\ c.host.tuns = s.host.tuns \ {s.me.fd, s.me.io}
      /\ c.host.status = s.host.status
  BY <1>1, <1>3, <1>4
<1> QED BY <1>5, <1>6 DEF c

\* write_status_lua.
LEMMA Written ==
  ASSUME NEW s, s.me \in Members, s.host \in Hosts, NEW state \in {"Connected", "Down"}
  PROVE  LET w == WriteStatus(s, state) IN
         /\ w.me = s.me /\ w.host \in Hosts
         /\ w.host.tuns = s.host.tuns /\ w.host.dnat = s.host.dnat
         /\ w.host.status = [state |-> state, ip |-> s.me.ip]
<1> DEFINE t == [state |-> state, ip |-> s.me.ip]
           w == WriteStatus(s, state)
<1>1. t \in [state : {"none", "Connected", "Down"}, ip : Addresses] BY DEF Members
<1>2. w.me = s.me /\ w.host = [s.host EXCEPT !.status = t] BY DEF WriteStatus
<1> HIDE DEF t
<1>3. /\ [s.host EXCEPT !.status = t] \in Hosts
      /\ [s.host EXCEPT !.status = t].status = t
      /\ [s.host EXCEPT !.status = t].tuns = s.host.tuns
      /\ [s.host EXCEPT !.status = t].dnat = s.host.dnat
  BY <1>1 DEF Hosts
<1> QED BY <1>2, <1>3 DEF t

\* DISCONNECT, and the end of a connection: the tunnel and its rule go.
LEMMA DownSound ==
  ASSUME NEW s, NEW l \in Hosts, Sound(s, l)
  PROVE  LET c == CloseTun(WriteStatus(s, "Down")) IN
         /\ Sound(c, l)
         /\ c.me = [assigned |-> s.me.assigned, ip |-> s.me.ip, fd |-> NoFd, io |-> NoFd]
         /\ c.host.status.state = "Down"
<1> DEFINE w == WriteStatus(s, "Down")
           c == CloseTun(w)
<1>1. s.me \in Members /\ s.host \in Hosts BY DEF Sound, Held
<1>2. /\ w.me = s.me /\ w.host \in Hosts
      /\ w.host.tuns = s.host.tuns /\ w.host.dnat = s.host.dnat
      /\ w.host.status = [state |-> "Down", ip |-> s.me.ip]
  BY <1>1, Written
<1> HIDE DEF w
<1>3. Ruled(w, l) BY <1>2 DEF Sound, Ruled, Forwards
<1>4. /\ c.me \in Members /\ c.host \in Hosts
      /\ c.me = [assigned |-> w.me.assigned, ip |-> w.me.ip, fd |-> NoFd, io |-> NoFd]
      /\ c.host.tuns = w.host.tuns \ {w.me.fd, w.me.io}
      /\ c.host.status = w.host.status
      /\ Ruled(c, l)
  BY <1>1, <1>2, <1>3, Closed
<1>5. c = [me |-> c.me, host |-> c.host] BY DEF CloseTun
<1> HIDE DEF c
<1>6. /\ c.me = [assigned |-> s.me.assigned, ip |-> s.me.ip, fd |-> NoFd, io |-> NoFd]
      /\ c.host.status.state = "Down"
  BY <1>2, <1>4
<1>7. /\ c.me.assigned = s.me.assigned /\ c.me.ip = s.me.ip
      /\ c.me.fd = NoFd /\ c.me.io = NoFd
  BY <1>6
<1>8. Held(c)
  <2>1. c \in [me : Members, host : Hosts] BY <1>5, <1>4
  <2> QED BY <1>2, <1>4, <1>7, <2>1 DEF Sound, Held
<1>9. Told(c, l) BY <1>6, <1>7 DEF Told
<1>10. Sound(c, l) BY <1>4, <1>8, <1>9 DEF Sound
<1> QED BY <1>6, <1>10 DEF c, w

\* IP_ASSIGN on a session that has no address yet.
LEMMA AssignSound ==
  ASSUME NEW s, NEW l \in Hosts, Sound(s, l), s.me.ip = NoVip,
         NEW vip \in Vips, NEW device \in BOOLEAN
  PROVE  Sound(Assign(s, vip, device), l) /\ Assign(s, vip, device).me.ip = vip
<1> DEFINE m == [s.me EXCEPT !.assigned = TRUE, !.ip = vip]
           fd == FreeFd(s.host)
           d == RuleAdded(s, vip)
           q == IF Forwarding THEN s.host.masq + 1 ELSE s.host.masq
           h == [s.host EXCEPT !.tuns = (s.host.tuns \cup {fd}) \ {s.me.io},
                               !.dnat = d, !.masq = q]
           o == IF device THEN [me |-> [m EXCEPT !.fd = fd, !.io = fd], host |-> h]
                ELSE [s EXCEPT !.me = [m EXCEPT !.fd = NoFd]]
           w == WriteStatus(o, "Connected")
<1>1. Assign(s, vip, device) = w BY DEF Assign
<1>2. /\ s.me \in Members /\ s.host \in Hosts /\ s.host.dnat \in [Vips -> Nat]
      /\ s.host.masq \in Nat /\ s.host.tuns = {} /\ s.me.io = NoFd
      /\ vip # NoVip /\ NoFd \notin Fds
  <2>1. vip # NoVip /\ NoFd \notin Fds BY VpnClientAssumption DEF NoVip, NoFd
  <2> QED BY <2>1 DEF Sound, Held, Hosts
<1>3. fd \in Fds BY <1>2, FreeFdIs
<1> HIDE DEF fd
<1>4. /\ d \in [Vips -> Nat]
      /\ \A v \in Vips : d[v] = IF Forwarding /\ v = vip THEN s.host.dnat[v] + 1
                                ELSE s.host.dnat[v]
  <2> DEFINE e == s.host.dnat
  <2>1. e \in [Vips -> Nat] BY <1>2
  <2>2. d = IF Forwarding THEN [e EXCEPT ![vip] = e[vip] + 1] ELSE e BY DEF RuleAdded
  <2> HIDE DEF e, d
  <2>3. e[vip] + 1 \in Nat BY <2>1
  <2>4. CASE Forwarding BY <2>1, <2>2, <2>3, <2>4 DEF e
  <2>5. CASE ~Forwarding BY <2>1, <2>2, <2>5 DEF e
  <2> QED BY <2>4, <2>5
<1>5. q \in Nat BY <1>2
<1> HIDE DEF d, q
<1>6. /\ h \in Hosts /\ h.tuns = {fd} /\ h.dnat = d
  <2> DEFINE x == s.host
             t == (x.tuns \cup {fd}) \ {s.me.io}
  <2>1. x \in Hosts BY <1>2
  <2>2. t = {fd} /\ t \in SUBSET Fds BY <1>2, <1>3
  <2> HIDE DEF x, t
  <2>3. /\ [x EXCEPT !.tuns = t, !.dnat = d, !.masq = q] \in Hosts
        /\ [x EXCEPT !.tuns = t, !.dnat = d, !.masq = q].tuns = t
        /\ [x EXCEPT !.tuns = t, !.dnat = d, !.masq = q].dnat = d
    BY <1>4, <1>5, <2>1, <2>2 DEF Hosts
  <2> QED BY <2>2, <2>3 DEF x, t
<1>7. /\ m \in Members /\ m.assigned = TRUE /\ m.ip = vip /\ m.io = NoFd
  <2> DEFINE x == s.me
  <2>1. x \in Members /\ x.io = NoFd BY <1>2
  <2> HIDE DEF x
  <2>2. /\ [x EXCEPT !.assigned = TRUE, !.ip = vip] \in Members
        /\ [x EXCEPT !.assigned = TRUE, !.ip = vip].assigned = TRUE
        /\ [x EXCEPT !.assigned = TRUE, !.ip = vip].ip = vip
        /\ [x EXCEPT !.assigned = TRUE, !.ip = vip].io = NoFd
    BY <2>1 DEF Members, Addresses
  <2> QED BY <2>2 DEF x
<1> HIDE DEF h, m
<1>8. /\ o.me \in Members /\ o.host \in Hosts
      /\ o.me.assigned = TRUE /\ o.me.ip = vip
      /\ o.me.fd = o.me.io
      /\ IF device THEN o.me.io = fd /\ o.host.tuns = {fd} /\ o.host.dnat = d
                   ELSE o.me.io = NoFd /\ o.host = s.host
  <2>1. CASE device = TRUE
    <3>1. o.me = [m EXCEPT !.fd = fd, !.io = fd] /\ o.host = h BY <2>1
    <3>2. /\ [m EXCEPT !.fd = fd, !.io = fd] \in Members
          /\ [m EXCEPT !.fd = fd, !.io = fd].assigned = m.assigned
          /\ [m EXCEPT !.fd = fd, !.io = fd].ip = m.ip
          /\ [m EXCEPT !.fd = fd, !.io = fd].fd = fd
          /\ [m EXCEPT !.fd = fd, !.io = fd].io = fd
      BY <1>3, <1>7 DEF Members, Descriptors
    <3> HIDE DEF o
    <3> QED BY <1>6, <1>7, <2>1, <3>1, <3>2
  <2>2. CASE device = FALSE
    <3>1. o = [s EXCEPT !.me = [m EXCEPT !.fd = NoFd]] BY <2>2
    <3>2. /\ [m EXCEPT !.fd = NoFd] \in Members
          /\ [m EXCEPT !.fd = NoFd].assigned = m.assigned
          /\ [m EXCEPT !.fd = NoFd].ip = m.ip
          /\ [m EXCEPT !.fd = NoFd].fd = NoFd
          /\ [m EXCEPT !.fd = NoFd].io = m.io
      BY <1>7 DEF Members, Descriptors
    <3>3. o.me = [m EXCEPT !.fd = NoFd] /\ o.host = s.host
      <4>1. DOMAIN s = {"me", "host"} BY DEF Sound, Held
      <4> HIDE DEF o
      <4> QED BY <3>1, <4>1
    <3> HIDE DEF o
    <3> QED BY <1>2, <1>7, <2>2, <3>2, <3>3
  <2> QED BY <2>1, <2>2
<1>9. o = [me |-> o.me, host |-> o.host]
  <2>1. s = [me |-> s.me, host |-> s.host] BY DEF Sound, Held
  <2>2. CASE device = TRUE BY <2>2
  <2>3. CASE device = FALSE BY <2>1, <2>3
  <2> QED BY <2>2, <2>3
<1> HIDE DEF o
<1>10. w = [me |-> w.me, host |-> w.host] BY <1>9 DEF WriteStatus
<1>11. /\ w.me = o.me /\ w.host \in Hosts
      /\ w.host.tuns = o.host.tuns /\ w.host.dnat = o.host.dnat
      /\ w.host.status = [state |-> "Connected", ip |-> o.me.ip]
  BY <1>8, Written
<1> HIDE DEF w
<1>12. Held(w)
  <2>1. w.host.tuns = {w.me.io} \ {NoFd} BY <1>2, <1>3, <1>8, <1>11
  <2>2. w \in [me : Members, host : Hosts] BY <1>8, <1>11, <1>10
  <2> QED BY <1>2, <1>8, <1>11, <2>1, <2>2 DEF Held
<1>13. Told(w, l) BY <1>8, <1>11 DEF Told
<1>14. Ruled(w, l)
  <2> SUFFICES ASSUME NEW v \in Vips
               PROVE  IF Forwards(w, v)
                      THEN w.host.dnat[v] >= 1 /\ w.host.dnat[v] <= l.dnat[v] + 1
                      ELSE w.host.dnat[v] <= l.dnat[v]
    BY DEF Ruled
  <2> DEFINE n == s.host.dnat[v]
             k == l.dnat[v]
  <2>1. n \in Nat /\ k \in Nat BY <1>2 DEF Hosts
  <2>2. n <= k BY <1>2 DEF Sound, Ruled, Forwards
  <2>3. w.host.dnat[v] = IF Forwards(w, v) THEN n + 1 ELSE n
    <3>1. CASE device = TRUE
      <4>1. Forwards(w, v) <=> Forwarding /\ v = vip
        BY <1>2, <1>3, <1>8, <1>11, <3>1 DEF Forwards
      <4> QED BY <1>4, <1>8, <1>11, <3>1, <4>1
    <3>2. CASE device = FALSE BY <1>8, <1>11, <3>2 DEF Forwards
    <3> QED BY <3>1, <3>2
  <2> HIDE DEF n, k
  <2>4. CASE Forwards(w, v)
    <3>1. w.host.dnat[v] >= 1 /\ w.host.dnat[v] <= k + 1 BY <2>1, <2>2, <2>3, <2>4
    <3> QED BY <2>4, <3>1 DEF k
  <2>5. CASE ~Forwards(w, v)
    <3>1. w.host.dnat[v] <= k BY <2>1, <2>2, <2>3, <2>5
    <3> QED BY <2>5, <3>1 DEF k
  <2> QED BY <2>4, <2>5
<1> QED BY <1>1, <1>8, <1>11, <1>12, <1>13, <1>14 DEF Sound

\* handle_close, handle_event.
LEMMA LostSound ==
  ASSUME NEW s, NEW l \in Hosts, Sound(s, l)
  PROVE  Sound(Lost(s), l) /\ Lost(s).me = NotAssigned
<1> DEFINE down == CloseTun(WriteStatus(s, "Down"))
           plain == CloseTun(s)
           c == IF s.me.assigned THEN down ELSE plain
           g == [c EXCEPT !.me = NotAssigned]
<1>1. Lost(s) = g BY DEF Lost
<1>2. s.me \in Members /\ s.host \in Hosts /\ s.me.assigned \in BOOLEAN BY DEF Sound, Held, Members
<1>3. /\ c.host \in Hosts /\ c.host.tuns = {} /\ c.me.io = NoFd
      /\ Ruled(c, l)
      /\ c.host.status.state = "Connected" => c.host.status = l.status
  <2>1. CASE s.me.assigned
    <3>1. /\ Sound(down, l) /\ down.host.status.state = "Down"
          /\ down.me = [assigned |-> s.me.assigned, ip |-> s.me.ip, fd |-> NoFd, io |-> NoFd]
      BY DownSound
    <3> HIDE DEF down
    <3>2. down.me.io = NoFd BY <3>1
    <3>3. c = down BY <2>1
    <3> HIDE DEF c
    <3> QED BY <3>1, <3>2, <3>3 DEF Sound, Held
  <2>2. CASE ~s.me.assigned
    <3>1. /\ plain.host \in Hosts
          /\ plain.me = [assigned |-> s.me.assigned, ip |-> s.me.ip, fd |-> NoFd, io |-> NoFd]
          /\ plain.host.tuns = s.host.tuns \ {s.me.fd, s.me.io}
          /\ plain.host.status = s.host.status /\ Ruled(plain, l)
      BY <1>2, Closed DEF Sound
    <3> HIDE DEF plain
    <3>2. plain.me.io = NoFd /\ plain.host.tuns = {} BY <3>1 DEF Sound, Held
    <3>3. plain.host.status.state = "Connected" => plain.host.status = l.status
      BY <2>2, <3>1 DEF Sound, Told
    <3>4. c = plain BY <2>2
    <3> HIDE DEF c
    <3> QED BY <3>1, <3>2, <3>3, <3>4
  <2> QED BY <1>2, <2>1, <2>2
<1>4. g.me = NotAssigned /\ g.host = c.host /\ g = [me |-> g.me, host |-> g.host]
  <2>1. DOMAIN c = {"me", "host"} BY DEF CloseTun
  <2> HIDE DEF c
  <2> QED BY <2>1
<1> HIDE DEF c, g
<1>5. NotAssigned \in Members /\ NotAssigned.io = NoFd /\ NotAssigned.fd = NoFd
      /\ NotAssigned.ip = NoVip /\ NotAssigned.assigned = FALSE
  BY DEF NotAssigned, Members, Addresses, Descriptors
<1>6. Held(g)
  <2>1. g \in [me : Members, host : Hosts] BY <1>3, <1>4, <1>5
  <2> QED BY <1>3, <1>4, <1>5, <2>1 DEF Held
<1>7. Told(g, l) BY <1>3, <1>4, <1>5 DEF Told
<1>8. Ruled(g, l) BY <1>3, <1>4, <1>5 DEF Ruled, Forwards
<1> QED BY <1>1, <1>4, <1>6, <1>7, <1>8 DEF Sound

-----------------------------------------------------------------------------
(* Bytes.                                                                  *)

\* An even number of elements is taken from the front of two sequences, the
\* rest of the first n of the second stays in the first.
Cut(x, y, n, bytes, w, x2, y2) ==
  /\ bytes = x \o SubSeq(y, 1, n) /\ w = Len(bytes) \div 2
  /\ x2 = SubSeq(bytes, 2 * w + 1, Len(bytes)) /\ y2 = SubSeq(y, n + 1, Len(y))
Rest(S, x, y, bytes, w, x2, y2) ==
  /\ Len(bytes) \in Nat /\ w \in Nat /\ 2 * w <= Len(bytes) /\ Len(bytes) <= Len(x \o y)
  /\ \A i \in 1..Len(bytes) : bytes[i] = (x \o y)[i]
  /\ x2 \in Seq(S) /\ y2 \in Seq(S) /\ Len(x2) <= 1
  /\ Len(x2 \o y2) = Len(x \o y) - 2 * w
  /\ \A i \in 1..(Len(x \o y) - 2 * w) : (x2 \o y2)[i] = (x \o y)[2 * w + i]
LEMMA ReadCut ==
  ASSUME NEW S, NEW x \in Seq(S), NEW y \in Seq(S), NEW n \in 1..Len(y),
         NEW bytes, NEW w, NEW x2, NEW y2, Cut(x, y, n, bytes, w, x2, y2)
  PROVE  Rest(S, x, y, bytes, w, x2, y2)
<1> DEFINE b == Len(x)
           m == Len(y)
           u == x \o y
           part == SubSeq(y, 1, n)
           k == Len(bytes)
<1>1. x \in Seq(S) /\ y \in Seq(S) OBVIOUS
<1>2. /\ b \in Nat /\ m \in Nat /\ Len(u) = b + m
      /\ \A i \in 1..b : u[i] = x[i]
      /\ \A i \in 1..m : u[b + i] = y[i]
  BY ONLY <1>1, Joined
<1>3. n \in 0..m /\ n \in 1..m BY <1>2
<1>4. /\ part \in Seq(S) /\ Len(part) = n /\ \A i \in 1..n : part[i] = y[i]
      /\ y2 \in Seq(S) /\ Len(y2) = m - n
      /\ \A i \in 1..(m - n) : y2[i] = y[n + i]
  <2>1. y \in Seq(S) /\ n \in 0..Len(y) BY <1>1, <1>3
  <2>2. y2 = SubSeq(y, n + 1, Len(y)) BY DEF Cut
  <2> QED BY ONLY <2>1, <2>2, CutAt DEF part
<1> HIDE DEF part
<1>5. /\ bytes \in Seq(S) /\ k = b + n
      /\ \A i \in 1..(b + n) : bytes[i] = IF i <= b THEN x[i] ELSE part[i - b]
  <2>1. bytes = x \o part BY DEF part, Cut
  <2>2. part \in Seq(S) /\ x \in Seq(S) BY <1>1, <1>4
  <2>3. /\ bytes \in Seq(S) /\ Len(bytes) = Len(x) + Len(part)
        /\ \A i \in 1..(Len(x) + Len(part)) :
             bytes[i] = IF i <= Len(x) THEN x[i] ELSE part[i - Len(x)]
    BY <2>1, <2>2, ConcatProperties
  <2>4. Len(part) = n BY <1>4
  <2> HIDE DEF b, k
  <2> QED BY <2>3, <2>4 DEF b, k
<1>6. w \in Nat /\ 2 * w <= k /\ k - 2 * w <= 1 /\ 2 * w \in 0..k
  <2>1. k \in Nat /\ w = k \div 2 BY <1>2, <1>3, <1>5 DEF Cut
  <2> HIDE DEF k
  <2> QED BY <2>1
<1>7. /\ x2 \in Seq(S) /\ Len(x2) = k - 2 * w
      /\ \A i \in 1..(k - 2 * w) : x2[i] = bytes[2 * w + i]
  <2> DEFINE z == 2 * w
  <2>1. z \in 0..Len(bytes) BY <1>6
  <2>2. x2 = SubSeq(bytes, z + 1, Len(bytes)) BY DEF Cut
  <2>3. bytes \in Seq(S) BY <1>5
  <2> HIDE DEF z
  <2>4. /\ x2 \in Seq(S) /\ Len(x2) = Len(bytes) - z
        /\ \A i \in 1..(Len(bytes) - z) : x2[i] = bytes[z + i]
    BY ONLY <2>1, <2>2, <2>3, CutAt
  <2> QED BY <2>4 DEF z
<1> HIDE DEF b, m, u, k
<1>8. \A i \in 1..k : bytes[i] = u[i]
  <2> SUFFICES ASSUME NEW i \in 1..k PROVE bytes[i] = u[i] OBVIOUS
  <2>1. i \in Nat /\ i >= 1 /\ i \in 1..(b + n) BY <1>2, <1>3, <1>5
  <2>2. bytes[i] = IF i <= b THEN x[i] ELSE part[i - b] BY <1>5, <2>1
  <2>3. CASE i <= b
    <3>1. i \in 1..b BY <1>2, <2>3, <2>1
    <3> QED BY <1>2, <2>3, <2>2, <3>1
  <2>4. CASE i > b
    <3>1. i - b \in 1..n /\ i - b \in 1..m /\ b + (i - b) = i /\ ~(i <= b) /\ i \in 1..(b + n)
      BY <1>2, <1>3, <2>4, <2>1
    <3>2. part[i - b] = y[i - b] /\ u[b + (i - b)] = y[i - b] BY <1>2, <1>4, <3>1
    <3> QED BY <2>2, <3>1, <3>2
  <2> QED BY ONLY <1>2, <2>3, <2>4, <2>1
<1>9. /\ Len(x2 \o y2) = (b + m) - 2 * w
      /\ \A i \in 1..((b + m) - 2 * w) : (x2 \o y2)[i] = u[2 * w + i]
  <2> DEFINE v == x2 \o y2
             c == k - 2 * w
             d == m - n
  <2>1. /\ Len(v) = c + d
        /\ \A i \in 1..(c + d) : v[i] = IF i <= c THEN x2[i] ELSE y2[i - c]
    <3>1. x2 \in Seq(S) /\ y2 \in Seq(S) BY <1>4, <1>7
    <3>2. v = x2 \o y2 OBVIOUS
    <3>3. /\ Len(v) = Len(x2) + Len(y2)
          /\ \A i \in 1..(Len(x2) + Len(y2)) :
               v[i] = IF i <= Len(x2) THEN x2[i] ELSE y2[i - Len(x2)]
      <4> HIDE DEF v
      <4> QED BY ONLY <3>1, <3>2, ConcatProperties
    <3>4. Len(x2) = c /\ Len(y2) = d BY <1>4, <1>7
    <3> HIDE DEF v, c, d
    <3> QED BY <3>3, <3>4
  <2>2. c + d = (b + m) - 2 * w /\ c \in Nat /\ d \in Nat BY <1>2, <1>3, <1>5, <1>6
  <2>3. ASSUME NEW i \in 1..(c + d) PROVE v[i] = u[2 * w + i]
    <3>1. CASE i <= c
      <4>1. i \in 1..(k - 2 * w) /\ 2 * w + i \in 1..k BY <1>6, <1>5, <1>2, <1>3, <2>2, <3>1
      <4> HIDE DEF v
      <4> QED BY <1>7, <1>8, <2>1, <3>1, <4>1
    <3>2. CASE i > c
      <4>1. /\ i - c \in 1..(m - n) /\ ~(i <= c) /\ n + (i - c) \in 1..m
            /\ b + (n + (i - c)) = 2 * w + i
        BY <1>2, <1>3, <1>5, <1>6, <2>2, <3>2
      <4>2. y2[i - c] = y[n + (i - c)] BY <1>4, <4>1
      <4>3. u[b + (n + (i - c))] = y[n + (i - c)] BY <1>2, <4>1
      <4> HIDE DEF v, c
      <4> QED BY <2>1, <4>1, <4>2, <4>3
    <3>3. i <= c \/ i > c BY <2>2
    <3> QED BY ONLY <3>1, <3>2, <3>3
  <2> HIDE DEF v, c, d
  <2> QED BY <2>1, <2>2, <2>3 DEF v
<1>10. k \in Nat /\ k <= b + m BY <1>2, <1>3, <1>5
<1> QED BY <1>2, <1>4, <1>6, <1>7, <1>8, <1>9, <1>10 DEF k, u, Rest

\* The buffer, then the wire.
LEMMA BytesAre ==
  ASSUME Framing
  PROVE  /\ Bytes \in Seq(Pieces) /\ Len(Bytes) = Len(buf) + Len(wire)
         /\ Len(buf) \in Nat /\ Len(wire) \in Nat
         /\ \A i \in 1..Len(buf) : Bytes[i] = buf[i]
         /\ \A i \in 1..Len(wire) : Bytes[Len(buf) + i] = wire[i]
<1>1. buf \in Seq(Pieces) /\ wire \in Seq(Pieces) BY DEF Framing
<1> QED BY <1>1, Joined DEF Bytes

\* handle_read takes an even number of pieces from the front.
Reads(n, bytes, w) == Cut(buf, wire, n, bytes, w, buf', wire')
LEMMA ReadBytes ==
  ASSUME Framing, NEW n \in 1..Len(wire), NEW bytes, NEW w, Reads(n, bytes, w)
  PROVE  /\ Len(bytes) \in Nat /\ w \in Nat /\ 2 * w <= Len(bytes) /\ Len(bytes) <= Len(Bytes)
         /\ \A i \in 1..Len(bytes) : bytes[i] = Bytes[i]
         /\ buf' \in Seq(Pieces) /\ wire' \in Seq(Pieces) /\ Len(buf') <= 1
         /\ Len(Bytes') = Len(Bytes) - 2 * w
         /\ \A i \in 1..(Len(Bytes) - 2 * w) : Bytes'[i] = Bytes[2 * w + i]
<1>1. PICK x2 : x2 = buf' OBVIOUS
<1>2. PICK y2 : y2 = wire' OBVIOUS
<1>3. buf \in Seq(Pieces) /\ wire \in Seq(Pieces) BY DEF Framing
<1>4. Bytes = buf \o wire /\ Bytes' = x2 \o y2 BY <1>1, <1>2 DEF Bytes
<1>5. Cut(buf, wire, n, bytes, w, x2, y2) /\ n \in 1..Len(wire) BY <1>1, <1>2 DEF Reads
<1>6. Rest(Pieces, buf, wire, bytes, w, x2, y2) BY ONLY <1>3, <1>5, ReadCut
<1> QED BY <1>1, <1>2, <1>4, <1>6 DEF Rest

\* Whether a frame is begun shows in the number of pieces.
LEMMA BegunIs == ASSUME Framing PROVE Begun <=> Len(Bytes) % 2 = 1
<1> DEFINE b == Len(buf)
           m == Len(wire)
           u == Bytes
<1>1. /\ b \in Nat /\ m \in Nat /\ Len(u) = b + m /\ b <= 1
      /\ \A i \in 1..m : u[b + i] = wire[i]
      /\ Whole(u) /\ (script = <<>> => Len(u) = 0)
  <2>1. Len(<<>>) = 0 BY EmptySeq
  <2> QED BY <2>1, BytesAre DEF Framing
<1>2. buf \in Seq(Pieces) /\ wire \in Seq(Pieces) BY DEF Framing
<1>3. (buf = <<>> <=> b = 0) /\ (wire = <<>> <=> m = 0) BY <1>2, EmptySeq
<1>4. Begun <=> script # <<>> /\ IF m = 0 THEN b # 0 ELSE wire[m].part = 1
  BY <1>3 DEF Begun, Last
<1> HIDE DEF b, m, u
<1>5. CASE script = <<>>
  <2>1. Len(u) = 0 BY <1>1, <1>5
  <2>2. ~(Len(u) % 2 = 1) BY <2>1
  <2> QED BY <1>4, <1>5, <2>2 DEF u
<1>6. CASE script # <<>> /\ m = 0
  <2>1. Len(u) = b /\ (b = 0 \/ b = 1) BY <1>1, <1>6
  <2>2. b # 0 <=> Len(u) % 2 = 1 BY <2>1
  <2> QED BY <1>4, <1>6, <2>2 DEF u
<1>7. CASE script # <<>> /\ m # 0
  <2>1. m \in 1..m /\ b + m \in 1..(b + m) /\ b + m \in Nat BY <1>1, <1>7
  <2>2. u[b + m] = wire[m] BY <1>1, <2>1
  <2>3. IF (b + m) % 2 = 1 THEN u[b + m].part = 1
        ELSE u[b + m] = PieceOf(u[b + m - 1].frame, 2)
    BY <1>1, <2>1 DEF Whole
  <2>4. \A f : PieceOf(f, 2).part = 2 BY DEF PieceOf
  <2>5. Len(u) % 2 = 1 <=> wire[m].part = 1 BY <1>1, <2>2, <2>3, <2>4
  <2> QED BY <1>4, <1>7, <2>5 DEF u
<1> QED BY <1>5, <1>6, <1>7

\* handle_read keeps the bytes whole.
LEMMA ReadFraming ==
  ASSUME Framing, NEW n \in 1..Len(wire), NEW bytes, NEW w, Reads(n, bytes, w),
         up, up' = up, script' = script, w = 0 => me' = me
  PROVE  Framing'
<1> DEFINE L == Len(Bytes)
           z == 2 * w
<1>1. /\ Len(bytes) \in Nat /\ w \in Nat /\ z <= Len(bytes) /\ Len(bytes) <= L
      /\ buf' \in Seq(Pieces) /\ wire' \in Seq(Pieces) /\ Len(buf') <= 1
      /\ Len(Bytes') = L - z
      /\ \A i \in 1..(L - z) : Bytes'[i] = Bytes[z + i]
  BY ONLY Framing, n \in 1..Len(wire), Reads(n, bytes, w), ReadBytes
<1>2. L \in Nat /\ Bytes \in Seq(Pieces) BY BytesAre DEF L
<1>3. z \in Nat /\ z % 2 = 0 /\ z <= L /\ L - z \in Nat BY <1>1, <1>2
<1>4. PICK u : u = Bytes OBVIOUS
<1>5. PICK v : v = Bytes' OBVIOUS
<1>6. Whole(u) /\ AssignsFirst(u) BY <1>4 DEF Framing
<1>7. /\ Len(u) = L /\ Len(v) = L - z /\ \A i \in 1..(L - z) : v[i] = u[z + i]
  BY <1>1, <1>4, <1>5
<1>8. ASSUME NEW i \in 1..(L - z)
      PROVE  z + i \in 1..L /\ (z + i) % 2 = i % 2
  <2> HIDE DEF L
  <2> QED BY <1>1, <1>2
<1>9. Whole(v)
  <2> SUFFICES ASSUME NEW i \in 1..(L - z)
               PROVE  IF i % 2 = 1 THEN v[i].part = 1
                      ELSE v[i] = PieceOf(v[i - 1].frame, 2)
    BY <1>7 DEF Whole
  <2> PICK j : j = z + i OBVIOUS
  <2>1. j \in 1..L /\ j % 2 = i % 2 BY <1>8
  <2>2. IF j % 2 = 1 THEN u[j].part = 1 ELSE u[j] = PieceOf(u[j - 1].frame, 2)
    BY <1>6, <1>7, <2>1 DEF Whole
  <2>3. v[i] = u[j] BY <1>7
  <2>4. CASE i % 2 # 1
    <3>1. i # 1 BY <2>4
    <3>2. i - 1 \in 1..(L - z) /\ z + (i - 1) = j - 1
      <4> HIDE DEF L, z
      <4> QED BY <1>2, <1>3, <3>1
    <3>3. v[i - 1] = u[j - 1] BY <1>7, <3>2
    <3> QED BY <2>3, <2>4, <2>1, <2>2, <3>3
  <2> QED BY <2>3, <2>4, <2>1, <2>2
<1>10. AssignsFirst(v)'
  <2> SUFFICES ASSUME NEW i \in 1..(L - z), IsAssign(v[i]) PROVE i <= 2 /\ me'.ip = NoVip
    BY <1>7 DEF AssignsFirst, IsAssign
  <2>1. z + i <= 2 /\ me.ip = NoVip BY <1>6, <1>7, <1>8 DEF AssignsFirst
  <2>2. w = 0 BY <1>1, <2>1
  <2> QED BY <1>3, <2>1, <2>2
<1>11. script # <<>> /\ L # 0
  <2>1. Len(wire) # 0 /\ L = Len(buf) + Len(wire) /\ Len(buf) \in Nat /\ Len(wire) \in Nat
    BY BytesAre
  <2>2. Len(<<>>) = 0 BY EmptySeq
  <2>3. L # 0 BY <2>1
  <2> QED BY <2>2, <2>3 DEF Framing
<1>12. (L - z) % 2 = 1 => v[L - z] = PieceOf(Last(script), 1)
  <2> SUFFICES ASSUME (L - z) % 2 = 1 PROVE v[L - z] = PieceOf(Last(script), 1) OBVIOUS
  <2>1. L % 2 = 1 /\ L - z # 0
    <3> HIDE DEF L, z
    <3>1. (L - z) % 2 = 1 /\ L \in Nat /\ z \in Nat /\ z % 2 = 0 /\ z <= L BY <1>2, <1>3
    <3> QED BY ONLY <3>1
  <2>2. L - z \in 1..(L - z) /\ z + (L - z) = L
    <3> HIDE DEF L, z
    <3> QED BY <1>2, <1>3, <2>1
  <2>3. u[L] = PieceOf(Last(script), 1) BY <1>4, <2>1 DEF Framing
  <2> QED BY <1>7, <2>2, <2>3
<1>13. Whole(Bytes)' /\ AssignsFirst(Bytes)'
  <2>1. Whole(Bytes)' BY <1>5, <1>9 DEF Whole
  <2>2. AssignsFirst(Bytes)' BY <1>5, <1>10 DEF AssignsFirst
  <2> QED BY <2>1, <2>2
<1>14. Len(Bytes') % 2 = 1 => Bytes'[Len(Bytes')] = PieceOf(Last(script'), 1)
  BY <1>1, <1>5, <1>12
<1> QED BY <1>1, <1>11, <1>13, <1>14 DEF Framing

-----------------------------------------------------------------------------
(* Steps.                                                                  *)

LEMMA BecomesIs ==
  ASSUME NEW s \in [me : Members, host : Hosts], Becomes(s)
  PROVE  Now' = s
<1>1. s = [me |-> s.me, host |-> s.host] OBVIOUS
<1> QED BY <1>1 DEF Becomes, Now

LEMMA NowIs == Now.me = me /\ Now.host = host BY DEF Now

\* The members and the host between two frames of a read: sound, with the
\* address the read found or the first one.
Good == {s \in [me : Members, host : Hosts] :
           Sound(s, left) /\ (s.me.ip = me.ip \/ me.ip = NoVip)}

LEMMA FrameKeepsGood ==
  ASSUME Session, NEW f \in Frame, NEW device \in BOOLEAN, NEW s \in Good,
         f.type = "IP_ASSIGN" => s = Now /\ me.ip = NoVip
  PROVE  Processed(s, f, device) \in Good
<1>1. left \in Hosts BY DEF Session
<1>2. Sound(s, left) /\ (s.me.ip = me.ip \/ me.ip = NoVip) /\ s \in [me : Members, host : Hosts]
  BY DEF Good
<1>3. CASE f.type = "IP_ASSIGN"
  <2>1. f.vip \in Vips BY <1>3 DEF Frame
  <2>2. s.me.ip = NoVip BY <1>3, NowIs
  <2>3. PICK t : t = Assign(s, f.vip, device) OBVIOUS
  <2>4. Sound(t, left) BY <1>1, <1>2, <2>1, <2>2, <2>3, AssignSound
  <2>5. t \in Good BY <1>3, <2>4 DEF Good, Sound, Held
  <2>6. Processed(s, f, device) = t BY <1>3, <2>3 DEF Processed
  <2> QED BY <2>5, <2>6
<1>4. CASE f.type = "DISCONNECT"
  <2>1. PICK t : t = CloseTun(WriteStatus(s, "Down")) OBVIOUS
  <2>2. /\ Sound(t, left)
        /\ t.me = [assigned |-> s.me.assigned, ip |-> s.me.ip, fd |-> NoFd, io |-> NoFd]
    BY <1>1, <1>2, <2>1, DownSound
  <2>3. t.me.ip = s.me.ip BY <2>2
  <2>4. t \in Good BY <1>2, <2>2, <2>3 DEF Good, Sound, Held
  <2>5. Processed(s, f, device) = t BY <1>4, <2>1 DEF Processed
  <2> QED BY <2>4, <2>5
<1>5. CASE f.type # "IP_ASSIGN" /\ f.type # "DISCONNECT"
  BY <1>5 DEF Processed
<1> QED BY <1>3, <1>4, <1>5

\* handle_read: the frames leave a sound session.
LEMMA ReadGood ==
  ASSUME ClientInv, NEW n \in 1..Len(wire), NEW device \in BOOLEAN,
         NEW bytes, NEW w, Reads(n, bytes, w)
  PROVE  /\ ProcessFrames(bytes, device) \in Good
         /\ w = 0 => ProcessFrames(bytes, device) = Now
<1>1. /\ Len(bytes) \in Nat /\ w \in Nat /\ 2 * w <= Len(bytes) /\ Len(bytes) <= Len(Bytes)
      /\ \A i \in 1..Len(bytes) : bytes[i] = Bytes[i]
  <2>1. Framing /\ n \in 1..Len(wire) /\ Reads(n, bytes, w) BY DEF ClientInv
  <2> QED BY ONLY <2>1, ReadBytes
<1>2. Session /\ Framing BY DEF ClientInv
<1>3. Now \in Good BY <1>2, NowIs DEF Session, Good, Sound, Held
<1>4. w = Len(bytes) \div 2 BY DEF Reads, Cut
<1>5. Bytes \in Seq(Pieces) /\ AssignsFirst(Bytes) BY <1>2, BytesAre DEF Framing
<1>6. ASSUME NEW i \in 1..w, NEW s \in Good, i > 1 \/ s = Now
      PROVE  Processed(s, bytes[2 * i - 1].frame, device) \in Good
  <2> PICK j : j = 2 * i - 1 OBVIOUS
  <2>1. j \in 1..Len(bytes) /\ j \in 1..Len(Bytes)
    <3>1. Len(Bytes) \in Nat BY <1>5
    <3> QED BY <1>1, <3>1
  <2>2. bytes[j] = Bytes[j] BY <1>1, <2>1
  <2>3. Bytes[j] \in Pieces BY <1>5, <2>1
  <2>4. bytes[j].frame \in Frame BY <2>2, <2>3 DEF Pieces
  <2>5. ASSUME bytes[j].frame.type = "IP_ASSIGN" PROVE s = Now /\ me.ip = NoVip
    <3>1. j <= 2 /\ me.ip = NoVip BY <1>5, <2>1, <2>2, <2>5 DEF AssignsFirst, IsAssign
    <3> QED BY <1>6, <3>1
  <2> QED BY <1>2, <2>4, <2>5, FrameKeepsGood
<1>7. ProcessFrames(bytes, device) \in Good
  <2>1. /\ Len(bytes) \in Nat
        /\ \A i \in 1..(Len(bytes) \div 2) :
             \A s \in Good : (i > 1 \/ s = Now) =>
               Processed(s, bytes[2 * i - 1].frame, device) \in Good
    BY <1>1, <1>4, <1>6
  <2> QED BY ONLY <1>3, <2>1, EachFrame
<1>8. ASSUME w = 0 PROVE ProcessFrames(bytes, device) = Now
  <2> DEFINE Same == {Now}
  <2>1. Now \in Same OBVIOUS
  <2>2. /\ Len(bytes) \in Nat
        /\ \A i \in 1..(Len(bytes) \div 2) :
             \A s \in Same : (i > 1 \/ s = Now) =>
               Processed(s, bytes[2 * i - 1].frame, device) \in Same
    BY <1>1, <1>4, <1>8
  <2>3. ProcessFrames(bytes, device) \in Same
    <3> HIDE DEF Same
    <3> QED BY ONLY <2>1, <2>2, EachFrame
  <2> QED BY <2>3
<1> QED BY <1>7, <1>8

LEMMA EmptyFraming ==
  ASSUME buf = <<>>, wire = <<>>, script = <<>>, me.ip = NoVip
  PROVE  Framing
<1>1. Bytes = <<>> BY DEF Bytes
<1>2. Len(<<>>) = 0 BY EmptySeq
<1>3. \A S : <<>> \in Seq(S) BY EmptySeq
<1>4. ~(Len(Bytes) % 2 = 1) /\ \A i \in 1..Len(Bytes) : FALSE BY <1>1, <1>2
<1> QED BY <1>1, <1>2, <1>3, <1>4 DEF Framing, Whole, AssignsFirst

LEMMA EmptiedFraming ==
  ASSUME buf' = <<>>, wire' = <<>>, script' = <<>>, me'.ip = NoVip
  PROVE  Framing'
<1>1. Bytes' = <<>> BY DEF Bytes
<1>2. Len(<<>>) = 0 BY EmptySeq
<1>3. \A S : <<>> \in Seq(S) BY EmptySeq
<1>4. ~(Len(Bytes') % 2 = 1) /\ \A i \in 1..Len(Bytes') : FALSE BY <1>1, <1>2
<1> QED BY <1>1, <1>2, <1>3, <1>4 DEF Framing, Whole, AssignsFirst

\* handle_close, handle_event: nothing of the session stays.
LEMMA GiveUpSound ==
  ASSUME Session, GiveUp
  PROVE  Sound(Now', left) /\ me' = NotAssigned /\ buf' = <<>> /\ timer' = TRUE
<1>1. PICK t : t = Lost(Now) OBVIOUS
<1>2. Sound(t, left) /\ t.me = NotAssigned BY <1>1, LostSound DEF Session
<1>3. Becomes(t) BY <1>1 DEF GiveUp
<1>4. Now' = t BY <1>2, <1>3, BecomesIs DEF Sound, Held
<1>5. me' = NotAssigned BY <1>2, <1>3 DEF Becomes
<1> QED BY <1>2, <1>4, <1>5 DEF GiveUp, BufferCleared

LEMMA NotAssignedIs == NotAssigned.ip = NoVip /\ NotAssigned.assigned = FALSE
BY DEF NotAssigned

LEMMA InitClient == ASSUME Init PROVE ClientInv
<1>1. CleanHost \in Hosts BY DEF CleanHost, Hosts, Addresses
<1>2. NotAssigned \in Members BY DEF NotAssigned, Members, Addresses, Descriptors
<1>3. Held(Now) BY <1>1, <1>2 DEF Init, Now, Held, NotAssigned, CleanHost
<1>4. Ruled(Now, left) BY DEF Init, Now, Ruled, Forwards, NotAssigned, CleanHost
<1>5. Told(Now, left) BY DEF Init, Now, Told, NotAssigned, CleanHost
<1>6. MaxConns \in Nat /\ MaxRestarts \in Nat BY VpnClientAssumption
<1>7. 0 \in 0..MaxConns /\ 0 \in 0..MaxRestarts BY <1>6
<1>8. Session BY <1>1, <1>3, <1>4, <1>5, <1>7, NotAssignedIs DEF Init, Session, Sound
<1>9. Framing BY EmptyFraming, NotAssignedIs DEF Init
<1> QED BY <1>8, <1>9 DEF ClientInv

LEMMA ConnectClient == ASSUME ClientInv, HandleConnect PROVE ClientInv'
<1>1. ~up /\ me.assigned = FALSE /\ me.ip = NoVip /\ buf = <<>>
  <2>1. me.assigned \in BOOLEAN /\ (me.assigned <=> me.ip # NoVip)
    BY NowIs DEF ClientInv, Session, Sound, Held, Members
  <2> QED BY <2>1 DEF ClientInv, Session, Framing, HandleConnect
<1>2. Now' = Now BY DEF HandleConnect, Now
<1>3. conns' \in 0..MaxConns
  <2>1. MaxConns \in Nat BY VpnClientAssumption
  <2> QED BY <2>1 DEF HandleConnect, ClientInv, Session
<1>4. Session' BY <1>1, <1>2, <1>3 DEF ClientInv, Session, HandleConnect
<1>5. buf' = <<>> /\ wire' = <<>> /\ script' = <<>> /\ me'.ip = NoVip
  BY <1>1 DEF HandleConnect
<1>6. Framing' BY <1>5, EmptiedFraming
<1> QED BY <1>4, <1>6 DEF ClientInv

\* The end of a session, however it comes.
LEMMA EndClient ==
  ASSUME ClientInv, GiveUp, up' = FALSE, attempt' \in BOOLEAN, timing' \in BOOLEAN,
         wire' = <<>>, script' = <<>>, conns' = conns, restarts' = restarts, left' = left
  PROVE  ClientInv'
<1>1. Session BY DEF ClientInv
<1>2. Sound(Now', left) /\ me' = NotAssigned /\ buf' = <<>> /\ timer' = TRUE
  BY <1>1, GiveUpSound
<1>3. Session' BY <1>1, <1>2, NotAssignedIs DEF Session
<1>4. Framing' BY <1>2, NotAssignedIs, EmptiedFraming
<1> QED BY <1>3, <1>4 DEF ClientInv

LEMMA EventClient == ASSUME ClientInv, HandleEvent PROVE ClientInv'
<1>1. ~up /\ wire = <<>> /\ script = <<>>
  BY DEF ClientInv, Session, Framing, HandleEvent
<1> QED BY <1>1, EndClient DEF HandleEvent, srv, run, ClientInv, Session

LEMMA CloseClient == ASSUME ClientInv, HandleClose PROVE ClientInv'
BY EndClient DEF HandleClose, run, ClientInv, Session

LEMMA TimeoutClient == ASSUME ClientInv, HandleTimeout PROVE ClientInv'
<1>1. CASE up
  BY <1>1, EndClient DEF HandleTimeout, run, ClientInv, Session
<1>2. CASE ~up
  <2>1. Now' = Now /\ Bytes' = Bytes BY <1>2 DEF HandleTimeout, Now, Bytes, srv
  <2>2. Session' BY <1>2, <2>1 DEF ClientInv, Session, HandleTimeout, run
  <2>3. Framing'
    BY <1>2, <2>1 DEF ClientInv, Framing, HandleTimeout, srv, Whole, AssignsFirst
  <2> QED BY <2>2, <2>3 DEF ClientInv
<1> QED BY <1>1, <1>2

LEMMA TunClient == ASSUME ClientInv, TunPacket PROVE ClientInv'
<1>1. Now' = Now /\ Bytes' = Bytes BY DEF TunPacket, Now, Bytes, srv
<1>2. me.ip # NoVip
  BY NowIs DEF ClientInv, Session, Sound, Held, TunPacket
<1>3. Session' BY <1>1, <1>2 DEF ClientInv, Session, TunPacket, conn, run
<1>4. Framing'
  BY <1>1 DEF ClientInv, Framing, TunPacket, conn, srv, Whole, AssignsFirst
<1> QED BY <1>3, <1>4 DEF ClientInv

LEMMA CrashClient == ASSUME ClientInv, Crash PROVE ClientInv'
<1>1. host \in Hosts BY NowIs DEF ClientInv, Session, Sound, Held
<1>2. /\ host' \in Hosts /\ host'.tuns = {} /\ left' = host'
  BY <1>1 DEF Crash, Hosts
<1>3. NotAssigned \in Members BY DEF NotAssigned, Members, Addresses, Descriptors
<1>4. Now' = [me |-> NotAssigned, host |-> host'] BY DEF Crash, Now
<1>5. Held(Now') BY <1>2, <1>3, <1>4 DEF Held, NotAssigned
<1>6. Ruled(Now', left')
  <2>1. host'.dnat \in [Vips -> Nat] BY <1>2 DEF Hosts
  <2> QED BY <1>2, <1>4, <2>1 DEF Ruled, Forwards, NotAssigned
<1>7. Told(Now', left') BY <1>2, <1>4 DEF Told, NotAssigned
<1>8. restarts' \in 0..MaxRestarts
  <2>1. MaxRestarts \in Nat BY VpnClientAssumption
  <2> QED BY <2>1 DEF Crash, ClientInv, Session
<1>9. Sound(Now, left)' BY <1>5, <1>6, <1>7 DEF Sound
<1>10. Session'
  BY <1>2, <1>8, <1>9, NotAssignedIs DEF ClientInv, Session, Crash
<1>11. Framing' BY NotAssignedIs, EmptiedFraming DEF Crash
<1> QED BY <1>10, <1>11 DEF ClientInv

LEMMA ReadClient == ASSUME ClientInv, HandleRead PROVE ClientInv'
<1>1. PICK n \in 1..Len(wire), device \in BOOLEAN :
        LET bytes == buf \o SubSeq(wire, 1, n)
            whole == Len(bytes) \div 2
        IN /\ Becomes(ProcessFrames(bytes, device))
           /\ buf' = SubSeq(bytes, 2 * whole + 1, Len(bytes))
           /\ wire' = SubSeq(wire, n + 1, Len(wire))
  BY DEF HandleRead
<1>2. PICK bytes : bytes = buf \o SubSeq(wire, 1, n) OBVIOUS
<1>3. PICK w : w = Len(bytes) \div 2 OBVIOUS
<1>4. Reads(n, bytes, w) BY <1>1, <1>2, <1>3 DEF Reads, Cut
<1>5. PICK t : t = ProcessFrames(bytes, device) OBVIOUS
<1>6. Becomes(t) BY <1>1, <1>2, <1>5
<1>7. t \in Good /\ (w = 0 => t = Now)
  <2>1. ClientInv /\ n \in 1..Len(wire) /\ device \in BOOLEAN OBVIOUS
  <2>2. ProcessFrames(bytes, device) \in Good /\ (w = 0 => ProcessFrames(bytes, device) = Now)
    BY ONLY <2>1, <1>4, ReadGood
  <2> QED BY <1>5, <2>2
<1>8. Now' = t BY <1>6, <1>7, BecomesIs DEF Good
<1>9. me' = t.me BY <1>6 DEF Becomes
<1>10. Session'
  <2>1. /\ Sound(Now', left) /\ (me'.ip = me.ip \/ me.ip = NoVip)
    BY <1>7, <1>8, <1>9 DEF Good
  <2>2. uplink \subseteq {me'.ip} \ {NoVip}
    BY <2>1 DEF ClientInv, Session, HandleRead
  <2> QED BY <2>1, <2>2 DEF ClientInv, Session, HandleRead, conn, run
<1>11. Framing'
  <2>1. Framing /\ n \in 1..Len(wire) BY DEF ClientInv
  <2>2. up /\ up' = up /\ script' = script BY DEF HandleRead, conn
  <2>3. w = 0 => me' = me BY <1>7, <1>9, NowIs
  <2> QED BY ONLY <2>1, <1>4, <2>2, <2>3, ReadFraming
<1> QED BY <1>10, <1>11 DEF ClientInv

LEMMA SendFraming ==
  ASSUME Framing, NEW p \in Pieces, up, up' = up, buf' = buf, me' = me,
         wire' = Append(wire, p), script' \in Seq(Frame), script' # <<>>,
         Len(Bytes) % 2 = 1 => p = PieceOf(Last(script), 2),
         Len(Bytes) % 2 = 0 => p = PieceOf(Last(script'), 1)
                               /\ (IsAssign(p) => script = <<>>)
  PROVE  Framing'
<1> DEFINE L == Len(Bytes)
<1>1. buf \in Seq(Pieces) /\ wire \in Seq(Pieces) /\ p \in Pieces BY DEF Framing
<1>2. /\ Append(wire, p) \in Seq(Pieces)
      /\ buf \o Append(wire, p) \in Seq(Pieces)
      /\ L \in Nat
      /\ Len(buf \o Append(wire, p)) = L + 1
      /\ \A i \in 1..L : (buf \o Append(wire, p))[i] = Bytes[i]
      /\ (buf \o Append(wire, p))[L + 1] = p
  BY ONLY <1>1, Grown DEF Bytes
<1>3. PICK u : u = Bytes OBVIOUS
<1>4. PICK v : v = buf \o Append(wire, p) OBVIOUS
<1>5. Bytes' = v BY <1>4 DEF Bytes
<1>6. Whole(u) /\ AssignsFirst(u) /\ Len(u) = L BY <1>3 DEF Framing
<1>7. Len(v) = L + 1 /\ v[L + 1] = p /\ \A i \in 1..L : v[i] = u[i] BY <1>2, <1>3, <1>4
<1>8. L % 2 = 1 => u[L] = PieceOf(Last(script), 1) BY <1>3 DEF Framing
<1>9. L % 2 = 1 => p = PieceOf(Last(script), 2) OBVIOUS
<1>10. L % 2 = 0 => p = PieceOf(Last(script'), 1) /\ (IsAssign(p) => script = <<>>) OBVIOUS
<1>11. script = <<>> => L = 0 /\ me.ip = NoVip
  <2>1. Len(<<>>) = 0 BY EmptySeq
  <2> QED BY <2>1 DEF Framing
<1>12. L \in Nat BY <1>2
<1> HIDE DEF L
<1>13. Whole(v)
  <2> SUFFICES ASSUME NEW i \in 1..(L + 1)
               PROVE  IF i % 2 = 1 THEN v[i].part = 1
                      ELSE v[i] = PieceOf(v[i - 1].frame, 2)
    BY <1>7 DEF Whole
  <2>1. CASE i \in 1..L
    <3>1. IF i % 2 = 1 THEN u[i].part = 1 ELSE u[i] = PieceOf(u[i - 1].frame, 2)
      BY <1>6, <2>1 DEF Whole
    <3>2. i % 2 # 1 => i - 1 \in 1..L BY <1>12, <2>1
    <3> QED BY <1>7, <2>1, <3>1, <3>2
  <2>2. CASE i = L + 1 /\ L % 2 = 0
    <3>1. i % 2 = 1 BY <1>12, <2>2
    <3>2. p.part = 1 BY <1>10, <2>2 DEF PieceOf
    <3> QED BY <1>7, <2>2, <3>1, <3>2
  <2>3. CASE i = L + 1 /\ L % 2 = 1
    <3>1. i % 2 = 0 /\ i % 2 # 1 /\ i - 1 = L /\ L \in 1..L BY <1>12, <2>3
    <3>2. v[L] = PieceOf(Last(script), 1) BY <1>7, <1>8, <2>3, <3>1
    <3>3. v[L].frame = Last(script) BY <3>2 DEF PieceOf
    <3>4. v[i] = PieceOf(Last(script), 2) BY <1>7, <1>9, <2>3
    <3> QED BY <3>1, <3>3, <3>4
  <2>4. i \in 1..L \/ i = L + 1 BY <1>12
  <2>5. L % 2 = 0 \/ L % 2 = 1 BY <1>12
  <2> QED BY ONLY <2>1, <2>2, <2>3, <2>4, <2>5
<1>14. AssignsFirst(v)
  <2> SUFFICES ASSUME NEW i \in 1..(L + 1), IsAssign(v[i]) PROVE i <= 2 /\ me.ip = NoVip
    BY <1>7 DEF AssignsFirst
  <2>1. CASE i \in 1..L BY <1>6, <1>7, <2>1 DEF AssignsFirst
  <2>2. CASE i = L + 1 /\ L % 2 = 0
    <3>1. L = 0 /\ me.ip = NoVip BY <1>7, <1>10, <1>11, <2>2
    <3> QED BY <2>2, <3>1
  <2>3. CASE i = L + 1 /\ L % 2 = 1
    <3>1. u[L] = PieceOf(Last(script), 1) /\ p = PieceOf(Last(script), 2) /\ v[i] = p
      BY <1>7, <1>8, <1>9, <2>3
    <3>2. IsAssign(u[L]) BY <3>1 DEF IsAssign, PieceOf
    <3>3. L \in 1..L BY <1>12, <2>3
    <3>4. L <= 2 /\ me.ip = NoVip BY <1>6, <3>2, <3>3 DEF AssignsFirst
    <3> QED BY <1>12, <2>3, <3>4
  <2>4. i \in 1..L \/ i = L + 1 BY <1>12
  <2>5. L % 2 = 0 \/ L % 2 = 1 BY <1>12
  <2> QED BY ONLY <2>1, <2>2, <2>3, <2>4, <2>5
<1>15. Len(v) % 2 = 1 => v[Len(v)] = PieceOf(Last(script'), 1)
  <2>1. (L + 1) % 2 = 1 => L % 2 = 0 BY <1>12
  <2> QED BY <1>7, <1>10, <2>1
<1>16. Whole(Bytes)' /\ AssignsFirst(Bytes)'
  <2>1. Whole(Bytes)' BY <1>5, <1>13 DEF Whole
  <2>2. AssignsFirst(Bytes)' BY <1>5, <1>14 DEF AssignsFirst
  <2> QED BY <2>1, <2>2
<1>17. Len(Bytes') % 2 = 1 => Bytes'[Len(Bytes')] = PieceOf(Last(script'), 1)
  BY <1>5, <1>15
<1>18. buf' \in Seq(Pieces) /\ wire' \in Seq(Pieces) /\ Len(buf') <= 1
  BY <1>1, <1>2 DEF Framing
<1> QED BY <1>16, <1>17, <1>18 DEF Framing

LEMMA SendClient == ASSUME ClientInv, ServerSends PROVE ClientInv'
<1>1. Now' = Now BY DEF ServerSends, Now
<1>2. Session' BY <1>1 DEF ClientInv, Session, ServerSends, conn, run
<1>3. Framing BY DEF ClientInv
<1>4. script \in Seq(Frame) BY <1>3 DEF Framing
<1>5. Begun <=> Len(Bytes) % 2 = 1 BY <1>3, BegunIs
<1>6. Len(Bytes) \in Nat BY <1>3, BytesAre
<1>7. up /\ up' = up /\ buf' = buf /\ me' = me BY DEF ServerSends, conn
<1>8. CASE Begun
  <2>1. wire' = Append(wire, PieceOf(Last(script), 2)) /\ script' = script
    BY <1>8 DEF ServerSends
  <2>2. script # <<>> BY <1>8 DEF Begun
  <2>3. Last(script) \in Frame
    <3>1. Len(script) \in 1..Len(script) BY <1>4, <2>2, EmptySeq, LenProperties
    <3> QED BY <1>4, <3>1, ElementOfSeq DEF Last
  <2>4. PICK p : p = PieceOf(Last(script), 2) OBVIOUS
  <2>5. p \in Pieces BY <2>3, <2>4 DEF PieceOf, Pieces
  <2>6. Len(Bytes) % 2 = 1 => p = PieceOf(Last(script), 2) BY <2>4
  <2>7. Len(Bytes) % 2 = 0 => p = PieceOf(Last(script'), 1) /\ (IsAssign(p) => script = <<>>)
    BY <1>5, <1>6, <1>8
  <2>8. wire' = Append(wire, p) /\ script' \in Seq(Frame) /\ script' # <<>>
    BY <1>4, <2>1, <2>2, <2>4
  <2>9. Framing' BY ONLY <1>3, <1>7, <2>5, <2>6, <2>7, <2>8, SendFraming
  <2> QED BY <1>2, <2>9 DEF ClientInv
<1>9. CASE ~Begun
  <2>1. PICK f \in Frame : /\ MayFollow(f)
                           /\ script' = Append(script, f)
                           /\ wire' = Append(wire, PieceOf(f, 1))
    BY <1>9 DEF ServerSends
  <2>2. PICK p : p = PieceOf(f, 1) OBVIOUS
  <2>3. p \in Pieces BY <2>2 DEF PieceOf, Pieces
  <2>4. script' \in Seq(Frame) /\ script' # <<>> /\ Last(script') = f
    <3>1. /\ Append(script, f) \in Seq(Frame) /\ Len(Append(script, f)) = Len(script) + 1
          /\ Append(script, f)[Len(script) + 1] = f
      BY <1>4, AppendProperties
    <3>2. Len(script) \in Nat BY <1>4, LenProperties
    <3>3. Len(<<>>) = 0 BY EmptySeq
    <3> QED BY <2>1, <3>1, <3>2, <3>3 DEF Last
  <2>5. Len(Bytes) % 2 = 1 => p = PieceOf(Last(script), 2) BY <1>5, <1>9
  <2>6. Len(Bytes) % 2 = 0 => p = PieceOf(Last(script'), 1) /\ (IsAssign(p) => script = <<>>)
    BY <2>1, <2>2, <2>4 DEF MayFollow, IsAssign, PieceOf
  <2>7. wire' = Append(wire, p) /\ script' \in Seq(Frame) /\ script' # <<>>
    BY <2>1, <2>2, <2>4
  <2>8. Framing' BY ONLY <1>3, <1>7, <2>3, <2>5, <2>6, <2>7, SendFraming
  <2> QED BY <1>2, <2>8 DEF ClientInv
<1> QED BY <1>8, <1>9

LEMMA StepClient == ASSUME ClientInv, [Next]_vars PROVE ClientInv'
<1>1. ASSUME UNCHANGED vars PROVE ClientInv'
  <2>1. Now' = Now /\ Bytes' = Bytes BY <1>1 DEF vars, Now, Bytes, srv
  <2>2. Session' BY <1>1, <2>1 DEF ClientInv, Session, vars, conn, run
  <2>3. Framing'
    BY <1>1, <2>1 DEF ClientInv, Framing, vars, conn, srv, Whole, AssignsFirst
  <2> QED BY <2>2, <2>3 DEF ClientInv
<1> QED
  BY <1>1, ConnectClient, EventClient, CloseClient, TimeoutClient, ReadClient,
     TunClient, SendClient, CrashClient
  DEF Next, Exhausted

-----------------------------------------------------------------------------
(* Theorems.                                                               *)

\* The two parts of the invariant hold in every reachable state: what the
\* callbacks of vpn_client.cpp leave behind is a session whose members, TUN
\* device, rules and status file agree, and bytes that are whole frames.
THEOREM ClientSound == Spec => []ClientInv
<1>1. Init => ClientInv BY InitClient
<1>2. ClientInv /\ [Next]_vars => ClientInv' BY StepClient
<1> QED BY <1>1, <1>2, PTL DEF Spec

\* The members of vpn_client, the descriptors of the TUN device and the state
\* on the host have their types: a rule count never goes below zero, the
\* client holds an address exactly while it says it is assigned.
THEOREM ClientTyped == Spec => []TypeOK
<1>1. ASSUME ClientInv PROVE TypeOK
  <2>1. Session /\ Framing BY <1>1 DEF ClientInv
  <2>2. me \in Members /\ host \in Hosts /\ (me.assigned <=> me.ip # NoVip)
    BY <2>1, NowIs DEF Session, Sound, Held
  <2>3. IF me.assigned THEN me.ip \in Vips ELSE me.ip = NoVip
    BY <2>2 DEF Members, Addresses
  <2>4. {me.fd, me.io} \subseteq Fds \cup {NoFd} BY <2>2 DEF Members, Descriptors
  <2>5. /\ host.tuns \subseteq Fds
        /\ host.dnat \in [Vips -> Nat] /\ host.masq \in Nat
        /\ host.status.state \in {"none", "Connected", "Down"}
    BY <2>2 DEF Hosts
  <2>6. \A i \in DOMAIN script : script[i] \in Frame
    <3>1. script \in Seq(Frame) BY <2>1 DEF Framing
    <3> QED BY <3>1
  <2> QED BY <2>1, <2>3, <2>4, <2>5, <2>6 DEF TypeOK, Session
<1> QED BY <1>1, ClientSound, PTL

\* setup_nat_forwarding and teardown_nat_forwarding stay in step with the
\* address, through any sequence of assignments, losses, refused TUN devices
\* and crashes: a tunnel that forwards has its rule, and no rule of this
\* process outlives its tunnel.
THEOREM RuleFollows == Spec => []RuleFollowsVip
<1>1. ASSUME ClientInv PROVE RuleFollowsVip
  <2>1. Ruled(Now, left) BY <1>1 DEF ClientInv, Session, Sound
  <2>2. \A v \in Vips :
          IF Forwarding /\ me.io # NoFd /\ me.ip = v
          THEN host.dnat[v] >= 1 /\ host.dnat[v] <= left.dnat[v] + 1
          ELSE host.dnat[v] <= left.dnat[v]
    BY <2>1, NowIs DEF Ruled, Forwards
  <2> QED BY <2>2 DEF RuleFollowsVip
<1> QED BY <1>1, ClientSound, PTL

\* The TUN device belongs to the session: open_tun and close_tun leave one
\* open descriptor at most, the one tun_io reads, only while the connection is
\* up, and every packet on this connection carries the address assigned on it.
THEOREM TunFollows == Spec => []TunFollowsSession
<1>1. ASSUME ClientInv PROVE TunFollowsSession
  <2>1. Held(Now) BY <1>1 DEF ClientInv, Session, Sound
  <2>2. /\ me.assigned <=> me.ip # NoVip
        /\ host.tuns = {me.io} \ {NoFd} /\ me.fd = me.io
        /\ me.io # NoFd => me.assigned
    BY <2>1, NowIs DEF Held
  <2> QED BY <1>1, <2>2 DEF TunFollowsSession, ClientInv, Session
<1> QED BY <1>1, ClientSound, PTL

\* write_status: "Connected" written by this process names the address of a
\* session that lives, and the file is never behind a tunnel that carries
\* packets.
THEOREM StatusCurrent == Spec => []StatusIsCurrent
<1>1. ASSUME ClientInv PROVE StatusIsCurrent
  <2>1. Told(Now, left) BY <1>1 DEF ClientInv, Session, Sound
  <2>2. /\ host.status.state = "Connected" /\ host.status # left.status =>
             me.assigned /\ host.status.ip = me.ip
        /\ me.io # NoFd => host.status = [state |-> "Connected", ip |-> me.ip]
    BY <2>1, NowIs DEF Told
  <2> QED BY <1>1, <2>2 DEF StatusIsCurrent, ClientInv, Session
<1> QED BY <1>1, ClientSound, PTL

\* process_frames never reads a header out of the middle of a frame: whatever
\* the cuts between two reads and however connections end, buffer and wire
\* together are frames of one connection.
THEOREM FramesWhole == Spec => []FramesStayWhole
<1>1. ASSUME ClientInv PROVE FramesStayWhole
  <2>1. Whole(Bytes) BY <1>1 DEF ClientInv, Framing
  <2> QED BY <2>1 DEF FramesStayWhole, Whole, Bytes
<1> QED BY <1>1, ClientSound, PTL

-----------------------------------------------------------------------------
(* Reconnecting.                                                           *)

Trying == up \/ attempt \/ timer
Waiting == ~up /\ ~attempt /\ timer

\* A client without a connection connects or has its timer armed, and a timer
\* that waits is followed by an attempt.
LEMMA InitTrying == ASSUME Init PROVE Trying
BY DEF Init, Trying

LEMMA StepTrying ==
  ASSUME ClientInv, Trying, [Next]_vars
  PROVE  Trying' /\ (Waiting => Waiting' \/ up' \/ attempt')
<1> USE DEF Trying, Waiting
<1>0. {up, attempt, timer} \subseteq BOOLEAN BY DEF ClientInv, Session
<1>1. CASE HandleConnect BY <1>1 DEF HandleConnect
<1>2. CASE HandleEvent BY <1>2 DEF HandleEvent, GiveUp
<1>3. CASE HandleClose BY <1>3 DEF HandleClose, GiveUp
<1>4. CASE HandleTimeout BY <1>4 DEF HandleTimeout, GiveUp
<1>5. CASE HandleRead \/ TunPacket \/ ServerSends BY <1>5 DEF HandleRead, TunPacket, ServerSends, conn
<1>6. CASE Crash BY <1>6 DEF Crash
<1>7. CASE UNCHANGED vars BY <1>7 DEF vars, conn
<1> QED BY <1>1, <1>2, <1>3, <1>4, <1>5, <1>6, <1>7 DEF Next, Exhausted

LEMMA TimerConnects ==
  ASSUME Waiting, HandleTimeout
  PROVE  attempt'
BY DEF Waiting, HandleTimeout

\* handle_close, handle_event and handle_timeout, for any losses of the
\* connection: a client without one always has an attempt or its timer under
\* way.
THEOREM AlwaysTries == Spec => []Trying
BY InitTrying, StepTrying, ClientSound, PTL DEF Spec

\* An armed timer can fire: the guard of HandleTimeout is all it takes. The
\* provers cannot compute ENABLED, so this is a hypothesis of what follows.
TimerMayFire == [](timer => ENABLED <<HandleTimeout>>_vars)

\* A client without a connection never stops trying, however often it is
\* refused or disconnected, from the fairness of its timer.
THEOREM ReconnectsForEver == FairSpec /\ TimerMayFire => NeverGivesUp
<1>1. Trying => up \/ attempt \/ timer BY DEF Trying
<1>2. Waiting => timer BY DEF Waiting
<1>3. Trying => up \/ attempt \/ Waiting BY DEF Trying, Waiting
<1>4. ClientInv /\ Trying /\ [Next]_vars => Trying' /\ (Waiting => Waiting' \/ up' \/ attempt')
  BY StepTrying
<1>5. Waiting /\ <<HandleTimeout>>_vars => attempt' BY TimerConnects
<1> QED
  BY <1>1, <1>2, <1>3, <1>4, <1>5, AlwaysTries, ClientSound, PTL
  DEF FairSpec, Spec, TimerMayFire, NeverGivesUp

=============================================================================

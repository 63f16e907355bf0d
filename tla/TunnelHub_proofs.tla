-------------------------- MODULE TunnelHub_proofs --------------------------
(***************************************************************************)
(* Proofs about TunnelHub for every set of connections, targets and        *)
(* descriptors and every bound: its invariants, the action property, and   *)
(* that it implements SessionPipe.                                         *)
(***************************************************************************)
EXTENDS TunnelHub, SequenceTheorems, TLAPS

\* Streams live on live connections only.
StreamsLive == \A s \in DOMAIN m_streams : s[1] \in m_clients

\* Every tag in use was handed out by ++m_next_tag.
TagsIssued ==
  /\ \A tag \in DOMAIN m_bridges : tag <= m_next_tag
  /\ \A tag \in asked : tag <= m_next_tag

IInv ==
  /\ TypeOK
  /\ StreamsLive
  /\ TagsIssued
  /\ RegistryNeverDangles
  /\ OperatorsMatchBridges

-----------------------------------------------------------------------------
\* The empty map has no key.
LEMMA EmptyMapFacts == DOMAIN EmptyMap = {}
BY DEF EmptyMap

\* A bridge whose buffer is replaced is a bridge with the same other fields.
LEMMA BufferUpdate ==
  ASSUME NEW b \in Bridge, NEW q \in Seq(1 .. MaxBytes)
  PROVE  /\ [b EXCEPT !.buffered = q] \in Bridge
         /\ [b EXCEPT !.buffered = q].target = b.target
         /\ [b EXCEPT !.buffered = q].fd = b.fd
         /\ [b EXCEPT !.buffered = q].tunnel = b.tunnel
         /\ [b EXCEPT !.buffered = q].buffered = q
BY DEF Bridge

\* Likewise for its Tunnel stream.
LEMMA TunnelUpdate ==
  ASSUME NEW b \in Bridge, NEW s \in StreamIds
  PROVE  /\ [b EXCEPT !.tunnel = s] \in Bridge
         /\ [b EXCEPT !.tunnel = s].target = b.target
         /\ [b EXCEPT !.tunnel = s].fd = b.fd
         /\ [b EXCEPT !.tunnel = s].tunnel = s
BY DEF Bridge

\* pair_tunnel moves the bridge to the stream and empties its buffer.
LEMMA PairedBridgeFacts ==
  ASSUME NEW b \in Bridge, NEW s \in StreamIds
  PROVE  /\ PairedBridge(b, s) \in Bridge
         /\ PairedBridge(b, s).fd = b.fd
         /\ PairedBridge(b, s).tunnel = s
         /\ PairedBridge(b, s).buffered = <<>>
<1> DEFINE c == [b EXCEPT !.tunnel = s]
           e == <<>>
<1>1. c \in Bridge /\ c.fd = b.fd /\ c.tunnel = s
  BY TunnelUpdate
<1>2. PairedBridge(b, s) = [c EXCEPT !.buffered = e]
  BY DEF PairedBridge
<1>3. e \in Seq(1 .. MaxBytes)
  OBVIOUS
<1> HIDE DEF c, e
<1>4. /\ [c EXCEPT !.buffered = e] \in Bridge
      /\ [c EXCEPT !.buffered = e].fd = c.fd
      /\ [c EXCEPT !.buffered = e].tunnel = c.tunnel
      /\ [c EXCEPT !.buffered = e].buffered = e
  BY <1>1, <1>3, BufferUpdate
<1>5. e = <<>>
  BY DEF e
<1> QED BY <1>1, <1>2, <1>4, <1>5

-----------------------------------------------------------------------------
LEMMA InitIInv == Init => IInv
<1> SUFFICES ASSUME Init PROVE IInv
  OBVIOUS
<1>1. TypeOK
  BY TunnelHubAssumption, EmptyMapFacts DEF Init, TypeOK, Tags
<1>2. StreamsLive /\ TagsIssued /\ RegistryNeverDangles /\ OperatorsMatchBridges
  BY EmptyMapFacts
  DEF Init, StreamsLive, TagsIssued, RegistryNeverDangles, OperatorsMatchBridges
<1> QED BY <1>1, <1>2 DEF IInv

LEMMA StepIInv == IInv /\ [Next]_vars => IInv'
<1> SUFFICES ASSUME IInv, [Next]_vars PROVE IInv'
  OBVIOUS
<1> USE DEF IInv
<1>1. ASSUME NEW g \in Conns, HandleConnect(g) PROVE IInv'
  <2>1. last_sid' \in [Conns -> 0 .. MaxSid]
    BY <1>1, TunnelHubAssumption DEF HandleConnect, TypeOK
  <2>2. TypeOK'
    BY <1>1, <2>1 DEF HandleConnect, TypeOK, hub, bytes
  <2> QED BY <1>1, <2>2
    DEF HandleConnect, hub, bytes, StreamsLive, TagsIssued,
        RegistryNeverDangles, OperatorsMatchBridges
<1>2. ASSUME NEW g \in Conns, HandleClose(g) PROVE IInv'
  <2> DEFINE dead == GoneBridges(g)
  <2>1. /\ DOMAIN m_streams' = {s \in DOMAIN m_streams : s[1] # g}
        /\ \A s \in DOMAIN m_streams' : m_streams'[s] = m_streams[s]
    BY <1>2 DEF MapErase, Restrict, HandleClose
  <2>2. /\ DOMAIN m_targets' = {t \in DOMAIN m_targets : m_targets[t][1] # g}
        /\ \A t \in DOMAIN m_targets' : m_targets'[t] = m_targets[t]
    BY <1>2 DEF MapErase, Restrict, HandleClose, GoneTargets
  <2>3. /\ DOMAIN m_bridges' = DOMAIN m_bridges \ dead
        /\ \A tag \in DOMAIN m_bridges' : m_bridges'[tag] = m_bridges[tag]
    BY <1>2 DEF MapErase, Restrict, HandleClose
  <2>4. /\ DOMAIN m_conns' = DOMAIN m_conns \ {m_bridges[tag].fd : tag \in dead}
        /\ \A fd \in DOMAIN m_conns' : m_conns'[fd] = m_conns[fd]
    BY <1>2 DEF MapErase, Restrict, HandleClose, CloseOperators
  <2>5. TypeOK'
    BY <1>2, <2>1, <2>2, <2>3, <2>4 DEF HandleClose, TypeOK, bytes
  <2>6. StreamsLive' /\ TagsIssued' /\ RegistryNeverDangles'
    BY <1>2, <2>1, <2>2, <2>3
    DEF HandleClose, bytes, StreamsLive, TagsIssued, RegistryNeverDangles
  <2>7. dead \subseteq DOMAIN m_bridges
    BY DEF GoneBridges
  <2>8. OperatorsMatchBridges'
    BY <2>3, <2>4, <2>7 DEF OperatorsMatchBridges
  <2> QED BY <2>5, <2>6, <2>8
<1>3. ASSUME NEW g \in Conns, NEW rpc \in Rpcs, OpenStream(g, rpc) PROVE IInv'
  <2> DEFINE s == <<g, last_sid[g] + 1>>
  <2>1. s \in StreamIds
    BY <1>3, TunnelHubAssumption DEF OpenStream, TypeOK, StreamIds
  <2>2. /\ DOMAIN m_streams' = DOMAIN m_streams \cup {s}
        /\ m_streams'[s] = rpc
        /\ \A x \in DOMAIN m_streams : x # s => m_streams'[x] = m_streams[x]
    BY <1>3 DEF MapPut, OpenStream
  <2>3. last_sid' \in [Conns -> 0 .. MaxSid]
    BY <1>3, TunnelHubAssumption DEF OpenStream, TypeOK
  <2>4. TypeOK'
    BY <1>3, <2>1, <2>2, <2>3 DEF OpenStream, TypeOK, hub, bytes
  <2> QED BY <1>3, <2>2, <2>4
    DEF OpenStream, hub, bytes, StreamsLive, TagsIssued, RegistryNeverDangles,
        OperatorsMatchBridges
<1>4. ASSUME NEW s \in StreamIds, EndStream(s) PROVE IInv'
  <2>1. /\ DOMAIN m_streams' = DOMAIN m_streams \ {s}
        /\ \A x \in DOMAIN m_streams' : m_streams'[x] = m_streams[x]
    BY <1>4 DEF MapErase, Restrict, EndStream
  <2>2. TypeOK'
    BY <1>4, <2>1 DEF EndStream, TypeOK, hub, bytes
  <2> QED BY <1>4, <2>1, <2>2
    DEF EndStream, hub, bytes, StreamsLive, TagsIssued, RegistryNeverDangles,
        OperatorsMatchBridges
<1>5. ASSUME NEW s \in StreamIds, NEW t \in Targets, AddTarget(s, t) PROVE IInv'
  <2>1. /\ DOMAIN m_targets' = DOMAIN m_targets \cup {t}
        /\ m_targets'[t] = s
        /\ \A x \in DOMAIN m_targets : x # t => m_targets'[x] = m_targets[x]
    BY <1>5 DEF MapPut, AddTarget
  <2>2. TypeOK'
    BY <1>5, <2>1 DEF AddTarget, TypeOK, device, bytes
  <2> QED BY <1>5, <2>1, <2>2
    DEF AddTarget, device, bytes, StreamsLive, TagsIssued,
        RegistryNeverDangles, OperatorsMatchBridges
<1>6. ASSUME NEW s \in StreamIds, NEW t \in Targets, RemoveTarget(s, t)
      PROVE IInv'
  <2>1. /\ DOMAIN m_targets' = DOMAIN m_targets \ {t}
        /\ \A x \in DOMAIN m_targets' : m_targets'[x] = m_targets[x]
    BY <1>6 DEF MapErase, Restrict, RemoveTarget
  <2>2. TypeOK'
    BY <1>6, <2>1 DEF RemoveTarget, TypeOK, device, bytes
  <2> QED BY <1>6, <2>1, <2>2
    DEF RemoveTarget, device, bytes, StreamsLive, TagsIssued,
        RegistryNeverDangles, OperatorsMatchBridges
<1>7. ASSUME NEW s \in StreamIds, NEW tag \in Tags, TunnelData(s, tag)
      PROVE IInv'
  <2>1. /\ DOMAIN m_bridges' = DOMAIN m_bridges
        /\ m_bridges'[tag] = PairedBridge(m_bridges[tag], s)
        /\ \A x \in DOMAIN m_bridges : x # tag => m_bridges'[x] = m_bridges[x]
    BY <1>7 DEF TunnelData, MayCarry
  <2>2. m_bridges[tag] \in Bridge
    BY <1>7 DEF TunnelData, MayCarry, TypeOK
  <2>3. /\ m_bridges'[tag] \in Bridge
        /\ m_bridges'[tag].fd = m_bridges[tag].fd
    BY <2>1, <2>2, PairedBridgeFacts
  <2>4. got' \in [Tags -> Seq(1 .. MaxBytes)]
    <3>1. m_bridges[tag].buffered \in Seq(1 .. MaxBytes)
      BY <2>2 DEF Bridge
    <3> QED BY <1>7, <3>1, ConcatProperties DEF TunnelData, Flushed, TypeOK
  <2>5. TypeOK'
    BY <1>7, <2>1, <2>3, <2>4 DEF TunnelData, TypeOK, device
  <2>6. OperatorsMatchBridges'
    BY <1>7, <2>1, <2>3 DEF TunnelData, OperatorsMatchBridges
  <2> QED BY <1>7, <2>1, <2>5, <2>6
    DEF TunnelData, device, StreamsLive, TagsIssued, RegistryNeverDangles
<1>8. ASSUME NEW s \in StreamIds, NEW tag \in Tags, TunnelClose(s, tag)
      PROVE IInv'
  <2>1. /\ DOMAIN m_bridges' = DOMAIN m_bridges \ {tag}
        /\ \A x \in DOMAIN m_bridges' : m_bridges'[x] = m_bridges[x]
    BY <1>8 DEF MapErase, Restrict, TunnelClose
  <2>2. /\ DOMAIN m_conns' = DOMAIN m_conns \ {m_bridges[tag].fd}
        /\ \A fd \in DOMAIN m_conns' : m_conns'[fd] = m_conns[fd]
    <3>1. m_conns' = MapErase(m_conns, {m_bridges[x].fd : x \in {tag}})
      BY <1>8 DEF TunnelClose, CloseOperators
    <3> QED BY <3>1 DEF MapErase, Restrict
  <2>3. tag \in DOMAIN m_bridges /\ m_bridges[tag] \in Bridge
    BY <1>8 DEF TunnelClose, MayCarry, TypeOK
  <2>4. got' \in [Tags -> Seq(1 .. MaxBytes)]
    <3>1. m_bridges[tag].buffered \in Seq(1 .. MaxBytes)
      BY <2>3 DEF Bridge
    <3> QED BY <1>8, <3>1, ConcatProperties DEF TunnelClose, Flushed, TypeOK
  <2>5. TypeOK'
    BY <1>8, <2>1, <2>2, <2>4 DEF TunnelClose, TypeOK, device
  <2>6. OperatorsMatchBridges'
    BY <2>1, <2>2, <2>3 DEF OperatorsMatchBridges
  <2> QED BY <1>8, <2>1, <2>5, <2>6
    DEF TunnelClose, device, StreamsLive, TagsIssued, RegistryNeverDangles
<1>9. ASSUME NEW fd \in Fds, NEW t \in Targets, OperatorConnect(fd, t)
      PROVE IInv'
  <2> DEFINE tag == m_next_tag + 1
             b == [target |-> t, fd |-> fd, tunnel |-> NoStream, buffered |-> <<>>]
  <2>1. /\ tag \in Tags
        /\ m_next_tag' = tag
        /\ m_next_tag' \in 0 .. MaxTag
        /\ tag \notin DOMAIN m_bridges
    BY <1>9, TunnelHubAssumption DEF OperatorConnect, NewTag, TypeOK, Tags, TagsIssued
  <2>2. /\ DOMAIN m_bridges' = DOMAIN m_bridges \cup {tag}
        /\ m_bridges'[tag] = b
        /\ \A x \in DOMAIN m_bridges : x # tag => m_bridges'[x] = m_bridges[x]
    BY <1>9 DEF MapPut, OperatorConnect, NewTag
  <2>3. /\ fd \notin DOMAIN m_conns
        /\ DOMAIN m_conns' = DOMAIN m_conns \cup {fd}
        /\ m_conns'[fd] = tag
        /\ \A x \in DOMAIN m_conns : x # fd => m_conns'[x] = m_conns[x]
    BY <1>9 DEF MapPut, OperatorConnect, NewTag
  <2>4. b \in Bridge
    BY DEF Bridge
  <2>5. asked' \subseteq asked \cup {tag} /\ alive' \in BOOLEAN
    BY <1>9 DEF OperatorConnect, NewTag, UseSession, TypeOK
  <2>6. TypeOK'
    BY <1>9, <2>1, <2>2, <2>3, <2>4, <2>5 DEF OperatorConnect, NewTag, TypeOK, device
  <2>7. TagsIssued'
    <3>1. m_next_tag \in Nat /\ DOMAIN m_bridges \subseteq Nat /\ asked \subseteq Nat
      BY TunnelHubAssumption DEF TypeOK, Tags
    <3> QED BY <2>1, <2>2, <2>5, <3>1 DEF TagsIssued
  <2>8. OperatorsMatchBridges'
    BY <2>1, <2>2, <2>3 DEF OperatorsMatchBridges
  <2> QED BY <1>9, <2>6, <2>7, <2>8
    DEF OperatorConnect, NewTag, device, StreamsLive, RegistryNeverDangles
<1>10. ASSUME NEW fd \in Fds, OperatorRead(fd) PROVE IInv'
  <2> DEFINE tag == m_conns[fd]
             b == m_bridges[tag]
             byte == sent[tag] + 1
  <2>1. /\ tag \in Tags
        /\ tag \in DOMAIN m_bridges
        /\ b \in Bridge
        /\ byte \in 1 .. MaxBytes
    BY <1>10, TunnelHubAssumption DEF OperatorRead, TypeOK
  <2>2. /\ sent' \in [Tags -> 0 .. MaxBytes]
        /\ got[tag] \in Seq(1 .. MaxBytes)
        /\ b.buffered \in Seq(1 .. MaxBytes)
    BY <1>10, <2>1 DEF OperatorRead, TypeOK, Bridge
  <2>3. got' \in [Tags -> Seq(1 .. MaxBytes)]
    <3>1. got' = got \/ got' = [got EXCEPT ![tag] = Append(got[tag], byte)]
      BY <1>10 DEF OperatorRead
    <3>2. Append(got[tag], byte) \in Seq(1 .. MaxBytes)
      BY <2>1, <2>2, AppendProperties
    <3> HIDE DEF byte
    <3> QED BY <3>1, <3>2 DEF TypeOK
  <2>4. /\ DOMAIN m_bridges' = DOMAIN m_bridges
        /\ m_bridges'[tag] \in Bridge
        /\ m_bridges'[tag].fd = b.fd
        /\ \A x \in DOMAIN m_bridges : x # tag => m_bridges'[x] = m_bridges[x]
    <3>1. CASE ~Paired(b)
      <4>1. m_bridges' = [m_bridges EXCEPT ![tag] =
                            [b EXCEPT !.buffered = Append(b.buffered, byte)]]
        BY <1>10, <3>1 DEF OperatorRead
      <4>2. Append(b.buffered, byte) \in Seq(1 .. MaxBytes)
        BY <2>1, <2>2, AppendProperties
      <4>3. /\ [b EXCEPT !.buffered = Append(b.buffered, byte)] \in Bridge
            /\ [b EXCEPT !.buffered = Append(b.buffered, byte)].fd = b.fd
        BY <2>1, <4>2, BufferUpdate
      <4> HIDE DEF b, byte
      <4> QED BY <4>1, <4>3, <2>1
    <3>2. CASE Paired(b)
      BY <1>10, <3>2, <2>1 DEF OperatorRead
    <3> QED BY <3>1, <3>2
  <2>5. alive' \in BOOLEAN
    BY <1>10 DEF OperatorRead, UseSession, TypeOK
  <2>6. TypeOK'
    BY <1>10, <2>1, <2>2, <2>3, <2>4, <2>5 DEF OperatorRead, TypeOK, device
  <2>7. OperatorsMatchBridges'
    BY <1>10, <2>1, <2>4 DEF OperatorRead, OperatorsMatchBridges
  <2> QED BY <1>10, <2>4, <2>6, <2>7
    DEF OperatorRead, device, StreamsLive, TagsIssued, RegistryNeverDangles
<1>11. ASSUME NEW fd \in Fds, OperatorClose(fd) PROVE IInv'
  <2> DEFINE tag == m_conns[fd]
  <2>0. /\ fd \in DOMAIN m_conns
        /\ m_bridges' = MapErase(m_bridges, {tag})
        /\ m_conns' = MapErase(m_conns, {fd})
        /\ alive' = alive \/ UseSession(m_bridges[tag].tunnel[1])
        /\ UNCHANGED <<device, m_targets, m_next_tag, bytes>>
    BY <1>11 DEF OperatorClose
  <2>1. /\ DOMAIN m_bridges' = DOMAIN m_bridges \ {tag}
        /\ \A x \in DOMAIN m_bridges' : m_bridges'[x] = m_bridges[x]
    BY <2>0 DEF MapErase, Restrict
  <2>2. /\ fd \in DOMAIN m_conns
        /\ DOMAIN m_conns' = DOMAIN m_conns \ {fd}
        /\ \A x \in DOMAIN m_conns' : m_conns'[x] = m_conns[x]
    BY <2>0 DEF MapErase, Restrict
  <2>3. alive' \in BOOLEAN
    BY <2>0 DEF UseSession, TypeOK
  <2>4. TypeOK'
    BY <2>0, <2>1, <2>2, <2>3 DEF TypeOK, device, bytes
  <2>5. OperatorsMatchBridges'
    BY <2>1, <2>2 DEF OperatorsMatchBridges
  <2> QED BY <2>0, <2>1, <2>4, <2>5
    DEF device, bytes, StreamsLive, TagsIssued,
        RegistryNeverDangles
<1>12. CASE UNCHANGED vars
  BY <1>12
  DEF vars, device, hub, bytes, TypeOK, StreamsLive, TagsIssued,
      RegistryNeverDangles, OperatorsMatchBridges
<1> QED
  BY <1>1, <1>2, <1>3, <1>4, <1>5, <1>6, <1>7, <1>8, <1>9, <1>10, <1>11, <1>12
  DEF Next, Down

\* The inductive invariant holds in every reachable state.
THEOREM HubInvariant == Spec => []IInv
<1>1. Init => IInv
  BY InitIInv
<1>2. IInv /\ [Next]_vars => IInv'
  BY StepIInv
<1> QED BY <1>1, <1>2, PTL DEF Spec

\* The containers keep their shapes.
THEOREM TypeCorrect == Spec => []TypeOK
<1>1. IInv => TypeOK
  BY DEF IInv
<1> QED BY <1>1, HubInvariant, PTL

\* open_bridge never follows a dangling registration, whatever devices do.
THEOREM RegistrySafe == Spec => []RegistryNeverDangles
<1>1. IInv => RegistryNeverDangles
  BY DEF IInv
<1> QED BY <1>1, HubInvariant, PTL

\* Operator sockets and bridges are in one-to-one correspondence.
THEOREM OperatorsSafe == Spec => []OperatorsMatchBridges
<1>1. IInv => OperatorsMatchBridges
  BY DEF IInv
<1> QED BY <1>1, HubInvariant, PTL
-----------------------------------------------------------------------------
\* A connection that closes leaves other connections' registrations and their
\* operators alone, whatever else is going on.
THEOREM StaleClose == Spec => StaleCloseIsHarmless
<1> DEFINE Kept ==
      \A t \in DOMAIN m_targets :
        m_clients' # m_clients /\ m_targets[t][1] \in m_clients' =>
          /\ t \in DOMAIN m_targets'
          /\ \A tag \in DOMAIN m_bridges :
               m_bridges[tag].target = t => tag \in DOMAIN m_bridges'
<1>1. IInv /\ [Next]_vars => [Kept]_vars
  <2> SUFFICES ASSUME IInv, Next PROVE Kept
    OBVIOUS
  <2>1. ASSUME NEW g \in Conns, HandleConnect(g) PROVE Kept
    BY <2>1 DEF HandleConnect, hub
  <2>2. ASSUME NEW g \in Conns, HandleClose(g) PROVE Kept
    BY <2>2
    DEF HandleClose, GoneTargets, GoneBridges, MapErase, Restrict
  <2>3. CASE UNCHANGED m_clients
    BY <2>3
  <2> QED BY <2>1, <2>2, <2>3
    DEF Next, OpenStream, EndStream, AddTarget, RemoveTarget, TunnelData,
        TunnelClose, OperatorConnect, OperatorRead, OperatorClose, Down, vars,
        device
<1> QED BY <1>1, HubInvariant, PTL DEF Spec, StaleCloseIsHarmless

-----------------------------------------------------------------------------
\* While a bridge waits for its device its buffer holds exactly the bytes read
\* so far and nothing has been passed on; once paired the buffer stays empty.
BufferInv ==
  /\ \A tag \in Tags : tag > m_next_tag => sent[tag] = 0 /\ got[tag] = <<>>
  /\ \A tag \in DOMAIN m_bridges :
       IF Paired(m_bridges[tag])
         THEN m_bridges[tag].buffered = <<>>
         ELSE /\ got[tag] = <<>>
              /\ m_bridges[tag].buffered = [i \in 1 .. sent[tag] |-> i]

\* The first n bytes followed by byte n + 1 are the first n + 1 bytes.
LEMMA AppendNext ==
  ASSUME NEW n \in Nat
  PROVE  Append([i \in 1 .. n |-> i], n + 1) = [i \in 1 .. n + 1 |-> i]
<1> DEFINE q == [i \in 1 .. n |-> i]
<1>1. q \in Seq(Nat) /\ Len(q) = n
  OBVIOUS
<1>2. Append(q, n + 1) = [i \in 1 .. n + 1 |-> IF i <= n THEN q[i] ELSE n + 1]
  BY <1>1, AppendProperties
<1> QED BY <1>2

LEMMA StepBufferInv == IInv /\ BufferInv /\ [Next]_vars => BufferInv'
<1> SUFFICES ASSUME IInv, BufferInv, [Next]_vars PROVE BufferInv'
  OBVIOUS
<1> USE DEF IInv
<1>1. CASE UNCHANGED <<m_next_tag, m_bridges, sent, got>>
  BY <1>1 DEF BufferInv
<1>2. ASSUME NEW S, m_bridges' = MapErase(m_bridges, S),
             UNCHANGED <<m_next_tag, sent, got>>
      PROVE  BufferInv'
  <2>1. /\ DOMAIN m_bridges' \subseteq DOMAIN m_bridges
        /\ \A tag \in DOMAIN m_bridges' : m_bridges'[tag] = m_bridges[tag]
    BY <1>2 DEF MapErase, Restrict
  <2> QED BY <1>2, <2>1 DEF BufferInv
<1>3. ASSUME NEW s \in StreamIds, NEW tag \in Tags, TunnelData(s, tag)
      PROVE  BufferInv'
  <2>1. /\ tag \in DOMAIN m_bridges
        /\ m_bridges[tag] \in Bridge
        /\ tag <= m_next_tag
        /\ m_next_tag' = m_next_tag
        /\ sent' = sent
    BY <1>3 DEF TunnelData, MayCarry, TypeOK, TagsIssued
  <2>2. /\ DOMAIN m_bridges' = DOMAIN m_bridges
        /\ m_bridges'[tag] = PairedBridge(m_bridges[tag], s)
        /\ \A x \in DOMAIN m_bridges : x # tag => m_bridges'[x] = m_bridges[x]
    BY <1>3 DEF TunnelData, MayCarry
  <2>3. Paired(m_bridges'[tag]) /\ m_bridges'[tag].buffered = <<>>
    BY <2>1, <2>2, PairedBridgeFacts, TunnelHubAssumption DEF Paired, StreamIds
  <2>4. \A x \in Tags : x # tag => got'[x] = got[x]
    BY <1>3 DEF TunnelData, Flushed, TypeOK
  <2>5. m_next_tag \in Nat /\ DOMAIN m_bridges \subseteq Tags /\ tag \in Nat
    BY TunnelHubAssumption DEF TypeOK, Tags
  <2> QED BY <2>1, <2>2, <2>3, <2>4, <2>5 DEF BufferInv
<1>4. ASSUME NEW s \in StreamIds, NEW tag \in Tags, TunnelClose(s, tag)
      PROVE  BufferInv'
  <2>1. /\ tag <= m_next_tag
        /\ UNCHANGED <<m_next_tag, sent>>
        /\ m_next_tag \in Nat /\ tag \in Nat /\ DOMAIN m_bridges \subseteq Tags
    BY <1>4, TunnelHubAssumption
    DEF TunnelClose, MayCarry, TypeOK, TagsIssued, Tags
  <2>2. /\ DOMAIN m_bridges' = DOMAIN m_bridges \ {tag}
        /\ \A x \in DOMAIN m_bridges' : m_bridges'[x] = m_bridges[x]
    BY <1>4 DEF TunnelClose, MapErase, Restrict
  <2>3. \A x \in Tags : x # tag => got'[x] = got[x]
    BY <1>4 DEF TunnelClose, Flushed, TypeOK
  <2> QED BY <2>1, <2>2, <2>3 DEF BufferInv
<1>5. ASSUME NEW fd \in Fds, NEW t \in Targets, OperatorConnect(fd, t)
      PROVE  BufferInv'
  <2> DEFINE tag == m_next_tag + 1
             b == [target |-> t, fd |-> fd, tunnel |-> NoStream, buffered |-> <<>>]
  <2>1. /\ tag \in Tags
        /\ m_next_tag \in Nat
        /\ m_next_tag' = tag
        /\ UNCHANGED <<sent, got>>
    BY <1>5, TunnelHubAssumption DEF OperatorConnect, NewTag, TypeOK, Tags
  <2>2. /\ DOMAIN m_bridges' = DOMAIN m_bridges \cup {tag}
        /\ m_bridges'[tag] = b
        /\ \A x \in DOMAIN m_bridges : x # tag => m_bridges'[x] = m_bridges[x]
    BY <1>5 DEF OperatorConnect, NewTag, MapPut
  <2>3. ~Paired(b) /\ b.buffered = <<>>
    BY DEF Paired
  <2>4. sent[tag] = 0 /\ got[tag] = <<>>
    BY <2>1 DEF BufferInv
  <2>5. b.buffered = [i \in 1 .. sent[tag] |-> i]
    BY <2>3, <2>4
  <2>6. \A x \in DOMAIN m_bridges : x # tag
    BY <2>1 DEF TagsIssued
  <2>7. \A x \in Tags : x > tag => x > m_next_tag
    BY <2>1 DEF Tags
  <2> HIDE DEF b, tag
  <2> QED BY <2>1, <2>2, <2>3, <2>4, <2>5, <2>6, <2>7 DEF BufferInv
<1>6. ASSUME NEW fd \in Fds, OperatorRead(fd) PROVE BufferInv'
  <2> DEFINE tag == m_conns[fd]
             b == m_bridges[tag]
             byte == sent[tag] + 1
  <2>1. /\ tag \in Tags
        /\ tag \in DOMAIN m_bridges
        /\ b \in Bridge
        /\ tag <= m_next_tag
        /\ m_next_tag \in Nat
        /\ m_next_tag' = m_next_tag
        /\ sent[tag] \in Nat
        /\ byte \in 1 .. MaxBytes
    BY <1>6, TunnelHubAssumption DEF OperatorRead, TypeOK, TagsIssued
  <2>2. /\ sent'[tag] = byte
        /\ \A x \in Tags : x # tag => sent'[x] = sent[x] /\ got'[x] = got[x]
    BY <1>6, <2>1 DEF OperatorRead, TypeOK
  <2>a. \A x \in Tags : x > m_next_tag' => sent'[x] = 0 /\ got'[x] = <<>>
    <3>1. \A x \in Tags : x > m_next_tag => x # tag
      BY <2>1 DEF Tags
    <3> QED BY <2>1, <2>2, <3>1 DEF BufferInv
  <2>3. CASE ~Paired(b)
    <3>1. /\ m_bridges' = [m_bridges EXCEPT ![tag] =
                            [b EXCEPT !.buffered = Append(b.buffered, byte)]]
          /\ got' = got
      BY <1>6, <2>3 DEF OperatorRead
    <3>2. b.buffered = [i \in 1 .. sent[tag] |-> i] /\ got[tag] = <<>>
      BY <2>1, <2>3 DEF BufferInv
    <3>3. Append(b.buffered, byte) = [i \in 1 .. byte |-> i]
      BY <2>1, <3>2, AppendNext
    <3>4. Append(b.buffered, byte) \in Seq(1 .. MaxBytes)
      BY <2>1, AppendProperties DEF Bridge
    <3> DEFINE q == Append(b.buffered, byte)
               c == [b EXCEPT !.buffered = q]
    <3>5. c.buffered = q /\ c.tunnel = b.tunnel
      BY <2>1, <3>4, BufferUpdate
    <3>6. m_bridges' = [m_bridges EXCEPT ![tag] = c]
      BY <3>1
    <3> HIDE DEF b, q, c
    <3>7. /\ DOMAIN m_bridges' = DOMAIN m_bridges
          /\ m_bridges'[tag] = c
          /\ \A x \in DOMAIN m_bridges : x # tag => m_bridges'[x] = m_bridges[x]
      BY <2>1, <3>6
    <3>8. ~Paired(c) /\ c.buffered = [i \in 1 .. sent'[tag] |-> i]
      BY <2>2, <2>3, <3>3, <3>5 DEF Paired, q
    <3>9. got'[tag] = <<>>
      BY <3>1, <3>2
    <3>10. DOMAIN m_bridges \subseteq Tags
      BY DEF TypeOK
    <3> HIDE DEF tag, byte
    <3> QED BY <2>1, <2>2, <2>a, <3>7, <3>8, <3>9, <3>10 DEF BufferInv
  <2>4. CASE Paired(b)
    <3>1. m_bridges' = m_bridges
      BY <1>6, <2>4 DEF OperatorRead
    <3>2. DOMAIN m_bridges \subseteq Tags
      BY DEF TypeOK
    <3>3. b.buffered = <<>>
      BY <2>1, <2>4 DEF BufferInv
    <3> HIDE DEF byte, tag
    <3> QED BY <2>1, <2>2, <2>a, <2>4, <3>1, <3>2, <3>3 DEF BufferInv
  <2> QED BY <2>3, <2>4
<1>7. ASSUME NEW g \in Conns, HandleClose(g) PROVE BufferInv'
  BY <1>2, <1>7 DEF HandleClose, bytes
<1>8. ASSUME NEW fd \in Fds, OperatorClose(fd) PROVE BufferInv'
  <2>1. /\ m_bridges' = MapErase(m_bridges, {m_conns[fd]})
        /\ UNCHANGED <<m_next_tag, sent, got>>
    BY <1>8 DEF OperatorClose, bytes
  <2> QED BY <1>2, <2>1
<1> QED BY <1>1, <1>3, <1>4, <1>5, <1>6, <1>7, <1>8
  DEF Next, HandleConnect, OpenStream, EndStream, AddTarget, RemoveTarget,
      Down, vars, hub, bytes
-----------------------------------------------------------------------------
LEMMA InitRefines == Init => BufferInv /\ Pipe!PipeInit
<1> SUFFICES ASSUME Init PROVE BufferInv /\ Pipe!PipeInit
  OBVIOUS
<1>1. BufferInv
  BY EmptyMapFacts DEF Init, BufferInv
<1>2. Phase = [tag \in Tags |-> "idle"]
  BY DEF Init, Phase, Tags
<1> QED BY <1>1, <1>2 DEF Init, Pipe!PipeInit

\* Sessions whose bridge disappears while nothing else changes are closed.
LEMMA ErasedAreClosed ==
  ASSUME IInv, NEW S, S \subseteq DOMAIN m_bridges, S # {},
         m_bridges' = MapErase(m_bridges, S),
         UNCHANGED <<m_next_tag, sent, got>>
  PROVE  Pipe!PipeNext
<1>1. S \in SUBSET Tags
  BY DEF IInv, TypeOK
<1>2. /\ DOMAIN m_bridges' = DOMAIN m_bridges \ S
      /\ \A x \in DOMAIN m_bridges' : m_bridges'[x] = m_bridges[x]
  BY DEF MapErase, Restrict
<1>3. \A tag \in S : tag <= m_next_tag /\ ~(tag > m_next_tag)
  BY <1>1, TunnelHubAssumption DEF IInv, TypeOK, TagsIssued, Tags
<1>4. \A tag \in S : Phase[tag] \in {"waiting", "joined"}
  BY <1>1, <1>3 DEF Phase
<1>5. Phase' = [tag \in Tags |-> IF tag \in S THEN "closed" ELSE Phase[tag]]
  BY <1>1, <1>2, <1>3 DEF Phase
<1>6. Pipe!Close(S)
  BY <1>4, <1>5 DEF Pipe!Close
<1> QED BY <1>1, <1>6 DEF Pipe!PipeNext

\* pair_tunnel hands over exactly what was read so far if the session waited,
\* and nothing new if it was paired already.
LEMMA FlushFacts ==
  ASSUME IInv, BufferInv, NEW tag \in DOMAIN m_bridges, got' = Flushed(tag)
  PROVE  /\ Paired(m_bridges[tag]) => got' = got
         /\ ~Paired(m_bridges[tag]) =>
              got' = [got EXCEPT ![tag] = [i \in 1 .. sent[tag] |-> i]]
<1> DEFINE b == m_bridges[tag]
<1>1. /\ tag \in Tags
      /\ got \in [Tags -> Seq(1 .. MaxBytes)]
      /\ b.buffered \in Seq(1 .. MaxBytes)
  BY DEF IInv, TypeOK, Bridge
<1>2. got' = [got EXCEPT ![tag] = got[tag] \o b.buffered]
  BY DEF Flushed
<1>3. CASE Paired(b)
  <2>1. got[tag] \o b.buffered = got[tag]
    BY <1>1, <1>3, ConcatEmptySeq, ZenonT(30) DEF BufferInv
  <2>2. got' = [got EXCEPT ![tag] = got[tag]]
    BY <1>2, <2>1
  <2> QED BY <1>1, <1>3, <2>2
<1>4. CASE ~Paired(b)
  <2>1. /\ got[tag] = <<>>
        /\ b.buffered = [i \in 1 .. sent[tag] |-> i]
    BY <1>4 DEF BufferInv
  <2>2. got[tag] \o b.buffered = b.buffered
    BY <1>1, <2>1, ConcatEmptySeq
  <2> QED BY <1>2, <1>4, <2>1, <2>2
<1> QED BY <1>3, <1>4

LEMMA StepRefines ==
  IInv /\ BufferInv /\ [Next]_vars => [Pipe!PipeNext]_(Pipe!pipeVars)
<1> SUFFICES ASSUME IInv, BufferInv, [Next]_vars
             PROVE  Pipe!PipeNext \/ UNCHANGED <<Phase, sent, got>>
  BY DEF Pipe!pipeVars
<1>1. CASE UNCHANGED <<m_next_tag, m_bridges, sent, got>>
  BY <1>1 DEF Phase
<1>2. ASSUME NEW g \in Conns, HandleClose(g)
      PROVE  Pipe!PipeNext \/ UNCHANGED <<Phase, sent, got>>
  <2>1. /\ m_bridges' = MapErase(m_bridges, GoneBridges(g))
        /\ UNCHANGED <<m_next_tag, sent, got>>
        /\ GoneBridges(g) \subseteq DOMAIN m_bridges
    BY <1>2 DEF HandleClose, bytes, GoneBridges
  <2>2. CASE GoneBridges(g) # {}
    BY <2>1, <2>2, ErasedAreClosed
  <2>3. CASE GoneBridges(g) = {}
    <3>1. /\ DOMAIN m_bridges' = DOMAIN m_bridges
          /\ \A tag \in DOMAIN m_bridges : m_bridges'[tag] = m_bridges[tag]
      BY <2>1, <2>3 DEF MapErase, Restrict
    <3> QED BY <2>1, <3>1 DEF Phase
  <2> QED BY <2>2, <2>3
<1>3. ASSUME NEW s \in StreamIds, NEW tag \in Tags, TunnelData(s, tag)
      PROVE  Pipe!PipeNext \/ UNCHANGED <<Phase, sent, got>>
  <2>1. /\ tag \in DOMAIN m_bridges
        /\ m_bridges[tag] \in Bridge
        /\ ~(tag > m_next_tag)
        /\ UNCHANGED <<m_next_tag, sent>>
        /\ got' = Flushed(tag)
    BY <1>3, TunnelHubAssumption
    DEF TunnelData, MayCarry, IInv, TypeOK, TagsIssued, Tags
  <2>2. /\ DOMAIN m_bridges' = DOMAIN m_bridges
        /\ m_bridges'[tag] = PairedBridge(m_bridges[tag], s)
        /\ \A x \in DOMAIN m_bridges : x # tag => m_bridges'[x] = m_bridges[x]
    BY <1>3 DEF TunnelData, MayCarry
  <2>3. Paired(m_bridges'[tag])
    BY <2>1, <2>2, PairedBridgeFacts, TunnelHubAssumption DEF Paired, StreamIds
  <2>4. Phase' = [Phase EXCEPT ![tag] = "joined"]
    BY <2>1, <2>2, <2>3 DEF Phase
  <2>5. CASE Paired(m_bridges[tag])
    <3>1. Phase[tag] = "joined"
      BY <2>1, <2>5 DEF Phase
    <3>2. Phase' = Phase
      BY <2>4, <3>1 DEF Phase
    <3> QED BY <2>1, <2>5, <3>2, FlushFacts
  <2>6. CASE ~Paired(m_bridges[tag])
    <3>1. Phase[tag] = "waiting"
      BY <2>1, <2>6 DEF Phase
    <3>2. got' = [got EXCEPT ![tag] = [i \in 1 .. sent[tag] |-> i]]
      BY <2>1, <2>6, FlushFacts
    <3>3. Pipe!Join(tag)
      BY <2>1, <2>4, <3>1, <3>2 DEF Pipe!Join
    <3> QED BY <3>3 DEF Pipe!PipeNext
  <2> QED BY <2>5, <2>6
<1>4. ASSUME NEW s \in StreamIds, NEW tag \in Tags, TunnelClose(s, tag)
      PROVE  Pipe!PipeNext \/ UNCHANGED <<Phase, sent, got>>
  <2>1. /\ tag \in DOMAIN m_bridges
        /\ ~(tag > m_next_tag)
        /\ UNCHANGED <<m_next_tag, sent>>
        /\ got' = Flushed(tag)
        /\ m_bridges' = MapErase(m_bridges, {tag})
    BY <1>4, TunnelHubAssumption
    DEF TunnelClose, MayCarry, IInv, TypeOK, TagsIssued, Tags
  <2>2. CASE Paired(m_bridges[tag])
    <3>1. got' = got
      BY <2>1, <2>2, FlushFacts
    <3> QED BY <2>1, <3>1, ErasedAreClosed
  <2>3. CASE ~Paired(m_bridges[tag])
    <3>1. Phase[tag] = "waiting"
      BY <2>1, <2>3 DEF Phase
    <3>2. Phase' = [Phase EXCEPT ![tag] = "closed"]
      BY <2>1 DEF Phase, MapErase, Restrict
    <3>3. got' = [got EXCEPT ![tag] = [i \in 1 .. sent[tag] |-> i]]
      BY <2>1, <2>3, FlushFacts
    <3>4. Pipe!Join(tag)
      BY <2>1, <3>1, <3>2, <3>3 DEF Pipe!Join
    <3> QED BY <3>4 DEF Pipe!PipeNext
  <2> QED BY <2>2, <2>3
<1>5. ASSUME NEW fd \in Fds, NEW t \in Targets, OperatorConnect(fd, t)
      PROVE  Pipe!PipeNext \/ UNCHANGED <<Phase, sent, got>>
  <2> DEFINE tag == m_next_tag + 1
             b == [target |-> t, fd |-> fd, tunnel |-> NoStream, buffered |-> <<>>]
  <2>1. /\ tag \in Tags
        /\ m_next_tag \in Nat
        /\ m_next_tag' = tag
        /\ UNCHANGED <<sent, got>>
        /\ m_bridges' = MapPut(m_bridges, tag, b)
    BY <1>5, TunnelHubAssumption DEF OperatorConnect, NewTag, IInv, TypeOK, Tags
  <2>2. /\ DOMAIN m_bridges' = DOMAIN m_bridges \cup {tag}
        /\ m_bridges'[tag] = b
        /\ \A x \in DOMAIN m_bridges : x # tag => m_bridges'[x] = m_bridges[x]
    BY <2>1 DEF MapPut
  <2>3. ~Paired(b)
    BY DEF Paired
  <2>4. Phase[tag] = "idle"
    BY <2>1 DEF Phase
  <2>5. \A x \in Tags : x # tag => (x > tag <=> x > m_next_tag)
    BY <2>1 DEF Tags
  <2>6. ~(tag > tag)
    BY <2>1
  <2> HIDE DEF b, tag
  <2>7. Phase' = [Phase EXCEPT ![tag] = "waiting"]
    BY <2>1, <2>2, <2>3, <2>5, <2>6 DEF Phase
  <2>8. Pipe!Open(tag)
    BY <2>1, <2>4, <2>7 DEF Pipe!Open
  <2> QED BY <2>1, <2>8 DEF Pipe!PipeNext
<1>6. ASSUME NEW fd \in Fds, OperatorRead(fd)
      PROVE  Pipe!PipeNext \/ UNCHANGED <<Phase, sent, got>>
  <2> DEFINE tag == m_conns[fd]
             b == m_bridges[tag]
             byte == sent[tag] + 1
  <2>1. /\ tag \in Tags
        /\ tag \in DOMAIN m_bridges
        /\ b \in Bridge
        /\ ~(tag > m_next_tag)
        /\ m_next_tag' = m_next_tag
        /\ sent' = [sent EXCEPT ![tag] = byte]
    BY <1>6, TunnelHubAssumption
    DEF OperatorRead, IInv, TypeOK, TagsIssued, Tags
  <2>2. CASE ~Paired(b)
    <3>1. /\ m_bridges' = [m_bridges EXCEPT ![tag] =
                             [b EXCEPT !.buffered = Append(b.buffered, byte)]]
          /\ got' = got
      BY <1>6, <2>2 DEF OperatorRead
    <3> DEFINE c == [b EXCEPT !.buffered = Append(b.buffered, byte)]
    <3>2. c.tunnel = b.tunnel
      BY <2>1 DEF Bridge
    <3> HIDE DEF c
    <3>3. /\ DOMAIN m_bridges' = DOMAIN m_bridges
          /\ m_bridges'[tag] = c
          /\ \A x \in DOMAIN m_bridges : x # tag => m_bridges'[x] = m_bridges[x]
      BY <2>1, <3>1 DEF c
    <3>4. ~Paired(c)
      BY <2>2, <3>2 DEF Paired
    <3>5. Phase' = Phase
      BY <2>1, <2>2, <3>3, <3>4 DEF Phase
    <3>6. Phase[tag] = "waiting"
      BY <2>1, <2>2 DEF Phase
    <3>7. Pipe!Offer(tag)
      BY <2>1, <3>1, <3>5, <3>6 DEF Pipe!Offer
    <3> QED BY <2>1, <3>7 DEF Pipe!PipeNext
  <2>3. CASE Paired(b)
    <3>1. /\ m_bridges' = m_bridges
          /\ got' = got \/ got' = [got EXCEPT ![tag] = Append(got[tag], byte)]
      BY <1>6, <2>3 DEF OperatorRead
    <3>2. Phase' = Phase
      BY <2>1, <3>1 DEF Phase
    <3>3. Phase[tag] = "joined"
      BY <2>1, <2>3 DEF Phase
    <3>4. Pipe!Relay(tag)
      BY <2>1, <3>1, <3>2, <3>3 DEF Pipe!Relay
    <3> QED BY <2>1, <3>4 DEF Pipe!PipeNext
  <2> QED BY <2>2, <2>3
<1>7. ASSUME NEW fd \in Fds, OperatorClose(fd)
      PROVE  Pipe!PipeNext \/ UNCHANGED <<Phase, sent, got>>
  <2>1. /\ m_bridges' = MapErase(m_bridges, {m_conns[fd]})
        /\ UNCHANGED <<m_next_tag, sent, got>>
        /\ {m_conns[fd]} \subseteq DOMAIN m_bridges
    BY <1>7 DEF OperatorClose, bytes, IInv, OperatorsMatchBridges
  <2> QED BY <2>1, ErasedAreClosed
<1> QED BY <1>1, <1>2, <1>3, <1>4, <1>5, <1>6, <1>7
  DEF Next, HandleConnect, OpenStream, EndStream, AddTarget, RemoveTarget,
      Down, vars, hub, bytes

\* Every behaviour of the hub is, for each operator, a behaviour of the byte
\* pipe: buffered bytes are flushed first, once and in order.
THEOREM HubImplementsPipe == Spec => ImplementsSessionPipe
<1>1. Init => BufferInv /\ Pipe!PipeInit
  BY InitRefines
<1>2. IInv /\ BufferInv /\ [Next]_vars => BufferInv'
  BY StepBufferInv
<1>3. IInv /\ BufferInv /\ [Next]_vars => [Pipe!PipeNext]_(Pipe!pipeVars)
  BY StepRefines
<1> QED BY <1>1, <1>2, <1>3, HubInvariant, PTL
  DEF Spec, ImplementsSessionPipe, Pipe!PipeSpec
=============================================================================

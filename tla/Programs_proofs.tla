--------------------------- MODULE Programs_proofs ---------------------------
(***************************************************************************)
(* Proofs about the parts that Programs runs one at a time, each as a      *)
(* theorem of its own specification and for every value of its constants:  *)
(* the supervisor of the OpenVPN client, the management hub, the telemetry *)
(* fan-out, the loader of command files, the transcript of the TUIs, the   *)
(* shell of gnmi_peer and the completion of the CLI. At the end, Programs  *)
(* implements the specification of each, so that all of it holds there.    *)
(***************************************************************************)
EXTENDS Programs, Lists_proofs, FiniteSetTheorems

-----------------------------------------------------------------------------
(* OpenvpnClient: the DNAT rules follow the address of the tunnel.         *)

NatKeys == Addrs \X Ports

\* Each rule, exactly: the tunnel's own while it is up, and otherwise what a
\* killed run left. This is what is inductive: the address only changes from
\* none to the one found, one -D is enough for it, and a run that follows a
\* killed one finds whatever rules there are.
NatExact ==
  \A r \in Addrs \X Ports :
    /\ nat[r] = IF up /\ r[1] = vip THEN 1 ELSE left[r]
    /\ left[r] <= 1

NatInv == nat \in [NatKeys -> Nat] /\ left \in [NatKeys -> Nat] /\ NatExact

\* What setup_nat for all ports leaves: one rule for each port of v, and the
\* other rules as they were.
LEMMA SetupFacts ==
  ASSUME NEW rules \in [NatKeys -> Nat], NEW v, NEW done
  PROVE  /\ SetupNat(rules, v, done) \in [NatKeys -> Nat]
         /\ \A r \in NatKeys : r[1] # v => SetupNat(rules, v, done)[r] = rules[r]
         /\ done = Ports => \A r \in NatKeys : r[1] = v => SetupNat(rules, v, done)[r] = 1
<1>1. \A r \in NatKeys : r[2] \in Ports
  BY DEF NatKeys
<1> QED BY <1>1 DEF SetupNat

\* teardown_nat takes one rule of v for each port, where there is one.
LEMMA TeardownFacts ==
  ASSUME NEW rules \in [NatKeys -> Nat], NEW v
  PROVE  /\ TeardownNat(rules, v) \in [NatKeys -> Nat]
         /\ \A r \in NatKeys : r[1] # v => TeardownNat(rules, v)[r] = rules[r]
         /\ \A r \in NatKeys : r[1] = v /\ rules[r] <= 1 => TeardownNat(rules, v)[r] = 0
BY DEF TeardownNat

\* A new run knows no address, and the rules it finds are those killed runs
\* left.
LEMMA NewRunInv ==
  ASSUME NEW rules \in [NatKeys -> Nat], NEW remaining \in [NatKeys -> Nat],
         NewRun(rules, remaining),
         \A r \in NatKeys : rules[r] = remaining[r] /\ remaining[r] <= 1
  PROVE  NatInv'
BY DEF NewRun, NatInv, NatExact, NatKeys

LEMMA InitNatInv == OvpnInit => NatInv
BY DEF OvpnInit, NatInv, NatExact, NoRules, NatKeys

LEMMA StepNatInv ==
  ASSUME NatInv, [OvpnNext]_ovpn
  PROVE  NatInv'
<1> USE DEF NatInv
<1>1. ASSUME OvpnHandleRead PROVE NatInv'
  <2>1. left' = left BY <1>1 DEF OvpnHandleRead
  <2>2. CASE TunnelUp(Ports)
    <3>1. nat' = SetupNat(nat, vip, Ports) /\ up' = TRUE /\ vip' = vip
      BY <2>2 DEF TunnelUp
    <3>2. \A r \in NatKeys : r[1] # vip => nat[r] = left[r]
      BY DEF NatExact, NatKeys
    <3>3. \A r \in NatKeys : r[1] # vip => nat'[r] = left[r]
      BY <3>1, <3>2, SetupFacts
    <3>4. \A r \in NatKeys : r[1] = vip => nat'[r] = 1
      BY <3>1, SetupFacts
    <3>5. nat' \in [NatKeys -> Nat]
      BY <3>1, SetupFacts
    <3> QED BY <2>1, <3>1, <3>3, <3>4, <3>5 DEF NatExact, NatKeys
  <2>3. ASSUME NEW v \in Addrs, FindsVip(v, Ports) PROVE NatInv'
    <3>1. vip = NoAddr /\ vip' = v /\ up' = up BY <2>3 DEF FindsVip
    <3>2. \A r \in NatKeys : r[1] # NoAddr
      BY OpenvpnClientAssumption DEF NatKeys
    <3>3. \A r \in NatKeys : nat[r] = left[r]
      BY <3>1, <3>2 DEF NatExact, NatKeys
    <3>4. CASE up
      <4>1. nat' = SetupNat(nat, v, Ports) BY <2>3, <3>4 DEF FindsVip
      <4>2. \A r \in NatKeys : r[1] # v => nat'[r] = left[r]
        BY <3>3, <4>1, SetupFacts
      <4>3. \A r \in NatKeys : r[1] = v => nat'[r] = 1
        BY <4>1, SetupFacts
      <4>4. nat' \in [NatKeys -> Nat]
        BY <4>1, SetupFacts
      <4> QED BY <2>1, <3>1, <3>4, <4>2, <4>3, <4>4 DEF NatExact, NatKeys
    <3>5. CASE ~up
      <4>1. nat' = nat BY <2>3, <3>5 DEF FindsVip
      <4> QED BY <2>1, <3>1, <3>3, <3>5, <4>1 DEF NatExact, NatKeys
    <3> QED BY <3>4, <3>5
  <2>4. CASE IgnoresVip
    BY <2>1, <2>4 DEF IgnoresVip, NatExact
  <2> QED BY <1>1, <2>2, <2>3, <2>4 DEF OvpnHandleRead, ParseLine
<1>2. ASSUME NEW v \in Addrs, OvpnConnects(v) PROVE NatInv'
  BY <1>2 DEF OvpnConnects, NatExact
<1>3. ASSUME OvpnExits PROVE NatInv'
  BY <1>3 DEF OvpnExits, NatExact
<1>4. ASSUME Stop PROVE NatInv'
  <2>1. CASE vip = NoAddr /\ NewRun(nat, left)
    <3>1. \A r \in NatKeys : r[1] # NoAddr
      BY OpenvpnClientAssumption DEF NatKeys
    <3>2. \A r \in NatKeys : nat[r] = left[r] /\ left[r] <= 1
      BY <2>1, <3>1 DEF NatExact, NatKeys
    <3> QED BY <2>1, <3>2, NewRunInv
  <2>2. CASE vip # NoAddr
    <3> DEFINE torn == TeardownNat(nat, vip)
               kept == [r \in NatKeys |-> IF r[1] = vip THEN 0 ELSE left[r]]
    <3>1. NewRun(torn, kept) BY <1>4, <2>2 DEF Stop, NatKeys
    <3>2. torn \in [NatKeys -> Nat] /\ kept \in [NatKeys -> Nat]
      BY TeardownFacts
    <3>3. \A r \in NatKeys : nat[r] \in Nat /\ left[r] \in Nat /\ nat[r] <= 1
      BY DEF NatExact, NatKeys
    <3>4. ASSUME NEW r \in NatKeys PROVE torn[r] = kept[r] /\ kept[r] <= 1
      <4>1. CASE r[1] = vip
        <5>1. torn[r] = 0 BY <3>3, <4>1, TeardownFacts
        <5> QED BY <4>1, <5>1
      <4>2. CASE r[1] # vip
        <5>1. torn[r] = nat[r] BY <4>2, TeardownFacts
        <5>2. nat[r] = left[r] /\ left[r] <= 1 BY <4>2 DEF NatExact, NatKeys
        <5> QED BY <4>2, <5>1, <5>2
      <4> QED BY <4>1, <4>2
    <3> HIDE DEF torn, kept
    <3> QED BY <3>1, <3>2, <3>4, NewRunInv
  <2> QED BY <1>4, <2>1, <2>2 DEF Stop
<1>5. ASSUME Crash PROVE NatInv'
  <2>1. \A r \in NatKeys : nat[r] \in Nat /\ left[r] \in Nat /\ nat[r] <= 1
    BY DEF NatExact, NatKeys
  <2>2. CASE NewRun(nat, nat) BY <2>1, <2>2, NewRunInv
  <2>3. ASSUME NEW done \in SUBSET Ports, NewRun(SetupNat(nat, vip, done), SetupNat(nat, vip, done))
        PROVE  NatInv'
    <3> DEFINE rules == SetupNat(nat, vip, done)
    <3>1. rules \in [NatKeys -> Nat] BY SetupFacts
    <3>2. \A r \in NatKeys : rules[r] <= 1 BY <2>1 DEF SetupNat
    <3> HIDE DEF rules
    <3>3. NewRun(rules, rules) BY <2>3 DEF rules
    <3> QED BY <3>1, <3>2, <3>3, NewRunInv
  <2> QED BY <1>5, <2>2, <2>3 DEF Crash
<1>6. ASSUME UNCHANGED ovpn PROVE NatInv'
  BY <1>6 DEF ovpn, NatExact
<1> QED BY <1>1, <1>2, <1>3, <1>4, <1>5, <1>6 DEF OvpnNext

\* While openvpn runs with the address the supervisor found first, and its
\* tunnel is up, that address has exactly one rule for every port; no rule is
\* doubled, and none outlives a run that ended (setup_nat, teardown_nat,
\* ~openvpn_client), for any addresses, ports, log and crashes.
THEOREM NatSafe == OvpnSpec => []NatServesFirstVip
<1>1. NatInv => NatServesFirstVip
  <2> SUFFICES ASSUME NatInv, NEW r \in NatKeys
      PROVE /\ up /\ pipe /\ session = vip /\ r[1] = vip => nat[r] = 1
            /\ nat[r] <= 1
            /\ nat[r] > left[r] => up /\ r[1] = vip
    BY DEF NatServesFirstVip, NatKeys
  <2>1. nat[r] \in Nat /\ left[r] \in Nat /\ left[r] <= 1 BY DEF NatInv, NatExact, NatKeys
  <2>2. nat[r] = IF up /\ r[1] = vip THEN 1 ELSE left[r] BY DEF NatInv, NatExact, NatKeys
  <2> QED BY <2>1, <2>2
<1> QED BY <1>1, InitNatInv, StepNatInv, PTL DEF OvpnSpec

\* What the supervisor knows of openvpn, and what it wrote.
KnownInv ==
  /\ {session, vip} \subseteq Addrs \cup {NoAddr} /\ {pipe, up} \subseteq BOOLEAN
  /\ status \in [state : {"none", "Connected"}, ip : Addrs \cup {NoAddr}]
  /\ spent \in [log : 0..MaxLog, sessions : 0..MaxConnections, runs : 0..MaxRuns]

LEMMA KnownInit == ASSUME OvpnInit PROVE KnownInv
<1>1. 0 \in 0..MaxLog /\ 0 \in 0..MaxConnections /\ 1 \in 0..MaxRuns
  BY OpenvpnClientAssumption
<1> QED BY <1>1 DEF OvpnInit, KnownInv

LEMMA KnownStep ==
  ASSUME KnownInv, [OvpnNext]_ovpn
  PROVE  KnownInv'
<1> DEFINE Spendings == [log : 0..MaxLog, sessions : 0..MaxConnections, runs : 0..MaxRuns]
<1>1. spent \in Spendings /\ MaxLog \in Nat /\ MaxConnections \in Nat /\ MaxRuns \in Nat
  BY OpenvpnClientAssumption DEF KnownInv
<1>2. CASE OvpnHandleRead
  <2>1. /\ spent.log < MaxLog /\ spent' = [spent EXCEPT !.log = @ + 1]
        /\ UNCHANGED <<session, pipe>>
    BY <1>2 DEF OvpnHandleRead, ReadsLine
  <2>2. spent.log + 1 \in 0..MaxLog BY <1>1, <2>1
  <2>3. spent' \in Spendings BY <1>1, <2>1, <2>2
  <2>4. CASE TunnelUp(Ports) BY <2>1, <2>3, <2>4 DEF TunnelUp, KnownInv
  <2>5. CASE \E v \in Addrs : FindsVip(v, Ports) BY <2>1, <2>3, <2>5 DEF FindsVip, KnownInv
  <2>6. CASE IgnoresVip BY <2>1, <2>3, <2>6 DEF IgnoresVip, KnownInv
  <2> QED BY <1>2, <2>4, <2>5, <2>6 DEF OvpnHandleRead, ParseLine
<1>3. ASSUME NEW v \in Addrs, OvpnConnects(v) PROVE KnownInv'
  <2>1. spent.sessions < MaxConnections /\ spent' = [spent EXCEPT !.sessions = @ + 1]
    BY <1>3 DEF OvpnConnects
  <2>2. spent.sessions + 1 \in 0..MaxConnections BY <1>1, <2>1
  <2>3. spent' \in Spendings BY <1>1, <2>1, <2>2
  <2> QED BY <1>3, <2>3 DEF OvpnConnects, KnownInv
<1>4. CASE OvpnExits BY <1>4 DEF OvpnExits, KnownInv
<1>5. ASSUME NEW r, NEW k, NewRun(r, k) PROVE KnownInv'
  <2>1. spent.runs < MaxRuns /\ spent' = [spent EXCEPT !.runs = @ + 1, !.log = 0]
    BY <1>5 DEF NewRun
  <2>2. spent.runs + 1 \in 0..MaxRuns /\ 0 \in 0..MaxLog BY <1>1, <2>1
  <2>3. spent' \in Spendings BY <1>1, <2>1, <2>2
  <2> QED BY <1>5, <2>3 DEF NewRun, KnownInv
<1>6. CASE UNCHANGED ovpn BY <1>6 DEF ovpn, KnownInv
<1> QED BY <1>2, <1>3, <1>4, <1>5, <1>6 DEF OvpnNext, Stop, Crash

\* The supervisor, for any addresses, ports, log and crashes: the address it
\* knows is one that was found or none, and rules are never counted below none.
THEOREM OvpnTyped == OvpnSpec => []OvpnTypeOK
<1>1. NatInv /\ KnownInv => OvpnTypeOK
  BY DEF NatInv, KnownInv, OvpnTypeOK, Rules, NatKeys
<1>2. OvpnInit => NatInv /\ KnownInv BY InitNatInv, KnownInit
<1>3. NatInv /\ KnownInv /\ [OvpnNext]_ovpn => (NatInv /\ KnownInv)' BY StepNatInv, KnownStep
<1> QED BY <1>1, <1>2, <1>3, PTL DEF OvpnSpec

-----------------------------------------------------------------------------
(* Management: sessions.                                                   *)

Ids == Devices \cup {NoDevice}
SessionEntries == [stream : DeviceStreams, id : Nat \ {0}, device : Ids, role : Ids]
Clashes ==
  {p \in SessionEntries \X SessionEntries : p[1].stream = p[2].stream \/ p[1].id = p[2].id}

\* A session is of a live connection and of a stream that was opened on it,
\* and says of its device what that told.
Lives(e) ==
  /\ e.stream[1] \in links /\ stream[e.stream] # "idle" /\ e.id <= nextId
  /\ {e.device, e.role} \subseteq told[e.stream] \cup {NoDevice}

SessionsInv ==
  /\ sessions \in Seq(SessionEntries) /\ nextId \in Nat /\ links \subseteq Links
  /\ stream \in [DeviceStreams -> {"idle", "open", "ended"}]
  /\ told \in [DeviceStreams -> SUBSET Devices]
  /\ Apart(sessions, Clashes)
  /\ \A e \in Elements(sessions) : Lives(e)
  /\ \A s \in DeviceStreams :
       stream[s] = "open" => \E e \in Elements(sessions) : e.stream = s

LEMMA SessionsInit == MgmtInit => SessionsInv
<1> SUFFICES ASSUME MgmtInit PROVE SessionsInv OBVIOUS
<1>1. sessions = <<>> /\ sessions \in Seq(SessionEntries) BY EmptySeq DEF MgmtInit
<1>2. Elements(sessions) = {} /\ Apart(sessions, Clashes) BY <1>1, ElementsEmpty
<1> QED BY <1>1, <1>2 DEF MgmtInit, SessionsInv

LEMMA LinkUpSessions ==
  ASSUME SessionsInv, NEW c \in Links, LinkUp(c)
  PROVE  SessionsInv'
<1> USE DEF SessionsInv
<1>1. sessions' = sessions /\ nextId' = nextId /\ links' = links \cup {c} /\ c \notin links
  BY DEF LinkUp
<1>2. /\ stream' \in [DeviceStreams -> {"idle", "open", "ended"}]
      /\ told' \in [DeviceStreams -> SUBSET Devices]
  BY DEF LinkUp
<1>3. ASSUME NEW e \in Elements(sessions) PROVE Lives(e)'
  <2>1. e \in SessionEntries BY <1>3, ElementsIn
  <2>2. e.stream \in DeviceStreams /\ Lives(e) /\ e.stream[1] # c
    BY <1>1, <1>3, <2>1 DEF SessionEntries, Lives
  <2>3. stream'[e.stream] = stream[e.stream] /\ told'[e.stream] = told[e.stream]
    BY <2>2 DEF LinkUp
  <2> QED BY <1>1, <2>2, <2>3 DEF Lives
<1>4. \A s \in DeviceStreams : stream'[s] = "open" => stream[s] = "open"
  BY DEF LinkUp
<1> QED BY <1>1, <1>2, <1>3, <1>4

LEMMA OpenSessions ==
  ASSUME SessionsInv, NEW s \in DeviceStreams, OpenSession(s)
  PROVE  SessionsInv'
<1> USE DEF SessionsInv
<1> DEFINE e == [stream |-> s, id |-> nextId + 1, device |-> NoDevice, role |-> NoDevice]
<1>1. /\ sessions' = Append(sessions, e) /\ nextId' = nextId + 1 /\ links' = links
      /\ stream' = [stream EXCEPT ![s] = "open"] /\ told' = told
      /\ s[1] \in links /\ stream[s] = "idle"
  BY DEF OpenSession, AddSession
<1>2. e \in SessionEntries BY DEF SessionEntries, Ids
<1>3. e.stream = s /\ e.id = nextId + 1 /\ e.device = NoDevice /\ e.role = NoDevice OBVIOUS
<1> HIDE DEF e
<1>4. sessions \in Seq(SessionEntries) /\ nextId \in Nat OBVIOUS
<1>5. Elements(sessions') = Elements(sessions) \cup {e} BY <1>1, <1>2, <1>4, ElementsAppend
<1>6. sessions' \in Seq(SessionEntries) BY <1>1, <1>2, <1>4, AppendProperties
<1>7. ASSUME NEW x \in Elements(sessions)
      PROVE  x \in SessionEntries /\ x.stream # s /\ x.id # nextId + 1 /\ x.id \in Nat /\ x.id <= nextId
             /\ Lives(x) /\ x.stream \in DeviceStreams
  <2>1. x \in SessionEntries BY <1>4, ElementsIn
  <2>2. Lives(x) OBVIOUS
  <2>3. x.id \in Nat /\ x.id <= nextId /\ x.stream \in DeviceStreams BY <2>1, <2>2 DEF SessionEntries, Lives
  <2> QED BY <1>1, <1>4, <2>1, <2>2, <2>3 DEF Lives
<1>8. Apart(sessions', Clashes)
  <2>1. \A x \in Elements(sessions) : <<x, e>> \notin Clashes /\ <<e, x>> \notin Clashes
    BY <1>3, <1>7 DEF Clashes
  <2> QED BY <1>1, <1>2, <1>4, <2>1, ApartAppend
<1>9. ASSUME NEW x \in Elements(sessions') PROVE Lives(x)'
  <2>1. CASE x \in Elements(sessions)
    <3>1. stream'[x.stream] = stream[x.stream] BY <1>1, <1>7, <2>1
    <3> QED BY <1>1, <1>4, <1>7, <2>1, <3>1 DEF Lives
  <2>2. CASE x = e
    <3>1. stream'[s] = "open" BY <1>1
    <3> QED BY <1>1, <1>3, <1>4, <2>2, <3>1 DEF Lives
  <2> QED BY <1>5, <2>1, <2>2
<1>10. ASSUME NEW t \in DeviceStreams, stream'[t] = "open"
       PROVE  \E x \in Elements(sessions') : x.stream = t
  <2>1. CASE t = s BY <1>3, <1>5, <2>1
  <2>2. CASE t # s
    <3>1. stream[t] = "open" BY <1>1, <1>10, <2>2
    <3> QED BY <1>5, <3>1
  <2> QED BY <2>1, <2>2
<1> QED BY <1>1, <1>4, <1>6, <1>8, <1>9, <1>10

LEMMA EndSessions ==
  ASSUME SessionsInv, NEW s \in DeviceStreams, EndOfStream(s)
  PROVE  SessionsInv'
<1> USE DEF SessionsInv
<1>1. /\ stream' = [stream EXCEPT ![s] = "ended"]
      /\ UNCHANGED <<links, sessions, nextId, told>>
  BY DEF EndOfStream
<1>2. \A x \in Elements(sessions) : x.stream \in DeviceStreams
  <2>1. sessions \in Seq(SessionEntries) OBVIOUS
  <2>2. Elements(sessions) \subseteq SessionEntries BY <2>1, ElementsIn
  <2> QED BY <2>2 DEF SessionEntries
<1>3. \A x \in Elements(sessions) : Lives(x)' BY <1>1, <1>2 DEF Lives
<1> QED BY <1>1, <1>3

LEMMA LinkDownSessions ==
  ASSUME SessionsInv, NEW c \in Links, LinkDown(c)
  PROVE  SessionsInv'
<1> USE DEF SessionsInv
<1> DEFINE K == {e \in Range(sessions) : e.stream[1] # c}
<1>1. /\ links' = links \ {c} /\ sessions' = Keep(sessions, K)
      /\ stream' = [s \in DeviceStreams |-> IF s[1] = c THEN "ended" ELSE stream[s]]
      /\ UNCHANGED <<nextId, told>>
  BY DEF LinkDown, RemoveByStream
<1>2. sessions \in Seq(SessionEntries) OBVIOUS
<1>3. \A x \in Elements(sessions) : x \in Range(sessions) /\ x \in SessionEntries
  BY <1>2, ElementsIn
<1>4. \A x \in Elements(sessions) : x \in K <=> x.stream[1] # c BY <1>3
<1> HIDE DEF K
<1>5. Elements(sessions') = Elements(sessions) \cap K BY <1>1, <1>2, KeepElements
<1>6. sessions' \in Seq(SessionEntries) BY <1>1, <1>2, KeepSeq
<1>7. Apart(sessions', Clashes) BY <1>1, <1>2, KeepApart
<1>8. ASSUME NEW x \in Elements(sessions') PROVE Lives(x)'
  <2>1. x \in Elements(sessions) /\ x.stream[1] # c /\ Lives(x) BY <1>4, <1>5, <1>8
  <2>2. x.stream \in DeviceStreams BY <1>3, <2>1 DEF SessionEntries
  <2>3. stream'[x.stream] = stream[x.stream] BY <1>1, <2>1, <2>2
  <2> QED BY <1>1, <2>1, <2>3 DEF Lives
<1>9. ASSUME NEW s \in DeviceStreams, stream'[s] = "open"
      PROVE  \E x \in Elements(sessions') : x.stream = s
  <2>1. s[1] # c /\ stream[s] = "open" BY <1>1, <1>9
  <2>2. PICK x \in Elements(sessions) : x.stream = s BY <2>1
  <2> QED BY <1>4, <1>5, <2>1, <2>2
<1> QED BY <1>1, <1>6, <1>7, <1>8, <1>9

\* note_device and set_identity: the sessions of one stream learn what its
\* device told, the others stay as they are.
LEMMA NotedSessions ==
  ASSUME SessionsInv, NEW s \in DeviceStreams, NEW list, NEW d \in Ids, NEW r \in Ids,
         \/ list = NoteDevice(sessions, s, d)
         \/ list = SetIdentity(NoteDevice(sessions, s, d), s, r)
  PROVE  /\ list \in Seq(SessionEntries) /\ Len(list) = Len(sessions)
         /\ \A i \in 1..Len(sessions) :
              /\ list[i].stream = sessions[i].stream /\ list[i].id = sessions[i].id
              /\ {list[i].device, list[i].role} \subseteq
                   {sessions[i].device, sessions[i].role} \cup
                   (IF sessions[i].stream = s THEN {d, r} ELSE {})
<1> DEFINE n == Len(sessions)
           Device(e) == IF d # NoDevice /\ e.stream = s THEN [e EXCEPT !.device = d] ELSE e
           Role(e) == IF r # NoDevice /\ e.stream = s THEN [e EXCEPT !.role = r] ELSE e
           noted == [i \in 1..n |-> Device(sessions[i])]
           both == [i \in 1..n |-> Role(noted[i])]
<1>1. sessions \in Seq(SessionEntries) BY DEF SessionsInv
<1>2. n \in Nat /\ sessions \in [1..n -> SessionEntries] BY <1>1, LenProperties
<1> HIDE DEF n
<1>3. ASSUME NEW e \in SessionEntries
      PROVE  /\ Device(e) \in SessionEntries /\ Device(e).stream = e.stream /\ Device(e).id = e.id
             /\ Device(e).role = e.role
             /\ Device(e).device = e.device \/ (e.stream = s /\ Device(e).device = d)
  BY DEF SessionEntries
<1>4. ASSUME NEW e \in SessionEntries
      PROVE  /\ Role(e) \in SessionEntries /\ Role(e).stream = e.stream /\ Role(e).id = e.id
             /\ Role(e).device = e.device
             /\ Role(e).role = e.role \/ (e.stream = s /\ Role(e).role = r)
  BY DEF SessionEntries
<1>5. NoteDevice(sessions, s, d) = noted
  <2>1. CASE d = NoDevice
    <3>1. noted = [i \in 1..n |-> sessions[i]] BY <2>1
    <3>2. [i \in 1..n |-> sessions[i]] = sessions BY <1>2
    <3> QED BY <2>1, <3>1, <3>2 DEF NoteDevice
  <2>2. CASE d # NoDevice
    <3>1. DOMAIN sessions = 1..n BY <1>2
    <3> QED BY <2>2, <3>1 DEF NoteDevice, OnSession
  <2> QED BY <2>1, <2>2
<1> HIDE DEF Device
<1>6. noted \in [1..n -> SessionEntries] BY <1>2, <1>3
<1>7. \A i \in 1..n : noted[i] = Device(sessions[i]) OBVIOUS
<1> HIDE DEF noted
<1>8. SetIdentity(noted, s, r) = both
  <2>1. CASE r = NoDevice
    <3>1. both = [i \in 1..n |-> noted[i]] BY <2>1
    <3>2. [i \in 1..n |-> noted[i]] = noted BY <1>6
    <3> QED BY <2>1, <3>1, <3>2 DEF SetIdentity
  <2>2. CASE r # NoDevice
    <3>1. DOMAIN noted = 1..n BY <1>6
    <3> QED BY <2>2, <3>1 DEF SetIdentity, OnSession
  <2> QED BY <2>1, <2>2
<1> HIDE DEF Role
<1>9. both \in [1..n -> SessionEntries] BY <1>4, <1>6
<1>10. \A i \in 1..n : both[i] = Role(noted[i]) OBVIOUS
<1> HIDE DEF both
<1>11. list = noted \/ list = both BY <1>5, <1>8
<1>12. list \in [1..n -> SessionEntries] BY <1>6, <1>9, <1>11
<1>13. list \in Seq(SessionEntries) /\ Len(list) = n BY <1>2, <1>12, LenProperties
<1>14. ASSUME NEW i \in 1..n
       PROVE  /\ list[i].stream = sessions[i].stream /\ list[i].id = sessions[i].id
              /\ {list[i].device, list[i].role} \subseteq
                   {sessions[i].device, sessions[i].role} \cup
                   (IF sessions[i].stream = s THEN {d, r} ELSE {})
  <2>1. sessions[i] \in SessionEntries /\ noted[i] \in SessionEntries BY <1>2, <1>6
  <2>2. PICK e : e = sessions[i] OBVIOUS
  <2>3. PICK x : x = noted[i] OBVIOUS
  <2>4. x = Device(e) /\ e \in SessionEntries /\ x \in SessionEntries BY <1>7, <2>1, <2>2, <2>3
  <2>5. /\ x.stream = e.stream /\ x.id = e.id /\ x.role = e.role
        /\ x.device = e.device \/ (e.stream = s /\ x.device = d)
    BY <1>3, <2>4
  <2>6. CASE list = noted BY <2>2, <2>3, <2>5, <2>6
  <2>7. CASE list = both
    <3>1. PICK y : y = list[i] OBVIOUS
    <3>2. y = Role(x) BY <1>10, <2>3, <2>7, <3>1
    <3>3. /\ y.stream = x.stream /\ y.id = x.id /\ y.device = x.device
          /\ y.role = x.role \/ (x.stream = s /\ y.role = r)
      BY <1>4, <2>4, <3>2
    <3> QED BY <2>2, <2>5, <3>1, <3>3
  <2> QED BY <1>11, <2>6, <2>7
<1> QED BY <1>13, <1>14 DEF n

\* A response of an open stream: its session learns what its device tells.
LEMMA ToldSessions ==
  ASSUME SessionsInv, NEW s \in DeviceStreams, NEW d \in Ids, NEW r \in Ids,
         \/ sessions' = NoteDevice(sessions, s, d)
         \/ sessions' = SetIdentity(NoteDevice(sessions, s, d), s, r),
         told' = [told EXCEPT ![s] = @ \cup ({d, r} \ {NoDevice})],
         UNCHANGED <<links, nextId, stream>>
  PROVE  SessionsInv'
<1> USE DEF SessionsInv
<1> DEFINE n == Len(sessions)
<1>1. PICK list : list = sessions' OBVIOUS
<1>2. /\ list \in Seq(SessionEntries) /\ Len(list) = n
      /\ \A i \in 1..n :
           /\ list[i].stream = sessions[i].stream /\ list[i].id = sessions[i].id
           /\ {list[i].device, list[i].role} \subseteq
                {sessions[i].device, sessions[i].role} \cup
                (IF sessions[i].stream = s THEN {d, r} ELSE {})
  <2>1. \/ list = NoteDevice(sessions, s, d)
        \/ list = SetIdentity(NoteDevice(sessions, s, d), s, r)
    BY <1>1
  <2> QED BY <2>1, NotedSessions
<1>3. \A i \in 1..n : sessions[i] \in SessionEntries /\ list[i] \in SessionEntries /\ sessions[i] \in Elements(sessions)
  BY <1>2 DEF Elements
<1> HIDE DEF n
<1>4. told' \in [DeviceStreams -> SUBSET Devices] BY DEF Ids
<1>5. Apart(list, Clashes)
  <2>1. \A i, j \in 1..n : <<sessions[i], sessions[j]>> \in Clashes => i = j
    BY DEF Apart, n
  <2>2. \A i, j \in 1..n : <<list[i], list[j]>> \in Clashes => <<sessions[i], sessions[j]>> \in Clashes
    BY <1>2, <1>3 DEF Clashes
  <2> QED BY <1>2, <2>1, <2>2 DEF Apart
<1>6. ASSUME NEW x \in Elements(list) PROVE Lives(x)'
  <2>1. PICK i \in 1..n : x = list[i] BY <1>2, <1>6 DEF Elements
  <2>2. PICK e : e = sessions[i] OBVIOUS
  <2>3. /\ Lives(e) /\ e \in SessionEntries /\ x.stream = e.stream /\ x.id = e.id
        /\ {x.device, x.role} \subseteq {e.device, e.role} \cup (IF e.stream = s THEN {d, r} ELSE {})
    BY <1>2, <1>3, <2>1, <2>2
  <2>4. e.stream \in DeviceStreams /\ told \in [DeviceStreams -> SUBSET Devices]
    BY <2>3 DEF SessionEntries
  <2>5. /\ told[e.stream] \subseteq told'[e.stream]
        /\ e.stream = s => {d, r} \subseteq told'[e.stream] \cup {NoDevice}
    BY <2>4
  <2>6. {e.device, e.role} \subseteq told[e.stream] \cup {NoDevice} BY <2>3 DEF Lives
  <2>7. {x.device, x.role} \subseteq told'[x.stream] \cup {NoDevice} BY <2>3, <2>5, <2>6
  <2> QED BY <2>3, <2>7 DEF Lives
<1>7. ASSUME NEW t \in DeviceStreams, stream'[t] = "open"
      PROVE  \E x \in Elements(list) : x.stream = t
  <2>1. PICK e \in Elements(sessions) : e.stream = t BY <1>7
  <2>2. PICK i \in 1..n : e = sessions[i] BY DEF Elements, n
  <2>3. list[i] \in Elements(list) BY <1>2 DEF Elements
  <2> QED BY <1>2, <2>1, <2>2, <2>3
<1> QED BY <1>1, <1>2, <1>4, <1>5, <1>6, <1>7

LEMMA ProbeSessions ==
  ASSUME SessionsInv, NEW s \in DeviceStreams, NEW d \in Ids, NEW r \in Ids, ProbeAnswer(s, d, r)
  PROVE  SessionsInv'
BY ToldSessions DEF ProbeAnswer

LEMMA ResponseSessions ==
  ASSUME SessionsInv, NEW s \in DeviceStreams, NEW rpc, NEW sent, NEW d \in Ids, NEW n,
         Response(s, rpc, sent, d, n)
  PROVE  SessionsInv'
<1>1. {d} \ {NoDevice} = {d, NoDevice} \ {NoDevice} /\ NoDevice \in Ids BY DEF Ids
<1>2. /\ sessions' = NoteDevice(sessions, s, d)
      /\ told' = [told EXCEPT ![s] = @ \cup ({d, NoDevice} \ {NoDevice})]
      /\ UNCHANGED <<links, nextId, stream>>
  BY <1>1 DEF Response
<1> QED BY <1>1, <1>2, ToldSessions

LEMMA CommandSessions ==
  ASSUME SessionsInv, NEW cmd, Command(cmd)
  PROVE  SessionsInv'
<1>1. UNCHANGED <<sessions, nextId, links, stream, told>> BY DEF Command
<1> QED BY <1>1 DEF SessionsInv, Lives

LEMMA StepSessions == SessionsInv /\ [MgmtNext]_mgmt => SessionsInv'
<1> SUFFICES ASSUME SessionsInv, [MgmtNext]_mgmt PROVE SessionsInv' OBVIOUS
<1>1. ASSUME UNCHANGED mgmt PROVE SessionsInv' BY <1>1 DEF SessionsInv, Lives, mgmt
<1>2. ASSUME NEW s \in DeviceStreams, NEW dev \in Ids, NEW n, Push(s, dev, n) PROVE SessionsInv'
  BY <1>2, ResponseSessions DEF Push
<1>3. ASSUME NEW s \in DeviceStreams, NEW dev \in Ids, NEW msg, NEW n, Answer(s, msg, dev, n)
      PROVE  SessionsInv'
  BY <1>3, ResponseSessions DEF Answer
<1> QED
  BY <1>1, <1>2, <1>3, LinkUpSessions, LinkDownSessions, OpenSessions, EndSessions,
     ProbeSessions, CommandSessions
  DEF MgmtNext, Ids

-----------------------------------------------------------------------------
(* Management: requests and replies.                                       *)

AnyCommand == Commands \cup {NoCommand}
DeviceMessages == [rpc : Nat, cmd : AnyCommand]
At(box, r) == {i \in 1..Len(box) : box[i].rpc = r}

\* The rpc ids are the numbers of the commands; what a device was sent under
\* one is that command, once if its stream was open then.
Numbered == DOMAIN pending = 1..Sends /\ Sends \in Nat
Addressed ==
  \A r \in 1..Sends :
    \A s \in DeviceStreams :
      /\ s \in audience[r] => stream[s] # "idle" /\ s[1] \in links
      /\ stream[s] = "open" =>
           IF s \in audience[r] THEN \E i \in 1..Len(inbox[s]) : At(inbox[s], r) = {i}
                                ELSE At(inbox[s], r) = {}
Faithful(box, sent) ==
  \A i \in 1..Len(box) :
    /\ box[i].rpc \in DOMAIN sent \cup {ProbeId}
    /\ box[i].cmd = IF box[i].rpc \in DOMAIN sent THEN sent[box[i].rpc]
                    ELSE NoCommand
RepliesInv ==
  /\ Numbered
  /\ \A r \in 1..Sends : pending[r] \in Commands
  /\ DOMAIN audience = 1..Sends
  /\ inbox \in [DeviceStreams -> Seq(DeviceMessages)]
  /\ Addressed
  /\ \A s \in DeviceStreams : Faithful(inbox[s], pending)
  /\ printed.names = printed.sent

LEMMA RepliesInit == MgmtInit => RepliesInv
<1> SUFFICES ASSUME MgmtInit PROVE RepliesInv OBVIOUS
<1>1. DOMAIN pending = {} /\ DOMAIN audience = {} BY DEF MgmtInit, EmptyMap
<1>2. Sends = 0 BY <1>1, FS_EmptySet DEF Sends
<1>3. 1..0 = {} /\ 1..Sends = {} BY <1>2
<1>4. \A s \in DeviceStreams : inbox[s] = <<>> /\ Len(inbox[s]) = 0
  BY EmptySeq DEF MgmtInit
<1>5. inbox \in [DeviceStreams -> Seq(DeviceMessages)] BY EmptySeq DEF MgmtInit
<1>6. \A s \in DeviceStreams : Faithful(inbox[s], pending) BY <1>4 DEF Faithful
<1>7. Numbered /\ Addressed BY <1>1, <1>2, <1>3 DEF Numbered, Addressed
<1>8. printed.names = printed.sent BY DEF MgmtInit, NothingPrinted
<1> QED BY <1>1, <1>3, <1>5, <1>6, <1>7, <1>8 DEF RepliesInv

\* A connection comes, and one goes.
LEMMA LinkReplies ==
  ASSUME SessionsInv, RepliesInv, NEW c \in Links, LinkUp(c) \/ LinkDown(c)
  PROVE  RepliesInv'
<1> USE DEF RepliesInv
<1>1. pending' = pending /\ printed' = printed /\ Sends' = Sends BY DEF LinkUp, LinkDown, Sends
<1>2. \A m : Faithful(<<>>, m)
  <2>1. 1..Len(<<>>) = {} BY EmptySeq
  <2> QED BY <2>1 DEF Faithful
<1>3. \A s \in DeviceStreams : inbox'[s] = inbox[s] \/ inbox'[s] = <<>>
  BY DEF LinkUp, LinkDown
<1>4. inbox' \in [DeviceStreams -> Seq(DeviceMessages)]
  BY EmptySeq, ZenonT(30) DEF LinkUp, LinkDown
<1>5. \A s \in DeviceStreams : Faithful(inbox'[s], pending') BY <1>1, <1>2, <1>3
<1>6. Addressed' /\ DOMAIN audience' = 1..Sends
  <2>1. CASE LinkUp(c)
    <3>1. /\ audience' = audience /\ links' = links \cup {c} /\ c \notin links
          /\ \A s \in DeviceStreams :
               IF s[1] = c THEN stream'[s] = "idle"
                           ELSE stream'[s] = stream[s] /\ inbox'[s] = inbox[s]
      BY <2>1 DEF LinkUp
    <3> QED BY <1>1, <3>1 DEF Addressed
  <2>2. CASE LinkDown(c)
    <3>1. /\ audience' = [r \in DOMAIN audience |-> {s \in audience[r] : s[1] # c}]
          /\ links' = links \ {c} /\ inbox' = inbox
          /\ \A s \in DeviceStreams :
               IF s[1] = c THEN stream'[s] = "ended" ELSE stream'[s] = stream[s]
      BY <2>2 DEF LinkDown
    <3>2. DOMAIN audience' = 1..Sends BY <3>1
    <3>3. \A r \in 1..Sends : \A s \in DeviceStreams :
            s \in audience'[r] <=> s \in audience[r] /\ s[1] # c
      BY <3>1
    <3> HIDE DEF RepliesInv
    <3>4. Addressed BY DEF RepliesInv
    <3>5. ASSUME NEW r \in 1..Sends, NEW s \in DeviceStreams
          PROVE  /\ s \in audience'[r] => stream'[s] # "idle" /\ s[1] \in links'
                 /\ stream'[s] = "open" =>
                      IF s \in audience'[r] THEN \E i \in 1..Len(inbox'[s]) : At(inbox'[s], r) = {i}
                                            ELSE At(inbox'[s], r) = {}
      <4>1. inbox'[s] = inbox[s] BY <3>1
      <4>2. s \in audience'[r] <=> s \in audience[r] /\ s[1] # c BY <3>3
      <4>3. s \in audience[r] => stream[s] # "idle" /\ s[1] \in links BY <3>4 DEF Addressed
      <4>4. stream[s] = "open" =>
              IF s \in audience[r] THEN \E i \in 1..Len(inbox[s]) : At(inbox[s], r) = {i}
                                   ELSE At(inbox[s], r) = {}
        BY <3>4 DEF Addressed
      <4>5. CASE s[1] = c BY <3>1, <4>2, <4>5
      <4>6. CASE s[1] # c
        <5>1. stream'[s] = stream[s] BY <3>1, <4>6
        <5>2. s[1] \in links => s[1] \in links' BY <3>1, <4>6
        <5> QED BY <4>1, <4>2, <4>3, <4>4, <4>6, <5>1, <5>2
      <4> QED BY <4>5, <4>6
    <3>6. Addressed'
      <4>1. Sends' = Sends BY <1>1
      <4> QED BY <3>5, <4>1 DEF Addressed
    <3> QED BY <3>2, <3>6
  <2> QED BY <2>1, <2>2
<1> QED BY <1>1, <1>4, <1>5, <1>6 DEF Numbered

LEMMA OpenReplies ==
  ASSUME RepliesInv, NEW s \in DeviceStreams, OpenSession(s)
  PROVE  RepliesInv'
<1> USE DEF RepliesInv
<1> DEFINE probe == [rpc |-> ProbeId, cmd |-> NoCommand]
<1>1. /\ UNCHANGED <<pending, audience, printed, links>> /\ Sends' = Sends
      /\ inbox' = [inbox EXCEPT ![s] = <<probe>>]
      /\ stream' = [stream EXCEPT ![s] = "open"] /\ stream[s] = "idle"
  BY DEF OpenSession, Sends
<1>2. probe \in DeviceMessages /\ probe.rpc = ProbeId /\ probe.cmd = NoCommand
  BY DEF DeviceMessages, AnyCommand, ProbeId
<1> HIDE DEF probe
<1>3. <<probe>> \in Seq(DeviceMessages) /\ Len(<<probe>>) = 1 /\ <<probe>>[1] = probe BY <1>2
<1>4. inbox' \in [DeviceStreams -> Seq(DeviceMessages)] BY <1>1, <1>3
<1>5. 0 \notin 1..Sends BY DEF Numbered
<1>6. Faithful(<<probe>>, pending)
  <2>1. \A i \in 1..1 : i = 1 OBVIOUS
  <2> QED BY <1>2, <1>3, <1>5, <2>1 DEF Faithful, Numbered, ProbeId
<1>7. \A t \in DeviceStreams : Faithful(inbox'[t], pending') BY <1>1, <1>6
<1>8. \A r \in 1..Sends : At(<<probe>>, r) = {}
  <2>1. \A i \in 1..1 : i = 1 OBVIOUS
  <2> QED BY <1>2, <1>3, <1>5, <2>1 DEF At, ProbeId
<1>9. Addressed'
  <2>1. \A r \in 1..Sends : s \notin audience[r] BY <1>1 DEF Addressed
  <2>2. \A t \in DeviceStreams : IF t = s THEN inbox'[t] = <<probe>>
                                ELSE inbox'[t] = inbox[t] /\ stream'[t] = stream[t]
    BY <1>1
  <2>3. ASSUME NEW r \in 1..Sends, NEW t \in DeviceStreams
        PROVE  /\ t \in audience[r] => stream'[t] # "idle" /\ t[1] \in links
               /\ stream'[t] = "open" =>
                    IF t \in audience[r]
                    THEN \E i \in 1..Len(inbox'[t]) : At(inbox'[t], r) = {i}
                    ELSE At(inbox'[t], r) = {}
    <3>1. CASE t = s BY <1>8, <2>1, <2>2, <3>1
    <3>2. CASE t # s BY <2>2, <3>2 DEF Addressed
    <3> QED BY <3>1, <3>2
  <2> QED BY <1>1, <2>3 DEF Addressed
<1> QED BY <1>1, <1>4, <1>7, <1>9 DEF Numbered

LEMMA EndReplies ==
  ASSUME SessionsInv, RepliesInv, NEW s \in DeviceStreams, EndOfStream(s)
  PROVE  RepliesInv'
<1> USE DEF RepliesInv
<1>1. /\ UNCHANGED <<pending, audience, printed, links, inbox>> /\ Sends' = Sends
      /\ \A t \in DeviceStreams : IF t = s THEN stream'[t] = "ended" ELSE stream'[t] = stream[t]
  BY DEF EndOfStream, Sends, SessionsInv
<1>2. Addressed' BY <1>1 DEF Addressed
<1> QED BY <1>1, <1>2 DEF Numbered

\* A printed line names what its device was sent.
LEMMA PrintReplies ==
  ASSUME RepliesInv, printed'.names = printed'.sent,
         UNCHANGED <<pending, audience, links, inbox, stream>>
  PROVE  RepliesInv'
<1>1. Sends' = Sends BY DEF Sends
<1> QED BY <1>1 DEF RepliesInv, Numbered, Addressed

LEMMA ResponseReplies ==
  ASSUME RepliesInv, NEW s, NEW rpc, NEW sent, NEW d, NEW n, Response(s, rpc, sent, d, n),
         CommandFor(rpc) = sent
  PROVE  RepliesInv'
<1>1. printed' = [names |-> CommandFor(rpc), sent |-> sent] BY DEF Response
<1>2. printed'.names = printed'.sent BY <1>1
<1> QED BY <1>2, PrintReplies DEF Response

LEMMA AnswerReplies ==
  ASSUME RepliesInv, NEW s \in DeviceStreams, NEW d, NEW n,
         NEW msg \in Range(inbox[s]), Answer(s, msg, d, n)
  PROVE  RepliesInv'
<1>1. inbox[s] \in Seq(DeviceMessages) /\ Faithful(inbox[s], pending) BY DEF RepliesInv
<1>2. msg \in Elements(inbox[s]) BY <1>1, ElementsIn
<1>3. PICK i \in 1..Len(inbox[s]) : msg = inbox[s][i] BY <1>2 DEF Elements
<1>4. msg.rpc \in DOMAIN pending \cup {ProbeId} /\ msg.rpc # ProbeId
  BY <1>1, <1>3 DEF Faithful, Answer
<1>5. CommandFor(msg.rpc) = msg.cmd BY <1>1, <1>3, <1>4 DEF Faithful, CommandFor
<1> QED BY <1>5, ResponseReplies DEF Answer

LEMMA PushReplies ==
  ASSUME RepliesInv, NEW s, NEW d, NEW n, Push(s, d, n)
  PROVE  RepliesInv'
<1>1. NoRpcId \notin DOMAIN pending BY DEF RepliesInv, Numbered, NoRpcId
<1>2. CommandFor(NoRpcId) = NoCommand BY <1>1 DEF CommandFor
<1> QED BY <1>2, ResponseReplies DEF Push

\* The loop over the sessions gives every open stream the message once.
Sending(sent, msg) ==
  sent = [i \in 0..Len(sessions) |->
            IF i = 0 THEN inbox ELSE Delivered(sent[i - 1], sessions[i].stream, msg)]
Boxes == [DeviceStreams -> Seq(DeviceMessages)]

LEMMA SendingIs ==
  ASSUME SessionsInv, inbox \in Boxes, NEW msg \in DeviceMessages
  PROVE  \E sent : Sending(sent, msg)
<1> DEFINE n == Len(sessions)
           P(i, x) == Delivered(x, sessions[i].stream, msg)
           step == [p \in Nat \X Boxes |-> IF p[1] \in 1..n THEN P(p[1], p[2]) ELSE p[2]]
<1>1. n \in Nat /\ \A i \in 1..n : sessions[i].stream \in DeviceStreams
  <2>1. sessions \in Seq(SessionEntries) BY DEF SessionsInv
  <2>2. n \in Nat /\ \A i \in 1..n : sessions[i] \in SessionEntries BY <2>1, LenProperties
  <2> QED BY <2>2 DEF SessionEntries
<1>2. inbox \in Boxes OBVIOUS
<1> HIDE DEF n
<1>3. ASSUME NEW i \in 1..n, NEW x \in Boxes PROVE P(i, x) \in Boxes
  <2>1. sessions[i].stream \in DeviceStreams BY <1>1
  <2>2. \A t \in DeviceStreams : Append(x[t], msg) \in Seq(DeviceMessages) BY AppendProperties DEF Boxes
  <2> QED BY <2>1, <2>2 DEF Delivered, Boxes
<1> HIDE DEF P
<1>4. step \in [Nat \X Boxes -> Boxes] BY <1>3
<1>5. \A i \in 1..n, x \in Boxes : step[<<i, x>>] = P(i, x) BY <1>1
<1> HIDE DEF step
<1>6. PICK f \in [0..n -> Boxes] : Iterates(f, n, inbox, step)
  <2>1. n \in Nat BY <1>1
  <2>2. \E f \in [0..n -> Boxes] : Iterates(f, n, inbox, step)
    BY ONLY <2>1, <1>2, <1>4, Recursion
  <2> QED BY <2>2
<1>7. ASSUME NEW i \in 1..n PROVE f[i] = P(i, f[i - 1])
  <2>1. i - 1 \in 0..n BY <1>1
  <2> QED BY <1>5, <1>6, <2>1 DEF Iterates
<1>8. \A i \in 0..n : i # 0 => i \in 1..n BY <1>1
<1>9. f = [i \in 0..n |-> IF i = 0 THEN inbox ELSE P(i, f[i - 1])]
  BY <1>6, <1>7, <1>8 DEF Iterates
<1>10. Sending(f, msg) BY <1>9 DEF Sending, n, P
<1> QED BY <1>10

LEMMA BroadcastIs ==
  ASSUME SessionsInv, inbox \in Boxes, NEW cmd \in Commands, Broadcast(cmd), Sends \in Nat,
         NEW msg, msg = [rpc |-> Sends + 1, cmd |-> cmd]
  PROVE  /\ inbox' \in Boxes
         /\ \A s \in DeviceStreams :
              inbox'[s] = IF stream[s] = "open" THEN Append(inbox[s], msg) ELSE inbox[s]
<1> DEFINE n == Len(sessions)
           sent == CHOOSE f : Sending(f, msg)
<1>1. n \in Nat /\ \A i \in 1..n : sessions[i].stream \in DeviceStreams
  <2>1. sessions \in Seq(SessionEntries) BY DEF SessionsInv
  <2>2. n \in Nat /\ \A i \in 1..n : sessions[i] \in SessionEntries BY <2>1, LenProperties
  <2> QED BY <2>2 DEF SessionEntries
<1>2. msg \in DeviceMessages BY DEF DeviceMessages, AnyCommand
<1>3. Sending(sent, msg) BY <1>2, SendingIs
<1>4. inbox' = sent[n] BY DEF Broadcast, Sending, GenRpcId
<1>5. sent = [i \in 0..n |-> IF i = 0 THEN inbox
                             ELSE Delivered(sent[i - 1], sessions[i].stream, msg)]
  BY <1>3 DEF Sending
<1> HIDE DEF sent
<1>6. \A i, j \in 1..n : sessions[i].stream = sessions[j].stream => i = j
  <2>1. \A i \in 1..n : sessions[i] \in SessionEntries BY LenProperties DEF SessionsInv
  <2>2. Apart(sessions, Clashes) BY DEF SessionsInv
  <2> QED BY <2>1, <2>2 DEF Apart, Clashes
<1> HIDE DEF n
<1> DEFINE Reached(i, s) == stream[s] = "open" /\ \E j \in 1..i : sessions[j].stream = s
           After(i) == /\ sent[i] \in Boxes
                       /\ \A s \in DeviceStreams :
                            sent[i][s] = IF Reached(i, s) THEN Append(inbox[s], msg) ELSE inbox[s]
           S == {i \in Nat : i \in 0..n => After(i)}
<1>7. 0 \in S
  <2>1. sent[0] = inbox /\ 1..0 = {} BY <1>1, <1>5
  <2> QED BY <2>1
<1>8. ASSUME NEW k \in S PROVE k + 1 \in S
  <2> SUFFICES ASSUME k + 1 \in 0..n PROVE After(k + 1) OBVIOUS
  <2>1. k \in Nat /\ k \in 0..n /\ k + 1 \in 1..n /\ k + 1 # 0 /\ (k + 1) - 1 = k BY <1>1
  <2>2. After(k) BY <2>1
  <2> HIDE DEF S
  <2> DEFINE t == sessions[k + 1].stream
  <2>3. t \in DeviceStreams BY <1>1, <2>1
  <2>4. sent[k + 1] = IF stream[t] = "open" THEN [sent[k] EXCEPT ![t] = Append(sent[k][t], msg)]
                      ELSE sent[k]
    BY <1>5, <2>1 DEF Delivered
  <2>5. \A j \in 1..(k + 1) : j \in 1..k \/ j = k + 1 BY <2>1
  <2>6. \A j \in 1..k : j \in 1..(k + 1) /\ j \in 1..n /\ j # k + 1 BY <1>1, <2>1
  <2>7. ~Reached(k, t) BY <1>6, <2>1, <2>6
  <2>8. \A s \in DeviceStreams :
          Reached(k + 1, s) <=> Reached(k, s) \/ (stream[s] = "open" /\ s = t)
    <3>1. k + 1 \in 1..(k + 1) BY <2>1
    <3> QED BY <2>5, <2>6, <3>1
  <2> HIDE DEF t, Reached
  <2>9. sent[k][t] = inbox[t] BY <2>2, <2>3, <2>7
  <2>10. \A s \in DeviceStreams : Append(inbox[s], msg) \in Seq(DeviceMessages)
    BY <1>2, AppendProperties DEF Boxes
  <2>11. sent[k + 1] \in Boxes BY <2>2, <2>3, <2>4, <2>9, <2>10 DEF Boxes
  <2>12. ASSUME NEW s \in DeviceStreams
         PROVE  sent[k + 1][s] = IF Reached(k + 1, s) THEN Append(inbox[s], msg) ELSE inbox[s]
    <3>1. sent[k] \in Boxes /\ sent[k][s] = IF Reached(k, s) THEN Append(inbox[s], msg) ELSE inbox[s]
      BY <2>2
    <3>2. CASE s = t /\ stream[t] = "open"
      <4>1. sent[k + 1][s] = Append(inbox[s], msg) BY <2>3, <2>4, <2>9, <3>1, <3>2 DEF Boxes
      <4> QED BY <2>8, <3>2, <4>1
    <3>3. CASE s # t \/ stream[t] # "open"
      <4>1. sent[k + 1][s] = sent[k][s] BY <2>3, <2>4, <3>1, <3>3 DEF Boxes
      <4> QED BY <2>8, <3>1, <3>3, <4>1
    <3> QED BY <3>2, <3>3
  <2> QED BY <2>11, <2>12
<1>9. S = Nat
  <2>1. S \subseteq Nat OBVIOUS
  <2> HIDE DEF S
  <2> QED BY <1>7, <1>8, <2>1, Induct
<1>10. After(n) BY <1>1, <1>9
<1>11. \A s \in DeviceStreams : stream[s] = "open" => Reached(n, s)
  <2>1. \A s \in DeviceStreams : stream[s] = "open" => \E e \in Elements(sessions) : e.stream = s
    BY DEF SessionsInv
  <2> QED BY <2>1 DEF Elements, n
<1> QED BY <1>4, <1>10, <1>11

LEMMA CommandReplies ==
  ASSUME SessionsInv, RepliesInv, NEW cmd \in Commands, Command(cmd)
  PROVE  RepliesInv'
<1> DEFINE n == Sends
           msg == [rpc |-> n + 1, cmd |-> cmd]
<1>1. /\ n \in Nat /\ DOMAIN pending = 1..n /\ DOMAIN audience = 1..n
      /\ \A r \in 1..n : pending[r] \in Commands
      /\ inbox \in Boxes /\ Addressed /\ printed.names = printed.sent
      /\ \A s \in DeviceStreams : Faithful(inbox[s], pending)
  BY DEF RepliesInv, Numbered, Boxes
<1>2. UNCHANGED <<links, stream, printed>> /\ Broadcast(cmd) BY DEF Command
<1>3. /\ pending' = MapPut(pending, n + 1, cmd)
      /\ audience' = MapPut(audience, n + 1, {s \in DeviceStreams : stream[s] = "open"})
  BY <1>2 DEF Broadcast, GenRpcId
<1> HIDE DEF n
<1>4. msg = [rpc |-> n + 1, cmd |-> cmd] /\ msg.rpc = n + 1 /\ msg.cmd = cmd /\ msg \in DeviceMessages
  BY <1>1 DEF DeviceMessages, AnyCommand
<1> HIDE DEF msg
<1>5. /\ inbox' \in Boxes
      /\ \A s \in DeviceStreams :
           inbox'[s] = IF stream[s] = "open" THEN Append(inbox[s], msg) ELSE inbox[s]
  BY <1>1, <1>2, <1>4, BroadcastIs DEF n
<1>6. 1..(n + 1) = 1..n \cup {n + 1} /\ n + 1 \notin 1..n BY <1>1
<1>7. /\ DOMAIN pending' = 1..(n + 1) /\ DOMAIN audience' = 1..(n + 1)
      /\ pending'[n + 1] = cmd /\ \A r \in 1..n : pending'[r] = pending[r]
      /\ audience'[n + 1] = {s \in DeviceStreams : stream[s] = "open"}
      /\ \A r \in 1..n : audience'[r] = audience[r]
  BY <1>1, <1>3, <1>6 DEF MapPut
<1>8. Sends' = n + 1
  <2>1. Cardinality(1..(n + 1)) = n + 1 BY <1>1, FS_Interval
  <2> QED BY <1>7, <2>1 DEF Sends
<1>9. Numbered' /\ DOMAIN audience' = 1..Sends' BY <1>1, <1>7, <1>8 DEF Numbered
<1>10. \A r \in 1..(n + 1) : pending'[r] \in Commands BY <1>1, <1>6, <1>7
<1>11. ASSUME NEW s \in DeviceStreams PROVE Faithful(inbox'[s], pending')
  <2> DEFINE box == inbox[s]
             m == Len(box)
  <2>1. box \in Seq(DeviceMessages) BY <1>1 DEF Boxes
  <2>2. Faithful(box, pending) BY <1>1
  <2>3. 0 \notin 1..(n + 1) /\ 0 \notin 1..n BY <1>1
  <2>4. /\ m \in Nat /\ Len(Append(box, msg)) = m + 1 /\ Append(box, msg)[m + 1] = msg
        /\ \A i \in 1..m : Append(box, msg)[i] = box[i]
    BY <1>4, <2>1, AppendProperties, LenProperties
  <2>5. inbox'[s] = Append(box, msg) \/ inbox'[s] = box BY <1>5
  <2> HIDE DEF box
  <2>6. Faithful(box, pending') BY <1>1, <1>6, <1>7, <2>2, <2>3 DEF Faithful, ProbeId
  <2>7. Faithful(Append(box, msg), pending')
    <3>1. \A i \in 1..(m + 1) : i \in 1..m \/ i = m + 1 BY <2>4
    <3>2. msg.rpc \in DOMAIN pending' /\ msg.cmd = pending'[msg.rpc] BY <1>4, <1>6, <1>7
    <3> QED BY <2>4, <2>6, <3>1, <3>2 DEF Faithful
  <2> QED BY <2>5, <2>6, <2>7
<1>12. ASSUME NEW r \in 1..(n + 1), NEW s \in DeviceStreams
       PROVE  /\ s \in audience'[r] => stream[s] # "idle" /\ s[1] \in links
              /\ stream[s] = "open" =>
                   IF s \in audience'[r]
                   THEN \E i \in 1..Len(inbox'[s]) : At(inbox'[s], r) = {i}
                   ELSE At(inbox'[s], r) = {}
  <2>1. stream[s] = "open" => s[1] \in links
    <3>1. SessionsInv OBVIOUS
    <3>2. stream[s] = "open" => \E e \in Elements(sessions) : e.stream = s /\ Lives(e)
      BY <3>1 DEF SessionsInv
    <3> QED BY <3>2 DEF Lives
  <2>2. CASE r = n + 1 /\ stream[s] # "open" BY <1>7, <2>2
  <2>3. CASE r \in 1..n /\ stream[s] # "open"
    <3>1. audience'[r] = audience[r] /\ Addressed BY <1>1, <1>7, <2>3
    <3> QED BY <2>3, <3>1 DEF Addressed, n
  <2>4. CASE stream[s] = "open"
    <3> DEFINE box == inbox[s]
               m == Len(box)
    <3>1. box \in Seq(DeviceMessages) BY <1>1 DEF Boxes
    <3>2. /\ m \in Nat /\ Len(Append(box, msg)) = m + 1 /\ Append(box, msg)[m + 1] = msg
          /\ \A i \in 1..m : Append(box, msg)[i] = box[i]
      BY <1>4, <3>1, AppendProperties, LenProperties
    <3>3. inbox'[s] = Append(box, msg) BY <1>5, <2>4
    <3>4. \A i \in 1..m : box[i].rpc \in 1..n \cup {0}
      BY <1>1 DEF Faithful, ProbeId
    <3>5. \A q \in 1..n : IF s \in audience[q] THEN \E i \in 1..m : At(box, q) = {i}
                                               ELSE At(box, q) = {}
      <4>1. Addressed BY <1>1
      <4> QED BY <2>4, <4>1 DEF Addressed, n
    <3>6. At(box, r) = {i \in 1..m : box[i].rpc = r} BY DEF At
    <3> HIDE DEF box, m
    <3>7. 1..(m + 1) = 1..m \cup {m + 1} /\ m + 1 \notin 1..m BY <3>2
    <3>8. At(Append(box, msg), r) = At(box, r) \cup (IF r = n + 1 THEN {m + 1} ELSE {})
      <4>1. At(Append(box, msg), r) = {i \in 1..m \cup {m + 1} : Append(box, msg)[i].rpc = r}
        BY <3>2, <3>7 DEF At
      <4> QED BY <1>4, <3>2, <3>6, <3>7, <4>1
    <3>9. CASE r = n + 1
      <4>1. \A i \in 1..m : box[i].rpc # n + 1
        <5>1. n + 1 \notin 1..n \cup {0} BY <1>1
        <5> QED BY <3>4, <5>1
      <4>2. At(box, r) = {} BY <3>6, <3>9, <4>1
      <4>3. At(inbox'[s], r) = {m + 1} /\ m + 1 \in 1..Len(inbox'[s])
        BY <3>2, <3>3, <3>7, <3>8, <3>9, <4>2
      <4>4. s \in audience'[r] BY <1>7, <2>4, <3>9
      <4> QED BY <2>1, <2>4, <4>3, <4>4
    <3>10. CASE r \in 1..n
      <4>1. At(inbox'[s], r) = At(box, r) BY <1>6, <3>3, <3>8, <3>10
      <4>2. audience'[r] = audience[r] BY <1>7, <3>10
      <4>3. \A i \in 1..m : i \in 1..Len(inbox'[s]) BY <3>2, <3>3, <3>7
      <4> QED BY <2>1, <2>4, <3>5, <3>10, <4>1, <4>2, <4>3
    <3> QED BY <1>6, <3>9, <3>10
  <2> QED BY <1>6, <2>2, <2>3, <2>4
<1>13. Addressed' BY <1>2, <1>8, <1>12 DEF Addressed
<1> QED BY <1>1, <1>2, <1>5, <1>8, <1>9, <1>10, <1>11, <1>13 DEF RepliesInv, Boxes

LEMMA StepReplies == SessionsInv /\ RepliesInv /\ [MgmtNext]_mgmt => RepliesInv'
<1> SUFFICES ASSUME SessionsInv, RepliesInv, [MgmtNext]_mgmt PROVE RepliesInv' OBVIOUS
<1>1. ASSUME UNCHANGED mgmt PROVE RepliesInv'
  BY <1>1 DEF RepliesInv, Numbered, Addressed, Sends, mgmt
<1>2. ASSUME NEW s \in DeviceStreams, NEW d \in Ids, NEW r \in Ids, ProbeAnswer(s, d, r)
      PROVE  RepliesInv'
  BY <1>2, PrintReplies DEF ProbeAnswer, RepliesInv
<1> QED
  BY <1>1, <1>2, LinkReplies, OpenReplies, EndReplies, AnswerReplies, PushReplies, CommandReplies
  DEF MgmtNext, Ids

\* remove_by_stream, note_device and set_identity, whatever connections and
\* streams come and go in which order: a session is of a live connection, one
\* for each stream open on it, and shows what the device of that stream told.
THEOREM SessionsFollowStreams == MgmtSpec => []SessionsAreTheirDevices
<1>1. ASSUME SessionsInv PROVE SessionsAreTheirDevices
  <2>1. /\ sessions \in Seq(SessionEntries) /\ DOMAIN sessions = 1..Len(sessions)
        /\ \A i \in 1..Len(sessions) : sessions[i] \in SessionEntries
    BY <1>1, LenProperties DEF SessionsInv
  <2>2. \A i \in DOMAIN sessions : Lives(sessions[i])
    BY <1>1, <2>1 DEF SessionsInv, Elements
  <2>3. \A i, j \in DOMAIN sessions :
          sessions[i].stream = sessions[j].stream \/ sessions[i].id = sessions[j].id => i = j
    BY <1>1, <2>1 DEF SessionsInv, Apart, Clashes
  <2>4. \A s \in DeviceStreams :
          stream[s] = "open" => \E i \in DOMAIN sessions : sessions[i].stream = s
    BY <1>1, <2>1 DEF SessionsInv, Elements
  <2> QED BY <2>2, <2>3, <2>4 DEF SessionsAreTheirDevices, Lives
<1> QED BY <1>1, SessionsInit, StepSessions, PTL DEF MgmtSpec

\* send_device_request and command_for, for any number of commands, streams
\* and late answers: every open stream gets a command once, and the line
\* printed for a response names the command its device was sent.
THEOREM RepliesFollowCommands == MgmtSpec => []RepliesNameTheirCommand
<1>1. ASSUME RepliesInv PROVE RepliesNameTheirCommand
  <2>1. ASSUME NEW r \in DOMAIN pending, NEW s \in DeviceStreams, stream[s] = "open"
        PROVE  Cardinality({i \in DOMAIN inbox[s] : inbox[s][i].rpc = r})
                 = IF s \in audience[r] THEN 1 ELSE 0
    <3>1. inbox[s] \in Seq(DeviceMessages) /\ r \in 1..Sends /\ Addressed
      BY <1>1 DEF RepliesInv, Numbered
    <3>2. DOMAIN inbox[s] = 1..Len(inbox[s]) BY <3>1, LenProperties
    <3>3. {i \in DOMAIN inbox[s] : inbox[s][i].rpc = r} = At(inbox[s], r) BY <3>2 DEF At
    <3>4. IF s \in audience[r] THEN \E i \in 1..Len(inbox[s]) : At(inbox[s], r) = {i}
                               ELSE At(inbox[s], r) = {}
      BY <2>1, <3>1 DEF Addressed
    <3>5. CASE s \in audience[r]
      <4>1. PICK i : At(inbox[s], r) = {i} BY <3>4, <3>5
      <4>2. Cardinality({i}) = 1 BY FS_Singleton
      <4> QED BY <3>3, <3>5, <4>1, <4>2
    <3>6. CASE s \notin audience[r] BY <3>3, <3>4, <3>6, FS_EmptySet
    <3> QED BY <3>5, <3>6
  <2>2. printed.names = printed.sent BY <1>1 DEF RepliesInv
  <2> QED BY <2>1, <2>2 DEF RepliesNameTheirCommand
<1>2. MgmtInit => SessionsInv /\ RepliesInv BY SessionsInit, RepliesInit
<1>3. SessionsInv /\ RepliesInv /\ [MgmtNext]_mgmt => (SessionsInv /\ RepliesInv)'
  BY StepSessions, StepReplies
<1> QED BY <1>1, <1>2, <1>3, PTL DEF MgmtSpec

\* The numbers kept of commands, notifications and connections.
CountsInv ==
  /\ Sends <= MaxSends /\ opened \in 0..MaxLinks
  /\ \A r \in DOMAIN m_notif : r \in 0..MaxSends /\ m_notif[r] \in Nat \ {0}

LEMMA CountsInit == ASSUME MgmtInit PROVE CountsInv
<1>1. DOMAIN pending = {} /\ DOMAIN m_notif = {} /\ opened = 0 BY DEF MgmtInit, EmptyMap
<1>2. Sends = 0 BY <1>1, FS_EmptySet DEF Sends
<1>3. 0 <= MaxSends /\ 0 \in 0..MaxLinks BY ManagementAssumption
<1> QED BY <1>1, <1>2, <1>3 DEF CountsInv

\* A command is counted once.
LEMMA CommandCounts ==
  ASSUME RepliesInv, RepliesInv', CountsInv, NEW cmd, Command(cmd)
  PROVE  CountsInv'
<1>1. /\ DOMAIN pending = 1..Sends /\ Sends \in Nat
      /\ DOMAIN pending' = 1..Sends' /\ Sends' \in Nat
  BY DEF RepliesInv, Numbered
<1>2. DOMAIN pending' = DOMAIN pending \cup {Sends + 1} /\ Sends < MaxSends
  BY DEF Command, Broadcast, GenRpcId, MapPut
<1>3. UNCHANGED <<m_notif, opened>> BY DEF Command
<1> DEFINE n == Sends
           m == Sends'
<1>4. n \in Nat /\ m \in Nat /\ 1..m = 1..n \cup {n + 1} /\ n < MaxSends BY <1>1, <1>2
<1> HIDE DEF n, m
<1>5. m <= n + 1
  <2>1. m # 0 => m \in 1..m BY <1>4
  <2> QED BY <1>4, <2>1
<1>6. m <= MaxSends BY <1>4, <1>5, ManagementAssumption
<1> QED BY <1>3, <1>6 DEF CountsInv, m

\* A response adds at most one notification, to the rpc id it names.
LEMMA ResponseCounts ==
  ASSUME CountsInv, NEW s, NEW r \in 0..MaxSends, NEW sent, NEW d, NEW n,
         Response(s, r, sent, d, n)
  PROVE  CountsInv'
<1>1. UNCHANGED <<pending, opened>> /\ (m_notif' = m_notif \/ m_notif' = NextNotif(r))
  BY DEF Response
<1>2. Sends' = Sends BY <1>1 DEF Sends
<1>3. CASE m_notif' = m_notif BY <1>1, <1>2, <1>3 DEF CountsInv
<1>4. CASE m_notif' = NextNotif(r)
  <2> DEFINE v == IF r \in DOMAIN m_notif THEN m_notif[r] + 1 ELSE 1
  <2>1. v \in Nat \ {0} BY DEF CountsInv
  <2> HIDE DEF v
  <2>2. m_notif' = [x \in DOMAIN m_notif \cup {r} |-> IF x = r THEN v ELSE m_notif[x]]
    BY <1>4 DEF NextNotif, MapPut, v
  <2>3. ASSUME NEW x \in DOMAIN m_notif' PROVE x \in 0..MaxSends /\ m_notif'[x] \in Nat \ {0}
    <3>1. CASE x = r BY <2>1, <2>2, <3>1
    <3>2. CASE x # r
      <4>1. x \in DOMAIN m_notif /\ m_notif'[x] = m_notif[x] BY <2>2, <3>2
      <4> QED BY <4>1 DEF CountsInv
    <3> QED BY <3>1, <3>2
  <2> QED BY <1>1, <1>2, <2>3 DEF CountsInv
<1> QED BY <1>1, <1>3, <1>4

LEMMA AnswerCounts ==
  ASSUME RepliesInv, CountsInv, NEW s \in DeviceStreams, NEW d, NEW n,
         NEW msg \in Range(inbox[s]), Answer(s, msg, d, n)
  PROVE  CountsInv'
<1>1. inbox[s] \in Seq(DeviceMessages) /\ Faithful(inbox[s], pending) /\ Numbered
  BY DEF RepliesInv
<1>2. msg \in Elements(inbox[s]) BY <1>1, ElementsIn
<1>3. PICK i \in 1..Len(inbox[s]) : msg = inbox[s][i] BY <1>2 DEF Elements
<1>4. msg.rpc \in DOMAIN pending \cup {ProbeId} /\ msg.rpc # ProbeId
  BY <1>1, <1>3 DEF Faithful, Answer
<1>5. msg.rpc \in 0..MaxSends
  BY <1>1, <1>4, ManagementAssumption DEF Numbered, CountsInv
<1>6. Response(s, msg.rpc, msg.cmd, d, n) BY DEF Answer
<1> QED BY <1>5, <1>6, ResponseCounts

LEMMA PushCounts ==
  ASSUME CountsInv, NEW s, NEW d, NEW n, Push(s, d, n)
  PROVE  CountsInv'
<1>1. 0 \in 0..MaxSends BY ManagementAssumption
<1>2. Response(s, 0, NoCommand, d, n) BY DEF Push, NoRpcId
<1> QED BY <1>1, <1>2, ResponseCounts

LEMMA CountsStep ==
  ASSUME RepliesInv, RepliesInv', CountsInv, [MgmtNext]_mgmt
  PROVE  CountsInv'
<1>1. ASSUME UNCHANGED <<pending, m_notif, opened>> PROVE CountsInv'
  BY <1>1 DEF CountsInv, Sends
<1>2. ASSUME NEW c \in Links, LinkUp(c) PROVE CountsInv'
  <2>1. UNCHANGED <<pending, m_notif>> /\ opened < MaxLinks /\ opened' = opened + 1
    BY <1>2 DEF LinkUp
  <2>2. opened' \in 0..MaxLinks BY <2>1, ManagementAssumption DEF CountsInv
  <2> QED BY <2>1, <2>2 DEF CountsInv, Sends
<1>3. ASSUME NEW c \in Links, LinkDown(c) PROVE CountsInv' BY <1>1, <1>3 DEF LinkDown
<1>4. ASSUME NEW s \in DeviceStreams, OpenSession(s) \/ EndOfStream(s) PROVE CountsInv'
  BY <1>1, <1>4 DEF OpenSession, EndOfStream
<1>5. ASSUME NEW s \in DeviceStreams, NEW d \in Ids, NEW r \in Ids, ProbeAnswer(s, d, r)
      PROVE  CountsInv'
  BY <1>1, <1>5 DEF ProbeAnswer
<1> QED
  BY <1>1, <1>2, <1>3, <1>4, <1>5, PushCounts, AnswerCounts, CommandCounts DEF MgmtNext, mgmt, Ids

\* The hub, for any connections, devices and commands: a session has an id
\* that was given out, a request one of the commands typed, and only a
\* request that was sent, or the empty rpc id of a push, has notifications
\* counted.
THEOREM MgmtTyped == MgmtSpec => []MgmtTypeOK
<1>1. SessionsInv /\ RepliesInv /\ CountsInv => MgmtTypeOK
  <2> SUFFICES ASSUME SessionsInv, RepliesInv, CountsInv PROVE MgmtTypeOK OBVIOUS
  <2>1. /\ sessions \in Seq(SessionEntries) /\ DOMAIN sessions = 1..Len(sessions)
        /\ \A i \in DOMAIN sessions : sessions[i] \in SessionEntries /\ Lives(sessions[i])
    BY LenProperties DEF SessionsInv, Elements
  <2>2. ASSUME NEW i \in DOMAIN sessions
        PROVE  /\ sessions[i].stream \in DeviceStreams /\ sessions[i].id \in 1..nextId
               /\ sessions[i].device \in Ids /\ sessions[i].role \in Ids
    <3>1. sessions[i] \in SessionEntries /\ sessions[i].id <= nextId /\ nextId \in Nat
      BY <2>1 DEF Lives, SessionsInv
    <3> QED BY <3>1 DEF SessionEntries
  <2>3. ASSUME NEW r \in DOMAIN pending PROVE r \in 1..MaxSends /\ pending[r] \in Commands
    <3>1. r \in 1..Sends /\ Sends \in Nat /\ Sends <= MaxSends
      BY DEF RepliesInv, Numbered, CountsInv
    <3>2. r \in 1..MaxSends BY <3>1, ManagementAssumption
    <3> QED BY <3>1, <3>2 DEF RepliesInv
  <2>4. \A r \in DOMAIN m_notif : r \in 0..MaxSends /\ m_notif[r] \in Nat \ {0}
    <3>1. \A r \in 1..MaxSends : r \in 0..MaxSends BY ManagementAssumption
    <3> QED BY <3>1 DEF CountsInv
  <2> QED BY <2>2, <2>3, <2>4 DEF MgmtTypeOK, SessionsInv, CountsInv, Ids
<1>2. MgmtInit => SessionsInv /\ RepliesInv /\ CountsInv
  BY SessionsInit, RepliesInit, CountsInit
<1>3. SessionsInv /\ RepliesInv /\ CountsInv /\ [MgmtNext]_mgmt
        => (SessionsInv /\ RepliesInv /\ CountsInv)'
  BY StepSessions, StepReplies, CountsStep
<1> QED BY <1>1, <1>2, <1>3, PTL DEF MgmtSpec

-----------------------------------------------------------------------------
(* Telemetry: what a Set means for a list of paths.                        *)

Paths == Seq(Elems)
Notes == [updated : Seq(Paths), deleted : Seq(Paths)]
Subs == [stream : Streams, paths : PathLists]

\* The paths that are at or below one of the list.
Covers(paths) == {p \in Paths : paths = {} \/ \E sp \in paths : IsPrefix(sp, p)}
Note(paths, req) ==
  [updated |-> Below(paths, req.update \o req.replace), deleted |-> Below(paths, req.delete)]

LEMMA RequestFacts ==
  ASSUME NEW req \in Requests
  PROVE  {req.update, req.replace, req.delete} \subseteq Seq(Paths)
BY TelemetryAssumption DEF Paths

LEMMA BelowIs ==
  ASSUME NEW paths, NEW ps \in Seq(Paths)
  PROVE  /\ Below(paths, ps) = Keep(ps, Covers(paths))
         /\ Below(paths, ps) \in Seq(Paths)
<1>1. Range(ps) \subseteq Paths BY ElementsIn
<1> DEFINE K == {p \in Range(ps) : paths = {} \/ \E sp \in paths : IsPrefix(sp, p)}
<1>2. \A p \in Range(ps) : p \in K <=> p \in Covers(paths) BY <1>1 DEF Covers
<1>3. Below(paths, ps) = Keep(ps, K) BY DEF Below
<1> HIDE DEF K
<1>4. Keep(ps, K) = Keep(ps, Covers(paths)) BY <1>2, KeepRange
<1> QED BY <1>3, <1>4, KeepSeq

\* matches accepts the paths below one of the list, the list itself and the
\* root being special cases of a beginning.
LEMMA MatchesIs ==
  ASSUME NEW paths \in PathLists, NEW p \in Paths
  PROVE  Matches(paths, p) <=> p \in Covers(paths)
<1>1. paths \subseteq Paths BY TelemetryAssumption DEF Paths
<1>2. IsPrefix(p, p)
  <2>1. Len(p) \in Nat BY LenProperties DEF Paths
  <2> QED BY <2>1 DEF IsPrefix
<1>3. IsPrefix(<<>>, p)
  <2>1. Len(p) \in Nat /\ Len(<<>>) = 0 BY LenProperties, EmptySeq DEF Paths
  <2>2. SubSeq(<<>>, 1, 0) = <<>> /\ SubSeq(p, 1, 0) = <<>> BY SubSeqEmpty
  <2> QED BY <2>1, <2>2 DEF IsPrefix
<1>4. ASSUME NEW sp \in paths
      PROVE  IsPrefix(sp, p) <=> IsStrictPrefix(sp, p) \/ sp = p
  BY <1>2 DEF IsStrictPrefix
<1> QED BY <1>2, <1>3, <1>4 DEF Matches, Covers

LEMMA NotificationIs ==
  ASSUME NEW paths \in PathLists, NEW req \in Requests
  PROVE  Notification(paths, req) = Note(paths, req) /\ Note(paths, req) \in Notes
<1> DEFINE u == req.update
           r == req.replace
           d == req.delete
<1>1. u \in Seq(Paths) /\ r \in Seq(Paths) /\ d \in Seq(Paths) BY RequestFacts
<1>2. Notification(paths, req) = [updated |-> Covered(paths, u) \o Covered(paths, r),
                                  deleted |-> Covered(paths, d)]
  BY DEF Notification
<1>3. Note(paths, req) = [updated |-> Below(paths, u \o r), deleted |-> Below(paths, d)]
  BY DEF Note
<1> HIDE DEF u, r, d
<1>4. ASSUME NEW ps \in Seq(Paths) PROVE Covered(paths, ps) = Keep(ps, Covers(paths))
  <2>1. Range(ps) \subseteq Paths BY ElementsIn
  <2> DEFINE K == {p \in Range(ps) : Matches(paths, p)}
  <2>2. \A p \in Range(ps) : p \in K <=> p \in Covers(paths) BY <2>1, MatchesIs
  <2>3. Covered(paths, ps) = Keep(ps, K) BY DEF Covered
  <2> HIDE DEF K
  <2> QED BY <2>2, <2>3, KeepRange
<1>5. u \o r \in Seq(Paths) BY <1>1, ConcatProperties
<1>6. Below(paths, u \o r) = Keep(u, Covers(paths)) \o Keep(r, Covers(paths))
  <2>1. Below(paths, u \o r) = Keep(u \o r, Covers(paths)) BY <1>5, BelowIs
  <2>2. Keep(u \o r, Covers(paths)) = Keep(u, Covers(paths)) \o Keep(r, Covers(paths))
    BY <1>1, KeepConcat
  <2> QED BY <2>1, <2>2
<1>7. Below(paths, d) = Keep(d, Covers(paths)) BY <1>1, BelowIs
<1>8. Below(paths, u \o r) \in Seq(Paths) /\ Below(paths, d) \in Seq(Paths)
  BY <1>1, <1>5, BelowIs
<1>9. Note(paths, req) \in Notes BY <1>3, <1>8 DEF Notes
<1> QED BY <1>1, <1>2, <1>3, <1>4, <1>6, <1>7, <1>9

\* The messages of a history, one longer for a Set that concerns the list.
NotesOf(paths, reqs) == [i \in DOMAIN reqs |-> Note(paths, reqs[i])]

LEMMA ConcerningIs ==
  ASSUME NEW paths \in PathLists, NEW reqs \in Seq(Requests)
  PROVE  /\ NotesOf(paths, reqs) \in Seq(Notes)
         /\ Len(NotesOf(paths, reqs)) = Len(reqs)
         /\ Concerning(paths, reqs) = Keep(NotesOf(paths, reqs), Notes \ {Sync})
         /\ Concerning(paths, reqs) \in Seq(Notes)
<1> DEFINE n == Len(reqs)
           all == NotesOf(paths, reqs)
<1>1. n \in Nat /\ DOMAIN reqs = 1..n /\ \A i \in 1..n : reqs[i] \in Requests BY LenProperties
<1> HIDE DEF n
<1>2. all \in [1..n -> Notes] BY <1>1, NotificationIs DEF NotesOf
<1>3. all \in Seq(Notes) BY <1>1, <1>2, SeqDef
<1>4. Len(all) = n BY <1>1, <1>2, <1>3, LenProperties
<1> DEFINE K == Range(all) \ {Sync}
<1>5. Concerning(paths, reqs) = Keep(all, K) BY DEF Concerning, NotesOf, Note
<1> HIDE DEF all
<1>6. Range(all) \subseteq Notes BY <1>3, ElementsIn
<1>7. \A x \in Range(all) : x \in K <=> x \in Notes \ {Sync} BY <1>6
<1> HIDE DEF K
<1>8. Keep(all, K) = Keep(all, Notes \ {Sync}) BY <1>3, <1>7, KeepRange
<1>9. Keep(all, Notes \ {Sync}) \in Seq(Notes) BY <1>3, KeepSeq
<1> QED BY <1>3, <1>4, <1>5, <1>8, <1>9 DEF all, n

LEMMA ConcerningEmpty ==
  ASSUME NEW paths \in PathLists
  PROVE  Concerning(paths, <<>>) = <<>>
<1>1. <<>> \in Seq(Requests) /\ Len(<<>>) = 0 BY EmptySeq
<1>2. NotesOf(paths, <<>>) \in Seq(Notes) /\ Len(NotesOf(paths, <<>>)) = 0
  BY <1>1, ConcerningIs
<1>3. NotesOf(paths, <<>>) = <<>> BY <1>2, EmptySeq
<1> QED BY <1>1, <1>3, ConcerningIs, KeepEmpty

LEMMA ConcerningAppend ==
  ASSUME NEW paths \in PathLists, NEW reqs \in Seq(Requests), NEW req \in Requests
  PROVE  /\ Note(paths, req) = Sync =>
              Concerning(paths, Append(reqs, req)) = Concerning(paths, reqs)
         /\ Note(paths, req) # Sync =>
              Concerning(paths, Append(reqs, req))
                = Append(Concerning(paths, reqs), Note(paths, req))
<1> DEFINE a == NotesOf(paths, reqs)
           b == NotesOf(paths, Append(reqs, req))
           x == Note(paths, req)
           n == Len(reqs)
<1>1. n \in Nat /\ DOMAIN reqs = 1..n BY LenProperties
<1>2. /\ Append(reqs, req) \in Seq(Requests) /\ Len(Append(reqs, req)) = n + 1
      /\ \A i \in 1..n : Append(reqs, req)[i] = reqs[i]
      /\ Append(reqs, req)[n + 1] = req
  BY AppendProperties
<1>3. DOMAIN Append(reqs, req) = 1..(n + 1) BY <1>2, LenProperties
<1>4. /\ a \in Seq(Notes) /\ Len(a) = n
      /\ Concerning(paths, reqs) = Keep(a, Notes \ {Sync})
  BY ConcerningIs
<1>5. /\ b \in Seq(Notes) /\ Len(b) = n + 1
      /\ Concerning(paths, Append(reqs, req)) = Keep(b, Notes \ {Sync})
  BY <1>2, ConcerningIs
<1>6. x \in Notes BY NotificationIs
<1>7. \A i \in 1..n : a[i] = Note(paths, reqs[i]) BY <1>1 DEF NotesOf
<1>8. \A i \in 1..(n + 1) : b[i] = Note(paths, Append(reqs, req)[i]) BY <1>3 DEF NotesOf
<1>9. \A i \in 1..(n + 1) : i \in 1..n \/ i = n + 1 BY <1>1
<1>10. \A i \in 1..n : i \in 1..(n + 1) BY <1>1
<1>11. n + 1 \in 1..(n + 1) BY <1>1
<1> HIDE DEF a, b, n
<1>12. (\A i \in 1..n : b[i] = a[i]) /\ b[n + 1] = x BY <1>2, <1>7, <1>8, <1>10, <1>11
<1> HIDE DEF x
<1>13. b = Append(a, x)
  <2>1. /\ Append(a, x) \in Seq(Notes) /\ Len(Append(a, x)) = n + 1
        /\ \A i \in 1..n : Append(a, x)[i] = a[i]
        /\ Append(a, x)[n + 1] = x
    BY <1>4, <1>6, AppendProperties
  <2>2. \A i \in 1..(n + 1) : b[i] = Append(a, x)[i] BY <1>9, <1>12, <2>1
  <2>3. b \in Seq(Notes) /\ Len(b) = Len(Append(a, x)) BY <1>5, <2>1
  <2>4. \A i \in 1..Len(b) : b[i] = Append(a, x)[i] BY <1>5, <2>2
  <2> QED BY ONLY <2>1, <2>3, <2>4, SeqEqual
<1>14. x = Sync => Keep(b, Notes \ {Sync}) = Keep(a, Notes \ {Sync})
  BY <1>4, <1>6, <1>13, KeepAppend
<1>15. x # Sync => Keep(b, Notes \ {Sync}) = Append(Keep(a, Notes \ {Sync}), x)
  BY <1>4, <1>6, <1>13, KeepAppend
<1> QED BY <1>4, <1>5, <1>14, <1>15 DEF x

-----------------------------------------------------------------------------
(* Telemetry: subscriptions.                                               *)

SameStream == {p \in Subs \X Subs : p[1].stream = p[2].stream}
Inboxes == [Streams -> Seq(Notes)]

\* What the client of a subscription should have received by now.
Owed(e) ==
  <<Sync>> \o Concerning(e.paths, SubSeq(history, since[e.stream] + 1, Len(history)))

\* A subscription is of a live connection, and of a stream that was accepted
\* and got what it is owed as long as it is not reset.
IsServed(e) ==
  /\ e.stream[1] \in clients
  /\ call[e.stream] \in {"streaming", "reset"}
  /\ call[e.stream] = "streaming" => got[e.stream] = Owed(e)

FanInv ==
  /\ subs \in Seq(Subs) /\ history \in Seq(Requests)
  /\ call \in [Streams -> {"idle", "streaming", "ended", "reset"}]
  /\ got \in Inboxes
  /\ since \in [Streams -> Nat] /\ \A s \in Streams : since[s] <= Len(history)
  /\ Apart(subs, SameStream)
  /\ \A e \in Elements(subs) : IsServed(e)
  /\ \A s \in Streams :
       call[s] = "streaming" => \E e \in Elements(subs) : e.stream = s

LEMMA SyncIsNote == Sync \in Notes /\ <<Sync>> \in Seq(Notes) /\ <<>> \in Seq(Notes)
<1>1. <<>> \in Seq(Paths) BY EmptySeq
<1> QED BY <1>1, EmptySeq DEF Sync, Notes

LEMMA FanInit == TeleInit => FanInv
<1> SUFFICES ASSUME TeleInit PROVE FanInv OBVIOUS
<1>1. subs = <<>> /\ subs \in Seq(Subs) BY EmptySeq DEF TeleInit
<1>2. Elements(subs) = {} /\ Apart(subs, SameStream) BY <1>1, ElementsEmpty
<1>3. history = <<>> /\ history \in Seq(Requests) /\ Len(history) = 0
  BY EmptySeq DEF TeleInit
<1>4. \A s \in Streams : call[s] = "idle" BY DEF TeleInit
<1> QED BY <1>1, <1>2, <1>3, <1>4, SyncIsNote DEF TeleInit, FanInv, Inboxes

LEMMA AcceptFan ==
  ASSUME FanInv, NEW c, Accept(c)
  PROVE  FanInv'
<1>1. \A e \in Elements(subs) : IsServed(e)'
  BY DEF FanInv, Accept, IsServed, Owed
<1> QED BY <1>1 DEF FanInv, Accept

LEMMA CancelFan ==
  ASSUME FanInv, NEW s \in Streams, CancelSubscription(s)
  PROVE  FanInv'
<1> USE DEF FanInv
<1>1. call' = [call EXCEPT ![s] = "reset"] /\ UNCHANGED <<clients, subs, got, history, since>>
  BY DEF CancelSubscription
<1>2. \A e \in Elements(subs) : e.stream \in Streams
  <2>1. subs \in Seq(Subs) OBVIOUS
  <2>2. Elements(subs) \subseteq Subs BY <2>1, ElementsIn
  <2> QED BY <2>2 DEF Subs
<1>3. \A e \in Elements(subs) : IsServed(e)' BY <1>1, <1>2 DEF IsServed, Owed
<1>4. call' \in [Streams -> {"idle", "streaming", "ended", "reset"}] BY <1>1
<1>5. \A t \in Streams : call'[t] = "streaming" => call[t] = "streaming" BY <1>1
<1> QED BY <1>1, <1>3, <1>4, <1>5

LEMMA DisconnectFan ==
  ASSUME FanInv, NEW c, Disconnect(c)
  PROVE  FanInv'
<1> USE DEF FanInv
<1> DEFINE K == {e \in Range(subs) : e.stream[1] # c}
<1>1. /\ clients' = clients \ {c} /\ subs' = Keep(subs, K) /\ history' = history
      /\ call' = [s \in Streams |-> IF s[1] = c THEN "idle" ELSE call[s]]
      /\ got' = [s \in Streams |-> IF s[1] = c THEN <<>> ELSE got[s]]
      /\ since' = [s \in Streams |-> IF s[1] = c THEN 0 ELSE since[s]]
  BY DEF Disconnect, RemoveSubs, NoStreams
<1>2. subs \in Seq(Subs) /\ Len(history) \in Nat
  <2>1. history \in Seq(Requests) OBVIOUS
  <2> QED BY <2>1, LenProperties
<1>3. \A x \in Elements(subs) : x \in Range(subs) /\ x \in Subs /\ x.stream \in Streams
  <2>1. \A x \in Elements(subs) : x \in Range(subs) /\ x \in Subs BY <1>2, ElementsIn
  <2> QED BY <2>1 DEF Subs
<1>4. \A x \in Elements(subs) : x \in K <=> x.stream[1] # c BY <1>3
<1> HIDE DEF K
<1>5. Elements(subs') = Elements(subs) \cap K BY <1>1, <1>2, KeepElements
<1>6. subs' \in Seq(Subs) BY <1>1, <1>2, KeepSeq
<1>7. Apart(subs', SameStream) BY <1>1, <1>2, KeepApart
<1>8. ASSUME NEW x \in Elements(subs') PROVE IsServed(x)'
  <2>1. x \in Elements(subs) /\ x.stream[1] # c /\ IsServed(x) /\ x.stream \in Streams
    BY <1>3, <1>4, <1>5, <1>8
  <2>2. /\ call'[x.stream] = call[x.stream] /\ got'[x.stream] = got[x.stream]
        /\ since'[x.stream] = since[x.stream]
    BY <1>1, <2>1
  <2> QED BY <1>1, <2>1, <2>2 DEF IsServed, Owed
<1>9. ASSUME NEW s \in Streams, call'[s] = "streaming"
      PROVE  \E x \in Elements(subs') : x.stream = s
  <2>1. s[1] # c /\ call[s] = "streaming" BY <1>1, <1>9
  <2>2. PICK x \in Elements(subs) : x.stream = s BY <2>1
  <2> QED BY <1>4, <1>5, <2>1, <2>2
<1>10. call' \in [Streams -> {"idle", "streaming", "ended", "reset"}] BY <1>1
<1>11. got' \in Inboxes BY <1>1, SyncIsNote DEF Inboxes
<1>12. since' \in [Streams -> Nat] /\ \A s \in Streams : since'[s] <= Len(history)
  BY <1>1, <1>2
<1> QED BY <1>1, <1>6, <1>7, <1>8, <1>9, <1>10, <1>11, <1>12

LEMMA StartFan ==
  ASSUME FanInv, NEW s \in Streams, NEW how \in {"STREAM", "ONCE", "BAD"},
         NEW paths \in PathLists, StartSubscription(s, how, paths)
  PROVE  FanInv'
<1> USE DEF FanInv
<1> DEFINE e == [stream |-> s, paths |-> paths]
           now == IF how = "STREAM" THEN "streaming" ELSE "ended"
           box == IF how = "BAD" THEN <<>> ELSE <<Sync>>
<1>1. /\ s[1] \in clients /\ call[s] = "idle"
      /\ got' = [got EXCEPT ![s] = box]
      /\ call' = [call EXCEPT ![s] = now]
      /\ subs' = IF how = "STREAM" THEN Append(subs, e) ELSE subs
      /\ since' = [since EXCEPT ![s] = Len(history)]
      /\ UNCHANGED <<clients, history>>
  BY DEF StartSubscription, AddSub
<1>2. subs \in Seq(Subs) /\ Len(history) \in Nat
  <2>1. history \in Seq(Requests) OBVIOUS
  <2> QED BY <2>1, LenProperties
<1>3. e \in Subs /\ e.stream = s /\ e.paths = paths BY DEF Subs
<1>4. how = "STREAM" => now = "streaming" /\ box = <<Sync>> OBVIOUS
<1>5. how # "STREAM" => now = "ended" OBVIOUS
<1>6. now \in {"streaming", "ended"} /\ box \in Seq(Notes) BY SyncIsNote
<1> HIDE DEF e, now, box
<1>7. call' \in [Streams -> {"idle", "streaming", "ended", "reset"}] BY <1>1, <1>6
<1>8. got' \in Inboxes BY <1>1, <1>6 DEF Inboxes
<1>9. since' \in [Streams -> Nat] /\ \A t \in Streams : since'[t] <= Len(history)
  BY <1>1, <1>2
<1>10. ASSUME NEW x \in Elements(subs)
       PROVE  x \in Subs /\ x.stream # s /\ IsServed(x)'
  <2>1. x \in Subs /\ x.stream \in Streams
    <3>1. x \in Subs BY <1>2, ElementsIn
    <3> QED BY <3>1 DEF Subs
  <2>2. IsServed(x) OBVIOUS
  <2>3. x.stream # s BY <1>1, <2>2 DEF IsServed
  <2>4. /\ call'[x.stream] = call[x.stream] /\ got'[x.stream] = got[x.stream]
        /\ since'[x.stream] = since[x.stream]
    BY <1>1, <2>1, <2>3
  <2> QED BY <1>1, <2>1, <2>2, <2>3, <2>4 DEF IsServed, Owed
<1>11. CASE how = "STREAM"
  <2>1. subs' = Append(subs, e) /\ call'[s] = "streaming" /\ got'[s] = <<Sync>>
        /\ since'[s] = Len(history)
    BY <1>1, <1>4, <1>11 DEF Inboxes
  <2>2. Elements(subs') = Elements(subs) \cup {e} BY <1>2, <1>3, <2>1, ElementsAppend
  <2>3. subs' \in Seq(Subs) BY <1>2, <1>3, <2>1, AppendProperties
  <2>4. Apart(subs', SameStream)
    <3>1. \A x \in Elements(subs) : <<x, e>> \notin SameStream /\ <<e, x>> \notin SameStream
      BY <1>3, <1>10 DEF SameStream
    <3> QED BY <1>2, <1>3, <2>1, <3>1, ApartAppend
  <2>5. IsServed(e)'
    <3>1. SubSeq(history, Len(history) + 1, Len(history)) = <<>> BY <1>2, SubSeqEmpty
    <3>2. Concerning(paths, <<>>) = <<>> BY ConcerningEmpty
    <3>3. <<Sync>> \o <<>> = <<Sync>> BY SyncIsNote, ConcatEmptySeq
    <3> QED BY <1>1, <1>3, <2>1, <3>1, <3>2, <3>3 DEF IsServed, Owed
  <2>6. ASSUME NEW t \in Streams, call'[t] = "streaming"
        PROVE  \E x \in Elements(subs') : x.stream = t
    <3>1. CASE t = s BY <1>3, <2>2, <3>1
    <3>2. CASE t # s
      <4>1. call[t] = "streaming" BY <1>1, <2>6, <3>2
      <4> QED BY <2>2, <4>1
    <3> QED BY <3>1, <3>2
  <2> QED BY <1>1, <1>7, <1>8, <1>9, <1>10, <2>2, <2>3, <2>4, <2>5, <2>6
<1>12. CASE how # "STREAM"
  <2>1. subs' = subs /\ call'[s] = "ended" BY <1>1, <1>5, <1>12
  <2>2. ASSUME NEW t \in Streams, call'[t] = "streaming" PROVE call[t] = "streaming"
    BY <1>1, <2>1, <2>2
  <2> QED BY <1>1, <1>7, <1>8, <1>9, <1>10, <2>1, <2>2
<1> QED BY <1>11, <1>12

\* The loop over the subscriptions sends each that streams its message once.
Publishing(sent, req) ==
  sent = [i \in 0..Len(subs) |->
            IF i = 0 THEN got
            ELSE IF Notification(subs[i].paths, req) = Sync THEN sent[i - 1]
                 ELSE Sent(sent[i - 1], subs[i].stream, Notification(subs[i].paths, req))]

LEMMA SentIs ==
  ASSUME NEW g \in Inboxes, NEW s \in Streams, NEW msg \in Notes
  PROVE  /\ Sent(g, s, msg) \in Inboxes
         /\ call[s] = "streaming" => Sent(g, s, msg)[s] = Append(g[s], msg)
         /\ \A t \in Streams : t # s => Sent(g, s, msg)[t] = g[t]
<1>1. g[s] \in Seq(Notes) BY DEF Inboxes
<1>2. Append(g[s], msg) \in Seq(Notes) BY <1>1, AppendProperties
<1> QED BY <1>2 DEF Sent, Inboxes

LEMMA SubFacts ==
  ASSUME FanInv
  PROVE  /\ Len(subs) \in Nat
         /\ \A i \in 1..Len(subs) :
              subs[i] \in Subs /\ subs[i].stream \in Streams /\ subs[i].paths \in PathLists
         /\ \A i, j \in 1..Len(subs) : subs[i].stream = subs[j].stream => i = j
<1>1. subs \in Seq(Subs) BY DEF FanInv
<1>2. Len(subs) \in Nat /\ \A i \in 1..Len(subs) : subs[i] \in Subs BY <1>1, LenProperties
<1>3. \A i, j \in 1..Len(subs) : <<subs[i], subs[j]>> \in SameStream => i = j
  BY DEF FanInv, Apart
<1>4. \A i, j \in 1..Len(subs) :
        subs[i].stream = subs[j].stream => <<subs[i], subs[j]>> \in SameStream
  BY <1>2 DEF SameStream
<1> QED BY <1>2, <1>3, <1>4 DEF Subs

LEMMA PublishingIs ==
  ASSUME FanInv, NEW req \in Requests
  PROVE  \E sent : Publishing(sent, req) /\ Publish(req) = sent[Len(subs)]
<1> DEFINE n == Len(subs)
           note(i) == Notification(subs[i].paths, req)
           P(i, x) == IF note(i) = Sync THEN x ELSE Sent(x, subs[i].stream, note(i))
           step == [p \in Nat \X Inboxes |-> IF p[1] \in 1..n THEN P(p[1], p[2]) ELSE p[2]]
<1>1. n \in Nat /\ \A i \in 1..n : subs[i].stream \in Streams /\ subs[i].paths \in PathLists
  BY SubFacts
<1>2. got \in Inboxes BY DEF FanInv
<1>3. \A i \in 1..n : note(i) \in Notes BY <1>1, NotificationIs
<1> HIDE DEF n, note
<1>4. ASSUME NEW i \in 1..n, NEW x \in Inboxes PROVE P(i, x) \in Inboxes
  BY <1>1, <1>3, SentIs
<1> HIDE DEF P
<1>5. step \in [Nat \X Inboxes -> Inboxes] BY <1>4
<1>6. \A i \in 1..n, x \in Inboxes : step[<<i, x>>] = P(i, x) BY <1>1
<1> HIDE DEF step
<1>7. PICK f \in [0..n -> Inboxes] : Iterates(f, n, got, step)
  <2>1. n \in Nat BY <1>1
  <2>2. \E f \in [0..n -> Inboxes] : Iterates(f, n, got, step)
    BY ONLY <2>1, <1>2, <1>5, Recursion
  <2> QED BY <2>2
<1>8. ASSUME NEW i \in 1..n PROVE f[i] = P(i, f[i - 1])
  <2>1. i - 1 \in 0..n BY <1>1
  <2> QED BY <1>6, <1>7, <2>1 DEF Iterates
<1>9. \A i \in 0..n : i # 0 => i \in 1..n BY <1>1
<1>10. f = [i \in 0..n |-> IF i = 0 THEN got ELSE P(i, f[i - 1])]
  BY <1>7, <1>8, <1>9 DEF Iterates
<1>11. Publishing(f, req) BY <1>10 DEF Publishing, n, P, note
<1> DEFINE sent == CHOOSE g : Publishing(g, req)
<1>12. Publishing(sent, req) BY <1>11
<1>13. Publish(req) = sent[Len(subs)] BY DEF Publish, Publishing
<1> QED BY <1>12, <1>13

LEMMA PublishIs ==
  ASSUME FanInv, NEW req \in Requests
  PROVE  /\ Publish(req) \in Inboxes
         /\ \A e \in Elements(subs) :
              call[e.stream] = "streaming" =>
                /\ Note(e.paths, req) = Sync => Publish(req)[e.stream] = got[e.stream]
                /\ Note(e.paths, req) # Sync =>
                     Publish(req)[e.stream] = Append(got[e.stream], Note(e.paths, req))
<1> DEFINE n == Len(subs)
           t(i) == subs[i].stream
           note(i) == Note(subs[i].paths, req)
           all(i) == IF note(i) = Sync THEN got[t(i)] ELSE Append(got[t(i)], note(i))
<1>1. /\ n \in Nat
      /\ \A i \in 1..n : t(i) \in Streams /\ subs[i].paths \in PathLists
      /\ \A i, j \in 1..n : t(i) = t(j) => i = j
  BY SubFacts
<1>2. \A i \in 1..n : Notification(subs[i].paths, req) = note(i) /\ note(i) \in Notes
  BY <1>1, NotificationIs
<1>3. PICK sent : Publishing(sent, req) /\ Publish(req) = sent[n] BY PublishingIs
<1>4. sent = [i \in 0..n |->
                IF i = 0 THEN got
                ELSE IF Notification(subs[i].paths, req) = Sync THEN sent[i - 1]
                     ELSE Sent(sent[i - 1], t(i), Notification(subs[i].paths, req))]
  BY <1>3 DEF Publishing
<1>5. got \in Inboxes BY DEF FanInv
<1>6. \A e \in Elements(subs) : \E i \in 1..n : e = subs[i] BY DEF Elements
<1> HIDE DEF n
<1>7. sent[0] = got BY <1>1, <1>4
<1>8. ASSUME NEW i \in 1..n
      PROVE  sent[i] = IF note(i) = Sync THEN sent[i - 1] ELSE Sent(sent[i - 1], t(i), note(i))
  <2>1. i \in 0..n /\ i # 0 BY <1>1
  <2> QED BY <1>2, <1>4, <2>1
<1> HIDE DEF t, note
<1> DEFINE After(i) == /\ sent[i] \in Inboxes
                       /\ \A j \in 1..n : call[t(j)] = "streaming" =>
                            sent[i][t(j)] = IF j <= i THEN all(j) ELSE got[t(j)]
           S == {i \in Nat : i \in 0..n => After(i)}
<1>9. 0 \in S
  <2>1. \A j \in 1..n : ~(j <= 0) BY <1>1
  <2> QED BY <1>5, <1>7, <2>1
<1>10. ASSUME NEW k \in S PROVE k + 1 \in S
  <2> SUFFICES ASSUME k + 1 \in 0..n PROVE After(k + 1) OBVIOUS
  <2>1. k \in Nat /\ k \in 0..n /\ k + 1 \in 1..n /\ (k + 1) - 1 = k /\ ~(k + 1 <= k)
        /\ k + 1 <= k + 1
    BY <1>1
  <2>2. After(k) BY <2>1
  <2> HIDE DEF S
  <2>3. \A j \in 1..n : j # k + 1 => (j <= k + 1 <=> j <= k) BY <2>1
  <2>4. sent[k + 1] = IF note(k + 1) = Sync THEN sent[k] ELSE Sent(sent[k], t(k + 1), note(k + 1))
    BY <1>8, <2>1
  <2>5. sent[k] \in Inboxes /\ t(k + 1) \in Streams /\ note(k + 1) \in Notes
    BY <1>1, <1>2, <2>1, <2>2
  <2>6. call[t(k + 1)] = "streaming" => sent[k][t(k + 1)] = got[t(k + 1)] BY <2>1, <2>2
  <2>7. \A j \in 1..n : j # k + 1 => t(j) # t(k + 1) BY <1>1, <2>1
  <2>8. CASE note(k + 1) = Sync
    <3>1. sent[k + 1] = sent[k] BY <2>4, <2>8
    <3>2. all(k + 1) = got[t(k + 1)] BY <2>8
    <3> HIDE DEF all
    <3> QED BY <2>1, <2>2, <2>3, <2>6, <3>1, <3>2
  <2>9. CASE note(k + 1) # Sync
    <3>1. sent[k + 1] = Sent(sent[k], t(k + 1), note(k + 1)) BY <2>4, <2>9
    <3>2. all(k + 1) = Append(got[t(k + 1)], note(k + 1)) BY <2>9
    <3> HIDE DEF all
    <3>3. /\ sent[k + 1] \in Inboxes
          /\ call[t(k + 1)] = "streaming" =>
               sent[k + 1][t(k + 1)] = Append(sent[k][t(k + 1)], note(k + 1))
          /\ \A s \in Streams : s # t(k + 1) => sent[k + 1][s] = sent[k][s]
      BY <2>5, <3>1, SentIs
    <3>4. ASSUME NEW j \in 1..n, call[t(j)] = "streaming"
          PROVE  sent[k + 1][t(j)] = IF j <= k + 1 THEN all(j) ELSE got[t(j)]
      <4>1. CASE j = k + 1 BY <2>1, <2>6, <3>2, <3>3, <3>4, <4>1
      <4>2. CASE j # k + 1
        <5>1. sent[k + 1][t(j)] = sent[k][t(j)] BY <1>1, <2>7, <3>3, <4>2
        <5>2. sent[k][t(j)] = IF j <= k THEN all(j) ELSE got[t(j)] BY <2>2, <3>4
        <5> QED BY <2>3, <4>2, <5>1, <5>2
      <4> QED BY <4>1, <4>2
    <3> QED BY <3>3, <3>4
  <2> QED BY <2>8, <2>9
<1>11. S = Nat
  <2>1. S \subseteq Nat OBVIOUS
  <2> HIDE DEF S
  <2> QED BY <1>9, <1>10, <2>1, Induct
<1>12. After(n)
  <2>1. n \in S /\ n \in 0..n BY <1>1, <1>11
  <2> QED BY <2>1
<1> HIDE DEF S
<1>13. \A j \in 1..n : j <= n BY <1>1
<1>14. ASSUME NEW e \in Elements(subs), call[e.stream] = "streaming"
       PROVE  /\ Note(e.paths, req) = Sync => sent[n][e.stream] = got[e.stream]
              /\ Note(e.paths, req) # Sync =>
                   sent[n][e.stream] = Append(got[e.stream], Note(e.paths, req))
  <2>1. PICK j \in 1..n : e = subs[j] BY <1>6
  <2>2. t(j) = e.stream /\ note(j) = Note(e.paths, req) BY <2>1 DEF t, note
  <2>3. sent[n][t(j)] = all(j) BY <1>12, <1>13, <1>14, <2>2
  <2> QED BY <2>2, <2>3
<1> QED BY <1>3, <1>12, <1>14

LEMMA SetFan ==
  ASSUME FanInv, NEW c, NEW req \in Requests, Set(c, req)
  PROVE  FanInv'
<1> USE DEF FanInv
<1> DEFINE n == Len(history)
<1>1. /\ got' = Publish(req) /\ history' = Append(history, req)
      /\ UNCHANGED <<clients, subs, call, since>>
  BY DEF Set
<1>2. history \in Seq(Requests) OBVIOUS
<1>3. n \in Nat /\ history' \in Seq(Requests) /\ Len(history') = n + 1
  BY <1>1, <1>2, LenProperties, AppendProperties
<1>4. got' \in Inboxes BY <1>1, PublishIs
<1>5. ASSUME NEW e \in Elements(subs) PROVE IsServed(e)'
  <2>1. IsServed(e) OBVIOUS
  <2>2. e.stream \in Streams /\ e.paths \in PathLists
    <3>1. \E i \in 1..Len(subs) : e = subs[i] BY DEF Elements
    <3> QED BY <3>1, SubFacts
  <2>3. ASSUME call[e.stream] = "streaming" PROVE got'[e.stream] = Owed(e)'
    <3> DEFINE k == since[e.stream]
               a == SubSeq(history, k + 1, n)
               x == Note(e.paths, req)
               old == Concerning(e.paths, a)
    <3>1. k \in Nat /\ k <= n BY <2>2
    <3>2. a \in Seq(Requests) /\ SubSeq(history', k + 1, Len(history')) = Append(a, req)
      <4>1. history \in Seq(Requests) /\ req \in Requests BY <1>2
      <4>2. k \in Nat /\ k <= Len(history) BY <3>1
      <4> HIDE DEF k
      <4>3. /\ SubSeq(history, k + 1, Len(history)) \in Seq(Requests)
            /\ SubSeq(Append(history, req), k + 1, Len(Append(history, req)))
                 = Append(SubSeq(history, k + 1, Len(history)), req)
        BY ONLY <4>1, <4>2, RestAppend, ZenonT(30)
      <4> QED BY <1>1, <4>3 DEF n
    <3>3. got[e.stream] = <<Sync>> \o old BY <2>1, <2>3 DEF IsServed, Owed
    <3>4. Owed(e)' = <<Sync>> \o Concerning(e.paths, Append(a, req)) BY <1>1, <3>2 DEF Owed
    <3> HIDE DEF a
    <3>5. /\ x = Sync => Concerning(e.paths, Append(a, req)) = old
          /\ x # Sync => Concerning(e.paths, Append(a, req)) = Append(old, x)
      BY <2>2, <3>2, ConcerningAppend
    <3>6. old \in Seq(Notes) BY <2>2, <3>2, ConcerningIs
    <3>7. x \in Notes BY <2>2, NotificationIs
    <3>8. /\ x = Sync => got'[e.stream] = got[e.stream]
          /\ x # Sync => got'[e.stream] = Append(got[e.stream], x)
      BY <1>1, <2>3, PublishIs
    <3> HIDE DEF x, old
    <3>9. Append(<<Sync>> \o old, x) = <<Sync>> \o Append(old, x)
      <4>1. <<Sync>> \in Seq(Notes) /\ <<x>> \in Seq(Notes) BY <3>7, SyncIsNote
      <4>2. <<Sync>> \o old \in Seq(Notes) BY <3>6, <4>1, ConcatProperties
      <4>3. /\ Append(<<Sync>> \o old, x) = (<<Sync>> \o old) \o <<x>>
            /\ Append(old, x) = old \o <<x>>
        BY <3>6, <3>7, <4>2, AppendIsConcat
      <4>4. (<<Sync>> \o old) \o <<x>> = <<Sync>> \o (old \o <<x>>)
        BY ONLY <3>6, <4>1, ConcatAssociative
      <4> QED BY <4>3, <4>4
    <3> QED BY <3>3, <3>4, <3>5, <3>8, <3>9
  <2> QED BY <1>1, <2>1, <2>3 DEF IsServed
<1>6. \A s \in Streams : since[s] <= n + 1 BY <1>3
<1> QED BY <1>1, <1>3, <1>4, <1>5, <1>6

LEMMA StepFan == FanInv /\ [TeleNext]_tele => FanInv'
<1> SUFFICES ASSUME FanInv, [TeleNext]_tele PROVE FanInv' OBVIOUS
<1>1. ASSUME NEW c \in Clients, Accept(c) PROVE FanInv' BY <1>1, AcceptFan
<1>2. ASSUME NEW c \in Clients, Disconnect(c) PROVE FanInv' BY <1>2, DisconnectFan
<1>3. ASSUME NEW c \in Clients, NEW req \in Requests, Set(c, req) PROVE FanInv'
  BY <1>3, SetFan
<1>4. ASSUME NEW s \in Streams, CancelSubscription(s) PROVE FanInv' BY <1>4, CancelFan
<1>5. ASSUME NEW s \in Streams, NEW how \in {"STREAM", "ONCE", "BAD"},
             NEW paths \in PathLists, StartSubscription(s, how, paths)
      PROVE  FanInv'
  BY <1>5, StartFan
<1>6. ASSUME UNCHANGED tele PROVE FanInv'
  BY <1>6 DEF FanInv, tele, IsServed, Owed
<1> QED BY <1>1, <1>2, <1>3, <1>4, <1>5, <1>6 DEF TeleNext

\* start_subscription, publish, matches and remove, for any number of
\* subscriptions, Sets, cancellations and lost connections: what streams got
\* the changes at or below its paths, each once and in order, and nothing is
\* subscribed for a connection that is gone.
THEOREM FanOutExact == TeleSpec => []FanOutIsExact
<1>1. ASSUME FanInv PROVE FanOutIsExact
  <2>1. DOMAIN subs = 1..Len(subs)
    <3>1. subs \in Seq(Subs) BY <1>1 DEF FanInv
    <3> QED BY <3>1, LenProperties
  <2>2. \A e \in Elements(subs) : IsServed(e) BY <1>1 DEF FanInv
  <2>3. \A i \in DOMAIN subs : IsServed(subs[i]) BY <2>1, <2>2 DEF Elements
  <2>4. ASSUME NEW s \in Streams, call[s] = "streaming"
        PROVE  \E i \in DOMAIN subs :
                 /\ subs[i].stream = s
                 /\ got[s] = <<Sync>> \o
                      Concerning(subs[i].paths, SubSeq(history, since[s] + 1, Len(history)))
    <3>1. PICK e \in Elements(subs) : e.stream = s BY <1>1, <2>4 DEF FanInv
    <3>2. PICK i \in DOMAIN subs : subs[i] = e BY <2>1 DEF Elements
    <3>3. got[s] = Owed(e) BY <2>2, <2>4, <3>1 DEF IsServed
    <3> QED BY <3>1, <3>2, <3>3 DEF Owed
  <2> QED BY <2>3, <2>4 DEF FanOutIsExact, IsServed
<1> QED BY <1>1, FanInit, StepFan, PTL DEF TeleSpec

\* The live connections, and what was counted.
ServedInv ==
  /\ clients \subseteq Clients /\ Len(history) <= MaxSets
  /\ count \in [connects : 0..MaxConnects, calls : 0..MaxCalls]

LEMMA ServedInit == ASSUME TeleInit PROVE ServedInv
<1>1. MaxSets \in Nat /\ MaxConnects \in Nat /\ MaxCalls \in Nat BY TelemetryAssumption
<1>2. Len(history) = 0 BY EmptySeq DEF TeleInit
<1>3. 0 <= MaxSets /\ 0 \in 0..MaxConnects /\ 0 \in 0..MaxCalls BY <1>1
<1> QED BY <1>2, <1>3 DEF TeleInit, ServedInv

LEMMA ServedStep ==
  ASSUME FanInv, ServedInv, [TeleNext]_tele
  PROVE  ServedInv'
<1> DEFINE Counts == [connects : 0..MaxConnects, calls : 0..MaxCalls]
<1>1. MaxSets \in Nat /\ MaxConnects \in Nat /\ MaxCalls \in Nat /\ count \in Counts
  BY TelemetryAssumption DEF ServedInv
<1>2. ASSUME NEW c \in Clients, Accept(c) PROVE ServedInv'
  <2>1. /\ count.connects < MaxConnects /\ count' = [count EXCEPT !.connects = @ + 1]
        /\ clients' = clients \cup {c} /\ history' = history
    BY <1>2 DEF Accept
  <2>2. count.connects + 1 \in 0..MaxConnects BY <1>1, <2>1
  <2>3. count' \in Counts BY <1>1, <2>1, <2>2
  <2> QED BY <2>1, <2>3 DEF ServedInv
<1>3. ASSUME NEW c \in Clients, Disconnect(c) PROVE ServedInv'
  BY <1>3 DEF Disconnect, ServedInv
<1>4. ASSUME NEW c \in Clients, NEW req \in Requests, Set(c, req) PROVE ServedInv'
  <2>1. /\ Len(history) < MaxSets /\ history' = Append(history, req)
        /\ UNCHANGED <<clients, count>>
    BY <1>4 DEF Set
  <2>2. history \in Seq(Requests) BY DEF FanInv
  <2>3. Len(history') = Len(history) + 1 /\ Len(history) \in Nat
    BY <2>1, <2>2, LenProperties, AppendProperties
  <2>4. Len(history') <= MaxSets BY <1>1, <2>1, <2>3
  <2> QED BY <2>1, <2>4 DEF ServedInv
<1>5. ASSUME NEW s \in Streams, CancelSubscription(s) PROVE ServedInv'
  BY <1>5 DEF CancelSubscription, ServedInv
<1>6. ASSUME NEW s \in Streams, NEW m, NEW p, StartSubscription(s, m, p) PROVE ServedInv'
  <2>1. /\ count.calls < MaxCalls /\ count' = [count EXCEPT !.calls = @ + 1]
        /\ UNCHANGED <<clients, history>>
    BY <1>6 DEF StartSubscription
  <2>2. count.calls + 1 \in 0..MaxCalls BY <1>1, <2>1
  <2>3. count' \in Counts BY <1>1, <2>1, <2>2
  <2> QED BY <2>1, <2>3 DEF ServedInv
<1>7. CASE UNCHANGED tele BY <1>7 DEF tele, ServedInv
<1> QED BY <1>2, <1>3, <1>4, <1>5, <1>6, <1>7 DEF TeleNext

\* The gNMI service, for any clients, subscriptions and Sets: a subscription is
\* of a stream of a connection, for one of the path lists asked for, and came
\* after no more Sets than were accepted.
THEOREM TeleTyped == TeleSpec => []TeleTypeOK
<1>1. FanInv /\ ServedInv => TeleTypeOK
  <2> SUFFICES ASSUME FanInv, ServedInv PROVE TeleTypeOK OBVIOUS
  <2>1. subs \in Seq(Subs) /\ history \in Seq(Requests) /\ Len(history) \in Nat
    BY LenProperties DEF FanInv
  <2>2. ASSUME NEW i \in DOMAIN subs
        PROVE  subs[i].stream \in Streams /\ subs[i].paths \in PathLists
    <3>1. subs[i] \in Subs BY <2>1, LenProperties
    <3> QED BY <3>1 DEF Subs
  <2>3. Range(history) \subseteq Requests BY <2>1, ElementsIn
  <2>4. since \in [Streams -> 0..MaxSets]
    <3>1. MaxSets \in Nat /\ Len(history) <= MaxSets BY TelemetryAssumption DEF ServedInv
    <3>2. since \in [Streams -> Nat] /\ \A s \in Streams : since[s] <= Len(history)
      BY DEF FanInv
    <3>3. \A s \in Streams : since[s] \in 0..MaxSets BY <2>1, <3>1, <3>2
    <3> QED BY <3>2, <3>3
  <2> QED BY <2>2, <2>3, <2>4 DEF FanInv, ServedInv, TeleTypeOK
<1>2. TeleInit => FanInv /\ ServedInv BY FanInit, ServedInit
<1>3. FanInv /\ ServedInv /\ [TeleNext]_tele => (FanInv /\ ServedInv)' BY StepFan, ServedStep
<1> QED BY <1>1, <1>2, <1>3, PTL DEF TeleSpec

-----------------------------------------------------------------------------
(* FsApp: commands of deleted files.                                       *)

FileMaps == UNION {[D -> Versions] : D \in SUBSET Files}
Events == [kind : Kinds, file : Files, cookie : Versions]

\* A deletion that waits, and behind it nothing of its file.
WaitsLast(f, i) ==
  /\ queue[i].file = f /\ queue[i].kind = "DELETE"
  /\ \A j \in 1..Len(queue) : queue[j].file = f => j <= i
Absent(f) ==
  f \notin DOMAIN commands /\ \A i \in 1..Len(queue) : queue[i].file # f

\* While the events of a deleted file wait the file may still be a command
\* file, and come back by an earlier event: the deletion is the last of them.
DeletedInv ==
  /\ disk \in FileMaps /\ commands \in FileMaps /\ ops \in Versions
  /\ queue \in Seq(Events) /\ last \in [Files -> Kinds \cup {"none"}]
  /\ \A f \in Files :
       last[f] = "DELETE" => Absent(f) \/ \E i \in 1..Len(queue) : WaitsLast(f, i)

\* Every version is a number, and each operation that is left gives one more.
LEMMA VersionFacts ==
  /\ Versions \subseteq Nat /\ 0 \in Versions /\ 1 \in Versions
  /\ \A n \in Versions : n < MaxOps => n + 1 \in Versions
BY FsAppAssumption DEF Versions

\* m[k] = v and erase, on the maps of files.
LEMMA MapFacts ==
  ASSUME NEW m \in FileMaps, NEW f \in Files
  PROVE  /\ \A v \in Versions : MapPut(m, f, v) \in FileMaps /\ DOMAIN MapPut(m, f, v) = DOMAIN m \cup {f}
         /\ MapErase(m, {f}) \in FileMaps /\ DOMAIN MapErase(m, {f}) = DOMAIN m \ {f}
         /\ f \in DOMAIN m => m[f] \in Versions
<1>1. DOMAIN m \subseteq Files /\ m \in [DOMAIN m -> Versions] BY DEF FileMaps
<1>2. ASSUME NEW v \in Versions
      PROVE  MapPut(m, f, v) \in [DOMAIN m \cup {f} -> Versions] /\ DOMAIN m \cup {f} \subseteq Files
  BY <1>1 DEF MapPut
<1>3. MapErase(m, {f}) \in [DOMAIN m \ {f} -> Versions] /\ DOMAIN m \ {f} \subseteq Files
  BY <1>1 DEF MapErase, Restrict
<1> QED BY <1>1, <1>2, <1>3 DEF FileMaps

LEMMA DeletedInit == FsInit => DeletedInv
<1> SUFFICES ASSUME FsInit PROVE DeletedInv OBVIOUS
<1>1. disk \in FileMaps
  <2>1. PICK D \in SUBSET Files : disk \in [D -> {1}] BY DEF FsInit
  <2>2. disk \in [D -> Versions] BY <2>1, VersionFacts
  <2> QED BY <2>2 DEF FileMaps
<1>2. commands \in FileMaps
  <2> DEFINE D == {f \in DOMAIN disk : disk[f] # Broken}
  <2>1. DOMAIN disk \subseteq Files /\ \A f \in DOMAIN disk : disk[f] \in Versions
    BY <1>1 DEF FileMaps
  <2>2. commands = [f \in D |-> disk[f]] BY DEF FsInit, OnBoot, Restrict
  <2>3. D \subseteq Files /\ \A f \in D : disk[f] \in Versions BY <2>1
  <2> HIDE DEF D
  <2>4. commands \in [D -> Versions] BY <2>2, <2>3
  <2> QED BY <2>3, <2>4 DEF FileMaps
<1>3. queue = <<>> /\ queue \in Seq(Events) BY EmptySeq DEF FsInit
<1> QED BY <1>1, <1>2, <1>3, VersionFacts DEF FsInit, DeletedInv

\* The state of a read: commands, and the MOVED_FROM that waits for its pair.
Reads == [commands : FileMaps, old : Events \cup {NoEvent}]

\* An event changes the entry of its own file only; DELETE leaves none.
LEMMA OneEventIs ==
  ASSUME disk \in FileMaps, NEW s \in Reads, NEW e \in Events
  PROVE  /\ OneEvent(s, e) \in Reads
         /\ \A f \in Files :
              f # e.file => (f \in DOMAIN OneEvent(s, e).commands <=> f \in DOMAIN s.commands)
         /\ e.kind = "DELETE" => e.file \notin DOMAIN OneEvent(s, e).commands
<1> DEFINE c == s.commands
           g == e.file
           made == Create(c, g)
<1>1. c \in FileMaps /\ g \in Files /\ e.kind \in Kinds /\ s.old \in Events \cup {NoEvent}
  BY DEF Reads, Events
<1>2. made \in FileMaps /\ \A f \in Files : f # g => (f \in DOMAIN made <=> f \in DOMAIN c)
  <2>1. CASE g \in DOMAIN disk /\ disk[g] # Broken
    <3>1. disk[g] \in Versions BY <1>1, <2>1, MapFacts
    <3>2. made = MapPut(c, g, disk[g]) BY <2>1 DEF Create
    <3>3. \A v \in Versions : MapPut(c, g, v) \in FileMaps /\ DOMAIN MapPut(c, g, v) = DOMAIN c \cup {g}
      BY <1>1, MapFacts
    <3>4. made \in FileMaps /\ DOMAIN made = DOMAIN c \cup {g} BY <3>1, <3>2, <3>3
    <3> QED BY <3>4
  <2>2. CASE ~(g \in DOMAIN disk /\ disk[g] # Broken)
    <3>1. made = c BY <2>2 DEF Create
    <3> QED BY <1>1, <3>1
  <2> QED BY <2>1, <2>2
<1>3. s = [commands |-> c, old |-> s.old] BY DEF Reads
<1>4. CASE e.kind = "MOVED_TO"
  <2>1. OneEvent(s, e) = MovedTo(s, e) BY <1>4 DEF OneEvent
  <2>2. \/ MovedTo(s, e) = [s EXCEPT !.commands = made]
        \/ MovedTo(s, e) = [commands |-> made, old |-> NoEvent]
        \/ MovedTo(s, e) = s
    BY DEF MovedTo, Loaded, DeleteBareName
  <2> HIDE DEF made, c, g
  <2>3. CASE MovedTo(s, e) = [s EXCEPT !.commands = made]
    <3>1. MovedTo(s, e) = [commands |-> made, old |-> s.old] BY <1>3, <2>3
    <3> QED BY <1>1, <1>2, <1>4, <2>1, <3>1 DEF Reads, c, g
  <2>4. CASE MovedTo(s, e) = [commands |-> made, old |-> NoEvent]
    BY <1>1, <1>2, <1>4, <2>1, <2>4 DEF Reads, c, g
  <2>5. CASE MovedTo(s, e) = s BY <1>4, <2>1, <2>5
  <2> QED BY <2>2, <2>3, <2>4, <2>5
<1>5. CASE e.kind = "MOVED_FROM"
  <2>1. OneEvent(s, e) = [s EXCEPT !.old = e] BY <1>5 DEF OneEvent
  <2>2. OneEvent(s, e) = [commands |-> c, old |-> e] BY <1>3, <2>1
  <2> QED BY <1>1, <1>5, <2>2 DEF Reads
<1>6. CASE e.kind = "DELETE"
  <2>1. OneEvent(s, e) = [s EXCEPT !.commands = MapErase(c, {g})] BY <1>6 DEF OneEvent, Delete
  <2>2. OneEvent(s, e) = [commands |-> MapErase(c, {g}), old |-> s.old] BY <1>3, <2>1
  <2>3. MapErase(c, {g}) \in FileMaps /\ DOMAIN MapErase(c, {g}) = DOMAIN c \ {g}
    BY <1>1, MapFacts
  <2> QED BY <1>1, <2>2, <2>3 DEF Reads
<1>7. CASE e.kind = "CLOSE_WRITE"
  <2>1. OneEvent(s, e) = s BY <1>7 DEF OneEvent
  <2> QED BY <1>7, <2>1
<1> QED BY <1>1, <1>4, <1>5, <1>6, <1>7 DEF Kinds

\* The loop over the events of a read.
Reading(done, events) ==
  done = [i \in 0..Len(events) |->
            IF i = 0 THEN [commands |-> commands, old |-> NoEvent]
            ELSE OneEvent(done[i - 1], events[i])]

LEMMA ReadingIs ==
  ASSUME disk \in FileMaps, commands \in FileMaps, NEW events \in Seq(Events)
  PROVE  \E done \in [0..Len(events) -> Reads] :
           /\ done[0].commands = commands
           /\ \A i \in 1..Len(events) : done[i] = OneEvent(done[i - 1], events[i])
           /\ OnChange(events) = done[Len(events)].commands
<1> DEFINE n == Len(events)
           start == [commands |-> commands, old |-> NoEvent]
           P(i, x) == OneEvent(x, events[i])
           step == [p \in Nat \X Reads |-> IF p[1] \in 1..n THEN P(p[1], p[2]) ELSE p[2]]
<1>1. n \in Nat /\ \A i \in 1..n : events[i] \in Events BY LenProperties
<1>2. start \in Reads /\ start.commands = commands BY DEF Reads
<1> HIDE DEF n, start
<1>3. ASSUME NEW i \in 1..n, NEW x \in Reads PROVE P(i, x) \in Reads
  <2>1. events[i] \in Events BY <1>1
  <2> QED BY <2>1, OneEventIs
<1> HIDE DEF P
<1>4. step \in [Nat \X Reads -> Reads] BY <1>3
<1>5. \A i \in 1..n, x \in Reads : step[<<i, x>>] = P(i, x) BY <1>1
<1> HIDE DEF step
<1>6. PICK f \in [0..n -> Reads] : Iterates(f, n, start, step)
  <2>1. n \in Nat BY <1>1
  <2>2. \E f \in [0..n -> Reads] : Iterates(f, n, start, step)
    BY ONLY <2>1, <1>2, <1>4, Recursion
  <2> QED BY <2>2
<1>7. ASSUME NEW i \in 1..n PROVE f[i] = P(i, f[i - 1])
  <2>1. i - 1 \in 0..n BY <1>1
  <2> QED BY <1>5, <1>6, <2>1 DEF Iterates
<1>8. \A i \in 0..n : i # 0 => i \in 1..n BY <1>1
<1>9. f = [i \in 0..n |-> IF i = 0 THEN start ELSE P(i, f[i - 1])]
  BY <1>6, <1>7, <1>8 DEF Iterates
<1>10. Reading(f, events) BY <1>9 DEF Reading, n, P, start
<1> DEFINE done == CHOOSE d : Reading(d, events)
<1>11. Reading(done, events) BY <1>10
<1>12. OnChange(events) = done[n].commands
  BY DEF OnChange, Reading, DeleteBareName, n
<1>13. done = [i \in 0..n |-> IF i = 0 THEN start ELSE P(i, done[i - 1])]
  BY <1>11 DEF Reading, n, P, start
<1> HIDE DEF done
<1>14. \A i \in 0..n : done[i] = f[i]
  <2>1. done[0] = f[0] BY <1>1, <1>6, <1>13 DEF Iterates
  <2>2. ASSUME NEW i \in 1..n, done[i - 1] = f[i - 1] PROVE done[i] = f[i]
    <3>1. i \in 0..n /\ i # 0 BY <1>1
    <3> QED BY <1>7, <1>13, <2>2, <3>1
  <2>3. \A i \in 1..n : done[i - 1] = f[i - 1] => done[i] = f[i] BY <2>2
  <2>4. n \in Nat BY <1>1
  <2>5. Alike(done, f, n) BY <2>1, <2>3 DEF Alike
  <2> QED BY ONLY <2>4, <2>5, SameRecursion
<1>15. done = f BY <1>13, <1>14
<1>16. f[0].commands = commands BY <1>2, <1>6 DEF Iterates
<1>17. \A i \in 1..n : f[i] = OneEvent(f[i - 1], events[i]) BY <1>7 DEF P
<1> QED BY <1>12, <1>15, <1>16, <1>17 DEF n

\* A file no event is about keeps its entry or its absence; one whose last
\* event is a deletion is absent.
LEMMA OnChangeIs ==
  ASSUME disk \in FileMaps, commands \in FileMaps, NEW events \in Seq(Events)
  PROVE  /\ OnChange(events) \in FileMaps
         /\ \A f \in Files :
              (\A j \in 1..Len(events) : events[j].file # f) =>
                (f \in DOMAIN OnChange(events) <=> f \in DOMAIN commands)
         /\ \A f \in Files, i \in 1..Len(events) :
              events[i].file = f /\ events[i].kind = "DELETE"
              /\ (\A j \in 1..Len(events) : events[j].file = f => j <= i) =>
                f \notin DOMAIN OnChange(events)
<1> DEFINE n == Len(events)
<1>1. n \in Nat /\ \A i \in 1..n : events[i] \in Events /\ i - 1 \in 0..n BY LenProperties
<1>2. PICK done \in [0..n -> Reads] :
        /\ done[0].commands = commands
        /\ \A i \in 1..n : done[i] = OneEvent(done[i - 1], events[i])
        /\ OnChange(events) = done[n].commands
  BY ReadingIs
<1> HIDE DEF n
<1> DEFINE In(f, k) == f \in DOMAIN done[k].commands
<1>3. ASSUME NEW i \in 1..n
      PROVE  /\ \A f \in Files : f # events[i].file => (In(f, i) <=> In(f, i - 1))
             /\ events[i].kind = "DELETE" => ~In(events[i].file, i)
  <2>1. done[i - 1] \in Reads /\ events[i] \in Events BY <1>1
  <2> DEFINE s == done[i - 1]
             e == events[i]
  <2>2. done[i] = OneEvent(s, e) BY <1>2
  <2> HIDE DEF s, e
  <2>3. s \in Reads /\ e \in Events BY <2>1 DEF s, e
  <2>4. /\ \A f \in Files :
             f # e.file => (f \in DOMAIN OneEvent(s, e).commands <=> f \in DOMAIN s.commands)
        /\ e.kind = "DELETE" => e.file \notin DOMAIN OneEvent(s, e).commands
    BY <2>3, OneEventIs
  <2> QED BY <2>2, <2>4 DEF s, e
<1> HIDE DEF In
\* From b on nothing about f.
<1>4. ASSUME NEW f \in Files, NEW b \in 0..n,
             \A j \in 1..n : events[j].file = f => j <= b
      PROVE  In(f, n) <=> In(f, b)
  <2> DEFINE S == {k \in Nat : k \in b..n => (In(f, k) <=> In(f, b))}
  <2>1. 0 \in S
    <3>1. 0 \in b..n => b = 0 BY <1>1
    <3> QED BY <3>1
  <2>2. ASSUME NEW k \in S PROVE k + 1 \in S
    <3> SUFFICES ASSUME k + 1 \in b..n PROVE In(f, k + 1) <=> In(f, b) OBVIOUS
    <3>1. CASE k + 1 = b BY <3>1
    <3>2. CASE k + 1 # b
      <4>1. k \in b..n /\ k + 1 \in 1..n /\ ~(k + 1 <= b) /\ (k + 1) - 1 = k BY <1>1, <3>2
      <4>2. events[k + 1].file # f BY <1>4, <4>1
      <4>3. In(f, k) <=> In(f, b) BY <4>1
      <4> HIDE DEF S
      <4> QED BY <1>3, <4>1, <4>2, <4>3
    <3> QED BY <3>1, <3>2
  <2>3. S = Nat
    <3>1. S \subseteq Nat OBVIOUS
    <3> HIDE DEF S
    <3> QED BY <2>1, <2>2, <3>1, Induct
  <2>4. n \in S /\ n \in b..n BY <1>1, <2>3
  <2> QED BY <2>4
<1>5. ASSUME NEW f \in Files, \A j \in 1..n : events[j].file # f PROVE In(f, n) <=> In(f, 0)
  <2>1. 0 \in 0..n BY <1>1
  <2> QED BY <1>4, <1>5, <2>1
<1>6. ASSUME NEW f \in Files, NEW i \in 1..n, events[i].file = f, events[i].kind = "DELETE",
             \A j \in 1..n : events[j].file = f => j <= i
      PROVE  ~In(f, n)
  <2>1. i \in 0..n BY <1>1
  <2>2. ~In(f, i) BY <1>3, <1>6
  <2> QED BY <1>4, <1>6, <2>1, <2>2
<1>7. done[n] \in Reads BY <1>1
<1>8. OnChange(events) \in FileMaps BY <1>2, <1>7 DEF Reads
<1>9. /\ \A f \in Files : In(f, n) <=> f \in DOMAIN OnChange(events)
      /\ \A f \in Files : In(f, 0) <=> f \in DOMAIN commands
  BY <1>2 DEF In
<1> QED BY <1>5, <1>6, <1>8, <1>9 DEF n

LEMMA ReadDeleted ==
  ASSUME DeletedInv, FsHandleRead
  PROVE  DeletedInv'
<1> USE DEF DeletedInv
<1> DEFINE len == Len(queue)
<1>1. queue \in Seq(Events) /\ len \in Nat /\ \A i \in 1..len : queue[i] \in Events
  <2>1. queue \in Seq(Events) OBVIOUS
  <2> QED BY <2>1, LenProperties
<1>2. PICK n \in 1..MaxBatch :
        /\ n <= len
        /\ commands' = OnChange(SubSeq(queue, 1, n))
        /\ queue' = SubSeq(queue, n + 1, len)
        /\ UNCHANGED <<disk, ops, last>>
  BY DEF FsHandleRead
<1> DEFINE taken == SubSeq(queue, 1, n)
<1> HIDE DEF len
<1>3. n \in Nat /\ n \in Int /\ n + 1 \in Int /\ len \in Int /\ n <= len BY <1>1, <1>2
<1>4. taken \in Seq(Events) /\ Len(taken) = n /\ \A i \in 1..n : taken[i] = queue[i]
  <2>1. 1 \in Int /\ \A i \in 1..n : queue[i] \in Events BY <1>1, <1>3
  <2>2. /\ taken \in Seq(Events) /\ Len(taken) = IF 1 <= n THEN n - 1 + 1 ELSE 0
        /\ \A i \in 1..(n - 1 + 1) : taken[i] = queue[1 + i - 1]
    BY ONLY <1>3, <2>1, SubSeqProperties
  <2> HIDE DEF taken
  <2> QED BY <1>3, <2>2
<1>5. /\ queue' \in Seq(Events) /\ Len(queue') = len - n
      /\ \A i \in 1..(len - n) : queue'[i] = queue[n + i]
  <2> DEFINE rest == SubSeq(queue, n + 1, len)
  <2>1. \A i \in (n + 1)..len : queue[i] \in Events BY <1>1, <1>3
  <2>2. /\ rest \in Seq(Events) /\ Len(rest) = IF n + 1 <= len THEN len - (n + 1) + 1 ELSE 0
        /\ \A i \in 1..(len - (n + 1) + 1) : rest[i] = queue[(n + 1) + i - 1]
    BY ONLY <1>3, <2>1, SubSeqProperties
  <2>3. queue' = rest BY <1>2
  <2> HIDE DEF rest
  <2> QED BY <1>3, <2>2, <2>3
<1> HIDE DEF taken
<1>6. commands' = OnChange(taken) BY <1>2 DEF taken
<1>7. /\ commands' \in FileMaps
      /\ \A f \in Files :
           (\A j \in 1..n : taken[j].file # f) => (f \in DOMAIN commands' <=> f \in DOMAIN commands)
      /\ \A f \in Files, i \in 1..n :
           taken[i].file = f /\ taken[i].kind = "DELETE"
           /\ (\A j \in 1..n : taken[j].file = f => j <= i) => f \notin DOMAIN commands'
  BY <1>4, <1>6, OnChangeIs
<1>8. \A j \in 1..n : j \in 1..len BY <1>3
<1>9. \A j \in 1..(len - n) : n + j \in 1..len /\ ~(n + j <= n) BY <1>3
<1>10. ASSUME NEW f \in Files, last'[f] = "DELETE"
       PROVE  Absent(f)' \/ \E i \in 1..Len(queue') : WaitsLast(f, i)'
  <2>1. last[f] = "DELETE" BY <1>2, <1>10
  <2>2. CASE Absent(f)
    <3>1. f \notin DOMAIN commands /\ \A i \in 1..len : queue[i].file # f
      BY <2>2 DEF Absent, len
    <3>2. f \notin DOMAIN commands' BY <1>4, <1>7, <1>8, <3>1
    <3>3. \A i \in 1..Len(queue') : queue'[i].file # f BY <1>5, <1>9, <3>1
    <3> QED BY <3>2, <3>3 DEF Absent
  <2>3. CASE \E i \in 1..len : WaitsLast(f, i)
    <3>1. PICK i \in 1..len : WaitsLast(f, i) BY <2>3
    <3>2. queue[i].file = f /\ queue[i].kind = "DELETE"
          /\ \A j \in 1..len : queue[j].file = f => j <= i
      BY <3>1 DEF WaitsLast, len
    <3>3. CASE i <= n
      <4>1. i \in 1..n BY <1>3, <3>3
      <4>2. f \notin DOMAIN commands' BY <1>4, <1>7, <1>8, <3>2, <4>1
      <4>3. ASSUME NEW j \in 1..(len - n) PROVE queue'[j].file # f
        <5>1. n + j \in 1..len /\ ~(n + j <= i) BY <1>3, <3>3
        <5> QED BY <1>5, <3>2, <5>1
      <4> QED BY <1>5, <4>2, <4>3 DEF Absent
    <3>4. CASE ~(i <= n)
      <4>1. i - n \in 1..(len - n) /\ n + (i - n) = i BY <1>3, <3>4
      <4>2. queue'[i - n] = queue[i] BY <1>5, <4>1
      <4>3. ASSUME NEW j \in 1..(len - n), queue'[j].file = f PROVE j <= i - n
        <5>1. queue[n + j].file = f BY <1>5, <4>3
        <5>2. n + j <= i BY <1>9, <3>2, <5>1
        <5> QED BY <1>3, <5>2
      <4>4. WaitsLast(f, i - n)' BY <1>5, <3>2, <4>2, <4>3 DEF WaitsLast
      <4> QED BY <1>5, <4>1, <4>4
    <3> QED BY <3>3, <3>4
  <2> QED BY <2>1, <2>2, <2>3 DEF len
<1> QED BY <1>2, <1>5, <1>7, <1>10

\* An operation of a user queues at most one event of a file.
LEMMA OperationDeleted ==
  ASSUME DeletedInv, NEW d \in FileMaps, NEW events \in Seq(Events),
         \A i, j \in 1..Len(events) : events[i].file = events[j].file => i = j,
         Operation(d, events)
  PROVE  DeletedInv'
<1> USE DEF DeletedInv
<1> DEFINE m == Len(events)
           len == Len(queue)
<1>1. queue \in Seq(Events) OBVIOUS
<1>2. len \in Nat /\ m \in Nat /\ DOMAIN events = 1..m /\ \A i \in 1..m : events[i] \in Events
  BY <1>1, LenProperties
<1>3. /\ queue' \in Seq(Events) /\ Len(queue') = len + m
      /\ \A i \in 1..(len + m) :
           queue'[i] = IF i <= len THEN queue[i] ELSE events[i - len]
  BY <1>1, ConcatProperties DEF Operation
<1>4. /\ disk' = d /\ commands' = commands /\ ops' \in Versions
      /\ last' = [f \in Files |->
                    LET mine == {i \in DOMAIN events : events[i].file = f}
                    IN IF mine = {} THEN last[f] ELSE events[Max(mine)].kind]
  BY VersionFacts DEF Operation
<1>5. \A i \in 1..m : \A f \in Files :
        events[i].file = f => {j \in DOMAIN events : events[j].file = f} = {i}
  BY <1>2
<1>6. \A i \in 1..m : Max({i}) = i BY <1>2 DEF Max
<1>7. \A f \in Files, i \in 1..m : events[i].file = f => last'[f] = events[i].kind
  BY <1>4, <1>5, <1>6
<1>8. \A f \in Files : (\A i \in 1..m : events[i].file # f) => last'[f] = last[f]
  BY <1>2, <1>4
<1> HIDE DEF m, len
<1>9. last' \in [Files -> Kinds \cup {"none"}]
  <2>1. ASSUME NEW f \in Files PROVE last'[f] \in Kinds \cup {"none"}
    <3>1. CASE \E i \in 1..m : events[i].file = f
      <4>1. PICK i \in 1..m : events[i].file = f BY <3>1
      <4>2. events[i].kind \in Kinds BY <1>2 DEF Events
      <4> QED BY <1>7, <4>1, <4>2
    <3>2. CASE \A i \in 1..m : events[i].file # f BY <1>8, <3>2
    <3> QED BY <3>1, <3>2
  <2>2. last' = [f \in Files |-> last'[f]] BY <1>4
  <2> QED BY <2>1, <2>2
<1>10. \A i \in 1..len : i \in 1..(len + m) /\ i <= len BY <1>2
<1>11. \A i \in 1..(len + m) : i \in 1..len \/ (i - len \in 1..m /\ ~(i <= len)) BY <1>2
<1>12. ASSUME NEW f \in Files, last'[f] = "DELETE"
       PROVE  Absent(f)' \/ \E i \in 1..Len(queue') : WaitsLast(f, i)'
  <2>1. CASE \E i \in 1..m : events[i].file = f
    <3>1. PICK i \in 1..m : events[i].file = f BY <2>1
    <3>2. events[i].kind = "DELETE" BY <1>7, <1>12, <3>1
    <3>3. PICK k : k = len + i /\ k \in 1..(len + m) /\ ~(k <= len) /\ k - len = i BY <1>2
    <3>4. queue'[k] = events[i] BY <1>3, <3>3
    <3>5. ASSUME NEW j \in 1..(len + m), queue'[j].file = f PROVE j <= k
      <4>1. CASE j \in 1..len BY <1>2, <3>3, <4>1
      <4>2. CASE j - len \in 1..m /\ ~(j <= len)
        <5>1. queue'[j] = events[j - len] BY <1>3, <4>2
        <5>2. events[j - len].file = events[i].file BY <3>1, <3>5, <5>1
        <5>3. j - len = i BY <4>2, <5>2 DEF m
        <5> QED BY <1>2, <3>3, <5>3
      <4> QED BY <1>11, <4>1, <4>2
    <3>6. WaitsLast(f, k)' BY <1>3, <3>1, <3>2, <3>4, <3>5 DEF WaitsLast
    <3> QED BY <1>3, <3>3, <3>6
  <2>2. CASE \A i \in 1..m : events[i].file # f
    <3>1. last[f] = "DELETE" BY <1>8, <1>12, <2>2
    <3>2. ASSUME NEW j \in 1..(len + m), queue'[j].file = f
          PROVE  j \in 1..len /\ queue[j].file = f
      <4>1. CASE j \in 1..len BY <1>3, <1>10, <3>2, <4>1
      <4>2. CASE j - len \in 1..m /\ ~(j <= len)
        <5>1. queue'[j] = events[j - len] BY <1>3, <4>2
        <5> QED BY <2>2, <3>2, <4>2, <5>1
      <4> QED BY <1>11, <4>1, <4>2
    <3>3. CASE Absent(f)
      <4>1. \A i \in 1..len : queue[i].file # f BY <3>3 DEF Absent, len
      <4>2. \A j \in 1..(len + m) : queue'[j].file # f BY <3>2, <4>1
      <4> QED BY <1>3, <1>4, <3>3, <4>2 DEF Absent
    <3>4. CASE \E i \in 1..len : WaitsLast(f, i)
      <4>1. PICK i \in 1..len : WaitsLast(f, i) BY <3>4
      <4>2. queue[i].file = f /\ queue[i].kind = "DELETE"
            /\ \A j \in 1..len : queue[j].file = f => j <= i
        BY <4>1 DEF WaitsLast, len
      <4>3. i \in 1..(len + m) /\ queue'[i] = queue[i] BY <1>3, <1>10
      <4>4. WaitsLast(f, i)' BY <1>3, <3>2, <4>2, <4>3 DEF WaitsLast
      <4> QED BY <1>3, <4>3, <4>4
    <3> QED BY <3>1, <3>3, <3>4 DEF len
  <2> QED BY <2>1, <2>2
<1> QED BY <1>3, <1>4, <1>9, <1>12

\* The five operations of a user.
LEMMA SaveDeleted ==
  ASSUME DeletedInv, NEW f \in Files, NEW broken \in BOOLEAN, Save(f, broken)
  PROVE  DeletedInv'
<1> DEFINE v == IF broken THEN Broken ELSE ops + 1
           e == Event("CLOSE_WRITE", f, 0)
<1>1. v \in Versions /\ e \in Events
  BY VersionFacts DEF DeletedInv, Save, Operation, Broken, Event, Events, Kinds
<1>2. Operation(MapPut(disk, f, v), <<e>>) BY DEF Save
<1> HIDE DEF v, e
<1>3. MapPut(disk, f, v) \in FileMaps BY <1>1, MapFacts DEF DeletedInv
<1>4. <<e>> \in Seq(Events) /\ Len(<<e>>) = 1 BY <1>1
<1>5. \A i, j \in 1..Len(<<e>>) : <<e>>[i].file = <<e>>[j].file => i = j BY <1>4
<1> QED BY <1>2, <1>3, <1>4, <1>5, OperationDeleted

LEMMA DeleteFileDeleted ==
  ASSUME DeletedInv, NEW f \in Files, DeleteFile(f)
  PROVE  DeletedInv'
<1> DEFINE e == Event("DELETE", f, 0)
<1>1. e \in Events BY VersionFacts DEF Event, Events, Kinds
<1>2. Operation(MapErase(disk, {f}), <<e>>) BY DEF DeleteFile
<1> HIDE DEF e
<1>3. MapErase(disk, {f}) \in FileMaps BY MapFacts DEF DeletedInv
<1>4. <<e>> \in Seq(Events) /\ Len(<<e>>) = 1 BY <1>1
<1>5. \A i, j \in 1..Len(<<e>>) : <<e>>[i].file = <<e>>[j].file => i = j BY <1>4
<1> QED BY <1>2, <1>3, <1>4, <1>5, OperationDeleted

LEMMA MoveInDeleted ==
  ASSUME DeletedInv, NEW f \in Files, MoveIn(f)
  PROVE  DeletedInv'
<1> DEFINE v == ops + 1
           e == Event("MOVED_TO", f, v)
<1>1. v \in Versions BY VersionFacts DEF DeletedInv, MoveIn, Operation
<1>2. Operation(MapPut(disk, f, v), <<e>>) BY DEF MoveIn
<1> HIDE DEF v
<1>3. e \in Events BY <1>1 DEF Event, Events, Kinds
<1> HIDE DEF e
<1>4. MapPut(disk, f, v) \in FileMaps BY <1>1, MapFacts DEF DeletedInv
<1>5. <<e>> \in Seq(Events) /\ Len(<<e>>) = 1 BY <1>3
<1>6. \A i, j \in 1..Len(<<e>>) : <<e>>[i].file = <<e>>[j].file => i = j BY <1>5
<1> QED BY <1>2, <1>4, <1>5, <1>6, OperationDeleted

LEMMA MoveAwayDeleted ==
  ASSUME DeletedInv, NEW f \in Files, MoveAway(f)
  PROVE  DeletedInv'
<1> DEFINE e == Event("MOVED_FROM", f, ops + 1)
<1>1. e \in Events
  BY VersionFacts DEF DeletedInv, MoveAway, Operation, Event, Events, Kinds
<1>2. Operation(MapErase(disk, {f}), <<e>>) BY DEF MoveAway
<1> HIDE DEF e
<1>3. MapErase(disk, {f}) \in FileMaps BY MapFacts DEF DeletedInv
<1>4. <<e>> \in Seq(Events) /\ Len(<<e>>) = 1 BY <1>1
<1>5. \A i, j \in 1..Len(<<e>>) : <<e>>[i].file = <<e>>[j].file => i = j BY <1>4
<1> QED BY <1>2, <1>3, <1>4, <1>5, OperationDeleted

LEMMA RenameDeleted ==
  ASSUME DeletedInv, NEW f \in Files, NEW g \in Files, Rename(f, g)
  PROVE  DeletedInv'
<1> DEFINE v == disk[f]
           m == MapErase(disk, {f})
           d == Event("MOVED_FROM", f, ops + 1)
           e == Event("MOVED_TO", g, ops + 1)
<1>1. d \in Events /\ e \in Events /\ d.file = f /\ e.file = g
  BY VersionFacts DEF DeletedInv, Rename, Operation, Event, Events, Kinds
<1>2. f \in DOMAIN disk /\ f # g /\ Operation(MapPut(m, g, v), <<d, e>>) BY DEF Rename
<1>3. disk \in FileMaps BY DEF DeletedInv
<1>4. v \in Versions /\ m \in FileMaps BY <1>2, <1>3, MapFacts
<1> HIDE DEF v, m, d, e
<1>5. MapPut(m, g, v) \in FileMaps BY <1>4, MapFacts
<1>6. <<d, e>> \in Seq(Events) /\ Len(<<d, e>>) = 2 /\ <<d, e>>[1] = d /\ <<d, e>>[2] = e
  BY <1>1
<1>7. \A i \in 1..2 : i = 1 \/ i = 2 OBVIOUS
<1>8. \A i, j \in 1..Len(<<d, e>>) : <<d, e>>[i].file = <<d, e>>[j].file => i = j
  BY <1>1, <1>2, <1>6, <1>7
<1> QED BY <1>2, <1>5, <1>6, <1>8, OperationDeleted

LEMMA StepDeleted == DeletedInv /\ [FsNext]_fs => DeletedInv'
<1> SUFFICES ASSUME DeletedInv, [FsNext]_fs PROVE DeletedInv' OBVIOUS
<1>1. CASE FsHandleRead BY <1>1, ReadDeleted
<1>2. ASSUME NEW f \in Files, NEW broken \in BOOLEAN, Save(f, broken) PROVE DeletedInv'
  BY <1>2, SaveDeleted
<1>3. ASSUME NEW f \in Files, DeleteFile(f) PROVE DeletedInv' BY <1>3, DeleteFileDeleted
<1>4. ASSUME NEW f \in Files, MoveIn(f) PROVE DeletedInv' BY <1>4, MoveInDeleted
<1>5. ASSUME NEW f \in Files, MoveAway(f) PROVE DeletedInv' BY <1>5, MoveAwayDeleted
<1>6. ASSUME NEW f \in Files, NEW g \in Files, Rename(f, g) PROVE DeletedInv'
  BY <1>6, RenameDeleted
<1>7. CASE UNCHANGED fs
  BY <1>7 DEF DeletedInv, fs, Absent, WaitsLast
<1> QED BY <1>1, <1>2, <1>3, <1>4, <1>5, <1>6, <1>7 DEF FsNext

LEMMA FsTyped == DeletedInv => FsTypeOK
<1> SUFFICES ASSUME DeletedInv PROVE FsTypeOK OBVIOUS
<1>1. \A m \in FileMaps : DOMAIN m \subseteq Files /\ \A f \in DOMAIN m : m[f] \in Versions
  BY DEF FileMaps
<1> QED BY <1>1 DEF DeletedInv, FsTypeOK, Events, Versions

\* process_inotify_onchange and process_delete_luafile, for any number of
\* files, operations and events, read in batches of any length: once its
\* events are read, a deleted file is no command file.
THEOREM DeletedGone == FsSpec => []DeletedIsGone
<1>1. ASSUME DeletedInv PROVE DeletedIsGone
  <2>1. DOMAIN queue = 1..Len(queue)
    <3>1. queue \in Seq(Events) BY <1>1 DEF DeletedInv
    <3> QED BY <3>1, LenProperties
  <2>2. ASSUME NEW f \in Files, last[f] = "DELETE", ~Waiting(f) PROVE f \notin DOMAIN commands
    <3>1. \A i \in 1..Len(queue) : queue[i].file # f BY <2>1, <2>2 DEF Waiting
    <3>2. ~\E i \in 1..Len(queue) : WaitsLast(f, i) BY <3>1 DEF WaitsLast
    <3> QED BY <1>1, <2>2, <3>2 DEF DeletedInv, Absent
  <2> QED BY <2>2 DEF DeletedIsGone
<1> QED BY <1>1, DeletedInit, StepDeleted, PTL DEF FsSpec

\* The watcher and the loader, for any files and operations: a command is of a
\* file there was once, in a version that was written, and an event tells of
\* an operation that was made.
THEOREM FsIsTyped == FsSpec => []FsTypeOK
BY DeletedInit, StepDeleted, FsTyped, PTL DEF FsSpec

-----------------------------------------------------------------------------
(* Transcript: the line at the top of the view.                            *)

IsView(v) ==
  /\ v = [lines |-> v.lines, scroll |-> v.scroll, hscroll |-> v.hscroll, dropped |-> v.dropped]
  /\ v.lines \in Seq(Nat) /\ Len(v.lines) <= Cap
  /\ v.scroll \in Nat /\ v.hscroll \in Nat /\ v.dropped \in Nat
TopInv == IsView(view) /\ rows \in Nat /\ screen \in Screens

\* A view of the same lines, scrolled to s.
Shows(v, u, s) ==
  IsView(v) /\ v.lines = u.lines /\ v.dropped = u.dropped /\ v.scroll = s

LEMMA ClampFacts ==
  ASSUME NEW x \in Int, NEW high \in Int
  PROVE  /\ Most(0, high) \in Nat /\ Clamp(x, 0, Most(0, high)) \in Nat
         /\ x >= 0 /\ x <= Most(0, high) => Clamp(x, 0, Most(0, high)) = x
         /\ x > Most(0, high) => Clamp(x, 0, Most(0, high)) = Most(0, high)
BY DEF Clamp, Most, Least

\* The greatest of some numbers up to n.
LEMMA MaxIs ==
  ASSUME NEW n \in Nat, NEW S \in SUBSET (0..n), 0 \in S
  PROVE  Max(S) \in S /\ \A i \in S : i <= Max(S)
<1> DEFINE B == {k \in Nat : \A i \in S : i <= k}
<1>1. n \in B OBVIOUS
<1>2. PICK m \in B : \A k \in B : m <= k
  <2>1. B \subseteq Nat /\ B # {} BY <1>1
  <2> HIDE DEF B
  <2> QED BY <2>1, LeastNat
<1>3. m \in S
  <2> SUFFICES ASSUME m \notin S PROVE FALSE OBVIOUS
  <2>1. m # 0 /\ m - 1 \in Nat OBVIOUS
  <2>2. \A i \in S : i <= m - 1 OBVIOUS
  <2>3. m - 1 \in B BY <2>1, <2>2
  <2> QED BY <1>2, <2>1, <2>3
<1>4. \A i \in S : m >= i OBVIOUS
<1>5. \E x \in S : \A y \in S : x >= y BY <1>3, <1>4
<1>6. Max(S) \in S /\ \A y \in S : Max(S) >= y BY <1>5 DEF Max
<1> QED BY <1>6

\* The columns of the widest line in the window are a number.
LEMMA WidestIs ==
  ASSUME NEW v, IsView(v), NEW h \in Nat \ {0}
  PROVE  Widest(v, h) \in Nat
<1> DEFINE l == v.lines
           first == First(v, h)
           bottom == Least(Len(l), first + ViewH(h))
           shown == SubSeq(l, first + 1, bottom)
           m == Len(shown)
<1>1. l \in Seq(Nat) /\ Len(l) \in Nat /\ v.scroll \in Nat BY LenProperties DEF IsView
<1>2. shown \in Seq(Nat)
  <2> DEFINE n == Len(l)
             k == ViewH(h)
  <2>1. n \in Nat /\ k \in Nat BY <1>1 DEF ViewH
  <2>2. first = Most(0, n - k - v.scroll) BY DEF First
  <2> HIDE DEF n, k
  <2>3. first \in 0..n BY <1>1, <2>1, <2>2 DEF Most
  <2> HIDE DEF first
  <2>4. Least(n, first + k) \in first..n BY <2>1, <2>3 DEF Least
  <2>5. bottom \in first..n BY <2>4 DEF n, k
  <2> HIDE DEF bottom
  <2>6. first + 1 \in 1..(n + 1) /\ bottom \in ((first + 1) - 1)..n BY <2>1, <2>3, <2>5
  <2> DEFINE lo == first + 1
  <2> HIDE DEF l, lo
  <2>7. lo \in 1..(Len(l) + 1) /\ bottom \in (lo - 1)..Len(l) BY <2>6 DEF n, lo
  <2>8. SubSeq(l, lo, bottom) \in Seq(Nat) BY ONLY <1>1, <2>7, SubSeqProperties
  <2> QED BY <2>8 DEF lo
<1> HIDE DEF shown
<1>3. m \in Nat /\ DOMAIN shown = 1..m /\ \A i \in 1..m : shown[i] \in Nat
  BY <1>2, LenProperties
<1> HIDE DEF m
<1> DEFINE B == {k \in Nat : \E n \in Nat : \A i \in 1..m : i <= k => shown[i] <= n}
<1>4. 0 \in B OBVIOUS
<1>5. ASSUME NEW k \in B PROVE k + 1 \in B
  <2>1. PICK n \in Nat : \A i \in 1..m : i <= k => shown[i] <= n OBVIOUS
  <2>2. CASE k + 1 \in 1..m
    <3>1. PICK x \in Nat : x = n + shown[k + 1] BY <1>3, <2>2
    <3>2. ASSUME NEW i \in 1..m, i <= k + 1 PROVE shown[i] <= x
      <4>1. CASE i = k + 1 BY <1>3, <2>2, <3>1, <4>1
      <4>2. CASE i <= k
        <5>1. shown[i] <= n /\ shown[i] \in Nat /\ shown[k + 1] \in Nat
          BY <1>3, <2>1, <2>2, <4>2
        <5> QED BY <3>1, <5>1
      <4>3. i \in Int /\ k \in Nat BY <1>3
      <4> QED BY <3>2, <4>1, <4>2, <4>3
    <3> QED BY <3>1, <3>2
  <2>3. CASE k + 1 \notin 1..m
    <3>1. k \in Nat /\ \A i \in 1..m : i <= k + 1 => i <= k BY <1>3, <2>3
    <3> QED BY <2>1, <3>1
  <2> QED BY <2>2, <2>3
<1>6. B = Nat
  <2>1. B \subseteq Nat OBVIOUS
  <2> HIDE DEF B
  <2> QED BY <1>4, <1>5, <2>1, Induct
<1>7. PICK n \in Nat : \A i \in 1..m : shown[i] <= n
  <2>1. m \in B
    <3> HIDE DEF B
    <3> QED BY <1>3, <1>6
  <2>2. \A i \in 1..m : i <= m BY <1>3
  <2> QED BY <2>1, <2>2
<1> DEFINE S == {0} \cup Range(shown)
<1>8. S \in SUBSET (0..n) /\ 0 \in S
  <2>1. ASSUME NEW i \in 1..m PROVE shown[i] \in 0..n BY <1>3, <1>7
  <2>2. Range(shown) = {shown[i] : i \in 1..m} BY <1>3 DEF Range
  <2> QED BY <2>1, <2>2
<1>9. Widest(v, h) = Max(S) BY DEF Widest, shown
<1> HIDE DEF S
<1>10. Max(S) \in S BY <1>8, MaxIs
<1>11. \A x \in S : x \in Nat BY <1>7, <1>8
<1> QED BY <1>9, <1>10, <1>11

\* redraw_out keeps the lines and clamps the offset.
LEMMA RedrawIs ==
  ASSUME NEW v, IsView(v), NEW h \in Nat
  PROVE  /\ IsView(RedrawOut(v, h))
         /\ RedrawOut(v, h).lines = v.lines /\ RedrawOut(v, h).dropped = v.dropped
         /\ h # 0 => RedrawOut(v, h).scroll
                       = Clamp(v.scroll, 0, Most(0, Len(v.lines) - ViewH(h)))
<1> DEFINE s == Clamp(v.scroll, 0, Most(0, Len(v.lines) - ViewH(h)))
           u == ClampScroll(v, h)
           w == ClampPan(u, h)
<1>1. s \in Nat
  <2>1. v.scroll \in Int /\ Len(v.lines) \in Nat BY LenProperties DEF IsView
  <2>2. Len(v.lines) - ViewH(h) \in Int BY <2>1 DEF ViewH
  <2> QED BY <2>1, <2>2, ClampFacts
<1>2. u = [v EXCEPT !.scroll = s] BY DEF ClampScroll
<1> HIDE DEF s, u
<1>3. Shows(u, v, s)
  <2>1. u = [lines |-> v.lines, scroll |-> s, hscroll |-> v.hscroll, dropped |-> v.dropped]
    BY <1>2 DEF IsView
  <2> QED BY <1>1, <2>1 DEF Shows, IsView
<1>4. h # 0 => Shows(w, v, s)
  <2> SUFFICES ASSUME h # 0 PROVE Shows(w, v, s) OBVIOUS
  <2> DEFINE p == Clamp(u.hscroll, 0, Most(0, Widest(u, h) - TextW(u, h)))
  <2>1. p \in Nat
    <3>1. IsView(u) /\ h \in Nat \ {0} BY <1>3 DEF Shows
    <3>2. Widest(u, h) \in Nat /\ u.hscroll \in Nat BY <3>1, WidestIs DEF IsView
    <3>3. TextW(u, h) \in Int BY TranscriptAssumption DEF TextW
    <3>4. Widest(u, h) - TextW(u, h) \in Int /\ u.hscroll \in Int BY <3>2, <3>3
    <3> QED BY <3>4, ClampFacts
  <2>2. w = u \/ w = [u EXCEPT !.hscroll = p] BY DEF ClampPan
  <2> HIDE DEF w, p
  <2>3. CASE w = u BY <1>3, <2>3
  <2>4. CASE w = [u EXCEPT !.hscroll = p]
    <3>1. w = [lines |-> u.lines, scroll |-> u.scroll, hscroll |-> p, dropped |-> u.dropped]
      BY <1>3, <2>4 DEF Shows, IsView
    <3> QED BY <1>3, <2>1, <3>1 DEF Shows, IsView
  <2> QED BY <2>2, <2>3, <2>4
<1> HIDE DEF w
<1>5. RedrawOut(v, h) = IF h = 0 THEN v ELSE w BY DEF RedrawOut, w, u
<1>6. CASE h = 0 BY <1>5, <1>6
<1>7. CASE h # 0
  <2>1. RedrawOut(v, h) = w BY <1>5, <1>7
  <2> QED BY <1>4, <1>7, <2>1 DEF Shows, s
<1> QED BY <1>6, <1>7

\* push_history: a line more, of which the cap may drop the first one.
LEMMA PushIs ==
  ASSUME NEW v, IsView(v), NEW line \in Nat
  PROVE  /\ IsView(PushHistory(v, line)) /\ PushHistory(v, line).scroll = v.scroll
         /\ Printed(PushHistory(v, line)) = Printed(v) + 1
         /\ PushHistory(v, line).dropped >= v.dropped
<1> DEFINE u == PushHistory(v, line)
           l == v.lines
           d == v.dropped
           n == Len(l)
<1>1. /\ l \in Seq(Nat) /\ n \in Nat /\ d \in Nat /\ v.scroll \in Nat /\ v.hscroll \in Nat
      /\ n <= Cap /\ Cap \in Nat \ {0}
  BY LenProperties, TranscriptAssumption DEF IsView
<1>2. \E new \in Seq(Nat), drop \in Nat :
        /\ u = [lines |-> new, scroll |-> v.scroll, hscroll |-> v.hscroll, dropped |-> drop]
        /\ drop + Len(new) = d + n + 1 /\ drop >= d /\ Len(new) <= Cap
  <2>1. CASE n < Cap
    <3>1. u = [v EXCEPT !.lines = Append(l, line)] BY <2>1 DEF PushHistory
    <3>2. u = [lines |-> Append(l, line), scroll |-> v.scroll, hscroll |-> v.hscroll, dropped |-> d]
      BY <3>1 DEF IsView
    <3>3. Append(l, line) \in Seq(Nat) /\ Len(Append(l, line)) = n + 1
      BY <1>1, AppendProperties
    <3>4. d + Len(Append(l, line)) = d + n + 1 /\ d >= d /\ Len(Append(l, line)) <= Cap
      <4> DEFINE m == Len(Append(l, line))
      <4>1. m = n + 1 BY <3>3
      <4> HIDE DEF m, n, d
      <4>2. d + m = d + n + 1 /\ d >= d /\ m <= Cap BY ONLY <1>1, <2>1, <4>1
      <4> QED BY <4>2 DEF m
    <3> HIDE DEF u, l, n, d
    <3> QED BY <1>1, <3>2, <3>3, <3>4
  <2>2. CASE ~(n < Cap)
    <3>1. l # <<>>
      <4>1. n # 0 BY <1>1, <2>2
      <4> QED BY <4>1, EmptySeq
    <3>2. Tail(l) \in Seq(Nat) /\ Len(Tail(l)) = n - 1 BY <1>1, <3>1, HeadTailProperties
    <3>3. /\ Append(Tail(l), line) \in Seq(Nat)
          /\ Len(Append(Tail(l), line)) = Len(Tail(l)) + 1
      BY <3>2, AppendProperties
    <3>4. u = [v EXCEPT !.lines = Append(Tail(l), line), !.dropped = @ + 1]
      BY <2>2 DEF PushHistory
    <3>5. u = [lines |-> Append(Tail(l), line), scroll |-> v.scroll, hscroll |-> v.hscroll,
               dropped |-> d + 1]
      BY <3>4 DEF IsView
    <3> HIDE DEF u, l, n, d
    <3>6. d + 1 \in Nat /\ d + 1 >= d /\ (d + 1) + Len(Append(Tail(l), line)) = d + n + 1
          /\ Len(Append(Tail(l), line)) <= Cap
      BY <1>1, <3>2, <3>3
    <3> QED BY <3>3, <3>5, <3>6
  <2> QED BY <2>1, <2>2
<1>3. Printed(v) = d + n BY DEF Printed
<1> HIDE DEF u, l, n, d
<1>4. PICK new \in Seq(Nat), drop \in Nat :
        /\ u = [lines |-> new, scroll |-> v.scroll, hscroll |-> v.hscroll, dropped |-> drop]
        /\ drop + Len(new) = d + n + 1 /\ drop >= d /\ Len(new) <= Cap
  BY <1>2
<1>5. IsView(u) /\ u.scroll = v.scroll /\ u.dropped = drop /\ u.lines = new
  BY <1>1, <1>4 DEF IsView
<1>6. Printed(u) = drop + Len(new) BY <1>5 DEF Printed
<1> QED BY <1>3, <1>4, <1>5, <1>6 DEF u, d

\* The loop over the lines of a message.
Pushing(pushed, v, lines) ==
  pushed = [i \in 0..Len(lines) |->
              IF i = 0 THEN v ELSE PushHistory(pushed[i - 1], lines[i])]

\* The lines pushed are counted, whatever the cap drops.
Holds(u, v, k) ==
  /\ IsView(u) /\ u.scroll = v.scroll
  /\ Printed(u) = Printed(v) + k /\ u.dropped >= v.dropped

LEMMA PushingIs ==
  ASSUME NEW v, IsView(v), NEW lines \in Seq(Nat)
  PROVE  \E u : /\ Holds(u, v, Len(lines))
                /\ Println(v, lines) = RedrawOut(Hold(u, Len(lines)), rows)
<1> DEFINE n == Len(lines)
           Short == {l \in Seq(Nat) : Len(l) <= Cap}
           Many == [lines : Short, scroll : Nat, hscroll : Nat, dropped : Nat]
           P(i, x) == PushHistory(x, lines[i])
           step == [p \in Nat \X Many |-> IF p[1] \in 1..n THEN P(p[1], p[2]) ELSE p[2]]
<1>1. n \in Nat /\ \A i \in 1..n : lines[i] \in Nat BY LenProperties
<1>2. v \in Many BY DEF IsView
<1> HIDE DEF n
<1>3. ASSUME NEW i \in 1..n, NEW x \in Many PROVE P(i, x) \in Many /\ Holds(P(i, x), x, 1)
  <2>1. IsView(x) BY DEF IsView
  <2>2. lines[i] \in Nat BY <1>1
  <2>3. Holds(P(i, x), x, 1) BY <2>1, <2>2, PushIs DEF Holds
  <2> HIDE DEF P
  <2> QED BY <2>3 DEF Holds, IsView
<1> HIDE DEF P
<1>4. step \in [Nat \X Many -> Many] BY <1>3
<1>5. \A i \in 1..n, x \in Many : step[<<i, x>>] = P(i, x) BY <1>1
<1> HIDE DEF step
<1>6. PICK f \in [0..n -> Many] : Iterates(f, n, v, step)
  <2>1. n \in Nat BY <1>1
  <2>2. \E f \in [0..n -> Many] : Iterates(f, n, v, step)
    BY ONLY <2>1, <1>2, <1>4, Recursion
  <2> QED BY <2>2
<1>7. ASSUME NEW i \in 1..n PROVE f[i] = P(i, f[i - 1])
  <2>1. i - 1 \in 0..n BY <1>1
  <2> QED BY <1>5, <1>6, <2>1 DEF Iterates
<1>8. \A i \in 0..n : i # 0 => i \in 1..n BY <1>1
<1>9. f = [i \in 0..n |-> IF i = 0 THEN v ELSE P(i, f[i - 1])]
  BY <1>6, <1>7, <1>8 DEF Iterates
<1>10. Pushing(f, v, lines) BY <1>9 DEF Pushing, n, P
<1> DEFINE pushed == CHOOSE g : Pushing(g, v, lines)
<1>11. Pushing(pushed, v, lines) BY <1>10
<1>12. Println(v, lines) = RedrawOut(Hold(pushed[n], n), rows)
  BY DEF Println, Pushing, n
<1>13. pushed = [i \in 0..n |-> IF i = 0 THEN v ELSE P(i, pushed[i - 1])]
  BY <1>11 DEF Pushing, n, P
<1> HIDE DEF pushed
<1> DEFINE S == {i \in Nat : i \in 0..n => pushed[i] \in Many /\ Holds(pushed[i], v, i)}
<1>14. 0 \in S
  <2>1. 0 \in 0..n BY <1>1
  <2>2. pushed[0] = v BY <1>13, <2>1
  <2>3. v.lines \in Seq(Nat) /\ v.dropped \in Nat BY DEF IsView
  <2>4. Printed(v) \in Nat BY <2>3, LenProperties DEF Printed
  <2> QED BY <1>2, <2>2, <2>3, <2>4 DEF Holds
<1>15. ASSUME NEW k \in S PROVE k + 1 \in S
  <2> SUFFICES ASSUME k + 1 \in 0..n
               PROVE  pushed[k + 1] \in Many /\ Holds(pushed[k + 1], v, k + 1)
    OBVIOUS
  <2>1. k \in Nat /\ k \in 0..n /\ k + 1 \in 1..n /\ k + 1 # 0 /\ (k + 1) - 1 = k BY <1>1
  <2>2. pushed[k] \in Many /\ Holds(pushed[k], v, k) BY <2>1
  <2> HIDE DEF S
  <2>3. pushed[k + 1] = P(k + 1, pushed[k]) BY <1>13, <2>1
  <2>4. P(k + 1, pushed[k]) \in Many /\ Holds(P(k + 1, pushed[k]), pushed[k], 1)
    BY <1>3, <2>1, <2>2
  <2> DEFINE a == pushed[k]
             b == pushed[k + 1]
  <2>5. b \in Many /\ Holds(a, v, k) /\ Holds(b, a, 1) BY <2>2, <2>3, <2>4
  <2> HIDE DEF a, b
  <2>6. Printed(v) \in Int
    <3>1. v.lines \in Seq(Nat) /\ v.dropped \in Nat BY DEF IsView
    <3> QED BY <3>1, LenProperties DEF Printed
  <2>7. Printed(b) = Printed(v) + (k + 1) BY <2>1, <2>5, <2>6 DEF Holds
  <2>8. b.dropped >= v.dropped BY <2>5 DEF Holds, IsView
  <2>9. IsView(b) /\ b.scroll = v.scroll BY <2>5 DEF Holds
  <2>10. Holds(b, v, k + 1) BY <2>7, <2>8, <2>9 DEF Holds
  <2> QED BY <2>5, <2>10 DEF b
<1>16. S = Nat
  <2>1. S \subseteq Nat OBVIOUS
  <2> HIDE DEF S
  <2> QED BY <1>14, <1>15, <2>1, Induct
<1>17. Holds(pushed[n], v, n)
  <2>1. n \in 0..n BY <1>1
  <2>2. n \in S
    <3> HIDE DEF S
    <3> QED BY <1>1, <1>16
  <2> QED BY <2>1, <2>2
<1> QED BY <1>12, <1>17 DEF n

\* println: the top of the view, in lines since the start.
LEMMA PrintlnIs ==
  ASSUME TopInv, rows # 0, NEW lines \in Seq(Nat), NEW w, w = Println(view, lines)
  PROVE  /\ IsView(w)
         /\ view.scroll = 0 => w.scroll = 0
         /\ view.scroll > 0 => Top(w, rows) = Most(Top(view, rows), w.dropped)
<1> DEFINE k == Len(lines)
           h == ViewH(rows)
           l == Len(view.lines)
           d == view.dropped
           s == view.scroll
<1>1. k \in Nat /\ h \in Int /\ l \in Nat /\ d \in Nat /\ s \in Nat /\ IsView(view)
  <2>1. IsView(view) /\ rows \in Nat /\ view.lines \in Seq(Nat) BY DEF TopInv, IsView
  <2> QED BY <2>1, LenProperties DEF IsView, ViewH
<1>2. PICK u : Holds(u, view, k) /\ w = RedrawOut(Hold(u, k), rows) BY <1>1, PushingIs
<1> DEFINE L == Len(u.lines)
           D == u.dropped
           held == Hold(u, k)
           S == IF s > 0 THEN s + k ELSE 0
<1>3. IsView(u) /\ u.scroll = s /\ D + L = d + l + k /\ D >= d
  BY <1>2 DEF Holds, Printed
<1>4. L \in Nat /\ D \in Nat /\ u.lines \in Seq(Nat)
  BY <1>3, LenProperties DEF IsView
<1>5. IsView(held) /\ held.lines = u.lines /\ held.dropped = D /\ held.scroll = S
  <2>1. CASE s > 0
    <3>1. held = [u EXCEPT !.scroll = s + k] BY <1>3, <2>1 DEF Hold
    <3>2. held = [lines |-> u.lines, scroll |-> s + k, hscroll |-> u.hscroll, dropped |-> D]
      BY <1>3, <3>1 DEF IsView
    <3>3. s + k \in Nat /\ S = s + k BY <1>1, <2>1
    <3> HIDE DEF held, s, k, D, S
    <3>4. u.hscroll \in Nat /\ Len(u.lines) <= Cap BY <1>3 DEF IsView
    <3> QED BY <1>4, <3>2, <3>3, <3>4 DEF IsView
  <2>2. CASE ~(s > 0)
    <3>1. held = u BY <1>3, <2>2 DEF Hold
    <3>2. s = 0 BY <1>1, <2>2
    <3> QED BY <1>3, <3>1, <3>2
  <2> QED BY <2>1, <2>2
<1> DEFINE t == Clamp(S, 0, Most(0, L - h))
<1>6. IsView(w) /\ w.lines = u.lines /\ w.dropped = D /\ w.scroll = t
  <2>1. rows \in Nat BY DEF TopInv
  <2> HIDE DEF held
  <2>2. w = RedrawOut(held, rows) BY <1>2 DEF held
  <2>3. /\ IsView(w) /\ w.lines = held.lines /\ w.dropped = held.dropped
        /\ w.scroll = Clamp(held.scroll, 0, Most(0, Len(held.lines) - ViewH(rows)))
    BY <1>5, <2>1, <2>2, RedrawIs
  <2> QED BY <1>5, <2>3
<1>7. Top(w, rows) = D + Most(0, L - h - t) BY <1>6 DEF Top, First
<1>8. Top(view, rows) = d + Most(0, l - h - s) BY DEF Top, First
<1> HIDE DEF k, h, l, d, s, L, D, held
<1>9. S \in Int BY <1>1
<1>10. s = 0 => t = 0 BY <1>1, <1>4 DEF Clamp, Most, Least
<1>11. ASSUME s > 0
       PROVE  D + Most(0, L - h - t) = Most(d + Most(0, l - h - s), D)
  BY <1>1, <1>3, <1>4, <1>11 DEF Clamp, Most, Least
<1> QED BY <1>6, <1>7, <1>8, <1>10, <1>11 DEF s, D

LEMMA OutRowsNat ==
  ASSUME NEW h \in Nat, screen \in Screens
  PROVE  OutRows(h) \in Nat /\ FirstRows(h) \in Nat
<1>1. h \div 3 \in Int OBVIOUS
<1>2. \A a, b \in Int : Most(a, b) \in Int /\ Least(a, b) \in Int BY DEF Most, Least
<1>3. Targets(h) \in Int
  <2>1. PICK c \in Int : c = Clamp(h \div 3, 4, 10) BY <1>1 DEF Clamp, Most, Least
  <2>2. PICK m \in Int : m = Least(c, h - 4) BY DEF Least
  <2>3. Targets(h) = Most(1, m) BY <2>1, <2>2 DEF Targets
  <2> QED BY <1>2, <2>3
<1>4. \A n \in Int : Most(1, n) \in Nat BY DEF Most
<1>5. Most(1, h - 5) \in Nat BY <1>4
<1>6. Most(1, h - Targets(h) - 3) \in Nat BY <1>3, <1>4
<1>7. ~(h < 3 \/ Columns < 4) => h - 2 \in Nat OBVIOUS
<1>8. screen \in {"mgmt", "peer", "server", "tunnel"} BY DEF Screens, WithInput
<1>9. CASE screen = "mgmt" BY <1>5, <1>9 DEF OutRows, FirstRows
<1>10. CASE screen = "peer" BY <1>5, <1>10 DEF OutRows, FirstRows
<1>11. CASE screen = "server" BY <1>7, <1>11 DEF OutRows, FirstRows
<1>12. CASE screen = "tunnel" BY <1>6, <1>12 DEF OutRows, FirstRows
<1> QED BY <1>8, <1>9, <1>10, <1>11, <1>12

LEMMA TopInit == TranscriptInit => TopInv
<1> SUFFICES ASSUME TranscriptInit PROVE TopInv OBVIOUS
<1>1. rows \in Nat /\ screen \in Screens
  <2>1. PICK h \in Heights : rows = FirstRows(h) /\ screen \in Screens BY DEF TranscriptInit
  <2>2. h \in Nat BY TranscriptAssumption
  <2> QED BY <2>1, <2>2, OutRowsNat
<1>2. <<Greeting>> \in Seq(Nat) /\ Len(<<Greeting>>) <= Cap
  BY TranscriptAssumption DEF Greeting
<1> QED BY <1>1, <1>2 DEF TranscriptInit, TopInv, IsView

\* No lines are printed, or some are and the windows stay.
Still == Printed(view') = Printed(view)
Printing == \E lines \in Seq(Nat) : view' = Println(view, lines) /\ UNCHANGED <<screen, rows>>

LEMMA ViewsStill ==
  ASSUME TopInv, NEW s \in Nat, NEW h \in Nat,
         \/ view' = RedrawOut(view, h)
         \/ view' = RedrawOut([view EXCEPT !.scroll = s], h)
         \/ \E p \in Nat : view' = RedrawOut([view EXCEPT !.hscroll = p], h)
  PROVE  IsView(view') /\ Still
<1>1. IsView(view) BY DEF TopInv
<1>2. PICK v : /\ IsView(v) /\ v.lines = view.lines /\ v.dropped = view.dropped
               /\ view' = RedrawOut(v, h)
  <2>1. CASE view' = RedrawOut(view, h) BY <1>1, <2>1
  <2>2. CASE view' = RedrawOut([view EXCEPT !.scroll = s], h)
    <3> DEFINE v == [view EXCEPT !.scroll = s]
    <3>1. v = [lines |-> view.lines, scroll |-> s, hscroll |-> view.hscroll,
               dropped |-> view.dropped]
      BY <1>1 DEF IsView
    <3>2. view' = RedrawOut(v, h) BY <2>2
    <3> HIDE DEF v
    <3> QED BY <1>1, <3>1, <3>2 DEF IsView
  <2>3. CASE \E p \in Nat : view' = RedrawOut([view EXCEPT !.hscroll = p], h)
    <3>1. PICK p \in Nat : view' = RedrawOut([view EXCEPT !.hscroll = p], h) BY <2>3
    <3> DEFINE v == [view EXCEPT !.hscroll = p]
    <3>2. v = [lines |-> view.lines, scroll |-> view.scroll, hscroll |-> p,
               dropped |-> view.dropped]
      BY <1>1 DEF IsView
    <3>3. view' = RedrawOut(v, h) BY <3>1
    <3> HIDE DEF v
    <3> QED BY <1>1, <3>2, <3>3 DEF IsView
  <2> QED BY <2>1, <2>2, <2>3
<1>3. IsView(view') /\ view'.lines = v.lines /\ view'.dropped = v.dropped
  BY <1>2, RedrawIs
<1> QED BY <1>2, <1>3 DEF Still, Printed

LEMMA ScrollStill ==
  ASSUME TopInv, NEW n \in Int, ScrollBy(n)
  PROVE  TopInv' /\ Still
<1>1. view.scroll \in Nat /\ rows \in Nat BY DEF TopInv, IsView
<1>2. PICK s \in Nat : s = Most(0, view.scroll + n) BY <1>1 DEF Most
<1>3. view' = RedrawOut([view EXCEPT !.scroll = s], rows) /\ rows' = rows /\ screen' = screen
  BY <1>2 DEF ScrollBy, Views
<1>4. IsView(view') /\ Still BY <1>1, <1>3, ViewsStill
<1> QED BY <1>1, <1>3, <1>4 DEF TopInv, IsView

LEMMA StepTop ==
  ASSUME TopInv, TranscriptNext
  PROVE  (TopInv' /\ Still) \/ Printing
<1>0. IsView(view) /\ rows \in Nat /\ screen \in Screens /\ view.scroll \in Nat /\ view.lines \in Seq(Nat)
      /\ Len(view.lines) \in Nat
  BY LenProperties DEF TopInv, IsView
<1>1. CASE Output
  <2>1. PICK m \in Messages : view' = Println(view, m) BY <1>1 DEF Output, Prints
  <2>2. m \in Seq(Nat) BY TranscriptAssumption
  <2> QED BY <1>1, <2>1, <2>2 DEF Output, Printing
<1>2. CASE Relayout
  <2>1. PICK h \in Heights :
          rows' = OutRows(h) /\ view' = RedrawOut(view, OutRows(h)) /\ screen' = screen
    BY <1>2 DEF Relayout
  <2>2. h \in Nat BY TranscriptAssumption
  <2>3. OutRows(h) \in Nat BY <1>0, <2>2, OutRowsNat
  <2>4. IsView(view') /\ Still BY <1>0, <2>1, <2>3, ViewsStill
  <2> QED BY <1>0, <2>1, <2>3, <2>4 DEF TopInv, IsView
<1>3. CASE Scroll
  <2>1. Page \in Int /\ -Page \in Int /\ Wheel \in Int /\ -Wheel \in Int
    BY <1>0 DEF Page, Wheel
  <2>2. PICK n \in Int : ScrollBy(n) BY <1>3, <2>1 DEF Scroll
  <2> QED BY <2>2, ScrollStill
<1>4. CASE Home
  <2>1. /\ view' = RedrawOut([view EXCEPT !.scroll = Len(view.lines)], rows)
        /\ UNCHANGED <<screen, rows>>
    BY <1>4 DEF Home, Views
  <2>2. IsView(view') /\ Still BY <1>0, <2>1, ViewsStill
  <2> QED BY <1>0, <2>1, <2>2 DEF TopInv, IsView
<1>5. CASE End
  <2>1. view' = RedrawOut([view EXCEPT !.scroll = 0], rows) /\ UNCHANGED <<screen, rows>>
    BY <1>5 DEF End, Views
  <2>2. IsView(view') /\ Still BY <1>0, <2>1, ViewsStill
  <2> QED BY <1>0, <2>1, <2>2 DEF TopInv, IsView
<1>6. CASE PanBy(Pan) \/ PanBy(-Pan)
  <2>1. Most(0, view.hscroll + Pan) \in Nat /\ Most(0, view.hscroll + (-Pan)) \in Nat
    BY <1>0 DEF Most, Pan, IsView
  <2>2. PICK p \in Nat : view' = RedrawOut([view EXCEPT !.hscroll = p], rows)
                          /\ UNCHANGED <<screen, rows>>
    BY <1>6, <2>1 DEF PanBy, Views
  <2>3. IsView(view') /\ Still BY <1>0, <2>2, ViewsStill
  <2> QED BY <1>0, <2>2, <2>3 DEF TopInv, IsView
<1>7. CASE Submit
  <2>1. PICK m \in Messages : view' = Println(view, m) BY <1>7 DEF Submit, Prints
  <2>2. m \in Seq(Nat) BY TranscriptAssumption
  <2>3. UNCHANGED <<screen, rows>> BY <1>7 DEF Submit, Edits
  <2> QED BY <2>1, <2>2, <2>3 DEF Printing
<1>8. CASE Older \/ Newer \/ \E c \in Typings : Types(c)
  <2>1. UNCHANGED <<view, screen, rows>> BY <1>8 DEF Older, Newer, Types, Edits
  <2> QED BY <2>1 DEF TopInv, IsView, Still, Printed
<1> QED BY <1>1, <1>2, <1>3, <1>4, <1>5, <1>6, <1>7, <1>8 DEF TranscriptNext

\* The top of the view is held, or the view is at the bottom.
ViewHeld ==
  Printed(view') > Printed(view) /\ rows # 0 =>
    IF view.scroll > 0
    THEN Top(view', rows') = Most(Top(view, rows), view'.dropped)
    ELSE view'.scroll = 0

LEMMA TopStep ==
  ASSUME TopInv, [TranscriptNext]_tui
  PROVE  TopInv' /\ [ViewHeld]_tui
<1>1. CASE UNCHANGED tui
  BY <1>1 DEF tui, TopInv, IsView
<1>2. CASE TopInv' /\ Still
  <2>1. Printed(view) \in Int
    <3>1. view.lines \in Seq(Nat) /\ view.dropped \in Nat BY DEF TopInv, IsView
    <3> QED BY <3>1, LenProperties DEF Printed
  <2>2. ~(Printed(view') > Printed(view)) BY <1>2, <2>1 DEF Still
  <2> QED BY <1>2, <2>2 DEF ViewHeld
<1>3. CASE Printing
  <2>1. PICK lines \in Seq(Nat) : view' = Println(view, lines) /\ rows' = rows /\ screen' = screen
    BY <1>3 DEF Printing
  <2>2. PICK w : w = view' OBVIOUS
  <2>3. view.scroll \in Nat /\ rows \in Nat /\ screen \in Screens BY DEF TopInv, IsView
  <2>4. CASE rows # 0
    <3>1. /\ IsView(w)
          /\ view.scroll = 0 => w.scroll = 0
          /\ view.scroll > 0 => Top(w, rows) = Most(Top(view, rows), w.dropped)
      BY <2>1, <2>2, <2>4, PrintlnIs
    <3> QED BY <2>1, <2>2, <2>3, <3>1 DEF TopInv, IsView, ViewHeld
  <2>5. CASE rows = 0
    <3>1. PICK u : Holds(u, view, Len(lines)) /\ w = RedrawOut(Hold(u, Len(lines)), rows)
      BY <2>1, <2>2, PushingIs DEF TopInv
    <3>2. w = Hold(u, Len(lines)) BY <2>5, <3>1 DEF RedrawOut
    <3>3. IsView(w)
      <4>1. IsView(u) /\ Len(lines) \in Nat BY <3>1, LenProperties DEF Holds
      <4>2. CASE u.scroll > 0
        <5>1. w = [lines |-> u.lines, scroll |-> u.scroll + Len(lines), hscroll |-> u.hscroll,
                   dropped |-> u.dropped]
          BY <3>2, <4>1, <4>2 DEF Hold, IsView
        <5> QED BY <4>1, <5>1 DEF IsView
      <4>3. CASE ~(u.scroll > 0) BY <3>2, <4>1, <4>3 DEF Hold
      <4> QED BY <4>2, <4>3
    <3> QED BY <2>1, <2>2, <2>3, <2>5, <3>3 DEF TopInv, IsView, ViewHeld
  <2> QED BY <2>4, <2>5
<1> QED BY <1>1, <1>2, <1>3, StepTop

\* println, push_history and redraw_out, for any cap, any heights, any
\* messages and any keys in between: what the operator looks at stays where
\* it is while output arrives.
THEOREM TopHolds == TranscriptSpec => ViewHolds
<1> QED BY TopInit, TopStep, PTL DEF TranscriptSpec, ViewHolds, ViewHeld

\* The input line: a command typed, or one of the history, which repeats no
\* command in a row.
PromptInv ==
  /\ prompt = [input |-> prompt.input, history |-> prompt.history, idx |-> prompt.idx]
  /\ prompt.input \in Typings \cup {NoInput}
  /\ prompt.history \in Seq(Typings \cup {NoInput})
  /\ prompt.idx \in 0..Len(prompt.history)
  /\ \A i \in 2..Len(prompt.history) : prompt.history[i - 1] # prompt.history[i]

LEMMA PromptSubmits == ASSUME PromptInv, Submit PROVE PromptInv'
<1> DEFINE C == Typings \cup {NoInput}
           h == prompt.history
           n == Len(h)
           c == prompt.input
           kept == IF h # <<>> /\ Last(h) = c THEN h ELSE Append(h, c)
<1>1. h \in Seq(C) /\ n \in Nat /\ c \in C /\ \A i \in 2..n : h[i - 1] # h[i]
  BY LenProperties DEF PromptInv
<1>2. prompt' = [input |-> NoInput, history |-> kept, idx |-> Len(kept)]
  BY DEF Submit, Edits
<1> HIDE DEF C
<1>3. /\ kept \in Seq(C) /\ Len(kept) \in Nat
      /\ \A i \in 2..Len(kept) : kept[i - 1] # kept[i]
  <2>1. CASE h # <<>> /\ Last(h) = c BY <1>1, <2>1
  <2>2. CASE ~(h # <<>> /\ Last(h) = c)
    <3>1. kept = Append(h, c) BY <2>2
    <3> DEFINE g == Append(h, c)
    <3>2. n # 0 => h[n] # c
      <4>1. n # 0 => h # <<>> BY EmptySeq
      <4> QED BY <2>2, <4>1 DEF Last
    <3> HIDE DEF h, n, c
    <3>3. /\ g \in Seq(C) /\ Len(g) = n + 1 /\ g[n + 1] = c
          /\ \A i \in 1..n : g[i] = h[i]
      BY <1>1, AppendProperties DEF n
    <3> HIDE DEF g
    <3>4. ASSUME NEW i \in 2..(n + 1) PROVE g[i - 1] # g[i]
      <4>1. CASE i = n + 1
        <5>1. n # 0 /\ i - 1 = n /\ n \in 1..n BY <1>1, <4>1
        <5> QED BY <3>2, <3>3, <4>1, <5>1
      <4>2. CASE i # n + 1
        <5>1. i \in 2..n /\ i \in 1..n /\ i - 1 \in 1..n BY <1>1, <4>2
        <5> QED BY <1>1, <3>3, <5>1
      <4> QED BY <4>1, <4>2
    <3>5. n + 1 \in Nat BY <1>1
    <3> QED BY <3>1, <3>3, <3>4, <3>5 DEF g
  <2> QED BY <2>1, <2>2
<1> HIDE DEF kept
<1>4. Len(kept) \in 0..Len(kept) /\ NoInput \in C BY <1>3 DEF C
<1> QED BY <1>2, <1>3, <1>4 DEF PromptInv, C

LEMMA PromptStep ==
  ASSUME PromptInv, [TranscriptNext]_tui
  PROVE  PromptInv'
<1> DEFINE h == prompt.history
           n == Len(h)
<1>1. /\ prompt = [input |-> prompt.input, history |-> h, idx |-> prompt.idx]
      /\ h \in Seq(Typings \cup {NoInput}) /\ n \in Nat /\ prompt.idx \in 0..n
      /\ \A i \in 1..n : h[i] \in Typings \cup {NoInput}
  BY LenProperties DEF PromptInv
<1>2. CASE prompt' = prompt BY <1>2 DEF PromptInv
<1>3. CASE Submit BY <1>3, PromptSubmits
<1>4. ASSUME NEW c \in Typings, Types(c) PROVE PromptInv'
  <2>1. prompt' = [input |-> c, history |-> h, idx |-> prompt.idx]
    BY <1>1, <1>4 DEF Types, Edits
  <2> QED BY <2>1 DEF PromptInv
<1>5. CASE Older
  <2> DEFINE c == h[prompt.idx]
             k == prompt.idx - 1
  <2>1. prompt' = [prompt EXCEPT !.idx = k, !.input = c] /\ prompt.idx > 0
    BY <1>5 DEF Older, Edits
  <2>2. prompt.idx \in 1..n /\ k \in 0..n BY <1>1, <2>1
  <2>3. c \in Typings \cup {NoInput} BY <1>1, <2>2
  <2> HIDE DEF c, k
  <2>4. prompt' = [input |-> c, history |-> h, idx |-> k] BY <1>1, <2>1
  <2> QED BY <2>2, <2>3, <2>4 DEF PromptInv
<1>6. CASE Newer
  <2> DEFINE k == prompt.idx + 1
             c == IF k < n THEN h[k + 1] ELSE NoInput
  <2>1. prompt' = [prompt EXCEPT !.idx = k, !.input = c] /\ prompt.idx < n
    BY <1>6 DEF Newer, Edits
  <2>2. k \in 0..n BY <1>1, <2>1
  <2>3. c \in Typings \cup {NoInput}
    <3>1. k < n => k + 1 \in 1..n BY <1>1, <2>2
    <3> QED BY <1>1, <3>1
  <2> HIDE DEF c, k
  <2>4. prompt' = [input |-> c, history |-> h, idx |-> k] BY <1>1, <2>1
  <2> QED BY <2>2, <2>3, <2>4 DEF PromptInv
<1>7. CASE Output \/ Relayout BY <1>2, <1>7 DEF Output, Relayout
<1>8. CASE Scroll \/ Home \/ End \/ PanBy(Pan) \/ PanBy(-Pan)
  BY <1>2, <1>8 DEF Scroll, ScrollBy, Home, End, PanBy, Views
<1> QED BY <1>2, <1>3, <1>4, <1>5, <1>6, <1>7, <1>8 DEF TranscriptNext, tui

\* handle_read and println, for any lines, keys and sizes of the terminal: the
\* offsets never go below the newest line or left of the first column, the
\* cap is kept, and the history repeats no command in a row.
THEOREM TranscriptTyped == TranscriptSpec => []TranscriptTypeOK
<1>1. TranscriptInit => PromptInv
  <2> SUFFICES ASSUME TranscriptInit PROVE PromptInv OBVIOUS
  <2>1. <<>> \in Seq(Typings \cup {NoInput}) /\ Len(<<>>) = 0 BY EmptySeq
  <2> QED BY <2>1 DEF TranscriptInit, PromptInv
<1>2. TopInv /\ PromptInv => TranscriptTypeOK
  <2> SUFFICES ASSUME TopInv, PromptInv PROVE TranscriptTypeOK OBVIOUS
  <2>1. Len(view.lines) \in Nat BY LenProperties DEF TopInv, IsView
  <2>2. Len(view.lines) \in 0..Cap BY <2>1, TranscriptAssumption DEF TopInv, IsView
  <2> QED BY <2>2 DEF TopInv, IsView, PromptInv, TranscriptTypeOK
<1> QED BY <1>1, <1>2, TopInit, TopStep, PromptStep, PTL DEF TranscriptSpec

-----------------------------------------------------------------------------
(* PeerShell: the lines of the input.                                      *)

Tokens == STRING
Texts == Seq(Tokens)

\* Where the line that ends at e, or before e, begins; and the line.
Ends(x) == {i \in DOMAIN x : x[i] = NL}
From(x, e) == 1 + Max({0} \cup {i \in Ends(x) : i < e})
LineTo(x, e) ==
  LET raw == SubSeq(x, From(x, e), e - 1) IN Keep(raw, Range(raw) \ {CR})
AllLines(x) == [i \in DOMAIN x |-> IF i \in Ends(x) THEN LineTo(x, i) ELSE <<>>]
OpenLine(x) == LineTo(x, Len(x) + 1)

LEMMA FromIs ==
  ASSUME NEW x \in Texts, NEW e \in 1..(Len(x) + 1)
  PROVE  /\ From(x, e) \in 1..e
         /\ \A i \in Ends(x) : i < e => i < From(x, e)
         /\ From(x, e) = 1 \/ From(x, e) - 1 \in Ends(x)
<1> DEFINE S == {0} \cup {i \in Ends(x) : i < e}
           n == Len(x)
<1>1. n \in Nat /\ DOMAIN x = 1..n BY LenProperties DEF Texts
<1>2. \A i \in Ends(x) : i \in 1..n BY <1>1 DEF Ends
<1>3. e - 1 \in Nat /\ S \in SUBSET (0..(e - 1)) /\ 0 \in S BY <1>1, <1>2
<1>4. From(x, e) = 1 + Max(S) BY DEF From
<1>5. \A i \in Ends(x) : i < e => i \in S OBVIOUS
<1>6. \A i \in S : i = 0 \/ i \in Ends(x) OBVIOUS
<1> HIDE DEF S
<1>7. Max(S) \in S /\ \A i \in S : i <= Max(S) BY <1>3, MaxIs
<1>8. Max(S) \in 0..(e - 1) BY <1>3, <1>7
<1>9. \A i \in Ends(x) : i < e => i <= Max(S) BY <1>5, <1>7
<1>10. Max(S) = 0 \/ Max(S) \in Ends(x) BY <1>6, <1>7
<1> HIDE DEF n
<1>11. From(x, e) - 1 = Max(S) BY <1>4, <1>8
<1> QED BY <1>1, <1>2, <1>4, <1>8, <1>9, <1>10, <1>11

\* A line is of what the text has up to its end.
LEMMA LineIs ==
  ASSUME NEW x \in Texts, NEW e \in 1..(Len(x) + 1)
  PROVE  /\ SubSeq(x, From(x, e), e - 1) \in Texts
         /\ LineTo(x, e) = Keep(SubSeq(x, From(x, e), e - 1), Tokens \ {CR})
         /\ LineTo(x, e) \in Texts
<1> DEFINE f == From(x, e)
           raw == SubSeq(x, f, e - 1)
<1>1. f \in 1..e BY FromIs
<1>2. Len(x) \in Nat /\ \A i \in 1..Len(x) : x[i] \in Tokens BY LenProperties DEF Texts
<1>3. LineTo(x, e) = Keep(raw, Range(raw) \ {CR}) BY DEF LineTo
<1> HIDE DEF f
<1>4. raw \in Texts
  <2>1. f \in Int /\ e - 1 \in Int /\ \A i \in f..(e - 1) : x[i] \in Tokens BY <1>1, <1>2
  <2> QED BY ONLY <2>1, SubSeqProperties DEF Texts
<1> HIDE DEF raw
<1>5. Range(raw) \subseteq Tokens BY <1>4, ElementsIn DEF Texts
<1>6. \A p \in Range(raw) : p \in Range(raw) \ {CR} <=> p \in Tokens \ {CR} BY <1>5
<1>7. Keep(raw, Range(raw) \ {CR}) = Keep(raw, Tokens \ {CR}) BY <1>4, <1>6, KeepRange DEF Texts
<1>8. Keep(raw, Tokens \ {CR}) \in Texts BY <1>4, KeepSeq DEF Texts
<1> QED BY <1>3, <1>4, <1>7, <1>8 DEF raw, f

\* A token more leaves the lines before it as they were.
LEMMA GrownText ==
  ASSUME NEW x \in Texts, NEW t \in Tokens
  PROVE  /\ Append(x, t) \in Texts /\ Len(Append(x, t)) = Len(x) + 1
         /\ Len(x) \in Nat /\ DOMAIN x = 1..Len(x)
         /\ DOMAIN Append(x, t) = 1..(Len(x) + 1)
         /\ \A i \in 1..Len(x) : Append(x, t)[i] = x[i]
         /\ Append(x, t)[Len(x) + 1] = t
         /\ \A i \in 1..Len(x) : i \in Ends(Append(x, t)) <=> i \in Ends(x)
         /\ Len(x) + 1 \in Ends(Append(x, t)) <=> t = NL
<1> DEFINE n == Len(x)
           y == Append(x, t)
<1>1. n \in Nat /\ DOMAIN x = 1..n BY LenProperties DEF Texts
<1>2. /\ y \in Texts /\ Len(y) = n + 1 /\ y[n + 1] = t /\ \A i \in 1..n : y[i] = x[i]
  <2>1. x \in Seq(Tokens) /\ t \in Tokens BY DEF Texts
  <2>2. /\ y \in Seq(Tokens) /\ Len(y) = n + 1 /\ y[n + 1] = t
        /\ \A i \in 1..n : y[i] = x[i]
    BY ONLY <2>1, AppendProperties
  <2> QED BY <2>2 DEF Texts
<1> HIDE DEF y, n
<1>3. DOMAIN y = 1..(n + 1) BY <1>2, LenProperties DEF Texts
<1>4. \A i \in 1..n : i \in 1..(n + 1) BY <1>1
<1>5. n + 1 \in 1..(n + 1) BY <1>1
<1>6. \A i \in 1..n : i \in Ends(y) <=> i \in Ends(x) BY <1>1, <1>2, <1>3, <1>4 DEF Ends
<1>7. n + 1 \in Ends(y) <=> t = NL BY <1>2, <1>3, <1>5 DEF Ends
<1> QED BY <1>1, <1>2, <1>3, <1>6, <1>7 DEF y, n

LEMMA SameLine ==
  ASSUME NEW x \in Texts, NEW t \in Tokens, NEW e \in 1..(Len(x) + 1)
  PROVE  From(Append(x, t), e) = From(x, e) /\ LineTo(Append(x, t), e) = LineTo(x, e)
<1> DEFINE n == Len(x)
           y == Append(x, t)
           f == From(x, e)
<1>1. /\ y \in Texts /\ Len(y) = n + 1 /\ n \in Nat /\ \A i \in 1..n : y[i] = x[i]
      /\ DOMAIN y = 1..(n + 1) /\ DOMAIN x = 1..n
      /\ \A i \in 1..n : i \in Ends(y) <=> i \in Ends(x)
  BY GrownText
<1> HIDE DEF y
<1>2. {i \in Ends(y) : i < e} = {i \in Ends(x) : i < e}
  <2>1. \A i \in Ends(y) : i < e => i \in 1..n BY <1>1 DEF Ends
  <2>2. \A i \in Ends(x) : i \in 1..n BY <1>1 DEF Ends
  <2> HIDE DEF n
  <2> QED BY <1>1, <2>1, <2>2
<1>3. From(y, e) = f BY <1>2 DEF From
<1>4. f \in 1..e BY FromIs
<1> HIDE DEF f
<1>5. SubSeq(y, f, e - 1) = SubSeq(x, f, e - 1)
  <2> DEFINE a == SubSeq(x, f, e - 1)
             b == SubSeq(y, f, e - 1)
             m == (e - 1) - f + 1
  <2>1. f \in Int /\ e - 1 \in Int /\ \A i \in f..(e - 1) : i \in 1..n BY <1>1, <1>4
  <2>2. \A i \in f..(e - 1) : x[i] \in Tokens /\ y[i] \in Tokens
    <3>1. \A i \in 1..n : x[i] \in Tokens BY LenProperties DEF Texts
    <3> QED BY <1>1, <2>1, <3>1
  <2>3. /\ a \in Seq(Tokens) /\ Len(a) = IF f <= e - 1 THEN m ELSE 0
        /\ \A i \in 1..m : a[i] = x[f + i - 1]
    BY ONLY <2>1, <2>2, SubSeqProperties
  <2>4. /\ b \in Seq(Tokens) /\ Len(b) = IF f <= e - 1 THEN m ELSE 0
        /\ \A i \in 1..m : b[i] = y[f + i - 1]
    BY ONLY <2>1, <2>2, SubSeqProperties
  <2>5. \A i \in 1..m : f + i - 1 \in 1..n BY <1>1, <1>4
  <2>6. Len(a) = m /\ Len(b) = m BY <1>1, <1>4, <2>3, <2>4
  <2> HIDE DEF a, b, m, n
  <2>7. \A i \in 1..m : a[i] = b[i] BY <1>1, <2>3, <2>4, <2>5
  <2>8. Len(a) = Len(b) /\ \A i \in 1..Len(a) : a[i] = b[i] BY <2>6, <2>7
  <2>9. a = b BY ONLY <2>3, <2>4, <2>8, SeqEqual
  <2> QED BY <2>9 DEF a, b
<1>6. e \in 1..(Len(y) + 1) BY <1>1
<1>7. LineTo(y, e) = Keep(SubSeq(y, f, e - 1), Tokens \ {CR}) BY <1>1, <1>3, <1>6, LineIs
<1>8. LineTo(x, e) = Keep(SubSeq(x, f, e - 1), Tokens \ {CR}) BY LineIs DEF f
<1> QED BY <1>3, <1>5, <1>7, <1>8 DEF y, f

LEMMA EmptyText == <<>> \in Texts /\ Len(<<>>) = 0 /\ Words(<<>>) = <<>>
<1>1. <<>> \in Seq(Tokens) /\ Len(<<>>) = 0 BY EmptySeq
<1> QED BY <1>1, KeepEmpty DEF Words, Texts

\* The lines that run are those with a word.
Said == {l \in Texts : Words(l) # <<>>}

LEMMA LinesOfIs ==
  ASSUME NEW x \in Texts
  PROVE  /\ AllLines(x) \in Seq(Texts) /\ Len(AllLines(x)) = Len(x)
         /\ LinesOf(x) = Keep(AllLines(x), Said) /\ LinesOf(x) \in Seq(Texts)
<1> DEFINE n == Len(x)
           all == AllLines(x)
<1>1. n \in Nat /\ DOMAIN x = 1..n BY LenProperties DEF Texts
<1>2. all \in [1..n -> Texts]
  <2>1. ASSUME NEW i \in 1..n
        PROVE  (IF i \in Ends(x) THEN LineTo(x, i) ELSE <<>>) \in Texts
    <3>1. i \in 1..(Len(x) + 1) BY <1>1
    <3>2. LineTo(x, i) \in Texts BY <3>1, LineIs
    <3> QED BY <3>2, EmptyText
  <2> QED BY <1>1, <2>1 DEF AllLines
<1>3. LinesOf(x) = Keep(all, {l \in Range(all) : Words(l) # <<>>})
  BY DEF LinesOf, AllLines, LineTo, From, Ends
<1> HIDE DEF all, n
<1>4. all \in Seq(Texts) BY <1>1, <1>2, SeqDef
<1>5. Len(all) = n BY <1>1, <1>2, <1>4, LenProperties
<1> DEFINE K == {l \in Range(all) : Words(l) # <<>>}
<1>6. Range(all) \subseteq Texts BY <1>4, ElementsIn
<1>7. \A l \in Range(all) : l \in K <=> l \in Said BY <1>6 DEF Said
<1> HIDE DEF K
<1>8. Keep(all, K) = Keep(all, Said) BY <1>4, <1>7, KeepRange
<1>9. Keep(all, Said) \in Seq(Texts) BY <1>4, KeepSeq
<1> QED BY <1>3, <1>4, <1>5, <1>8, <1>9 DEF all, n, K

\* One token: the lines so far, and the one that is open.
LEMMA LinesGrow ==
  ASSUME NEW x \in Texts, NEW t \in Tokens
  PROVE  LET y == Append(x, t)
         IN /\ t # NL => LinesOf(y) = LinesOf(x)
            /\ t = NL /\ Words(OpenLine(x)) = <<>> => LinesOf(y) = LinesOf(x)
            /\ t = NL /\ Words(OpenLine(x)) # <<>> =>
                 LinesOf(y) = Append(LinesOf(x), OpenLine(x))
<1> DEFINE y == Append(x, t)
           n == Len(x)
           a == AllLines(x)
           b == AllLines(y)
           new == IF t = NL THEN OpenLine(x) ELSE <<>>
<1>1. /\ y \in Texts /\ Len(y) = n + 1 /\ n \in Nat
      /\ DOMAIN x = 1..n /\ DOMAIN y = 1..(n + 1)
      /\ \A i \in 1..n : i \in Ends(y) <=> i \in Ends(x)
      /\ n + 1 \in Ends(y) <=> t = NL
  BY GrownText
<1>2. \A e \in 1..(n + 1) : LineTo(y, e) = LineTo(x, e) BY SameLine
<1> HIDE DEF y
<1>3. a \in Seq(Texts) /\ Len(a) = n /\ LinesOf(x) = Keep(a, Said) BY LinesOfIs
<1>4. b \in Seq(Texts) /\ Len(b) = n + 1 /\ LinesOf(y) = Keep(b, Said) BY <1>1, LinesOfIs
<1>5. \A i \in 1..n : a[i] = IF i \in Ends(x) THEN LineTo(x, i) ELSE <<>>
  BY <1>1 DEF AllLines
<1>6. \A i \in 1..(n + 1) : b[i] = IF i \in Ends(y) THEN LineTo(y, i) ELSE <<>>
  BY <1>1 DEF AllLines
<1>7. OpenLine(x) = LineTo(x, n + 1) /\ OpenLine(x) \in Texts
  <2>1. n + 1 \in 1..(Len(x) + 1) BY <1>1
  <2> QED BY <2>1, LineIs DEF OpenLine
<1> HIDE DEF a, b, n
<1>8. \A i \in 1..(n + 1) : i \in 1..n \/ i = n + 1 BY <1>1
<1>9. (\A i \in 1..n : i \in 1..(n + 1)) /\ n + 1 \in 1..(n + 1) BY <1>1
<1>10. new \in Texts BY <1>7, EmptyText
<1>11. b[n + 1] = new BY <1>1, <1>2, <1>6, <1>7, <1>9
<1>12. \A i \in 1..n : b[i] = a[i] BY <1>1, <1>2, <1>5, <1>6, <1>9
<1>13. t # NL => new = <<>> OBVIOUS
<1>14. t = NL => new = OpenLine(x) OBVIOUS
<1> HIDE DEF new
<1>15. b = Append(a, new)
  <2>1. /\ Append(a, new) \in Seq(Texts) /\ Len(Append(a, new)) = n + 1
        /\ \A i \in 1..n : Append(a, new)[i] = a[i]
        /\ Append(a, new)[n + 1] = new
    BY <1>3, <1>10, AppendProperties
  <2>2. \A i \in 1..(n + 1) : b[i] = Append(a, new)[i] BY <1>8, <1>11, <1>12, <2>1
  <2>3. b \in Seq(Texts) /\ Len(b) = Len(Append(a, new)) BY <1>4, <2>1
  <2>4. \A i \in 1..Len(b) : b[i] = Append(a, new)[i] BY <1>4, <2>2
  <2> QED BY ONLY <2>1, <2>3, <2>4, SeqEqual
<1>16. new \in Said <=> Words(new) # <<>> BY <1>10 DEF Said
<1>17. /\ new \in Said => Keep(b, Said) = Append(Keep(a, Said), new)
       /\ new \notin Said => Keep(b, Said) = Keep(a, Said)
  BY <1>3, <1>10, <1>15, KeepAppend
<1> QED BY <1>3, <1>4, <1>13, <1>14, <1>16, <1>17, EmptyText DEF y

LEMMA OpenGrows ==
  ASSUME NEW x \in Texts, NEW t \in Tokens
  PROVE  LET y == Append(x, t)
         IN /\ t = NL => OpenLine(y) = <<>>
            /\ t = CR => OpenLine(y) = OpenLine(x)
            /\ t \notin {NL, CR} => OpenLine(y) = Append(OpenLine(x), t)
<1> DEFINE y == Append(x, t)
           n == Len(x)
           f == From(x, n + 1)
           g == From(y, n + 2)
           a == SubSeq(x, f, n)
           b == SubSeq(y, g, n + 1)
           K == Tokens \ {CR}
<1>1. /\ y \in Texts /\ Len(y) = n + 1 /\ n \in Nat
      /\ DOMAIN x = 1..n /\ DOMAIN y = 1..(n + 1)
      /\ \A i \in 1..n : i \in Ends(y) <=> i \in Ends(x)
      /\ n + 1 \in Ends(y) <=> t = NL
  BY GrownText
<1>2. n + 1 \in 1..(Len(x) + 1) /\ (n + 1) - 1 = n BY <1>1
<1>3. f \in 1..(n + 1) BY <1>2, FromIs
<1>4. OpenLine(x) = Keep(a, K) /\ a \in Texts
  <2>1. a = SubSeq(x, From(x, n + 1), (n + 1) - 1) BY <1>2
  <2> HIDE DEF a
  <2> QED BY <1>2, <2>1, LineIs DEF OpenLine
<1> HIDE DEF y
<1>5. n + 2 \in 1..(Len(y) + 1) /\ (n + 2) - 1 = n + 1 /\ Len(y) + 1 = n + 2 BY <1>1
<1>6. g \in 1..(n + 2) /\ \A i \in Ends(y) : i < n + 2 => i < g BY <1>1, <1>5, FromIs
<1>7. OpenLine(y) = Keep(b, K) /\ b \in Texts
  <2>1. b = SubSeq(y, From(y, n + 2), (n + 2) - 1) BY <1>5
  <2> HIDE DEF b
  <2> QED BY <1>1, <1>5, <2>1, LineIs DEF OpenLine
<1>8. CASE t = NL
  <2>1. n + 1 < g BY <1>1, <1>6, <1>8
  <2>2. g \in Int /\ n + 1 \in Int BY <1>1, <1>6
  <2> HIDE DEF g
  <2>3. b = <<>> BY ONLY <2>1, <2>2, SubSeqEmpty
  <2>4. OpenLine(y) = <<>> BY <1>7, <2>3, KeepEmpty
  <2>5. t # CR BY <1>8 DEF NL, CR
  <2> QED BY <1>8, <2>4, <2>5 DEF y
<1>9. CASE t # NL
  <2>1. {i \in Ends(y) : i < n + 2} = {i \in Ends(x) : i < n + 1}
    <3>1. \A i \in Ends(y) : i \in 1..n \/ i = n + 1 BY <1>1 DEF Ends
    <3>2. \A i \in Ends(x) : i \in 1..n BY <1>1 DEF Ends
    <3>3. \A i \in 1..n : i < n + 2 /\ i < n + 1 BY <1>1
    <3> HIDE DEF n
    <3> QED BY <1>1, <1>9, <3>1, <3>2, <3>3
  <2>2. g = f BY <2>1 DEF From
  <2>3. b = Append(a, t)
    <3>1. PICK k \in Nat : k <= n /\ k + 1 = f
      <4>1. f - 1 \in Nat /\ f - 1 <= n /\ (f - 1) + 1 = f BY <1>1, <1>3
      <4> QED BY <4>1
    <3>2. x \in Seq(Tokens) BY DEF Texts
    <3>3. \A e \in Tokens : SubSeq(Append(x, e), k + 1, Len(Append(x, e)))
                               = Append(SubSeq(x, k + 1, Len(x)), e)
      <4>1. k \in Nat /\ k <= Len(x) BY <3>1
      <4> QED BY ONLY <3>2, <4>1, RestAppend, ZenonT(30)
    <3>4. SubSeq(y, k + 1, n + 1) = Append(SubSeq(x, k + 1, n), t)
      <4>1. SubSeq(y, k + 1, Len(y)) = Append(SubSeq(x, k + 1, Len(x)), t) BY <3>3 DEF y
      <4> QED BY <1>1, <4>1
    <3>5. f = k + 1 /\ g = k + 1 BY <2>2, <3>1
    <3> HIDE DEF f, g
    <3> QED BY <3>4, <3>5
  <2> HIDE DEF a, b
  <2>4. /\ t \in K => Keep(b, K) = Append(Keep(a, K), t)
        /\ t \notin K => Keep(b, K) = Keep(a, K)
    BY <1>4, <2>3, KeepAppend DEF Texts
  <2> QED BY <1>4, <1>7, <1>9, <2>4 DEF y
<1> QED BY <1>8, <1>9

\* A shell that has read a text: the lines it ran, and the open one.
HasRead(s, x) ==
  /\ s = [line |-> s.line, ran |-> s.ran, quit |-> s.quit]
  /\ s.line = OpenLine(x) /\ s.ran = LinesOf(x) /\ s.quit \in BOOLEAN
  /\ s.quit => \E i \in DOMAIN s.ran : Quits(s.ran[i])

LEMMA ReadTokenIs ==
  ASSUME NEW x \in Texts, NEW t \in Tokens, NEW s, HasRead(s, x)
  PROVE  /\ HasRead(ReadToken(s, t), Append(x, t))
         /\ \E w \in Seq(Texts) : ReadToken(s, t).ran = s.ran \o w
<1> DEFINE y == Append(x, t)
           u == ReadToken(s, t)
<1>1. LinesOf(x) \in Seq(Texts) /\ OpenLine(x) \in Texts
  <2>1. Len(x) + 1 \in 1..(Len(x) + 1)
    <3>1. Len(x) \in Nat BY LenProperties DEF Texts
    <3> QED BY <3>1
  <2> QED BY <2>1, LinesOfIs, LineIs DEF OpenLine
<1>2. LinesOf(x) \o <<>> = LinesOf(x) /\ <<>> \in Seq(Texts) BY <1>1, ConcatEmptySeq, EmptySeq
<1>3. /\ t # NL => LinesOf(y) = LinesOf(x)
      /\ t = NL /\ Words(OpenLine(x)) = <<>> => LinesOf(y) = LinesOf(x)
      /\ t = NL /\ Words(OpenLine(x)) # <<>> => LinesOf(y) = Append(LinesOf(x), OpenLine(x))
  BY LinesGrow
<1>4. /\ t = NL => OpenLine(y) = <<>>
      /\ t = CR => OpenLine(y) = OpenLine(x)
      /\ t \notin {NL, CR} => OpenLine(y) = Append(OpenLine(x), t)
  BY OpenGrows
<1>5. NL # CR BY DEF NL, CR
<1> HIDE DEF y
<1>6. /\ s = [line |-> s.line, ran |-> s.ran, quit |-> s.quit]
      /\ s.line = OpenLine(x) /\ s.ran = LinesOf(x) /\ s.quit \in BOOLEAN
      /\ s.quit => \E i \in DOMAIN s.ran : Quits(s.ran[i])
  BY DEF HasRead
<1>7. CASE t = NL /\ Words(OpenLine(x)) = <<>>
  <2>0. u = FlushLine(s) BY <1>5, <1>7 DEF ReadToken
  <2>1. u = [s EXCEPT !.line = <<>>] BY <1>6, <1>7, <2>0 DEF FlushLine
  <2>2. u = [line |-> <<>>, ran |-> s.ran, quit |-> s.quit] BY <1>6, <2>1
  <2> HIDE DEF u
  <2>3. HasRead(u, y) BY <1>3, <1>4, <1>6, <1>7, <2>2 DEF HasRead
  <2>4. u.ran = s.ran \o <<>> BY <1>2, <1>6, <2>2
  <2> QED BY <1>2, <2>3, <2>4 DEF u, y
<1>8. CASE t = NL /\ Words(OpenLine(x)) # <<>>
  <2> DEFINE l == OpenLine(x)
             r == Append(LinesOf(x), l)
  <2>0. u = FlushLine(s) BY <1>5, <1>8 DEF ReadToken
  <2>1. u = [line |-> <<>>, ran |-> r, quit |-> s.quit \/ Quits(l)]
    BY <1>6, <1>8, <2>0 DEF FlushLine
  <2>2. /\ r \in Seq(Texts) /\ Len(r) = Len(LinesOf(x)) + 1 /\ r[Len(LinesOf(x)) + 1] = l
        /\ \A i \in 1..Len(LinesOf(x)) : r[i] = LinesOf(x)[i]
    BY <1>1, AppendProperties
  <2>3. /\ Len(LinesOf(x)) \in Nat /\ DOMAIN LinesOf(x) = 1..Len(LinesOf(x))
        /\ DOMAIN r = 1..Len(r)
    BY <1>1, <2>2, LenProperties
  <2>4. r = LinesOf(x) \o <<l>> /\ <<l>> \in Seq(Texts) BY <1>1, AppendIsConcat
  <2> HIDE DEF u, l, r
  <2>5. s.quit \/ Quits(l) => \E i \in DOMAIN r : Quits(r[i])
    <3>1. CASE s.quit
      <4>1. PICK i \in DOMAIN LinesOf(x) : Quits(LinesOf(x)[i]) BY <1>6, <3>1
      <4>2. i \in DOMAIN r /\ r[i] = LinesOf(x)[i] BY <2>2, <2>3
      <4> QED BY <4>1, <4>2
    <3>2. CASE Quits(l)
      <4>1. Len(LinesOf(x)) + 1 \in DOMAIN r BY <2>2, <2>3
      <4> QED BY <2>2, <3>2, <4>1
    <3> QED BY <3>1, <3>2
  <2>6. u.line = <<>> /\ u.ran = r /\ u.quit = (s.quit \/ Quits(l)) BY <2>1
  <2>7. (s.quit \/ Quits(l)) \in BOOLEAN OBVIOUS
  <2>8. u = [line |-> u.line, ran |-> u.ran, quit |-> u.quit] BY <2>1, <2>6
  <2>9. u.line = OpenLine(y) /\ u.ran = LinesOf(y) BY <1>3, <1>4, <1>8, <2>6 DEF l, r
  <2>10. u.quit => \E i \in DOMAIN u.ran : Quits(u.ran[i]) BY <2>5, <2>6
  <2>11. HasRead(u, y) BY <2>6, <2>7, <2>8, <2>9, <2>10 DEF HasRead
  <2> QED BY <1>6, <2>4, <2>6, <2>11 DEF u, y
<1>9. CASE t = CR
  <2>1. u = s BY <1>5, <1>9 DEF ReadToken
  <2> HIDE DEF u
  <2>2. HasRead(u, y) BY <1>3, <1>4, <1>5, <1>6, <1>9, <2>1 DEF HasRead
  <2>3. u.ran = s.ran \o <<>> BY <1>2, <1>6, <2>1
  <2> QED BY <1>2, <2>2, <2>3 DEF u, y
<1>10. CASE t \notin {NL, CR}
  <2>1. u = [s EXCEPT !.line = Append(@, t)] BY <1>10 DEF ReadToken
  <2>2. u = [line |-> Append(s.line, t), ran |-> s.ran, quit |-> s.quit] BY <1>6, <2>1
  <2> HIDE DEF u
  <2>3. HasRead(u, y) BY <1>3, <1>4, <1>6, <1>10, <2>2 DEF HasRead
  <2>4. u.ran = s.ran \o <<>> BY <1>2, <1>6, <2>2
  <2> QED BY <1>2, <2>3, <2>4 DEF u, y
<1> QED BY <1>7, <1>8, <1>9, <1>10

-----------------------------------------------------------------------------
(* PeerShell: a read of any length.                                        *)

Upto(x, n) == SubSeq(x, 1, n)

LEMMA UptoGrows ==
  ASSUME NEW x \in Texts, NEW n \in Nat, n < Len(x)
  PROVE  /\ Upto(x, n) \in Texts /\ x[n + 1] \in Tokens
         /\ Upto(x, n + 1) = Append(Upto(x, n), x[n + 1])
<1> DEFINE a == Upto(x, n)
           b == Upto(x, n + 1)
           t == x[n + 1]
<1>1. x \in Seq(Tokens) BY DEF Texts
<1>2. Len(x) \in Nat /\ \A i \in 1..Len(x) : x[i] \in Tokens BY <1>1, LenProperties
<1>3. n \in 0..Len(x) /\ n + 1 \in 0..Len(x) /\ n + 1 \in 1..Len(x) BY <1>2
<1>4. a \in Seq(Tokens) /\ Len(a) = n /\ \A i \in 1..n : a[i] = x[i]
  BY <1>1, <1>3, CutAt DEF Upto
<1>5. b \in Seq(Tokens) /\ Len(b) = n + 1 /\ \A i \in 1..(n + 1) : b[i] = x[i]
  BY ONLY <1>1, <1>3, CutAt DEF Upto
<1>6. t \in Tokens BY <1>2, <1>3
<1> HIDE DEF a, b, t
<1>7. /\ Append(a, t) \in Seq(Tokens) /\ Len(Append(a, t)) = n + 1
      /\ \A i \in 1..n : Append(a, t)[i] = a[i]
      /\ Append(a, t)[n + 1] = t
  BY <1>4, <1>6, AppendProperties
<1>8. \A i \in 1..(n + 1) : b[i] = Append(a, t)[i]
  <2>1. \A i \in 1..(n + 1) : i \in 1..n \/ i = n + 1 OBVIOUS
  <2> QED BY <1>4, <1>5, <1>7, <2>1 DEF t
<1>9. Len(b) = Len(Append(a, t)) /\ \A i \in 1..Len(b) : b[i] = Append(a, t)[i]
  BY <1>5, <1>7, <1>8
<1>10. b = Append(a, t) BY ONLY <1>5, <1>7, <1>9, SeqEqual
<1> QED BY <1>4, <1>6, <1>10 DEF a, b, t, Texts

LEMMA ChunkIs ==
  ASSUME NEW x \in Texts, NEW k \in Nat, NEW m \in Nat, k + m <= Len(x)
  PROVE  LET c == SubSeq(x, k + 1, k + m)
         IN Len(c) = m /\ \A i \in 1..m : c[i] = x[k + i]
<1> DEFINE c == SubSeq(x, k + 1, k + m)
           l == Len(x)
<1>1. l \in Nat /\ \A i \in 1..l : x[i] \in Tokens BY LenProperties DEF Texts
<1>2. k + m <= l OBVIOUS
<1> HIDE DEF l
<1>3. k + 1 \in Int /\ k + m \in Int /\ \A i \in (k + 1)..(k + m) : x[i] \in Tokens
  BY <1>1, <1>2
<1>4. /\ Len(c) = IF k + 1 <= k + m THEN (k + m) - (k + 1) + 1 ELSE 0
      /\ \A i \in 1..((k + m) - (k + 1) + 1) : c[i] = x[(k + 1) + i - 1]
  BY ONLY <1>3, SubSeqProperties
<1> HIDE DEF c
<1>5. Len(c) = m BY <1>4
<1>6. \A i \in 1..m : c[i] = x[k + i] BY <1>4
<1> QED BY <1>5, <1>6 DEF c

Shells == [line : Texts, ran : Seq(Texts), quit : BOOLEAN]

LEMMA ReadTokenTyped ==
  ASSUME NEW s \in Shells, NEW t \in Tokens
  PROVE  ReadToken(s, t) \in Shells
<1>1. s.line \in Texts /\ s.ran \in Seq(Texts) /\ s.quit \in BOOLEAN BY DEF Shells
<1>2. s = [line |-> s.line, ran |-> s.ran, quit |-> s.quit] BY DEF Shells
<1>3. <<>> \in Texts BY EmptyText
<1>4. FlushLine(s) \in Shells
  <2>1. CASE Words(s.line) = <<>>
    <3>1. FlushLine(s) = [line |-> <<>>, ran |-> s.ran, quit |-> s.quit]
      BY <1>2, <2>1 DEF FlushLine
    <3> QED BY <1>1, <1>3, <3>1 DEF Shells
  <2>2. CASE Words(s.line) # <<>>
    <3>1. FlushLine(s) = [line |-> <<>>, ran |-> Append(s.ran, s.line),
                          quit |-> s.quit \/ Quits(s.line)]
      BY <2>2 DEF FlushLine
    <3>2. Append(s.ran, s.line) \in Seq(Texts) BY <1>1, AppendProperties
    <3>3. (s.quit \/ Quits(s.line)) \in BOOLEAN OBVIOUS
    <3> QED BY <1>3, <3>1, <3>2, <3>3 DEF Shells
  <2> QED BY <2>1, <2>2
<1>5. CASE t = NL
  <2>1. NL # CR BY DEF NL, CR
  <2> QED BY <1>4, <1>5, <2>1 DEF ReadToken
<1>6. CASE t = CR
  <2>1. NL # CR BY DEF NL, CR
  <2>2. ReadToken(s, t) = s BY <1>6, <2>1 DEF ReadToken
  <2> QED BY <2>2
<1>7. CASE t \notin {NL, CR}
  <2>1. ReadToken(s, t) = [s EXCEPT !.line = Append(@, t)] BY <1>7 DEF ReadToken
  <2>2. ReadToken(s, t) = [line |-> Append(s.line, t), ran |-> s.ran, quit |-> s.quit]
    BY <1>2, <2>1
  <2>3. Append(s.line, t) \in Texts
    <3>1. s.line \in Seq(Tokens) BY <1>1 DEF Texts
    <3> QED BY <3>1, AppendProperties DEF Texts
  <2> QED BY <1>1, <2>2, <2>3 DEF Shells
<1> QED BY <1>5, <1>6, <1>7

ReadingTokens(read, s, chunk) ==
  read = [i \in 0..Len(chunk) |->
            IF i = 0 THEN s ELSE ReadToken(read[i - 1], chunk[i])]

LEMMA ReadingTokensIs ==
  ASSUME NEW s \in Shells, NEW chunk, Len(chunk) \in Nat,
         \A i \in 1..Len(chunk) : chunk[i] \in Tokens
  PROVE  \E read : ReadingTokens(read, s, chunk) /\ ReadChunk(s, chunk) = read[Len(chunk)]
<1> DEFINE n == Len(chunk)
           P(i, x) == ReadToken(x, chunk[i])
           step == [p \in Nat \X Shells |-> IF p[1] \in 1..n THEN P(p[1], p[2]) ELSE p[2]]
<1>1. n \in Nat /\ \A i \in 1..n : chunk[i] \in Tokens OBVIOUS
<1> HIDE DEF n
<1>2. ASSUME NEW i \in 1..n, NEW x \in Shells PROVE P(i, x) \in Shells
  BY <1>1, ReadTokenTyped
<1> HIDE DEF P
<1>3. step \in [Nat \X Shells -> Shells] BY <1>2
<1>4. \A i \in 1..n, x \in Shells : step[<<i, x>>] = P(i, x) BY <1>1
<1> HIDE DEF step
<1>5. PICK f \in [0..n -> Shells] : Iterates(f, n, s, step)
  <2>1. n \in Nat BY <1>1
  <2>2. \E f \in [0..n -> Shells] : Iterates(f, n, s, step)
    BY ONLY <2>1, s \in Shells, <1>3, Recursion
  <2> QED BY <2>2
<1>6. ASSUME NEW i \in 1..n PROVE f[i] = P(i, f[i - 1])
  <2>1. i - 1 \in 0..n BY <1>1
  <2> QED BY <1>4, <1>5, <2>1 DEF Iterates
<1>7. \A i \in 0..n : i # 0 => i \in 1..n BY <1>1
<1>8. f = [i \in 0..n |-> IF i = 0 THEN s ELSE P(i, f[i - 1])]
  BY <1>5, <1>6, <1>7 DEF Iterates
<1>9. ReadingTokens(f, s, chunk) BY <1>8 DEF ReadingTokens, n, P
<1> DEFINE read == CHOOSE g : ReadingTokens(g, s, chunk)
<1>10. ReadingTokens(read, s, chunk) BY <1>9
<1>11. ReadChunk(s, chunk) = read[Len(chunk)] BY DEF ReadChunk, ReadTokens, ReadingTokens
<1> QED BY <1>10, <1>11

\* A read of any part of what follows a text.
ReadsOn(s, x, k, m) ==
  LET u == ReadChunk(s, SubSeq(x, k + 1, k + m))
  IN /\ HasRead(u, Upto(x, k + m))
     /\ \E w \in Seq(Texts) : u.ran = s.ran \o w

LEMMA ReadsAre ==
  ASSUME NEW x \in Texts, NEW k \in Nat, NEW m \in Nat, NEW s,
         k + m <= Len(x), HasRead(s, Upto(x, k))
  PROVE  ReadsOn(s, x, k, m)
<1> DEFINE chunk == SubSeq(x, k + 1, k + m)
           l == Len(x)
<1>1. l \in Nat /\ k + m <= l BY LenProperties DEF Texts
<1>2. \A i \in 1..l : x[i] \in Tokens BY LenProperties DEF Texts
<1>3. Len(chunk) = m /\ \A i \in 1..m : chunk[i] = x[k + i] BY ChunkIs
<1> HIDE DEF chunk
<1>4. \A i \in 1..m : k + i \in 1..l BY <1>1
<1>5. s \in Shells /\ s.ran \in Seq(Texts)
  <2>1. Upto(x, k) \in Texts
    <3>1. k \in 0..Len(x) BY <1>1
    <3> QED BY <3>1, CutAt DEF Upto, Texts
  <2>2. LinesOf(Upto(x, k)) \in Seq(Texts) /\ OpenLine(Upto(x, k)) \in Texts
    <3> DEFINE p == Upto(x, k)
    <3> HIDE DEF p
    <3>1. Len(p) \in Nat BY <2>1, LenProperties DEF Texts, p
    <3>2. Len(p) + 1 \in 1..(Len(p) + 1) BY <3>1
    <3>3. p \in Texts BY <2>1 DEF p
    <3>4. LinesOf(p) \in Seq(Texts) /\ OpenLine(p) \in Texts
      BY <3>2, <3>3, LinesOfIs, LineIs DEF OpenLine
    <3> QED BY <3>4 DEF p
  <2> QED BY <2>2 DEF HasRead, Shells
<1>6. PICK read : ReadingTokens(read, s, chunk) /\ ReadChunk(s, chunk) = read[m]
  <2>1. Len(chunk) \in Nat BY <1>3
  <2>2. \A i \in 1..Len(chunk) : chunk[i] \in Tokens BY <1>2, <1>3, <1>4
  <2>3. \E read : ReadingTokens(read, s, chunk) /\ ReadChunk(s, chunk) = read[Len(chunk)]
    BY <1>5, <2>1, <2>2, ReadingTokensIs
  <2> QED BY <1>3, <2>3
<1>7. read = [i \in 0..m |-> IF i = 0 THEN s ELSE ReadToken(read[i - 1], chunk[i])]
  BY <1>3, <1>6 DEF ReadingTokens
<1>8. read[0] = s BY <1>7
<1>9. \A i \in 1..m : read[i] = ReadToken(read[i - 1], x[k + i])
  <2>1. \A i \in 1..m : i \in 0..m /\ i # 0 OBVIOUS
  <2> QED BY <1>3, <1>7, <2>1
<1> DEFINE After(i) == /\ HasRead(read[i], Upto(x, k + i))
                       /\ \E w \in Seq(Texts) : read[i].ran = s.ran \o w
           S == {i \in Nat : i \in 0..m => After(i)}
<1>10. 0 \in S
  <2>1. k + 0 = k OBVIOUS
  <2>2. s.ran = s.ran \o <<>> /\ <<>> \in Seq(Texts) BY <1>5, ConcatEmptySeq, EmptySeq
  <2>3. After(0) BY <1>8, <2>1, <2>2
  <2> QED BY <2>3
<1> HIDE DEF After
<1>11. ASSUME NEW i \in S PROVE i + 1 \in S
  <2> SUFFICES ASSUME i + 1 \in 0..m PROVE After(i + 1) OBVIOUS
  <2>1. i \in Nat /\ i \in 0..m /\ i + 1 \in 1..m /\ (i + 1) - 1 = i OBVIOUS
  <2>2. HasRead(read[i], Upto(x, k + i)) /\ \E w \in Seq(Texts) : read[i].ran = s.ran \o w
    BY <2>1 DEF After
  <2> HIDE DEF S
  <2>3. PICK j \in Nat : j = k + i /\ j < l /\ k + (i + 1) = j + 1
    <3>1. k + i \in Nat /\ k + i < l /\ k + (i + 1) = (k + i) + 1 BY <1>1, <2>1
    <3> QED BY <3>1
  <2>4. /\ Upto(x, j) \in Texts /\ x[j + 1] \in Tokens
        /\ Upto(x, j + 1) = Append(Upto(x, j), x[j + 1])
    BY <2>3, UptoGrows
  <2>5. read[i + 1] = ReadToken(read[i], x[j + 1]) BY <1>9, <2>1, <2>3
  <2>6. HasRead(read[i], Upto(x, j)) BY <2>2, <2>3
  <2>7. /\ HasRead(read[i + 1], Upto(x, j + 1))
        /\ \E w \in Seq(Texts) : read[i + 1].ran = read[i].ran \o w
    <3> DEFINE p == Upto(x, j)
               t == x[j + 1]
               r == read[i]
    <3>1. p \in Texts /\ t \in Tokens /\ HasRead(r, p) BY <2>4, <2>6
    <3> HIDE DEF p, t, r
    <3>2. /\ HasRead(ReadToken(r, t), Append(p, t))
          /\ \E w \in Seq(Texts) : ReadToken(r, t).ran = r.ran \o w
      BY ONLY <3>1, ReadTokenIs
    <3> QED BY <2>4, <2>5, <3>2 DEF p, t, r
  <2>8. PICK v \in Seq(Texts) : read[i].ran = s.ran \o v BY <2>2
  <2>9. PICK w \in Seq(Texts) : read[i + 1].ran = read[i].ran \o w BY <2>7
  <2>10. (s.ran \o v) \o w = s.ran \o (v \o w) /\ v \o w \in Seq(Texts)
    <3>1. s.ran \in Seq(Texts) BY <1>5
    <3>2. v \in Seq(Texts) /\ w \in Seq(Texts) BY <2>8, <2>9
    <3> DEFINE r == s.ran
    <3>3. r \in Seq(Texts) BY <3>1
    <3> HIDE DEF r
    <3>4. (r \o v) \o w = r \o (v \o w) BY ONLY <3>2, <3>3, ConcatAssociative
    <3>5. v \o w \in Seq(Texts) BY ONLY <3>2, ConcatProperties
    <3> QED BY <3>4, <3>5 DEF r
  <2>11. read[i + 1].ran = s.ran \o (v \o w) BY <2>8, <2>9, <2>10
  <2> QED BY <2>3, <2>7, <2>10, <2>11 DEF After
<1>12. S = Nat
  <2>1. S \subseteq Nat OBVIOUS
  <2> HIDE DEF S
  <2> QED BY <1>10, <1>11, <2>1, Induct
<1>13. After(m)
  <2>1. m \in S /\ m \in 0..m BY <1>12
  <2> QED BY <2>1
<1> QED BY <1>6, <1>13 DEF chunk, After, ReadsOn

-----------------------------------------------------------------------------
(* PeerShell: the calls that the lines start, and what is printed.         *)

Calling == {l \in Texts : StartsCall(l)}

LEMMA StartedIs ==
  ASSUME NEW r \in Seq(Texts)
  PROVE  Started(r) = Keep(r, Calling) /\ Started(r) \in Seq(Texts)
<1> DEFINE K == {l \in Range(r) : StartsCall(l)}
<1>1. Range(r) \subseteq Texts BY ElementsIn
<1>2. \A l \in Range(r) : l \in K <=> l \in Calling BY <1>1 DEF Calling
<1>3. Started(r) = Keep(r, K) BY DEF Started
<1> HIDE DEF K
<1>4. Keep(r, K) = Keep(r, Calling) BY <1>2, KeepRange
<1>5. Keep(r, Calling) \in Seq(Texts) BY KeepSeq
<1> QED BY <1>3, <1>4, <1>5

LEMMA StartedLater ==
  ASSUME NEW r \in Seq(Texts), NEW w \in Seq(Texts)
  PROVE  LET u == r \o w
         IN /\ SubSeq(u, Len(r) + 1, Len(u)) = w
            /\ Started(w) \in Seq(Texts)
            /\ Len(Started(u)) = Len(Started(r)) + Len(Started(w))
<1> DEFINE u == r \o w
           a == Len(r)
           b == Len(w)
           p == SubSeq(u, a + 1, Len(u))
<1>1. /\ u \in Seq(Texts) /\ Len(u) = a + b /\ a \in Nat /\ b \in Nat
      /\ \A i \in 1..b : u[a + i] = w[i]
  BY Joined
<1>2. u = r \o w OBVIOUS
<1> HIDE DEF u, a, b
<1>3. a \in 0..Len(u) BY <1>1
<1>4. /\ p \in Seq(Texts) /\ Len(p) = Len(u) - a
      /\ \A i \in 1..(Len(u) - a) : p[i] = u[a + i]
  BY ONLY <1>1, <1>3, CutAt
<1>5. Len(u) - a = b BY <1>1
<1> HIDE DEF p
<1>6. Len(p) = Len(w) BY <1>4, <1>5 DEF b
<1>7. \A i \in 1..Len(p) : p[i] = w[i] BY <1>1, <1>4, <1>5
<1>8. p = w BY ONLY <1>4, <1>6, <1>7, w \in Seq(Texts), SeqEqual
<1>9. /\ Started(u) = Keep(u, Calling) /\ Started(r) = Keep(r, Calling)
      /\ Started(w) = Keep(w, Calling)
      /\ Started(r) \in Seq(Texts) /\ Started(w) \in Seq(Texts)
  BY <1>1, StartedIs
<1>10. Started(u) = Started(r) \o Started(w) BY <1>2, <1>9, KeepConcat
<1>11. Len(Started(u)) = Len(Started(r)) + Len(Started(w)) BY <1>9, <1>10, Joined
<1> QED BY <1>8, <1>9, <1>11 DEF p, u, a

Whats == {"OK", "error", "transport error", "notif", "sync", "ended"}
PrintedLines == [what : Whats, n : Nat]

LEMMA NumbersAppend ==
  ASSUME NEW o \in Seq(PrintedLines), NEW e \in PrintedLines, NEW v
  PROVE  /\ Numbers(o, v) \in Seq(Nat)
         /\ e.what = v => Numbers(Append(o, e), v) = Append(Numbers(o, v), e.n)
         /\ e.what # v => Numbers(Append(o, e), v) = Numbers(o, v)
<1> DEFINE M == {x \in PrintedLines : x.what = v}
           a == Keep(o, M)
           q == Append(o, e)
           Of(s) == [i \in DOMAIN s |-> s[i].n]
<1>1. ASSUME NEW s \in Seq(PrintedLines) PROVE Numbers(s, v) = Of(Keep(s, M))
  <2> DEFINE K == {x \in Range(s) : x.what = v}
  <2>1. Range(s) \subseteq PrintedLines BY ElementsIn
  <2>2. \A x \in Range(s) : x \in K <=> x \in M BY <2>1
  <2>3. Numbers(s, v) = Of(Keep(s, K)) BY DEF Numbers
  <2> HIDE DEF K, M
  <2>4. Keep(s, K) = Keep(s, M) BY <2>2, KeepRange
  <2> QED BY <2>3, <2>4
<1>2. q \in Seq(PrintedLines) BY AppendProperties
<1>3. e \in M <=> e.what = v OBVIOUS
<1> HIDE DEF M
<1>4. a \in Seq(PrintedLines) BY KeepSeq
<1>5. /\ e \in M => Keep(q, M) = Append(a, e)
      /\ e \notin M => Keep(q, M) = a
  BY KeepAppend
<1>6. Numbers(o, v) = Of(a) /\ Numbers(q, v) = Of(Keep(q, M)) BY <1>1, <1>2
<1> HIDE DEF a, q
<1>7. Len(a) \in Nat /\ DOMAIN a = 1..Len(a) /\ \A i \in 1..Len(a) : a[i] \in PrintedLines
  BY <1>4, LenProperties
<1>8. e.n \in Nat /\ \A i \in 1..Len(a) : a[i].n \in Nat BY <1>7 DEF PrintedLines
<1>9. Of(a) \in Seq(Nat) /\ Len(Of(a)) = Len(a)
  <2>1. Of(a) \in [1..Len(a) -> Nat] BY <1>7, <1>8
  <2> HIDE DEF Of
  <2>2. Of(a) \in Seq(Nat) BY <1>7, <2>1, SeqDef
  <2> QED BY <1>7, <2>1, <2>2, LenProperties
<1>10. Of(Append(a, e)) = Append(Of(a), e.n)
  <2> DEFINE c == Append(a, e)
             l == Len(a)
             x == Of(c)
             y == Append(Of(a), e.n)
  <2>1. c \in Seq(PrintedLines) /\ Len(c) = l + 1 /\ c[l + 1] = e /\ \A i \in 1..l : c[i] = a[i]
    BY <1>4, AppendProperties
  <2>2. DOMAIN c = 1..(l + 1) BY <2>1, LenProperties
  <2> HIDE DEF c
  <2>3. \A i \in 1..(l + 1) : x[i] = c[i].n BY <2>2
  <2>4. \A i \in 1..l : Of(a)[i] = a[i].n BY <1>7
  <2>5. y \in Seq(Nat) /\ Len(y) = l + 1 /\ y[l + 1] = e.n /\ \A i \in 1..l : y[i] = Of(a)[i]
    <3> HIDE DEF Of
    <3> QED BY <1>8, <1>9, AppendProperties
  <2>6. \A i \in 1..(l + 1) : i \in 1..l \/ i = l + 1 BY <1>7
  <2>7. \A i \in 1..l : i \in 1..(l + 1) BY <1>7
  <2>8. l + 1 \in 1..(l + 1) BY <1>7
  <2>9. DOMAIN x = 1..(l + 1) BY <2>2
  <2>10. \A i \in 1..l : x[i] = a[i].n BY <2>1, <2>3, <2>7
  <2>11. x[l + 1] = e.n BY <2>1, <2>3, <2>8
  <2>12. x = [i \in DOMAIN c |-> c[i].n] OBVIOUS
  <2> HIDE DEF x, y, Of, l
  <2>13. \A i \in 1..(l + 1) : x[i] = y[i] BY <2>4, <2>5, <2>6, <2>10, <2>11
  <2>14. \A i \in 1..(l + 1) : y[i] \in Nat BY <1>8, <2>4, <2>5, <2>6
  <2>15. x \in [1..(l + 1) -> Nat]
    <3>1. \A i \in 1..(l + 1) : x[i] \in Nat BY <2>13, <2>14
    <3> QED BY <2>9, <2>12, <3>1
  <2>16. l + 1 \in Nat BY <1>7 DEF l
  <2>17. x \in Seq(Nat) BY <2>15, <2>16, SeqDef
  <2>18. Len(x) = l + 1 BY <2>9, <2>16, <2>17, LenProperties
  <2>19. Len(x) = Len(y) /\ \A i \in 1..Len(x) : x[i] = y[i] BY <2>5, <2>13, <2>18
  <2>20. x = y BY ONLY <2>5, <2>17, <2>19, SeqEqual
  <2> QED BY <2>20 DEF x, y, c
<1> HIDE DEF Of
<1> QED BY <1>3, <1>5, <1>6, <1>9, <1>10 DEF q

InOrder(n) == n = [i \in DOMAIN n |-> i]
Counted(o) ==
  /\ InOrder(Numbers(o, "notif"))
  /\ Range(Numbers(o, "ended")) \subseteq {Len(Numbers(o, "notif"))}
\* A call that runs: a subscription counts what it printed and has not
\* ended; another call has printed nothing.
Runs(o, c) ==
  IF c.verb = "sub"
  THEN Len(Numbers(o, "notif")) = c.count /\ Numbers(o, "ended") = <<>>
  ELSE o = <<>>

LEMMA InOrderIs ==
  ASSUME NEW n \in Seq(Nat)
  PROVE  InOrder(n) <=> \A i \in 1..Len(n) : n[i] = i
<1>1. DOMAIN n = 1..Len(n) /\ n = [i \in DOMAIN n |-> n[i]] BY LenProperties
<1> QED BY <1>1 DEF InOrder

LEMMA NonePrinted ==
  <<>> \in Seq(PrintedLines) /\ Numbers(<<>>, "notif") = <<>> /\ Numbers(<<>>, "ended") = <<>>
<1>1. <<>> \in Seq(PrintedLines) /\ Len(<<>>) = 0 BY EmptySeq
<1>2. ASSUME NEW v PROVE Numbers(<<>>, v) = <<>>
  <2>1. Keep(<<>>, {x \in Range(<<>>) : x.what = v}) = <<>> BY KeepEmpty
  <2>2. Numbers(<<>>, v) = [i \in DOMAIN <<>> |-> <<>>[i].n] BY <2>1 DEF Numbers
  <2>3. DOMAIN <<>> = {} OBVIOUS
  <2>4. Numbers(<<>>, v) = [i \in {} |-> <<>>[i].n] BY <2>2, <2>3
  <2>5. [i \in {} |-> <<>>[i].n] = <<>> OBVIOUS
  <2> QED BY <2>4, <2>5
<1> QED BY <1>1, <1>2

LEMMA FreshCounted == Counted(<<>>) /\ \A c : c.count = 0 => Runs(<<>>, c)
<1>1. Len(<<>>) = 0 /\ <<>> \in Seq(Nat) /\ Range(<<>>) = {} BY EmptySeq DEF Range
<1>2. InOrder(<<>>)
  <2>1. DOMAIN <<>> = {} OBVIOUS
  <2>2. [i \in {} |-> i] = <<>> OBVIOUS
  <2> QED BY <2>1, <2>2 DEF InOrder
<1> QED BY <1>1, <1>2, NonePrinted DEF Counted, Runs

LEMMA PrintOther ==
  ASSUME NEW o \in Seq(PrintedLines), NEW e \in PrintedLines, Counted(o),
         e.what # "notif", e.what # "ended"
  PROVE  /\ Counted(Append(o, e))
         /\ \A c : c.verb = "sub" /\ Runs(o, c) => Runs(Append(o, e), c)
<1>1. Numbers(Append(o, e), "notif") = Numbers(o, "notif") BY NumbersAppend
<1>2. Numbers(Append(o, e), "ended") = Numbers(o, "ended") BY NumbersAppend
<1> QED BY <1>1, <1>2 DEF Counted, Runs

LEMMA PrintNotified ==
  ASSUME NEW o \in Seq(PrintedLines), NEW e \in PrintedLines, NEW c, Counted(o),
         c.verb = "sub", c.count \in Nat, Runs(o, c), e.what = "notif", e.n = c.count + 1
  PROVE  Counted(Append(o, e)) /\ \A d : d.count = c.count + 1 => Runs(Append(o, e), d)
                                         \/ d.verb # "sub"
<1> DEFINE p == Append(o, e)
           n == Numbers(o, "notif")
           l == Len(n)
           k == Append(n, l + 1)
<1>1. n \in Seq(Nat) /\ Numbers(o, "ended") = <<>> /\ c.count = l
  BY NumbersAppend DEF Runs
<1>2. l \in Nat BY <1>1
<1>3. Numbers(p, "notif") = k BY <1>1, NumbersAppend
<1>4. Numbers(p, "ended") = <<>>
  <2>1. e.what # "ended" OBVIOUS
  <2>2. Numbers(p, "ended") = Numbers(o, "ended") BY <2>1, NumbersAppend
  <2> QED BY <1>1, <2>2
<1>5. \A i \in 1..l : n[i] = i BY <1>1, InOrderIs DEF Counted
<1> HIDE DEF p, n
<1>6. k \in Seq(Nat) /\ Len(k) = l + 1 /\ k[l + 1] = l + 1 /\ \A i \in 1..l : k[i] = n[i]
  <2>1. l + 1 \in Nat BY <1>2
  <2> HIDE DEF l
  <2> QED BY <1>1, <2>1, AppendProperties DEF l
<1> HIDE DEF k, l
<1>7. \A i \in 1..Len(k) : k[i] = i
  <2>1. \A i \in 1..(l + 1) : i \in 1..l \/ i = l + 1 BY <1>2
  <2> QED BY <1>5, <1>6, <2>1
<1>8. InOrder(k) BY <1>6, <1>7, InOrderIs
<1>9. Range(<<>>) = {} BY DEF Range
<1> QED BY <1>1, <1>3, <1>4, <1>6, <1>8, <1>9 DEF Counted, Runs, p

LEMMA PrintEnded ==
  ASSUME NEW o \in Seq(PrintedLines), NEW e \in PrintedLines, NEW c, Counted(o),
         c.verb = "sub", Runs(o, c), e.what = "ended", e.n = c.count
  PROVE  Counted(Append(o, e))
<1> DEFINE p == Append(o, e)
<1>1. Numbers(p, "notif") = Numbers(o, "notif")
  <2>1. e.what # "notif" OBVIOUS
  <2> QED BY <2>1, NumbersAppend
<1>2. Numbers(p, "ended") = Append(<<>>, c.count)
  <2>1. Numbers(p, "ended") = Append(Numbers(o, "ended"), e.n) BY NumbersAppend
  <2> QED BY <2>1 DEF Runs
<1>3. Range(Append(<<>>, c.count)) = {c.count}
  <2>1. Append(<<>>, c.count) = <<c.count>> OBVIOUS
  <2> QED BY <2>1 DEF Range
<1>4. Len(Numbers(o, "notif")) = c.count BY DEF Runs
<1> QED BY <1>1, <1>2, <1>3, <1>4 DEF Counted, p

LEMMA PrintFor ==
  ASSUME NEW out \in Seq(Seq(PrintedLines)), NEW id \in 1..Len(out), NEW e \in PrintedLines
  PROVE  LET o == [out EXCEPT ![id] = Append(@, e)]
         IN /\ o \in Seq(Seq(PrintedLines)) /\ Len(o) = Len(out)
            /\ o[id] = Append(out[id], e)
            /\ \A j \in 1..Len(out) : j # id => o[j] = out[j]
            /\ out[id] \in Seq(PrintedLines)
<1> DEFINE n == Len(out)
           o == [out EXCEPT ![id] = Append(@, e)]
<1>1. n \in Nat /\ out \in [1..n -> Seq(PrintedLines)] /\ id \in 1..n BY LenProperties
<1> HIDE DEF n
<1>2. Append(out[id], e) \in Seq(PrintedLines) BY <1>1, AppendProperties
<1>3. o \in [1..n -> Seq(PrintedLines)] BY <1>1, <1>2
<1>4. o[id] = Append(out[id], e) /\ \A j \in 1..n : j # id => o[j] = out[j] BY <1>1
<1> HIDE DEF o
<1>5. o \in Seq(Seq(PrintedLines)) BY <1>1, <1>3, SeqDef
<1>6. Len(o) = n BY <1>1, <1>3, <1>5, LenProperties
<1> QED BY <1>1, <1>4, <1>5, <1>6 DEF o, n

-----------------------------------------------------------------------------
(* PeerShell: the invariant.                                               *)

\* The shell is what the input it has read makes of it.
TextInv ==
  /\ script \in Texts /\ unread \in 0..Len(script)
  /\ shell = [line |-> shell.line, ran |-> shell.ran, quit |-> shell.quit]
  /\ shell.line = OpenLine(Upto(script, Consumed))
  /\ shell.ran = LinesOf(Upto(script, Consumed))
  /\ shell.quit \in BOOLEAN
\* Why it may leave.
LeaveInv ==
  /\ timer => unread = 0 /\ ~watching /\ shell.ran # <<>>
  /\ shell.quit =>
       \/ \E i \in DOMAIN shell.ran : Quits(shell.ran[i])
       \/ unread = 0 /\ ~watching /\ shell.ran # <<>>
\* The calls that run are among those started, and each is as far as what
\* was printed for it says.
CallsInv ==
  /\ output \in Seq(Seq(PrintedLines)) /\ Len(output) = Len(Started(shell.ran))
  /\ DOMAIN calls \subseteq 1..Len(output)
  /\ calls = [id \in DOMAIN calls |-> calls[id]]
  /\ \A id \in DOMAIN calls :
       /\ calls[id] = [verb |-> calls[id].verb, count |-> calls[id].count]
       /\ calls[id].count \in Nat /\ Runs(output[id], calls[id])
  /\ \A id \in 1..Len(output) : Counted(output[id])
InputInv == TextInv /\ LeaveInv /\ CallsInv

LEMMA TextFacts ==
  ASSUME TextInv
  PROVE  /\ Consumed \in Nat /\ Len(script) \in Nat /\ Consumed + unread = Len(script)
         /\ shell.ran \in Seq(Texts)
<1>1. Len(script) \in Nat BY LenProperties DEF TextInv, Texts
<1>2. Consumed \in 0..Len(script) /\ Consumed + unread = Len(script)
  BY <1>1 DEF TextInv, Consumed
<1>3. Upto(script, Consumed) \in Texts BY <1>2, CutAt DEF TextInv, Upto, Texts
<1>4. LinesOf(Upto(script, Consumed)) \in Seq(Texts) BY <1>3, LinesOfIs
<1> QED BY <1>1, <1>2, <1>4 DEF TextInv

LEMMA InputStart == ASSUME PeerShellInit PROVE InputInv
<1>1. script \in Texts
  <2>1. script \in Seq(Tokens) BY PeerShellAssumption DEF PeerShellInit, Tokens
  <2> QED BY <2>1 DEF Texts
<1>2. Len(script) \in Nat BY <1>1, LenProperties DEF Texts
<1>3. unread \in 0..Len(script) /\ Consumed = 0 BY <1>2 DEF PeerShellInit, Consumed
<1>4. Upto(script, 0) = <<>>
  <2>1. 1 \in Int /\ 0 \in Int /\ 0 < 1 OBVIOUS
  <2> QED BY ONLY <2>1, SubSeqEmpty DEF Upto
<1>5. <<>> \in Texts /\ Len(<<>>) = 0 BY EmptyText
<1>6. OpenLine(<<>>) = <<>>
  <2>1. 1 \in 1..(Len(<<>>) + 1) /\ Len(<<>>) + 1 = 1 BY <1>5
  <2>2. OpenLine(<<>>) = Keep(SubSeq(<<>>, From(<<>>, 1), 0), Tokens \ {CR})
    <3>1. OpenLine(<<>>) = LineTo(<<>>, 1) BY <2>1 DEF OpenLine
    <3>2. 1 - 1 = 0 OBVIOUS
    <3> QED BY <1>5, <2>1, <3>1, <3>2, LineIs
  <2>3. From(<<>>, 1) \in 1..1 BY <1>5, <2>1, FromIs
  <2>4. SubSeq(<<>>, 1, 0) = <<>>
    <3>1. 1 \in Int /\ 0 \in Int /\ 0 < 1 OBVIOUS
    <3> QED BY ONLY <3>1, SubSeqEmpty
  <2>5. From(<<>>, 1) = 1 BY <2>3
  <2> QED BY <2>2, <2>4, <2>5, KeepEmpty
<1>7. LinesOf(<<>>) = <<>>
  <2>1. /\ AllLines(<<>>) \in Seq(Texts) /\ Len(AllLines(<<>>)) = 0
        /\ LinesOf(<<>>) = Keep(AllLines(<<>>), Said)
    BY <1>5, LinesOfIs
  <2>2. AllLines(<<>>) = <<>> BY <2>1, EmptySeq
  <2> QED BY <2>1, <2>2, KeepEmpty
<1>8. shell = [line |-> <<>>, ran |-> <<>>, quit |-> FALSE] BY DEF PeerShellInit
<1>9. TextInv BY <1>1, <1>3, <1>4, <1>6, <1>7, <1>8 DEF TextInv
<1>10. LeaveInv BY <1>8 DEF LeaveInv, PeerShellInit
<1>11. CallsInv
  <2>1. output = <<>> /\ calls = EmptyMap /\ shell.ran = <<>> BY <1>8 DEF PeerShellInit
  <2>2. <<>> \in Seq(Seq(PrintedLines)) /\ <<>> \in Seq(Texts) BY EmptySeq
  <2>3. Started(<<>>) = <<>>
    <3>1. Started(<<>>) = Keep(<<>>, Calling) BY <2>2, StartedIs
    <3> QED BY <3>1, KeepEmpty
  <2>4. DOMAIN calls = {} /\ calls = [id \in {} |-> calls[id]] BY <2>1 DEF EmptyMap
  <2>5. 1..Len(output) = {} BY <1>5, <2>1
  <2> QED BY <2>1, <2>2, <2>3, <2>4, <2>5 DEF CallsInv
<1> QED BY <1>9, <1>10, <1>11 DEF InputInv

LEMMA ReadStep ==
  ASSUME InputInv, ShellRead
  PROVE  InputInv' /\ \E w \in Seq(Texts) : shell'.ran = shell.ran \o w
<1> DEFINE k == Consumed
<1>1. TextInv /\ CallsInv /\ LeaveInv BY DEF InputInv
<1>2. k \in Nat /\ Len(script) \in Nat /\ k + unread = Len(script) /\ shell.ran \in Seq(Texts)
  BY <1>1, TextFacts
<1>3. ~shell.quit /\ watching /\ UNCHANGED <<script, watching, timer>>
  BY DEF ShellRead, Serves
<1>4. PICK n \in 1..unread :
        LET s     == ReadChunk(shell, SubSeq(script, k + 1, k + n))
            added == Started(SubSeq(s.ran, Len(shell.ran) + 1, Len(s.ran)))
            old   == Len(output)
        IN /\ shell' = s
           /\ unread' = unread - n
           /\ output' = output \o [i \in DOMAIN added |-> <<>>]
           /\ calls' = [id \in DOMAIN calls \cup (old + 1)..(old + Len(added)) |->
                          IF id \in DOMAIN calls THEN calls[id]
                          ELSE [verb |-> CommandWords(added[id - old])[1], count |-> 0]]
  BY DEF ShellRead
<1> DEFINE added == Started(SubSeq(shell'.ran, Len(shell.ran) + 1, Len(shell'.ran)))
           old == Len(output)
           fresh == [i \in DOMAIN added |-> <<>>]
<1>5. unread \in Nat /\ n \in Nat /\ k + n <= Len(script) /\ Consumed' = k + n
      /\ unread' \in 0..Len(script)
  <2>1. unread \in Nat /\ unread <= Len(script) BY <1>1, <1>2 DEF TextInv
  <2>2. Consumed' = Len(script) - (unread - n) BY <1>3, <1>4 DEF Consumed
  <2>3. unread' = unread - n /\ n \in 1..unread BY <1>4
  <2> DEFINE l == Len(script)
  <2>4. k \in Nat /\ l \in Nat /\ k + unread = l BY <1>2
  <2> HIDE DEF k, l
  <2>5. unread' \in 0..l /\ k + n <= l /\ l - (unread - n) = k + n
    BY ONLY <2>1, <2>3, <2>4
  <2> QED BY <2>1, <2>2, <2>3, <2>5 DEF l
<1>6. shell' = ReadChunk(shell, SubSeq(script, k + 1, k + n)) BY <1>4
<1>7. HasRead(shell, Upto(script, k)) BY <1>1, <1>3 DEF TextInv, HasRead
<1>8. script \in Texts BY <1>1 DEF TextInv
<1> HIDE DEF k
<1>9. /\ HasRead(shell', Upto(script, k + n))
      /\ \E w \in Seq(Texts) : shell'.ran = shell.ran \o w
  <2> DEFINE u == ReadChunk(shell, SubSeq(script, k + 1, k + n))
  <2>1. k \in Nat BY <1>2
  <2>2. n \in Nat BY <1>5
  <2>3. k + n <= Len(script) BY <1>5
  <2>4. ReadsOn(shell, script, k, n) BY ONLY <2>1, <2>2, <2>3, <1>7, <1>8, ReadsAre
  <2>5. /\ HasRead(u, Upto(script, k + n))
        /\ \E w \in Seq(Texts) : u.ran = shell.ran \o w
    BY <2>4 DEF ReadsOn
  <2> QED BY <1>6, <2>5
<1>10. TextInv'
  <2>1. Upto(script, Consumed)' = Upto(script, k + n) BY <1>3, <1>5 DEF Upto
  <2> QED BY <1>3, <1>5, <1>8, <1>9, <2>1 DEF TextInv, HasRead
<1>11. LeaveInv'
  <2>1. ~timer' BY <1>1, <1>3 DEF LeaveInv
  <2> QED BY <1>9, <2>1 DEF LeaveInv, HasRead
<1>12. PICK w \in Seq(Texts) : shell'.ran = shell.ran \o w BY <1>9
<1>13. /\ SubSeq(shell'.ran, Len(shell.ran) + 1, Len(shell'.ran)) = w
       /\ Started(w) \in Seq(Texts)
       /\ Len(Started(shell'.ran)) = Len(Started(shell.ran)) + Len(Started(w))
  BY <1>2, <1>12, StartedLater
<1>14. added = Started(w) BY <1>13
<1>15. /\ output' = output \o fresh
       /\ calls' = [id \in DOMAIN calls \cup (old + 1)..(old + Len(added)) |->
                      IF id \in DOMAIN calls THEN calls[id]
                      ELSE [verb |-> CommandWords(added[id - old])[1], count |-> 0]]
  BY <1>4
<1>16. output \in Seq(Seq(PrintedLines)) /\ old \in Nat BY <1>1, LenProperties DEF CallsInv
<1> HIDE DEF added, old
<1>17. Len(added) \in Nat /\ DOMAIN added = 1..Len(added) BY <1>13, <1>14, LenProperties
<1>18. /\ fresh \in Seq(Seq(PrintedLines)) /\ Len(fresh) = Len(added)
       /\ \A i \in 1..Len(added) : fresh[i] = <<>>
  <2>1. fresh \in [1..Len(added) -> Seq(PrintedLines)] BY <1>17, NonePrinted
  <2>2. fresh \in Seq(Seq(PrintedLines)) BY <1>17, <2>1, SeqDef
  <2>3. \A i \in 1..Len(added) : fresh[i] = <<>> BY <1>17
  <2> HIDE DEF fresh
  <2> QED BY <1>17, <2>1, <2>2, <2>3, LenProperties
<1> HIDE DEF fresh
<1>19. /\ output' \in Seq(Seq(PrintedLines)) /\ Len(output') = old + Len(added)
       /\ \A i \in 1..old : output'[i] = output[i]
       /\ \A i \in 1..Len(added) : output'[old + i] = <<>>
  <2>1. output' = output \o fresh /\ Len(output) = old BY <1>15 DEF old
  <2> DEFINE o == output
             p == output'
             l == Len(added)
  <2>2. o \in Seq(Seq(PrintedLines)) /\ fresh \in Seq(Seq(PrintedLines)) BY <1>16, <1>18
  <2>3. p = o \o fresh /\ Len(o) = old /\ Len(fresh) = l BY <1>18, <2>1
  <2>4. \A i \in 1..l : fresh[i] = <<>> BY <1>18
  <2> HIDE DEF o, p, l
  <2>5. /\ o \o fresh \in Seq(Seq(PrintedLines)) /\ Len(o \o fresh) = Len(o) + Len(fresh)
        /\ \A i \in 1..Len(o) : (o \o fresh)[i] = o[i]
        /\ \A i \in 1..Len(fresh) : (o \o fresh)[Len(o) + i] = fresh[i]
    BY ONLY <2>2, Joined
  <2>6. /\ p \in Seq(Seq(PrintedLines)) /\ Len(p) = old + l
        /\ \A i \in 1..old : p[i] = o[i]
        /\ \A i \in 1..l : p[old + i] = fresh[i]
    BY ONLY <2>3, <2>5
  <2> QED BY <2>4, <2>6 DEF o, p, l
<1>20. \A id \in (old + 1)..(old + Len(added)) : output'[id] = <<>>
  <2>1. ASSUME NEW id \in (old + 1)..(old + Len(added))
        PROVE  id - old \in 1..Len(added) /\ old + (id - old) = id
    BY <1>16, <1>17
  <2> QED BY <1>19, <2>1
<1> DEFINE D == DOMAIN calls
           new(id) == [verb |-> CommandWords(added[id - old])[1], count |-> 0]
<1>21. D \subseteq 1..old BY <1>1 DEF CallsInv, old
<1>22. DOMAIN calls' = D \cup (old + 1)..(old + Len(added))
       /\ calls' = [id \in DOMAIN calls' |-> calls'[id]]
       /\ \A id \in DOMAIN calls' : calls'[id] = IF id \in D THEN calls[id] ELSE new(id)
  BY <1>15
<1>23. DOMAIN calls' \subseteq 1..(old + Len(added)) BY <1>16, <1>17, <1>21, <1>22
<1>24. ASSUME NEW id \in DOMAIN calls'
       PROVE  /\ calls'[id] = [verb |-> calls'[id].verb, count |-> calls'[id].count]
              /\ calls'[id].count \in Nat /\ Runs(output'[id], calls'[id])
  <2>1. CASE id \in D
    <3>1. calls'[id] = calls[id] /\ output'[id] = output[id] BY <1>19, <1>21, <1>22, <2>1
    <3> QED BY <1>1, <2>1, <3>1 DEF CallsInv
  <2>2. CASE id \notin D
    <3>1. calls'[id] = new(id) /\ output'[id] = <<>> BY <1>20, <1>22, <2>2
    <3>2. new(id).count = 0 OBVIOUS
    <3> QED BY <3>1, <3>2, FreshCounted
  <2> QED BY <2>1, <2>2
<1>25. ASSUME NEW id \in 1..(old + Len(added)) PROVE Counted(output'[id])
  <2>1. id \in 1..old \/ id \in (old + 1)..(old + Len(added)) BY <1>16, <1>17
  <2>2. \A i \in 1..old : Counted(output[i]) BY <1>1 DEF CallsInv, old
  <2> QED BY <1>19, <1>20, <2>1, <2>2, FreshCounted
<1>26. Len(output') = Len(Started(shell'.ran))
  <2>1. old = Len(Started(shell.ran)) BY <1>1 DEF CallsInv, old
  <2> QED BY <1>13, <1>14, <1>19, <2>1
<1>27. CallsInv' BY <1>19, <1>22, <1>23, <1>24, <1>25, <1>26 DEF CallsInv
<1> QED BY <1>9, <1>10, <1>11, <1>27 DEF InputInv

\* Nothing is read: the text stays, and so do the calls if nothing is printed.
LEMMA EofStep == ASSUME InputInv, ShellEof PROVE InputInv'
<1>1. TextInv' /\ CallsInv'
  BY DEF InputInv, ShellEof, TextInv, CallsInv, Consumed
<1>2. LeaveInv' BY DEF InputInv, ShellEof, LeaveInv, Serves
<1> QED BY <1>1, <1>2 DEF InputInv

LEMMA TimeoutStep == ASSUME InputInv, ShellTimeout PROVE InputInv'
<1>1. shell = [line |-> shell.line, ran |-> shell.ran, quit |-> shell.quit]
  BY DEF InputInv, TextInv
<1>2. shell' = [shell EXCEPT !.quit = TRUE] BY DEF ShellTimeout
<1>3. shell' = [line |-> shell.line, ran |-> shell.ran, quit |-> TRUE] BY <1>1, <1>2
<1>4. shell'.line = shell.line /\ shell'.ran = shell.ran /\ shell'.quit = TRUE BY <1>3
<1>5. UNCHANGED <<script, unread, watching, calls, output>> /\ ~timer' /\ timer
  BY DEF ShellTimeout
<1>6. TextInv' BY <1>3, <1>4, <1>5 DEF InputInv, TextInv, Consumed
<1>7. LeaveInv' BY <1>4, <1>5 DEF InputInv, LeaveInv
<1>8. CallsInv' BY <1>4, <1>5 DEF InputInv, CallsInv
<1> QED BY <1>6, <1>7, <1>8 DEF InputInv

\* A result prints one entry for its call, and takes the call off the list
\* or counts on: the rest is as it was.
LEMMA ResultStep ==
  ASSUME InputInv, NEW id \in DOMAIN calls, NEW e \in PrintedLines,
         UNCHANGED <<script, unread, shell, watching, timer>>,
         output' = [output EXCEPT ![id] = Append(@, e)],
         Counted(Append(output[id], e)),
         \/ calls' = MapErase(calls, {id})
         \/ /\ calls' \in {calls, Count(id)}
            /\ Runs(Append(output[id], e), calls'[id])
  PROVE  InputInv'
<1>1. TextInv' /\ LeaveInv' BY DEF InputInv, TextInv, LeaveInv, Consumed
<1>2. /\ output \in Seq(Seq(PrintedLines)) /\ Len(output) = Len(Started(shell.ran))
      /\ DOMAIN calls \subseteq 1..Len(output)
      /\ calls = [i \in DOMAIN calls |-> calls[i]]
      /\ \A i \in DOMAIN calls :
           /\ calls[i] = [verb |-> calls[i].verb, count |-> calls[i].count]
           /\ calls[i].count \in Nat /\ Runs(output[i], calls[i])
      /\ \A i \in 1..Len(output) : Counted(output[i])
  BY DEF InputInv, CallsInv
<1>3. /\ output' \in Seq(Seq(PrintedLines)) /\ Len(output') = Len(output)
      /\ output'[id] = Append(output[id], e)
      /\ \A j \in 1..Len(output) : j # id => output'[j] = output[j]
  BY <1>2, PrintFor
<1>4. \A i \in 1..Len(output') : Counted(output'[i]) BY <1>2, <1>3
<1>5. Len(output') = Len(Started(shell'.ran)) BY <1>2, <1>3
<1> DEFINE Listed(i) ==
             /\ calls'[i] = [verb |-> calls'[i].verb, count |-> calls'[i].count]
             /\ calls'[i].count \in Nat /\ Runs(output'[i], calls'[i])
<1>6. DOMAIN calls' \subseteq DOMAIN calls /\ calls' = [i \in DOMAIN calls' |-> calls'[i]]
      /\ \A i \in DOMAIN calls' : Listed(i)
  <2>1. CASE calls' = MapErase(calls, {id})
    <3>1. calls' = [i \in DOMAIN calls \ {id} |-> calls[i]]
      BY <2>1 DEF MapErase, Restrict
    <3>2. DOMAIN calls' = DOMAIN calls \ {id} /\ \A i \in DOMAIN calls' : calls'[i] = calls[i]
      BY <3>1
    <3> QED BY <1>2, <1>3, <3>1, <3>2
  <2>2. CASE calls' \in {calls, Count(id)} /\ Runs(Append(output[id], e), calls'[id])
    <3>1. DOMAIN calls' = DOMAIN calls /\ calls' = [i \in DOMAIN calls |-> calls'[i]]
          /\ \A i \in DOMAIN calls : i # id => calls'[i] = calls[i]
      BY <1>2, <2>2 DEF Count
    <3>2. calls'[id] = calls[id] \/ calls'[id] = [calls[id] EXCEPT !.count = @ + 1]
      BY <1>2, <2>2 DEF Count
    <3>3. /\ calls'[id] = [verb |-> calls'[id].verb, count |-> calls'[id].count]
          /\ calls'[id].count \in Nat
      BY <1>2, <3>2
    <3>4. Listed(id) BY <1>3, <2>2, <3>3
    <3>5. \A i \in DOMAIN calls : i # id => Listed(i) BY <1>2, <1>3, <3>1
    <3> QED BY <3>1, <3>4, <3>5
  <2> QED BY <2>1, <2>2
<1>7. CallsInv' BY <1>2, <1>3, <1>4, <1>5, <1>6 DEF CallsInv
<1> QED BY <1>1, <1>7 DEF InputInv

LEMMA RespondStep ==
  ASSUME InputInv, NEW id \in DOMAIN calls,
         NEW o \in {"OK", "error", "transport error"}, Respond(id, o)
  PROVE  InputInv'
<1> DEFINE e == [what |-> o, n |-> 0]
<1>1. e \in PrintedLines BY DEF PrintedLines, Whats
<1>2. e.what # "notif" /\ e.what # "ended" OBVIOUS
<1>3. output' = [output EXCEPT ![id] = Append(@, e)] BY DEF Respond, PrintsFor
<1> HIDE DEF e
<1>4. output[id] = <<>> BY DEF InputInv, CallsInv, Runs, Respond
<1>5. Counted(Append(output[id], e)) BY <1>1, <1>2, <1>4, FreshCounted, NonePrinted, PrintOther
<1>6. calls' = MapErase(calls, {id}) /\ UNCHANGED <<script, unread, shell, watching, timer>>
  BY DEF Respond
<1> QED BY <1>1, <1>3, <1>5, <1>6, ResultStep

LEMMA OutputOf ==
  ASSUME InputInv, NEW id \in DOMAIN calls
  PROVE  /\ output[id] \in Seq(PrintedLines) /\ Counted(output[id])
         /\ Runs(output[id], calls[id]) /\ calls[id].count \in Nat
<1>1. output \in Seq(Seq(PrintedLines)) /\ id \in 1..Len(output) BY DEF InputInv, CallsInv
<1>2. output[id] \in Seq(PrintedLines) BY <1>1, LenProperties
<1> QED BY <1>1, <1>2 DEF InputInv, CallsInv

LEMMA NotifiedStep ==
  ASSUME InputInv, NEW id \in DOMAIN calls, Notified(id)
  PROVE  InputInv'
<1> DEFINE c == calls[id]
           m == Count(id)[id].count
           e == [what |-> "notif", n |-> m]
<1>1. /\ output[id] \in Seq(PrintedLines) /\ Counted(output[id])
      /\ Runs(output[id], c) /\ c.count \in Nat
  BY OutputOf
<1>2. c.verb = "sub" /\ calls' = Count(id) BY DEF Notified
<1>3. c = [verb |-> c.verb, count |-> c.count] BY DEF InputInv, CallsInv
<1>4. Count(id)[id] = [verb |-> c.verb, count |-> c.count + 1] BY <1>3 DEF Count
<1>5. m = c.count + 1 /\ calls'[id].count = c.count + 1 /\ calls'[id].verb = "sub"
  BY <1>2, <1>4
<1>6. output' = [output EXCEPT ![id] = Append(@, e)] BY DEF Notified, PrintsFor
<1> HIDE DEF c, m
<1>7. e \in PrintedLines /\ e.what = "notif" /\ e.n = c.count + 1
  <2>1. m \in Nat /\ m = c.count + 1 BY <1>1, <1>5
  <2>2. e \in PrintedLines BY ONLY <2>1 DEF PrintedLines, Whats
  <2> QED BY <2>1, <2>2
<1> HIDE DEF e
<1>8. Counted(Append(output[id], e)) /\ Runs(Append(output[id], e), calls'[id])
  BY <1>1, <1>2, <1>5, <1>7, PrintNotified
<1>9. UNCHANGED <<script, unread, shell, watching, timer>> BY DEF Notified
<1> QED BY <1>2, <1>6, <1>7, <1>8, <1>9, ResultStep

LEMMA UnnumberedStep ==
  ASSUME InputInv, NEW id \in DOMAIN calls, Unnumbered(id)
  PROVE  InputInv'
<1> DEFINE e == [what |-> "sync", n |-> 0]
<1>1. /\ output[id] \in Seq(PrintedLines) /\ Counted(output[id]) /\ Runs(output[id], calls[id])
  BY OutputOf
<1>2. e \in PrintedLines /\ e.what # "notif" /\ e.what # "ended" BY DEF PrintedLines, Whats
<1>3. output' = [output EXCEPT ![id] = Append(@, e)] BY DEF Unnumbered, PrintsFor
<1> HIDE DEF e
<1>4. calls[id].verb = "sub" /\ calls' = calls BY DEF Unnumbered
<1>5. Counted(Append(output[id], e)) /\ Runs(Append(output[id], e), calls'[id])
  BY <1>1, <1>2, <1>4, PrintOther
<1>6. UNCHANGED <<script, unread, shell, watching, timer>> BY DEF Unnumbered
<1> QED BY <1>2, <1>3, <1>4, <1>5, <1>6, ResultStep

LEMMA EndedStep ==
  ASSUME InputInv, NEW id \in DOMAIN calls, StreamEnded(id)
  PROVE  InputInv'
<1> DEFINE e == [what |-> "ended", n |-> calls[id].count]
<1>1. /\ output[id] \in Seq(PrintedLines) /\ Counted(output[id])
      /\ Runs(output[id], calls[id]) /\ calls[id].count \in Nat
  BY OutputOf
<1>2. e \in PrintedLines /\ e.what = "ended" /\ e.n = calls[id].count BY <1>1 DEF PrintedLines, Whats
<1>3. output' = [output EXCEPT ![id] = Append(@, e)] BY DEF StreamEnded, PrintsFor
<1> HIDE DEF e
<1>4. calls[id].verb = "sub" /\ calls' = MapErase(calls, {id}) BY DEF StreamEnded
<1>5. Counted(Append(output[id], e)) BY <1>1, <1>2, <1>4, PrintEnded
<1>6. UNCHANGED <<script, unread, shell, watching, timer>> BY DEF StreamEnded
<1> QED BY <1>2, <1>3, <1>4, <1>5, <1>6, ResultStep

LEMMA InputStep == ASSUME InputInv, [PeerShellNext]_peershell PROVE InputInv'
<1>1. CASE ShellRead BY <1>1, ReadStep
<1>2. CASE ShellEof BY <1>2, EofStep
<1>3. CASE ShellTimeout BY <1>3, TimeoutStep
<1>4. ASSUME NEW id \in DOMAIN calls,
             \/ \E o \in {"OK", "error", "transport error"} : Respond(id, o)
             \/ Notified(id) \/ Unnumbered(id) \/ StreamEnded(id)
      PROVE  InputInv'
  BY <1>4, RespondStep, NotifiedStep, UnnumberedStep, EndedStep
<1>5. CASE UNCHANGED peershell
  BY <1>5 DEF peershell, InputInv, TextInv, LeaveInv, CallsInv, Consumed
<1> QED BY <1>1, <1>2, <1>3, <1>4, <1>5 DEF PeerShellNext

\* The inductive invariant says what the property says, and what a call that
\* runs still owes.
LEMMA InputGives == ASSUME InputInv PROVE ShellRunsItsInput
<1>1. output \in Seq(Seq(PrintedLines)) /\ \A id \in 1..Len(output) : Counted(output[id])
  BY DEF InputInv, CallsInv
<1>2. DOMAIN output = 1..Len(output) BY <1>1, LenProperties
<1>3. \A id \in DOMAIN output : Counted(output[id]) BY <1>1, <1>2
<1>4. shell.ran = LinesOf(SubSeq(script, 1, Consumed)) BY DEF InputInv, TextInv, Upto
<1>5. Len(output) = Len(Started(shell.ran)) BY DEF InputInv, CallsInv
<1> QED BY <1>3, <1>4, <1>5
  DEF InputInv, LeaveInv, ShellRunsItsInput, Counted, InOrder

\* gnmi_peer (handle_read, flush_line, do_subscribe, handle_timeout): for any
\* scripts and any bound, however the input is cut into reads the shell has
\* run exactly the lines it has read to their end, each that names a call has
\* started one, the responses of a subscription are numbered from 1 up to the
\* total it ends with, and the shell leaves only by a quit line or, once its
\* input has ended, if it ran a line.
THEOREM InputRuns == PeerShellSpec => []ShellRunsItsInput
<1>1. PeerShellInit => InputInv BY InputStart
<1>2. InputInv /\ [PeerShellNext]_peershell => InputInv' BY InputStep
<1>3. InputInv => ShellRunsItsInput BY InputGives
<1> QED BY <1>1, <1>2, <1>3, PTL DEF PeerShellSpec

\* What the calls that run are: they start as a line says, and their
\* notifications are counted up to the bound.
KindsInv ==
  /\ watching \in BOOLEAN /\ timer \in BOOLEAN
  /\ \A id \in DOMAIN calls : calls[id].verb \in Verbs /\ calls[id].count \in 0..MaxResponses

LEMMA KindsRead == ASSUME InputInv, KindsInv, ShellRead PROVE KindsInv'
<1> DEFINE added == Started(SubSeq(shell'.ran, Len(shell.ran) + 1, Len(shell'.ran)))
           old == Len(output)
           m == Len(added)
           new(id) == [verb |-> CommandWords(added[id - old])[1], count |-> 0]
<1>1. PICK w \in Seq(Texts) : shell'.ran = shell.ran \o w BY ReadStep
<1>2. shell.ran \in Seq(Texts) BY TextFacts DEF InputInv
<1>3. added = Started(w) BY <1>1, <1>2, StartedLater
<1>4. calls' = [id \in DOMAIN calls \cup (old + 1)..(old + m) |->
                  IF id \in DOMAIN calls THEN calls[id] ELSE new(id)]
  BY DEF ShellRead
<1>5. old \in Nat BY LenProperties DEF InputInv, CallsInv
<1> HIDE DEF added, old
<1>6. m \in Nat /\ \A i \in 1..m : StartsCall(added[i])
  <2>1. added = Keep(w, Calling) /\ added \in Seq(Texts) BY <1>3, StartedIs
  <2>2. Elements(added) = Elements(w) \cap Calling BY <2>1, KeepElements
  <2>3. \A i \in 1..m : added[i] \in Calling BY <2>2 DEF Elements
  <2> QED BY <2>1, <2>3, LenProperties DEF Calling
<1> HIDE DEF m
<1>7. ASSUME NEW id \in (old + 1)..(old + m) PROVE new(id).verb \in Verbs /\ new(id).count = 0
  <2>1. id - old \in 1..m BY <1>5, <1>6
  <2> QED BY <1>6, <2>1 DEF StartsCall
<1>8. ASSUME NEW id \in DOMAIN calls'
      PROVE  calls'[id].verb \in Verbs /\ calls'[id].count \in 0..MaxResponses
  <2>1. CASE id \in DOMAIN calls
    <3>1. calls'[id] = calls[id] BY <1>4, <2>1
    <3> QED BY <2>1, <3>1 DEF KindsInv
  <2>2. CASE id \notin DOMAIN calls
    <3>1. id \in (old + 1)..(old + m) /\ calls'[id] = new(id) BY <1>4, <2>2
    <3>2. 0 \in 0..MaxResponses BY PeerShellAssumption
    <3> QED BY <1>7, <3>1, <3>2
  <2> QED BY <2>1, <2>2
<1>9. UNCHANGED <<watching, timer>> BY DEF ShellRead
<1> QED BY <1>8, <1>9 DEF KindsInv

LEMMA KindsStep ==
  ASSUME InputInv, KindsInv, [PeerShellNext]_peershell
  PROVE  KindsInv'
<1>1. CASE ShellRead BY <1>1, KindsRead
<1>2. CASE ShellEof BY <1>2 DEF ShellEof, KindsInv
<1>3. CASE ShellTimeout BY <1>3 DEF ShellTimeout, KindsInv
<1>4. ASSUME NEW id \in DOMAIN calls, calls' = MapErase(calls, {id}), UNCHANGED <<watching, timer>>
      PROVE  KindsInv'
  <2>1. calls' = [i \in DOMAIN calls \ {id} |-> calls[i]] BY <1>4 DEF MapErase, Restrict
  <2>2. DOMAIN calls' = DOMAIN calls \ {id} /\ \A i \in DOMAIN calls' : calls'[i] = calls[i]
    BY <2>1
  <2> QED BY <1>4, <2>2 DEF KindsInv
<1>5. ASSUME NEW id \in DOMAIN calls, Notified(id) PROVE KindsInv'
  <2>1. /\ calls' = [calls EXCEPT ![id].count = @ + 1] /\ calls[id].count < MaxResponses
        /\ UNCHANGED <<watching, timer>>
    BY <1>5 DEF Notified, Count
  <2>2. calls[id] = [verb |-> calls[id].verb, count |-> calls[id].count]
    BY DEF InputInv, CallsInv
  <2>3. calls[id].verb \in Verbs /\ calls[id].count \in 0..MaxResponses BY DEF KindsInv
  <2>4. calls'[id] = [calls[id] EXCEPT !.count = @ + 1] BY <2>1
  <2>5. calls'[id] = [verb |-> calls[id].verb, count |-> calls[id].count + 1] BY <2>2, <2>4
  <2>6. calls'[id].verb = calls[id].verb /\ calls'[id].count = calls[id].count + 1 BY <2>5
  <2>7. calls'[id].count \in 0..MaxResponses BY <2>1, <2>3, <2>6, PeerShellAssumption
  <2>8. DOMAIN calls' = DOMAIN calls /\ \A i \in DOMAIN calls : i # id => calls'[i] = calls[i]
    BY <2>1
  <2> QED BY <2>1, <2>3, <2>6, <2>7, <2>8 DEF KindsInv
<1>6. ASSUME NEW id \in DOMAIN calls, \E o : Respond(id, o) PROVE KindsInv'
  BY <1>4, <1>6 DEF Respond
<1>7. ASSUME NEW id \in DOMAIN calls, StreamEnded(id) PROVE KindsInv'
  BY <1>4, <1>7 DEF StreamEnded
<1>8. ASSUME NEW id \in DOMAIN calls, Unnumbered(id) PROVE KindsInv'
  BY <1>8 DEF Unnumbered, KindsInv
<1>9. CASE UNCHANGED peershell BY <1>9 DEF peershell, KindsInv
<1> QED BY <1>1, <1>2, <1>3, <1>5, <1>6, <1>7, <1>8, <1>9 DEF PeerShellNext

\* do_set, do_get, do_subscribe and their callbacks, for any input: a call that
\* runs was started by a line and has an output, and is one of the three verbs.
THEOREM PeerShellTyped == PeerShellSpec => []PeerShellTypeOK
<1>1. PeerShellInit => KindsInv
  BY DEF PeerShellInit, KindsInv, EmptyMap
<1>2. InputInv /\ KindsInv => PeerShellTypeOK
  <2> SUFFICES ASSUME InputInv, KindsInv PROVE PeerShellTypeOK OBVIOUS
  <2>1. unread \in 0..Len(script) /\ shell.quit \in BOOLEAN BY DEF InputInv, TextInv
  <2>2. DOMAIN calls \subseteq DOMAIN output BY LenProperties DEF InputInv, CallsInv
  <2>3. {shell.quit, watching, timer} \subseteq BOOLEAN BY <2>1 DEF KindsInv
  <2> QED BY <2>1, <2>2, <2>3 DEF KindsInv, PeerShellTypeOK
<1> QED BY <1>1, <1>2, InputStart, InputStep, KindsStep, PTL DEF PeerShellSpec

-----------------------------------------------------------------------------
(* Completion: the names TAB offers are the paths that can be walked.      *)

\* The functions that the tables, their paths and the walks are defined by
\* exist: each value is given by the one before it.
EntriesBy(f, n) ==
  f = [d \in 1..n |->
        IF d = 1 THEN UNION {Range(t) : t \in Tables}
        ELSE UNION {Range(e.members) : e \in {x \in f[d - 1] : IsTable(x)}}]
LEMMA EntriesExist ==
  ASSUME NEW n \in Nat
  PROVE  \E f : EntriesBy(f, n)
<1> DEFINE Start == UNION {Range(t) : t \in Tables}
           P(i, x) == UNION {Range(e.members) : e \in {y \in x : IsTable(y)}}
           S == {m \in Nat : \E f : EntriesBy(f, m)}
<1>1. 0 \in S
  <2> DEFINE f == [i \in 1..0 |-> Start]
  <2>1. \A i \in 1..0 : i = 1 OBVIOUS
  <2>2. EntriesBy(f, 0) BY <2>1 DEF EntriesBy
  <2> QED BY <2>2
<1>2. ASSUME NEW m \in S PROVE m + 1 \in S
  <2>1. m \in Nat OBVIOUS
  <2>2. PICK f : EntriesBy(f, m) OBVIOUS
  <2> DEFINE Next1(i) == IF i = 1 THEN Start ELSE P(i, f[i - 1])
             g == [i \in 1..(m + 1) |-> IF i \in 1..m THEN f[i] ELSE Next1(i)]
             h == [i \in 1..(m + 1) |-> IF i = 1 THEN Start ELSE P(i, g[i - 1])]
  <2>3. f = [i \in 1..m |-> IF i = 1 THEN Start ELSE P(i, f[i - 1])]
    BY <2>2 DEF EntriesBy
  <2> HIDE DEF P, Start
  <2>4. ASSUME NEW i \in 1..(m + 1) PROVE g[i] = h[i]
    <3>1. i = 1 \/ i - 1 \in 1..m BY <2>1
    <3>2. i \in 1..m => f[i] = Next1(i) BY <2>3
    <3>3. g[i] = Next1(i) BY <3>2
    <3>4. i # 1 => g[i - 1] = f[i - 1] BY <2>1, <3>1
    <3> QED BY <3>3, <3>4
  <2>5. g = h BY <2>4
  <2>6. EntriesBy(g, m + 1) BY <2>5 DEF EntriesBy, P, Start
  <2> HIDE DEF g
  <2> QED BY <2>1, <2>6
<1>3. S = Nat
  <2>1. S \subseteq Nat OBVIOUS
  <2> HIDE DEF S
  <2> QED BY <1>1, <1>2, <2>1, Induct
<1>4. n \in S BY <1>3
<1> QED BY <1>4

DottedBy(f, n) ==
  f = [d \in 1..n |-> IF d = 1 THEN Keys ELSE Lengthened(f[d - 1])]
LEMMA DottedExist ==
  ASSUME NEW n \in Nat
  PROVE  \E f : DottedBy(f, n)
<1> DEFINE Start == Keys
           P(i, x) == Lengthened(x)
           S == {m \in Nat : \E f : DottedBy(f, m)}
<1>1. 0 \in S
  <2> DEFINE f == [i \in 1..0 |-> Start]
  <2>1. \A i \in 1..0 : i = 1 OBVIOUS
  <2>2. DottedBy(f, 0) BY <2>1 DEF DottedBy
  <2> QED BY <2>2
<1>2. ASSUME NEW m \in S PROVE m + 1 \in S
  <2>1. m \in Nat OBVIOUS
  <2>2. PICK f : DottedBy(f, m) OBVIOUS
  <2> DEFINE Next1(i) == IF i = 1 THEN Start ELSE P(i, f[i - 1])
             g == [i \in 1..(m + 1) |-> IF i \in 1..m THEN f[i] ELSE Next1(i)]
             h == [i \in 1..(m + 1) |-> IF i = 1 THEN Start ELSE P(i, g[i - 1])]
  <2>3. f = [i \in 1..m |-> IF i = 1 THEN Start ELSE P(i, f[i - 1])]
    BY <2>2 DEF DottedBy
  <2> HIDE DEF P, Start
  <2>4. ASSUME NEW i \in 1..(m + 1) PROVE g[i] = h[i]
    <3>1. i = 1 \/ i - 1 \in 1..m BY <2>1
    <3>2. i \in 1..m => f[i] = Next1(i) BY <2>3
    <3>3. g[i] = Next1(i) BY <3>2
    <3>4. i # 1 => g[i - 1] = f[i - 1] BY <2>1, <3>1
    <3> QED BY <3>3, <3>4
  <2>5. g = h BY <2>4
  <2>6. DottedBy(g, m + 1) BY <2>5 DEF DottedBy, P, Start
  <2> HIDE DEF g
  <2> QED BY <2>1, <2>6
<1>3. S = Nat
  <2>1. S \subseteq Nat OBVIOUS
  <2> HIDE DEF S
  <2> QED BY <1>1, <1>2, <2>1, Induct
<1>4. n \in S BY <1>3
<1> QED BY <1>4

LevelsBy(f, n, t, filter) ==
  f = [d \in 1..n |->
        IF d = 1 THEN Found(<<>>, t, filter)
        ELSE UNION {Found(v.path, v.entry.members, filter) :
                      v \in {g \in f[d - 1] : IsTable(g.entry)}}]
LEMMA LevelsExist ==
  ASSUME NEW t, NEW filter, NEW n \in Nat
  PROVE  \E f : LevelsBy(f, n, t, filter)
<1> DEFINE Start == Found(<<>>, t, filter)
           P(i, x) == UNION {Found(v.path, v.entry.members, filter) : v \in {g \in x : IsTable(g.entry)}}
           S == {m \in Nat : \E f : LevelsBy(f, m, t, filter)}
<1>1. 0 \in S
  <2> DEFINE f == [i \in 1..0 |-> Start]
  <2>1. \A i \in 1..0 : i = 1 OBVIOUS
  <2>2. LevelsBy(f, 0, t, filter) BY <2>1 DEF LevelsBy
  <2> QED BY <2>2
<1>2. ASSUME NEW m \in S PROVE m + 1 \in S
  <2>1. m \in Nat OBVIOUS
  <2>2. PICK f : LevelsBy(f, m, t, filter) OBVIOUS
  <2> DEFINE Next1(i) == IF i = 1 THEN Start ELSE P(i, f[i - 1])
             g == [i \in 1..(m + 1) |-> IF i \in 1..m THEN f[i] ELSE Next1(i)]
             h == [i \in 1..(m + 1) |-> IF i = 1 THEN Start ELSE P(i, g[i - 1])]
  <2>3. f = [i \in 1..m |-> IF i = 1 THEN Start ELSE P(i, f[i - 1])]
    BY <2>2 DEF LevelsBy
  <2> HIDE DEF P, Start
  <2>4. ASSUME NEW i \in 1..(m + 1) PROVE g[i] = h[i]
    <3>1. i = 1 \/ i - 1 \in 1..m BY <2>1
    <3>2. i \in 1..m => f[i] = Next1(i) BY <2>3
    <3>3. g[i] = Next1(i) BY <3>2
    <3>4. i # 1 => g[i - 1] = f[i - 1] BY <2>1, <3>1
    <3> QED BY <3>3, <3>4
  <2>5. g = h BY <2>4
  <2>6. LevelsBy(g, m + 1, t, filter) BY <2>5 DEF LevelsBy, P, Start
  <2> HIDE DEF g
  <2> QED BY <2>1, <2>6
<1>3. S = Nat
  <2>1. S \subseteq Nat OBVIOUS
  <2> HIDE DEF S
  <2> QED BY <1>1, <1>2, <2>1, Induct
<1>4. n \in S BY <1>3
<1> QED BY <1>4

Root(t) == [kind |-> "table", members |-> t]
WalkBy(f, n, t, path) ==
  f = [i \in 0..n |-> IF i = 0 THEN [at |-> Root(t), seg |-> <<>>]
                      ELSE Stepped(f[i - 1], path[i])]
LEMMA WalkExist ==
  ASSUME NEW t, NEW path, NEW n \in Nat
  PROVE  \E f : WalkBy(f, n, t, path)
<1> DEFINE Start == [at |-> Root(t), seg |-> <<>>]
           P(i, x) == Stepped(x, path[i])
           S == {m \in Nat : \E f : WalkBy(f, m, t, path)}
<1>1. 0 \in S
  <2> DEFINE f == [i \in 0..0 |-> Start]
  <2>1. \A i \in 0..0 : i = 0 OBVIOUS
  <2>2. WalkBy(f, 0, t, path) BY <2>1 DEF WalkBy
  <2> QED BY <2>2
<1>2. ASSUME NEW m \in S PROVE m + 1 \in S
  <2>1. m \in Nat OBVIOUS
  <2>2. PICK f : WalkBy(f, m, t, path) OBVIOUS
  <2> DEFINE Next1(i) == IF i = 0 THEN Start ELSE P(i, f[i - 1])
             g == [i \in 0..(m + 1) |-> IF i \in 0..m THEN f[i] ELSE Next1(i)]
             h == [i \in 0..(m + 1) |-> IF i = 0 THEN Start ELSE P(i, g[i - 1])]
  <2>3. f = [i \in 0..m |-> IF i = 0 THEN Start ELSE P(i, f[i - 1])]
    BY <2>2 DEF WalkBy
  <2> HIDE DEF P, Start
  <2>4. ASSUME NEW i \in 0..(m + 1) PROVE g[i] = h[i]
    <3>1. i = 0 \/ i - 1 \in 0..m BY <2>1
    <3>2. i \in 0..m => f[i] = Next1(i) BY <2>3
    <3>3. g[i] = Next1(i) BY <3>2
    <3>4. i # 0 => g[i - 1] = f[i - 1] BY <2>1, <3>1
    <3> QED BY <3>3, <3>4
  <2>5. g = h BY <2>4
  <2>6. WalkBy(g, m + 1, t, path) BY <2>5 DEF WalkBy, P, Start
  <2> HIDE DEF g
  <2> QED BY <2>1, <2>6
<1>3. S = Nat
  <2>1. S \subseteq Nat OBVIOUS
  <2> HIDE DEF S
  <2> QED BY <1>1, <1>2, <2>1, Induct
<1>4. n \in S BY <1>3
<1> QED BY <1>4

LEMMA EntriesAre ==
  /\ \A t \in Tables : \A k \in DOMAIN t : t[k] \in Entries[1]
  /\ \A d \in 1..(Depth - 1) : \A e \in Entries[d] :
       IsTable(e) => \A k \in DOMAIN e.members : e.members[k] \in Entries[d + 1]
<1>1. Depth \in Nat \ {0} BY CompletionAssumption
<1>2. \E f : EntriesBy(f, Depth) BY <1>1, EntriesExist
<1>3. EntriesBy(Entries, Depth) BY <1>2 DEF EntriesBy, Entries
<1>4. Entries = [d \in 1..Depth |->
                  IF d = 1 THEN UNION {Range(t) : t \in Tables}
                  ELSE UNION {Range(e.members) : e \in {x \in Entries[d - 1] : IsTable(x)}}]
  BY <1>3 DEF EntriesBy
<1> HIDE DEF IsTable
<1>5. 1 \in 1..Depth /\ \A d \in 1..(Depth - 1) : d + 1 \in 1..Depth /\ d + 1 # 1 /\ (d + 1) - 1 = d
  BY <1>1
<1>6. Entries[1] = UNION {Range(t) : t \in Tables} BY <1>4, <1>5
<1>7. \A d \in 1..(Depth - 1) :
        Entries[d + 1] = UNION {Range(e.members) : e \in {x \in Entries[d] : IsTable(x)}}
  BY <1>4, <1>5
<1> QED BY <1>6, <1>7 DEF Range

LEMMA DottedAre ==
  Dotted[1] = Keys /\ \A d \in 1..(Depth - 1) : Dotted[d + 1] = Lengthened(Dotted[d])
<1>1. Depth \in Nat \ {0} BY CompletionAssumption
<1>2. \E f : DottedBy(f, Depth) BY <1>1, DottedExist
<1>3. DottedBy(Dotted, Depth) BY <1>2 DEF DottedBy, Dotted
<1>4. Dotted = [d \in 1..Depth |-> IF d = 1 THEN Keys ELSE Lengthened(Dotted[d - 1])]
  BY <1>3 DEF DottedBy
<1>5. 1 \in 1..Depth /\ \A d \in 1..(Depth - 1) : d + 1 \in 1..Depth /\ d + 1 # 1 /\ (d + 1) - 1 = d
  BY <1>1
<1> QED BY <1>4, <1>5

\* What get_sub_keys collects, level by level.
InFound(v, prefix, members, filter) ==
  \E k \in DOMAIN members : Relevant(Join(prefix, k), filter) /\ v = [path |-> Join(prefix, k), entry |-> members[k]]
LevelsOf(level, t, filter) ==
  /\ \A v : v \in level[1] <=> InFound(v, <<>>, t, filter)
  /\ \A d \in 1..(Depth - 1) : \A v :
       v \in level[d + 1] <=>
         \E u \in level[d] : IsTable(u.entry) /\ InFound(v, u.path, u.entry.members, filter)
  /\ \A m : m \in GetSubKeys(t, filter) <=>
       \E d \in 1..Depth : \E v \in level[d] :
         IsPrefix(filter, v.path) /\ m = v.path \o Suffix(v.entry)
LEMMA GetSubKeysAre ==
  ASSUME NEW t, NEW filter
  PROVE  \E level : LevelsOf(level, t, filter)
<1>1. Depth \in Nat \ {0} BY CompletionAssumption
<1>2. \E f : LevelsBy(f, Depth, t, filter) BY <1>1, LevelsExist
<1> DEFINE level == CHOOSE f : LevelsBy(f, Depth, t, filter)
<1>3. LevelsBy(level, Depth, t, filter) BY <1>2
<1>4. GetSubKeys(t, filter) =
        {v.path \o Suffix(v.entry) :
           v \in {g \in UNION {level[d] : d \in 1..Depth} : IsPrefix(filter, g.path)}}
  BY DEF GetSubKeys, LevelsBy
<1>5. level = [d \in 1..Depth |->
                IF d = 1 THEN Found(<<>>, t, filter)
                ELSE UNION {Found(v.path, v.entry.members, filter) :
                              v \in {g \in level[d - 1] : IsTable(g.entry)}}]
  <2> HIDE DEF level
  <2> QED BY <1>3 DEF LevelsBy
<1> HIDE DEF level
<1>6. 1 \in 1..Depth /\ \A d \in 1..(Depth - 1) : d + 1 \in 1..Depth /\ d + 1 # 1 /\ (d + 1) - 1 = d
  BY <1>1
<1>7. \A v, prefix, members : v \in Found(prefix, members, filter) <=> InFound(v, prefix, members, filter)
  BY DEF Found, InFound
<1>8. \A v : v \in level[1] <=> InFound(v, <<>>, t, filter) BY <1>5, <1>6, <1>7
<1>9. ASSUME NEW d \in 1..(Depth - 1), NEW v
      PROVE v \in level[d + 1] <=>
              \E u \in level[d] : IsTable(u.entry) /\ InFound(v, u.path, u.entry.members, filter)
  <2>1. level[d + 1] = UNION {Found(u.path, u.entry.members, filter) :
                                u \in {g \in level[d] : IsTable(g.entry)}}
    BY <1>5, <1>6
  <2>2. v \in level[d + 1] <=>
          \E u \in {g \in level[d] : IsTable(g.entry)} : v \in Found(u.path, u.entry.members, filter)
    BY <2>1
  <2> QED BY <2>2, <1>7
<1>10. ASSUME NEW m
       PROVE m \in GetSubKeys(t, filter) <=>
               \E d \in 1..Depth : \E v \in level[d] :
                 IsPrefix(filter, v.path) /\ m = v.path \o Suffix(v.entry)
  BY <1>4
<1>11. LevelsOf(level, t, filter) BY <1>8, <1>9, <1>10 DEF LevelsOf
<1> QED BY <1>11

\* Where a walk is at the end of a text.
WalkEnd(t, path) == (CHOOSE f : WalkBy(f, Len(path), t, path))[Len(path)]
LEMMA WalkIs ==
  ASSUME NEW t, NEW path \in Seq(Chars)
  PROVE  WalkDottedPath(t, path) =
           IF path = <<>> THEN Nothing
           ELSE IF WalkEnd(t, path).seg = <<>> THEN WalkEnd(t, path).at
           ELSE Member(WalkEnd(t, path).at, WalkEnd(t, path).seg)
BY DEF WalkDottedPath, WalkEnd, WalkBy, Root

LEMMA EndFacts ==
  ASSUME NEW t, NEW path \in Seq(Chars)
  PROVE  \E f : WalkBy(f, Len(path), t, path) /\ WalkEnd(t, path) = f[Len(path)]
<1>1. Len(path) \in Nat BY LenProperties
<1>2. \E f : WalkBy(f, Len(path), t, path) BY <1>1, WalkExist
<1> QED BY <1>2 DEF WalkEnd

LEMMA EndEmpty ==
  ASSUME NEW t
  PROVE  WalkEnd(t, <<>>) = [at |-> Root(t), seg |-> <<>>]
<1>1. <<>> \in Seq(Chars) /\ Len(<<>>) = 0 BY EmptySeq
<1>2. PICK f : WalkBy(f, 0, t, <<>>) /\ WalkEnd(t, <<>>) = f[0] BY <1>1, EndFacts
<1> QED BY <1>2 DEF WalkBy

LEMMA EndAppend ==
  ASSUME NEW t, NEW path \in Seq(Chars), NEW c \in Chars
  PROVE  WalkEnd(t, Append(path, c)) = Stepped(WalkEnd(t, path), c)
<1> DEFINE n == Len(path)
           q == Append(path, c)
<1>1. n \in Nat BY LenProperties
<1>2. q \in Seq(Chars) /\ Len(q) = n + 1 /\ q[n + 1] = c /\ \A i \in 1..n : q[i] = path[i]
  BY AppendProperties
<1> HIDE DEF q
<1>3. PICK f : WalkBy(f, n, t, path) /\ WalkEnd(t, path) = f[n] BY EndFacts
<1>4. PICK g : WalkBy(g, n + 1, t, q) /\ WalkEnd(t, q) = g[n + 1] BY <1>2, EndFacts
<1> HIDE DEF n
<1>5. f[0] = g[0] BY <1>1, <1>3, <1>4 DEF WalkBy
<1>6. ASSUME NEW i \in 1..n, f[i - 1] = g[i - 1] PROVE f[i] = g[i]
  <2>1. i \in 0..n /\ i \in 0..(n + 1) /\ i # 0 BY <1>1
  <2>2. f[i] = Stepped(f[i - 1], path[i]) BY <1>3, <2>1 DEF WalkBy
  <2>3. g[i] = Stepped(g[i - 1], q[i]) BY <1>4, <2>1 DEF WalkBy
  <2> QED BY <1>2, <1>6, <2>2, <2>3
<1>7. Alike(f, g, n) BY <1>5, <1>6 DEF Alike
<1>8. f[n] = g[n]
  <2>1. \A i \in 0..n : f[i] = g[i] BY ONLY <1>1, <1>7, SameRecursion
  <2> QED BY <1>1, <2>1
<1>9. g[n + 1] = Stepped(g[n], q[n + 1])
  <2>1. n + 1 \in 0..(n + 1) /\ n + 1 # 0 /\ (n + 1) - 1 = n BY <1>1
  <2> QED BY <1>4, <2>1 DEF WalkBy
<1>10. WalkEnd(t, q) = Stepped(WalkEnd(t, path), c) BY <1>2, <1>3, <1>4, <1>8, <1>9
<1> QED BY <1>10 DEF q

\* A name is walked over without a change of place.
LEMMA EndName ==
  ASSUME NEW t, NEW a, NEW q \in Seq(Chars), WalkEnd(t, q) = [at |-> a, seg |-> <<>>],
         NEW k \in Seq(Letters)
  PROVE  q \o k \in Seq(Chars) /\ WalkEnd(t, q \o k) = [at |-> a, seg |-> k]
<1> DEFINE G == {s \in Seq(Letters) :
                   q \o s \in Seq(Chars) /\ WalkEnd(t, q \o s) = [at |-> a, seg |-> s]}
<1>1. <<>> \in G
  <2>1. q \o <<>> = q BY ConcatEmptySeq
  <2>2. <<>> \in Seq(Letters) BY EmptySeq
  <2> QED BY <2>1, <2>2
<1>2. ASSUME NEW s \in Seq(Letters) \cap G, NEW c \in Letters PROVE Append(s, c) \in G
  <2>1. c \in Chars /\ c # Dot BY CompletionAssumption DEF Chars
  <2>2. s \in Seq(Letters) /\ q \o s \in Seq(Chars) /\ WalkEnd(t, q \o s) = [at |-> a, seg |-> s]
    OBVIOUS
  <2>3. Append(s, c) \in Seq(Letters) BY <2>2, AppendProperties
  <2>4. s \in Seq(Chars)
    <3>1. Letters \subseteq Chars BY DEF Chars
    <3> QED BY <3>1, <2>2
  <2>5. q \o Append(s, c) = Append(q \o s, c)
    <3>1. /\ q \o Append(s, c) \in Seq(Chars) /\ Len(q \o s) \in Nat
          /\ Len(q \o Append(s, c)) = Len(q \o s) + 1
          /\ \A i \in 1..Len(q \o s) : (q \o Append(s, c))[i] = (q \o s)[i]
          /\ (q \o Append(s, c))[Len(q \o s) + 1] = c
      BY ONLY <2>1, <2>4, q \in Seq(Chars), Grown
    <3> DEFINE u == q \o s
    <3>2. u \in Seq(Chars) BY <2>2
    <3> HIDE DEF u
    <3>3. /\ Append(u, c) \in Seq(Chars) /\ Len(Append(u, c)) = Len(u) + 1
          /\ Append(u, c)[Len(u) + 1] = c /\ \A i \in 1..Len(u) : Append(u, c)[i] = u[i]
      BY <2>1, <3>2, AppendProperties
    <3> DEFINE v == q \o Append(s, c)
    <3>4. /\ v \in Seq(Chars) /\ Len(v) = Len(u) + 1 /\ v[Len(u) + 1] = c /\ Len(u) \in Nat
          /\ \A i \in 1..Len(u) : v[i] = u[i]
      BY <3>1 DEF u
    <3> HIDE DEF v
    <3>5. ASSUME NEW i \in 1..Len(v) PROVE v[i] = Append(u, c)[i]
      <4>1. i \in 1..Len(u) \/ i = Len(u) + 1 BY <3>4
      <4> QED BY <3>3, <3>4, <4>1
    <3>6. v = Append(u, c) BY <3>3, <3>4, <3>5, SeqEqual
    <3> QED BY <3>6 DEF u, v
  <2>6. Append(q \o s, c) \in Seq(Chars) BY <2>1, <2>2, AppendProperties
  <2>7. WalkEnd(t, Append(q \o s, c)) = Stepped(WalkEnd(t, q \o s), c) BY <2>1, <2>2, EndAppend
  <2>8. WalkEnd(t, Append(q \o s, c)) = [at |-> a, seg |-> Append(s, c)]
    BY <2>1, <2>2, <2>7 DEF Stepped
  <2> QED BY <2>3, <2>5, <2>6, <2>8
<1>3. Seq(Letters) \subseteq G
  <2> HIDE DEF G
  <2> QED BY <1>1, <1>2, SeqInduct
<1> QED BY <1>3

\* A path: a text that does not end in a dot.
EndsAt(t, p, a, s) == WalkEnd(t, p) = [at |-> a, seg |-> s] /\ s # <<>>
IsPath(t, p) == p \in Seq(Chars) /\ p # <<>> /\ \E a, s : EndsAt(t, p, a, s)
LEMMA PathOfName ==
  ASSUME NEW t, NEW k \in Keys
  PROVE  /\ IsPath(t, k) /\ Join(<<>>, k) = k
         /\ WalkDottedPath(t, k) = IF k \in DOMAIN t THEN t[k] ELSE Nothing
<1>1. k \in Seq(Letters) /\ k # <<>> BY CompletionAssumption
<1>2. <<>> \in Seq(Chars) BY EmptySeq
<1>3. WalkEnd(t, <<>>) = [at |-> Root(t), seg |-> <<>>] BY EndEmpty
<1>4. <<>> \o k \in Seq(Chars) /\ WalkEnd(t, <<>> \o k) = [at |-> Root(t), seg |-> k]
  <2> DEFINE a == Root(t)
             e == <<>>
  <2>1. e \in Seq(Chars) /\ WalkEnd(t, e) = [at |-> a, seg |-> <<>>] BY <1>2, <1>3
  <2> HIDE DEF a, e
  <2>2. e \o k \in Seq(Chars) /\ WalkEnd(t, e \o k) = [at |-> a, seg |-> k] BY <1>1, <2>1, EndName
  <2> QED BY <2>2 DEF a, e
<1>5. <<>> \o k = k BY <1>1, ConcatEmptySeq
<1>6. WalkEnd(t, k) = [at |-> Root(t), seg |-> k] /\ k \in Seq(Chars) BY <1>4, <1>5
<1>7. IsPath(t, k)
  <2>1. EndsAt(t, k, Root(t), k) BY <1>1, <1>6 DEF EndsAt
  <2> QED BY <1>1, <1>6, <2>1 DEF IsPath
<1>8. WalkDottedPath(t, k) = Member(Root(t), k) BY <1>1, <1>6, WalkIs
<1> QED BY <1>7, <1>8 DEF Join, Member, Root, IsTable

LEMMA PathOfMember ==
  ASSUME NEW t, NEW p, IsPath(t, p), NEW k \in Keys
  PROVE  /\ IsPath(t, Join(p, k)) /\ Join(p, k) = Append(p, Dot) \o k
         /\ WalkDottedPath(t, Join(p, k)) = Member(WalkDottedPath(t, p), k)
<1>1. k \in Seq(Letters) /\ k # <<>> BY CompletionAssumption
<1>2. p \in Seq(Chars) /\ p # <<>> BY DEF IsPath
<1>3. PICK a, s : WalkEnd(t, p) = [at |-> a, seg |-> s] /\ s # <<>> BY DEF IsPath, EndsAt
<1>4. Dot \in Chars BY DEF Chars
<1> DEFINE q == Append(p, Dot)
<1>5. q \in Seq(Chars) /\ Len(q) = Len(p) + 1 /\ Len(p) \in Nat BY <1>2, <1>4, AppendProperties
<1>6. WalkEnd(t, q) = [at |-> Member(a, s), seg |-> <<>>]
  BY <1>2, <1>3, <1>4, EndAppend DEF Stepped
<1>7. Join(p, k) = q \o k
  <2>1. p \o <<Dot>> = q BY <1>2, <1>4, AppendIsConcat
  <2> QED BY <1>2, <2>1 DEF Join
<1> HIDE DEF q
<1>8. q \o k \in Seq(Chars) /\ WalkEnd(t, q \o k) = [at |-> Member(a, s), seg |-> k]
  BY <1>1, <1>5, <1>6, EndName
<1>9. q \o k # <<>>
  <2>1. k \in Seq(Chars)
    <3>1. Letters \subseteq Chars BY DEF Chars
    <3> QED BY <1>1, <3>1
  <2>2. Len(q \o k) = Len(q) + Len(k) /\ Len(k) \in Nat BY <1>5, <2>1, Joined
  <2>3. Len(q \o k) # 0 BY <1>5, <2>2
  <2>4. Len(<<>>) = 0 BY EmptySeq
  <2> QED BY <2>3, <2>4
<1>10. IsPath(t, q \o k)
  <2>1. EndsAt(t, q \o k, Member(a, s), k) BY <1>1, <1>8 DEF EndsAt
  <2> QED BY <1>8, <1>9, <2>1 DEF IsPath
<1>11. WalkDottedPath(t, p) = Member(a, s) BY <1>2, <1>3, WalkIs
<1>12. WalkDottedPath(t, q \o k) = Member(Member(a, s), k)
  <2> DEFINE u == q \o k
             b == Member(a, s)
  <2>1. u \in Seq(Chars) /\ WalkEnd(t, u) = [at |-> b, seg |-> k] /\ u # <<>> BY <1>8, <1>9
  <2> HIDE DEF u, b
  <2>2. WalkDottedPath(t, u) = Member(b, k) BY <1>1, <2>1, WalkIs
  <2> QED BY <2>2 DEF u, b
<1> QED BY <1>7, <1>10, <1>11, <1>12 DEF q

\* Prefixes, element by element.
LEMMA PrefixIs ==
  ASSUME NEW C, NEW s \in Seq(C), NEW u \in Seq(C)
  PROVE  IsPrefix(s, u) <=> Len(s) <= Len(u) /\ \A i \in 1..Len(s) : s[i] = u[i]
<1>1. Len(s) \in Nat /\ Len(u) \in Nat BY LenProperties
<1>2. ASSUME Len(s) <= Len(u)
      PROVE SubSeq(s, 1, Len(s)) = SubSeq(u, 1, Len(s)) <=> \A i \in 1..Len(s) : s[i] = u[i]
  <2> DEFINE n == Len(s)
             x == SubSeq(s, 1, n)
             y == SubSeq(u, 1, n)
  <2>1. n \in 0..Len(s) /\ n \in 0..Len(u) BY <1>1, <1>2
  <2> HIDE DEF n
  <2>2. x \in Seq(C) /\ Len(x) = n /\ \A i \in 1..n : x[i] = s[i] BY <2>1, CutAt
  <2>3. y \in Seq(C) /\ Len(y) = n /\ \A i \in 1..n : y[i] = u[i] BY <2>1, CutAt
  <2> HIDE DEF x, y
  <2>4. x = y <=> \A i \in 1..n : x[i] = y[i] BY <2>2, <2>3, SeqEqual
  <2>5. x = y <=> \A i \in 1..n : s[i] = u[i] BY <2>2, <2>3, <2>4
  <2> QED BY <2>5 DEF n, x, y
<1> QED BY <1>2 DEF IsPrefix

\* What is relevant below a path was relevant at the path.
LEMMA RelevantAbove ==
  ASSUME NEW C, NEW p \in Seq(C), NEW q \in Seq(C), NEW filter \in Seq(C),
         IsPrefix(p, q), Relevant(q, filter)
  PROVE  Relevant(p, filter)
<1>1. Len(p) \in Nat /\ Len(q) \in Nat /\ Len(filter) \in Nat BY LenProperties
<1>2. Len(p) <= Len(q) /\ \A i \in 1..Len(p) : p[i] = q[i] BY PrefixIs
<1>3. CASE IsPrefix(q, filter)
  <2>1. Len(q) <= Len(filter) /\ \A i \in 1..Len(q) : q[i] = filter[i] BY <1>3, PrefixIs
  <2>2. Len(p) <= Len(filter) /\ \A i \in 1..Len(p) : p[i] = filter[i] BY <1>1, <1>2, <2>1
  <2> QED BY <2>2, PrefixIs DEF Relevant
<1>4. CASE IsPrefix(filter, q)
  <2>1. Len(filter) <= Len(q) /\ \A i \in 1..Len(filter) : filter[i] = q[i] BY <1>4, PrefixIs
  <2>2. CASE Len(p) <= Len(filter)
    <3>1. \A i \in 1..Len(p) : p[i] = filter[i] BY <1>1, <1>2, <2>1, <2>2
    <3> QED BY <2>2, <3>1, PrefixIs DEF Relevant
  <2>3. CASE Len(filter) <= Len(p)
    <3>1. \A i \in 1..Len(filter) : filter[i] = p[i] BY <1>1, <1>2, <2>1, <2>3
    <3> QED BY <2>3, <3>1, PrefixIs DEF Relevant
  <2> QED BY <1>1, <2>2, <2>3
<1> QED BY <1>3, <1>4 DEF Relevant

LEMMA JoinBelow ==
  ASSUME NEW t, NEW p, IsPath(t, p), NEW k \in Keys
  PROVE  IsPrefix(p, Join(p, k))
<1>1. p \in Seq(Chars) BY DEF IsPath
<1>2. Join(p, k) = Append(p, Dot) \o k BY PathOfMember
<1>3. k \in Seq(Chars)
  <2>1. k \in Seq(Letters) BY CompletionAssumption
  <2>2. Letters \subseteq Chars BY DEF Chars
  <2> QED BY <2>1, <2>2
<1>4. Dot \in Chars BY DEF Chars
<1> DEFINE q == Append(p, Dot)
<1>5. /\ q \in Seq(Chars) /\ Len(q) = Len(p) + 1 /\ Len(p) \in Nat
      /\ \A i \in 1..Len(p) : q[i] = p[i]
  BY <1>1, <1>4, AppendProperties
<1> HIDE DEF q
<1>6. /\ q \o k \in Seq(Chars) /\ Len(q \o k) = Len(q) + Len(k) /\ Len(k) \in Nat
      /\ \A i \in 1..Len(q) : (q \o k)[i] = q[i]
  BY <1>3, <1>5, Joined
<1>7. Len(p) <= Len(q \o k) /\ \A i \in 1..Len(p) : p[i] = (q \o k)[i] BY <1>5, <1>6
<1>8. IsPrefix(p, q \o k) BY <1>1, <1>6, <1>7, PrefixIs
<1> QED BY <1>2, <1>8 DEF q

\* At every depth the search finds just the paths that can be walked there
\* and are relevant to the filter.
Reached(t, filter, found, d) ==
  /\ \A p \in Dotted[d] :
       /\ IsPath(t, p)
       /\ WalkDottedPath(t, p) # Nothing => WalkDottedPath(t, p) \in Entries[d]
  /\ \A v : v \in found <=>
       \E p \in Dotted[d] : /\ WalkDottedPath(t, p) # Nothing /\ Relevant(p, filter)
                            /\ v = [path |-> p, entry |-> WalkDottedPath(t, p)]
LEMMA EntryKinds ==
  ASSUME NEW d \in 1..Depth, NEW e \in Entries[d]
  PROVE  /\ e # Nothing
         /\ IsTable(e) => d < Depth /\ DOMAIN e.members \subseteq Keys
         /\ ~IsTable(e) => e.kind = "leaf" /\ e.values \subseteq Values
<1>1. \/ e.kind = "leaf" /\ e.values \subseteq Values
      \/ IsTable(e) /\ d < Depth /\ DOMAIN e.members \subseteq Keys
  BY CompletionAssumption
<1>2. Nothing.kind = "nothing" BY DEF Nothing
<1> QED BY <1>1, <1>2 DEF IsTable

LEMMA ReachedFirst ==
  ASSUME NEW t \in Tables, NEW filter, NEW found,
         \A v : v \in found <=> InFound(v, <<>>, t, filter)
  PROVE  Reached(t, filter, found, 1)
<1>1. Dotted[1] = Keys BY DottedAre
<1>2. DOMAIN t \subseteq Keys BY CompletionAssumption
<1>3. 1 \in 1..Depth BY CompletionAssumption
<1>4. \A k \in DOMAIN t : t[k] \in Entries[1] /\ t[k] # Nothing
  BY <1>3, EntriesAre, EntryKinds
<1>5. \A k \in Keys : /\ IsPath(t, k) /\ Join(<<>>, k) = k
                      /\ k \in DOMAIN t => WalkDottedPath(t, k) = t[k]
                      /\ k \notin DOMAIN t => WalkDottedPath(t, k) = Nothing
  BY PathOfName
<1>6. \A k \in Keys : WalkDottedPath(t, k) # Nothing => WalkDottedPath(t, k) \in Entries[1]
  BY <1>4, <1>5
<1>7. ASSUME NEW v
      PROVE v \in found <=>
              \E p \in Keys : /\ WalkDottedPath(t, p) # Nothing /\ Relevant(p, filter)
                              /\ v = [path |-> p, entry |-> WalkDottedPath(t, p)]
  <2>1. v \in found <=>
          \E k \in DOMAIN t : Relevant(k, filter) /\ v = [path |-> k, entry |-> t[k]]
    BY <1>2, <1>5 DEF InFound
  <2> QED BY <1>2, <1>4, <1>5, <2>1
<1> QED BY <1>1, <1>5, <1>6, <1>7 DEF Reached

LEMMA ReachedNext ==
  ASSUME NEW t \in Tables, NEW filter \in Seq(Chars), NEW d \in 1..(Depth - 1),
         NEW found, NEW next, Reached(t, filter, found, d),
         \A v : v \in next <=>
           \E u \in found : IsTable(u.entry) /\ InFound(v, u.path, u.entry.members, filter)
  PROVE  Reached(t, filter, next, d + 1)
<1>1. Dotted[d + 1] = Lengthened(Dotted[d]) BY DottedAre
<1>2. d \in 1..Depth /\ d + 1 \in 1..Depth BY CompletionAssumption
<1> DEFINE Walk(p) == WalkDottedPath(t, p)
<1>3. \A p \in Dotted[d] : IsPath(t, p) /\ (Walk(p) # Nothing => Walk(p) \in Entries[d])
  BY DEF Reached
<1>4. \A u : u \in found <=>
        \E p \in Dotted[d] : /\ Walk(p) # Nothing /\ Relevant(p, filter)
                             /\ u = [path |-> p, entry |-> Walk(p)]
  BY DEF Reached
<1>5. \A p \in Dotted[d], k \in Keys :
        IsPath(t, Join(p, k)) /\ Walk(Join(p, k)) = Member(Walk(p), k)
  BY <1>3, PathOfMember
<1> HIDE DEF Walk
<1>6. \A p \in Dotted[d] : Walk(p) # Nothing /\ IsTable(Walk(p)) =>
        DOMAIN Walk(p).members \subseteq Keys
  BY <1>2, <1>3, EntryKinds
<1>7. \A p \in Dotted[d] : Walk(p) # Nothing /\ IsTable(Walk(p)) =>
        \A k \in DOMAIN Walk(p).members :
          Walk(p).members[k] \in Entries[d + 1] /\ Walk(p).members[k] # Nothing
  BY <1>2, <1>3, EntriesAre, EntryKinds
<1>8. ~IsTable(Nothing) BY DEF Nothing, IsTable
<1>9. \A p \in Dotted[d], k \in Keys :
        IF IsTable(Walk(p)) /\ k \in DOMAIN Walk(p).members
        THEN Walk(Join(p, k)) = Walk(p).members[k] ELSE Walk(Join(p, k)) = Nothing
  BY <1>5 DEF Member
<1>10. \A q \in Dotted[d + 1] : \E p \in Dotted[d], k \in Keys : q = Join(p, k)
  BY <1>1 DEF Lengthened
<1>11. \A p \in Dotted[d], k \in Keys : Join(p, k) \in Dotted[d + 1]
  BY <1>1 DEF Lengthened
<1>12. \A q \in Dotted[d + 1] :
         IsPath(t, q) /\ (Walk(q) # Nothing => Walk(q) \in Entries[d + 1])
  BY <1>5, <1>7, <1>8, <1>9, <1>10
<1>13. \A p \in Dotted[d], k \in Keys : Relevant(Join(p, k), filter) => Relevant(p, filter)
  <2> TAKE p \in Dotted[d], k \in Keys
  <2>1. IsPrefix(p, Join(p, k)) BY <1>3, JoinBelow
  <2>2. p \in Seq(Chars) /\ Join(p, k) \in Seq(Chars) BY <1>3, <1>5 DEF IsPath
  <2> QED BY <2>1, <2>2, RelevantAbove
<1>14. ASSUME NEW v
       PROVE v \in next <=>
               \E q \in Dotted[d + 1] : /\ Walk(q) # Nothing /\ Relevant(q, filter)
                                        /\ v = [path |-> q, entry |-> Walk(q)]
  <2>1. ASSUME v \in next
        PROVE \E q \in Dotted[d + 1] : /\ Walk(q) # Nothing /\ Relevant(q, filter)
                                       /\ v = [path |-> q, entry |-> Walk(q)]
    <3>1. PICK u \in found : IsTable(u.entry) /\ InFound(v, u.path, u.entry.members, filter)
      BY <2>1
    <3>2. PICK p \in Dotted[d] : Walk(p) # Nothing /\ u = [path |-> p, entry |-> Walk(p)]
      BY <1>4
    <3>3. u.path = p /\ u.entry = Walk(p) BY <3>2
    <3>4. PICK k \in DOMAIN Walk(p).members :
            /\ Relevant(Join(p, k), filter)
            /\ v = [path |-> Join(p, k), entry |-> Walk(p).members[k]]
      BY <3>1, <3>3 DEF InFound
    <3>5. k \in Keys /\ IsTable(Walk(p)) BY <1>6, <3>1, <3>2, <3>3
    <3>6. Walk(Join(p, k)) = Walk(p).members[k] /\ Walk(p).members[k] # Nothing
      BY <1>7, <1>9, <3>2, <3>4, <3>5
    <3>7. Join(p, k) \in Dotted[d + 1] BY <1>11, <3>5
    <3> QED BY <3>4, <3>6, <3>7
  <2>2. ASSUME NEW q \in Dotted[d + 1], Walk(q) # Nothing, Relevant(q, filter),
               v = [path |-> q, entry |-> Walk(q)]
        PROVE v \in next
    <3>1. PICK p \in Dotted[d], k \in Keys : q = Join(p, k) BY <1>10
    <3>2. /\ IsTable(Walk(p)) /\ k \in DOMAIN Walk(p).members
          /\ Walk(q) = Walk(p).members[k]
      BY <1>9, <2>2, <3>1
    <3>3. Walk(p) # Nothing BY <1>8, <3>2
    <3>4. Relevant(p, filter) BY <1>13, <2>2, <3>1
    <3> DEFINE u == [path |-> p, entry |-> Walk(p)]
    <3>5. u \in found BY <1>4, <3>3, <3>4
    <3>6. u.path = p /\ u.entry = Walk(p) OBVIOUS
    <3> HIDE DEF u
    <3>7. InFound(v, p, Walk(p).members, filter) BY <2>2, <3>1, <3>2 DEF InFound
    <3> QED BY <3>2, <3>5, <3>6, <3>7
  <2> QED BY <2>1, <2>2
<1> QED BY <1>12, <1>14 DEF Reached, Walk

LEMMA ReachedAll ==
  ASSUME NEW t \in Tables, NEW filter \in Seq(Chars), NEW level,
         \A v : v \in level[1] <=> InFound(v, <<>>, t, filter),
         \A d \in 1..(Depth - 1) : \A v :
           v \in level[d + 1] <=>
             \E u \in level[d] : IsTable(u.entry) /\ InFound(v, u.path, u.entry.members, filter)
  PROVE  \A d \in 1..Depth : Reached(t, filter, level[d], d)
<1> DEFINE S == {n \in Nat : n \in 1..Depth => Reached(t, filter, level[n], n)}
<1>1. Depth \in Nat \ {0} BY CompletionAssumption
<1>2. 0 \in S OBVIOUS
<1>3. ASSUME NEW n \in S PROVE n + 1 \in S
  <2> SUFFICES ASSUME n + 1 \in 1..Depth PROVE Reached(t, filter, level[n + 1], n + 1)
    BY <1>1
  <2>1. CASE n = 0
    <3>1. Reached(t, filter, level[1], 1) BY ReachedFirst
    <3>2. n + 1 = 1 BY <2>1
    <3> QED BY <3>1, <3>2
  <2>2. CASE n # 0
    <3>1. n \in Nat /\ n \in 1..Depth /\ n \in 1..(Depth - 1) BY <1>1, <2>2
    <3>2. Reached(t, filter, level[n], n) BY <3>1
    <3>3. \A v : v \in level[n + 1] <=>
            \E u \in level[n] : IsTable(u.entry) /\ InFound(v, u.path, u.entry.members, filter)
      BY <3>1
    <3> QED BY <3>1, <3>2, <3>3, ReachedNext
  <2> QED BY <2>1, <2>2
<1>4. S = Nat
  <2>1. S \subseteq Nat OBVIOUS
  <2> HIDE DEF S
  <2> QED BY <1>2, <1>3, <2>1, Induct
<1>5. \A d \in 1..Depth : d \in S BY <1>1, <1>4
<1> QED BY <1>5

LEMMA FrontOf ==
  ASSUME NEW p \in Seq(Chars), NEW c \in Chars
  PROVE  /\ p \o <<c>> \in Seq(Chars) /\ Front(p \o <<c>>) = p
         /\ \A s \in Seq(Chars) : IsPrefix(s, p) => IsPrefix(s, p \o <<c>>)
<1> DEFINE m == Append(p, c)
<1>1. p \o <<c>> = m BY AppendIsConcat
<1>2. /\ m \in Seq(Chars) /\ Len(m) = Len(p) + 1 /\ Len(p) \in Nat
      /\ \A i \in 1..Len(p) : m[i] = p[i]
  BY AppendProperties
<1> HIDE DEF m
<1>3. Front(m) = SubSeq(m, 1, Len(p)) BY <1>2 DEF Front
<1> DEFINE x == SubSeq(m, 1, Len(p))
           n == Len(p)
<1>4. x \in Seq(Chars) /\ Len(x) = n /\ \A i \in 1..n : x[i] = m[i]
  <2>1. n \in 0..Len(m) BY <1>2
  <2> HIDE DEF n
  <2>2. /\ SubSeq(m, 1, n) \in Seq(Chars) /\ Len(SubSeq(m, 1, n)) = n
        /\ \A i \in 1..n : SubSeq(m, 1, n)[i] = m[i]
    BY <1>2, <2>1, CutAt
  <2> QED BY <2>2 DEF n
<1> HIDE DEF x
<1>5. \A i \in 1..Len(p) : x[i] = p[i] BY <1>2, <1>4
<1>6. x = p BY <1>4, <1>5, SeqEqual
<1>7. ASSUME NEW s \in Seq(Chars), IsPrefix(s, p) PROVE IsPrefix(s, m)
  <2>1. Len(s) <= Len(p) /\ \A i \in 1..Len(s) : s[i] = p[i] BY <1>7, PrefixIs
  <2>2. Len(s) \in Nat BY LenProperties
  <2>3. Len(s) <= Len(m) /\ \A i \in 1..Len(s) : s[i] = m[i] BY <1>2, <2>1, <2>2
  <2> QED BY <1>2, <2>3, PrefixIs
<1> QED BY <1>1, <1>2, <1>3, <1>6, <1>7 DEF x

\* get_sub_keys against walk_dotted_path.
LEMMA NamesAreExact ==
  ASSUME NEW t \in Tables, NEW text \in Seq(Chars)
  PROVE  /\ GetSubKeys(t, text) \subseteq Seq(Chars)
         /\ \A m \in GetSubKeys(t, text) : IsPrefix(text, m)
         /\ {Front(m) : m \in GetSubKeys(t, text)} = {p \in PathsOf(t) : IsPrefix(text, p)}
<1>1. PICK level : LevelsOf(level, t, text) BY GetSubKeysAre
<1>2. \A d \in 1..Depth : Reached(t, text, level[d], d)
  <2>1. \A v : v \in level[1] <=> InFound(v, <<>>, t, text) BY <1>1 DEF LevelsOf
  <2>2. \A d \in 1..(Depth - 1) : \A v :
          v \in level[d + 1] <=>
            \E u \in level[d] : IsTable(u.entry) /\ InFound(v, u.path, u.entry.members, text)
    BY <1>1 DEF LevelsOf
  <2> QED BY ONLY <2>1, <2>2, t \in Tables, text \in Seq(Chars), ReachedAll
<1> DEFINE Walk(p) == WalkDottedPath(t, p)
           Tail1(p) == Suffix(Walk(p))
<1>3. \A d \in 1..Depth : \A p \in Dotted[d] : p \in Seq(Chars)
  BY <1>2 DEF Reached, IsPath
<1>4. \A d \in 1..Depth : \A v : v \in level[d] <=>
        \E p \in Dotted[d] : /\ Walk(p) # Nothing /\ Relevant(p, text)
                             /\ v = [path |-> p, entry |-> Walk(p)]
  BY <1>2 DEF Reached
<1>5. \A p : p \in PathsOf(t) <=> \E d \in 1..Depth : p \in Dotted[d] /\ Walk(p) # Nothing
  BY DEF PathsOf
<1> HIDE DEF Walk
<1>6. \A m : m \in GetSubKeys(t, text) <=>
        \E p \in PathsOf(t) : IsPrefix(text, p) /\ m = p \o Tail1(p)
  <2> TAKE m
  <2>1. ASSUME m \in GetSubKeys(t, text)
        PROVE \E p \in PathsOf(t) : IsPrefix(text, p) /\ m = p \o Tail1(p)
    <3>1. PICK d \in 1..Depth : \E v \in level[d] :
            IsPrefix(text, v.path) /\ m = v.path \o Suffix(v.entry)
      BY <1>1, <2>1 DEF LevelsOf
    <3>2. PICK v \in level[d] : IsPrefix(text, v.path) /\ m = v.path \o Suffix(v.entry)
      BY <3>1
    <3>3. PICK p \in Dotted[d] : Walk(p) # Nothing /\ v = [path |-> p, entry |-> Walk(p)]
      BY <1>4
    <3>4. v.path = p /\ v.entry = Walk(p) BY <3>3
    <3>5. p \in PathsOf(t) BY <1>5, <3>3
    <3> QED BY <3>2, <3>4, <3>5
  <2>2. ASSUME NEW p \in PathsOf(t), IsPrefix(text, p), m = p \o Tail1(p)
        PROVE m \in GetSubKeys(t, text)
    <3>1. PICK d \in 1..Depth : p \in Dotted[d] /\ Walk(p) # Nothing BY <1>5
    <3> DEFINE v == [path |-> p, entry |-> Walk(p)]
    <3>2. v \in level[d] BY <1>4, <2>2, <3>1 DEF Relevant
    <3>3. v.path = p /\ v.entry = Walk(p) OBVIOUS
    <3> HIDE DEF v
    <3>4. IsPrefix(text, v.path) /\ m = v.path \o Suffix(v.entry) BY <2>2, <3>3
    <3> QED BY <1>1, <3>2, <3>4 DEF LevelsOf
  <2> QED BY <2>1, <2>2
<1>7. \A p \in PathsOf(t) : p \in Seq(Chars) BY <1>3, <1>5
<1>8. \A p : \E c \in Chars : Tail1(p) = <<c>> BY DEF Suffix, Chars
<1> HIDE DEF Tail1
<1>9. ASSUME NEW p \in PathsOf(t)
      PROVE /\ p \o Tail1(p) \in Seq(Chars) /\ Front(p \o Tail1(p)) = p
            /\ IsPrefix(text, p) => IsPrefix(text, p \o Tail1(p))
  BY <1>7, <1>8, FrontOf
<1>10. GetSubKeys(t, text) \subseteq Seq(Chars) BY <1>6, <1>9
<1>11. \A m \in GetSubKeys(t, text) : IsPrefix(text, m) BY <1>6, <1>9
<1> DEFINE Names == GetSubKeys(t, text)
<1> HIDE DEF Names
<1>12. \A p : p \in {Front(m) : m \in Names} <=> p \in PathsOf(t) /\ IsPrefix(text, p)
  <2>1. \A m : m \in Names <=> \E p \in PathsOf(t) : IsPrefix(text, p) /\ m = p \o Tail1(p)
    BY <1>6 DEF Names
  <2> DEFINE Fronts == {Front(m) : m \in Names}
  <2>2. \A p : p \in Fronts <=> \E m \in Names : p = Front(m) OBVIOUS
  <2> HIDE DEF Fronts
  <2>3. ASSUME NEW p \in Fronts PROVE p \in PathsOf(t) /\ IsPrefix(text, p)
    <3>1. PICK m \in Names : p = Front(m) BY <2>2
    <3>2. PICK q \in PathsOf(t) : IsPrefix(text, q) /\ m = q \o Tail1(q) BY <2>1
    <3>3. p = q BY <1>9, <3>1, <3>2
    <3> QED BY <3>2, <3>3
  <2>4. ASSUME NEW p \in PathsOf(t), IsPrefix(text, p) PROVE p \in Fronts
    <3>1. p \o Tail1(p) \in Names /\ p = Front(p \o Tail1(p)) BY <1>9, <2>1, <2>4
    <3> QED BY <2>2, <3>1
  <2> QED BY <2>3, <2>4 DEF Fronts
<1>13. {Front(m) : m \in Names} = {p \in PathsOf(t) : IsPrefix(text, p)} BY <1>12
<1> QED BY <1>10, <1>11, <1>13 DEF Names

\* Every walk ends at the root, at an entry of the tables, or nowhere.
Held(t, e) == e = Root(t) \/ e = Nothing \/ \E d \in 1..Depth : e \in Entries[d]
LEMMA MemberHeld ==
  ASSUME NEW t \in Tables, NEW e, Held(t, e), NEW seg
  PROVE  Held(t, Member(e, seg))
<1>1. Depth \in Nat \ {0} BY CompletionAssumption
<1> SUFFICES ASSUME IsTable(e), seg \in DOMAIN e.members PROVE Held(t, e.members[seg])
  BY DEF Member, Held
<1>2. CASE e = Root(t)
  <2>1. e.members = t BY <1>2 DEF Root
  <2>2. t[seg] \in Entries[1] BY <2>1, EntriesAre
  <2> QED BY <1>1, <2>1, <2>2 DEF Held
<1>3. ASSUME NEW d \in 1..Depth, e \in Entries[d] PROVE Held(t, e.members[seg])
  <2>1. d < Depth BY <1>3, EntryKinds
  <2>2. d \in 1..(Depth - 1) /\ d + 1 \in 1..Depth BY <1>1, <2>1
  <2>3. e.members[seg] \in Entries[d + 1] BY <1>3, <2>2, EntriesAre
  <2> QED BY <2>2, <2>3 DEF Held
<1>4. e # Nothing BY DEF IsTable, Nothing
<1> QED BY <1>2, <1>3, <1>4 DEF Held

LEMMA WalkHeld ==
  ASSUME NEW t \in Tables, NEW path \in Seq(Chars)
  PROVE  Held(t, WalkDottedPath(t, path))
<1> DEFINE G == {p \in Seq(Chars) : Held(t, WalkEnd(t, p).at)}
<1>1. <<>> \in G BY EmptySeq, EndEmpty DEF Held
<1>2. ASSUME NEW p \in Seq(Chars) \cap G, NEW c \in Chars PROVE Append(p, c) \in G
  <2>1. p \in Seq(Chars) /\ Held(t, WalkEnd(t, p).at) OBVIOUS
  <2>2. Append(p, c) \in Seq(Chars) BY <2>1, AppendProperties
  <2>3. WalkEnd(t, Append(p, c)) = Stepped(WalkEnd(t, p), c) BY <2>1, EndAppend
  <2>4. Held(t, Member(WalkEnd(t, p).at, WalkEnd(t, p).seg)) BY <2>1, MemberHeld
  <2>5. Held(t, Stepped(WalkEnd(t, p), c).at) BY <2>1, <2>4 DEF Stepped
  <2> QED BY <2>2, <2>3, <2>5
<1>3. Seq(Chars) \subseteq G
  <2> HIDE DEF G
  <2> QED BY <1>1, <1>2, SeqInduct
<1>4. Held(t, WalkEnd(t, path).at) BY <1>3
<1>5. Held(t, Member(WalkEnd(t, path).at, WalkEnd(t, path).seg)) BY <1>4, MemberHeld
<1>6. Held(t, Nothing) BY DEF Held
<1> QED BY <1>4, <1>5, <1>6, WalkIs

LEMMA UpToIs ==
  ASSUME NEW text \in Seq(Chars), NEW c
  PROVE  /\ UpTo(text, c) # 0 => UpTo(text, c) \in 1..Len(text) /\ text[UpTo(text, c)] = c
         /\ UpTo(text, c) = 0 => \A i \in 1..Len(text) : text[i] # c
<1> DEFINE I == {i \in 1..Len(text) : text[i] = c}
<1>1. Len(text) \in Nat BY LenProperties
<1>2. UpTo(text, c) = IF I # {} THEN Min(I) ELSE 0 BY DEF UpTo, SelectInSeq
<1>3. I \subseteq Nat BY <1>1
<1>4. I # {} => Min(I) \in I
  <2> HIDE DEF I
  <2> QED BY <1>3, LeastNat DEF Min
<1>5. 0 \notin I BY <1>1
<1> QED BY <1>2, <1>4, <1>5

\* The values offered go on where the text stops.
LEMMA ValuesExtend ==
  ASSUME NEW t \in Tables, NEW text \in Seq(Chars), UpTo(text, Equals) # 0
  PROVE  /\ ParamValues(t, text) \subseteq Seq(Chars)
         /\ \A m \in ParamValues(t, text) : IsPrefix(text, m)
<1> DEFINE eq == UpTo(text, Equals)
           path == SubSeq(text, 1, eq - 1)
           value == SubSeq(text, eq + 1, Len(text))
           entry == WalkDottedPath(t, path)
<1>1. Len(text) \in Nat /\ eq \in 1..Len(text) /\ text[eq] = Equals BY LenProperties, UpToIs
<1>2. ParamValues(t, text) =
        IF entry.kind # "leaf" THEN {}
        ELSE {path \o <<Equals>> \o v : v \in {w \in entry.values : IsPrefix(value, w)}}
  BY DEF ParamValues
<1> HIDE DEF eq
<1>3. path \in Seq(Chars) /\ Len(path) = eq - 1 /\ \A i \in 1..(eq - 1) : path[i] = text[i]
  <2> DEFINE n == eq - 1
  <2>1. n \in 0..Len(text) BY <1>1
  <2> HIDE DEF n
  <2>2. /\ SubSeq(text, 1, n) \in Seq(Chars) /\ Len(SubSeq(text, 1, n)) = n
        /\ \A i \in 1..n : SubSeq(text, 1, n)[i] = text[i]
    BY <2>1, CutAt
  <2> QED BY <2>2 DEF n
<1>4. /\ value \in Seq(Chars) /\ Len(value) = Len(text) - eq
      /\ \A i \in 1..(Len(text) - eq) : value[i] = text[eq + i]
  <2>1. eq \in 0..Len(text) BY <1>1
  <2> QED BY <2>1, CutAt
<1> HIDE DEF value
<1>5. Held(t, entry) BY <1>3, WalkHeld
<1> HIDE DEF path
<1>6. entry.kind = "leaf" => entry.values \subseteq Seq(Chars)
  <2> SUFFICES ASSUME entry.kind = "leaf" PROVE entry.values \subseteq Seq(Chars) OBVIOUS
  <2>1. Root(t).kind = "table" /\ Nothing.kind = "nothing" BY DEF Root, Nothing
  <2>2. PICK d \in 1..Depth : entry \in Entries[d]
    <3> HIDE DEF entry
    <3> QED BY <1>5, <2>1 DEF Held
  <2> HIDE DEF entry
  <2>3. ~IsTable(entry) BY DEF IsTable
  <2>4. entry.values \subseteq Values BY <2>2, <2>3, EntryKinds
  <2> QED BY <2>4, CompletionAssumption
<1> HIDE DEF entry
<1>7. ASSUME NEW v \in Seq(Chars), IsPrefix(value, v)
      PROVE path \o <<Equals>> \o v \in Seq(Chars) /\ IsPrefix(text, path \o <<Equals>> \o v)
  <2> DEFINE q == Append(path, Equals)
             m == q \o v
  <2>1. Equals \in Chars BY DEF Chars
  <2>2. path \o <<Equals>> = q BY <1>3, <2>1, AppendIsConcat
  <2>3. /\ q \in Seq(Chars) /\ Len(q) = Len(path) + 1 /\ q[Len(path) + 1] = Equals
        /\ \A i \in 1..Len(path) : q[i] = path[i]
    BY <1>3, <2>1, AppendProperties
  <2> HIDE DEF q
  <2>4. /\ m \in Seq(Chars) /\ Len(m) = Len(q) + Len(v) /\ Len(v) \in Nat
        /\ \A i \in 1..Len(q) : m[i] = q[i]
        /\ \A i \in 1..Len(v) : m[Len(q) + i] = v[i]
    <3>1. q \in Seq(Chars) /\ v \in Seq(Chars) BY <2>3
    <3> QED BY ONLY <3>1, Joined
  <2>5. Len(value) <= Len(v) /\ \A i \in 1..Len(value) : value[i] = v[i]
    BY <1>4, <1>7, PrefixIs
  <2> HIDE DEF m
  <2>6. Len(q) = eq BY <1>1, <1>3, <2>3
  <2>7. Len(text) <= Len(m) BY <1>1, <1>4, <2>4, <2>5, <2>6
  <2>8. ASSUME NEW i \in 1..Len(text) PROVE text[i] = m[i]
    <3>1. CASE i < eq
      <4>1. i \in 1..(eq - 1) /\ i \in 1..Len(path) /\ i \in 1..Len(q) BY <1>1, <1>3, <2>6, <3>1
      <4> QED BY <1>3, <2>3, <2>4, <4>1
    <3>2. CASE i = eq
      <4>1. i \in 1..Len(q) /\ i = Len(path) + 1 BY <1>1, <1>3, <2>6, <3>2
      <4> QED BY <1>1, <2>3, <2>4, <3>2, <4>1
    <3>3. CASE i > eq
      <4> DEFINE j == i - eq
      <4>1. j \in 1..(Len(text) - eq) /\ i = eq + j BY <1>1, <3>3
      <4> HIDE DEF j
      <4>2. j \in 1..Len(value) /\ j \in 1..Len(v) BY <1>1, <1>4, <2>4, <2>5, <4>1
      <4> QED BY <1>4, <2>4, <2>5, <2>6, <4>1, <4>2
    <3> QED BY <1>1, <3>1, <3>2, <3>3
  <2>9. IsPrefix(text, m) BY <2>4, <2>7, <2>8, PrefixIs
  <2> QED BY <2>2, <2>4, <2>9 DEF m
<1> QED BY <1>2, <1>6, <1>7

\* What was asked for is what command_completion gives.
CompletionInv ==
  /\ table \in Tables /\ typed \in Seq(Chars)
  /\ asked \in BOOLEAN
  /\ offered = IF asked THEN CommandCompletion(table, typed) ELSE {}

LEMMA CompletionTexts ==
  ASSUME NEW t \in Tables, NEW text \in Seq(Chars)
  PROVE  /\ CommandCompletion(t, text) \subseteq Seq(Chars)
         /\ \A m \in CommandCompletion(t, text) : IsPrefix(text, m)
BY ValuesExtend, NamesAreExact DEF CommandCompletion, ParamNames

\* TAB offers what extends the text, and of names just those of the paths
\* walk_dotted_path finds: for all tables, names and texts.
THEOREM CompletionExact == CompletionSpec => []CompletionIsExact
<1>1. CompletionInit => CompletionInv
  BY CompletionAssumption DEF CompletionInit, CompletionInv
<1>2. CompletionInv /\ [CompletionNext]_completion => CompletionInv'
  <2> SUFFICES ASSUME CompletionInv, [CompletionNext]_completion PROVE CompletionInv'
    OBVIOUS
  <2>1. CASE Tab BY <2>1 DEF Tab, CompletionInv
  <2>2. CASE TakeMatch
    <3>1. PICK m \in offered : typed' = m BY <2>2 DEF TakeMatch
    <3>2. m \in Seq(Chars) BY CompletionTexts DEF CompletionInv
    <3> QED BY <2>2, <3>1, <3>2 DEF TakeMatch, CompletionInv
  <2>3. CASE UNCHANGED completion BY <2>3 DEF completion, CompletionInv
  <2> QED BY <2>1, <2>2, <2>3 DEF CompletionNext
<1>3. CompletionInv => CompletionIsExact
  <2> SUFFICES ASSUME CompletionInv PROVE CompletionIsExact OBVIOUS
  <2>1. \A m \in offered : IsPrefix(typed, m) BY CompletionTexts DEF CompletionInv
  <2>2. ASSUME asked, UpTo(typed, Equals) = 0
        PROVE {Front(m) : m \in offered} = {p \in PathsOf(table) : IsPrefix(typed, p)}
    <3>1. offered = GetSubKeys(table, typed)
      BY <2>2 DEF CompletionInv, CommandCompletion, ParamNames
    <3>2. {Front(m) : m \in GetSubKeys(table, typed)} = {p \in PathsOf(table) : IsPrefix(typed, p)}
      BY NamesAreExact DEF CompletionInv
    <3> QED BY <3>1, <3>2
  <2> QED BY <2>1, <2>2 DEF CompletionIsExact
<1> QED BY <1>1, <1>2, <1>3, PTL DEF CompletionSpec

-----------------------------------------------------------------------------
(* Programs: each program runs its part, and leaves the others alone.      *)

LEMMA PartsInit ==
  Init => /\ TeleInit /\ MgmtInit /\ OvpnInit /\ FsInit /\ CompletionInit
          /\ TranscriptInit /\ PeerShellInit /\ mode \in Modes
BY DEF Init

LEMMA PartsStep ==
  [Next]_vars => /\ [TeleNext]_tele /\ [MgmtNext]_mgmt /\ [OvpnNext]_ovpn /\ [FsNext]_fs
                 /\ [CompletionNext]_completion /\ [TranscriptNext]_tui
                 /\ [PeerShellNext]_peershell /\ UNCHANGED mode
BY DEF Next, vars

\* main: whichever program is started, what is proved of each part holds of
\* its run, which is a run of every part's own specification.
THEOREM ProgramsImplementTheirParts ==
  Spec => /\ TeleSpec /\ MgmtSpec /\ OvpnSpec /\ FsSpec
          /\ CompletionSpec /\ TranscriptSpec /\ PeerShellSpec
BY PartsInit, PartsStep, PTL
DEF Spec, TeleSpec, MgmtSpec, OvpnSpec, FsSpec, CompletionSpec, TranscriptSpec, PeerShellSpec

\* main: every program keeps what its part promises, whatever the constants.
THEOREM ProgramsSafe ==
  Spec => /\ []FanOutIsExact /\ []SessionsAreTheirDevices /\ []RepliesNameTheirCommand
          /\ []NatServesFirstVip /\ []DeletedIsGone /\ []CompletionIsExact
          /\ []ShellRunsItsInput /\ ViewHolds
BY ProgramsImplementTheirParts, FanOutExact, SessionsFollowStreams, RepliesFollowCommands,
   NatSafe, DeletedGone, CompletionExact, InputRuns, TopHolds, PTL

\* main: the state of every program, of the one that runs and of the others, is
\* what its part's type says, and the program stays the one that was started.
THEOREM ProgramsTyped == Spec => []TypeOK
<1>1. /\ mode \in Modes /\ TeleTypeOK /\ MgmtTypeOK /\ OvpnTypeOK /\ FsTypeOK
      /\ TranscriptTypeOK /\ PeerShellTypeOK
      => TypeOK
  BY DEF TypeOK
<1>2. Spec => [](mode \in Modes)
  <2>1. mode \in Modes /\ [Next]_vars => (mode \in Modes)'
    <3> SUFFICES ASSUME mode \in Modes, [Next]_vars PROVE mode' \in Modes OBVIOUS
    <3>1. UNCHANGED mode BY PartsStep
    <3> QED BY <3>1
  <2> QED BY <2>1, PartsInit, PTL DEF Spec
<1> QED
  BY <1>1, <1>2, ProgramsImplementTheirParts, TeleTyped, MgmtTyped, OvpnTyped, FsIsTyped,
     TranscriptTyped, PeerShellTyped, PTL
=============================================================================

-------------------------- MODULE RequestPath_proofs --------------------------
(***************************************************************************)
(* Proofs about RequestPath for every set of addresses and every bound:    *)
(* what is announced to the CLI follows the peers of the supervisor, its   *)
(* clients are the addresses openvpn listed, the types, the list that the  *)
(* CLI keeps, and what becomes of an answer.                               *)
(***************************************************************************)
EXTENDS RequestPath, FiniteSetTheorems, SequenceTheorems, WellFoundedInduction, TLAPS

\* The state of the supervisor that both properties are about.
watched == <<peers, active, retained, orphans, table, inTable, polled, lines, listed>>

\* Steps of the CLI, the broker and the relay leave the supervisor and what
\* is retained alone.
LEMMA OthersKeep ==
  ASSUME \/ CliNext /\ UNCHANGED server
         \/ (BrokerHandlesCli \/ Relay) /\ UNCHANGED <<server, cli>>
  PROVE  UNCHANGED watched
<1>1. UNCHANGED server BY DEF server
<1>2. UNCHANGED <<peers, active, orphans, table, inTable, polled, lines, listed>>
  BY <1>1 DEF server, mgmt
<1>3. ASSUME CliNext PROVE retained' = retained
  <2>1. ASSUME NEW v \in Vips, Command(v) PROVE retained' = retained
    BY <2>1 DEF Command
  <2>2. TunnelFails => retained' = retained BY DEF TunnelFails, bus
  <2>3. ProcessCommand => retained' = retained
    BY <2>1, <2>2 DEF ProcessCommand, GnmiGet, GnmiUpdate, GnmiReplace, GnmiDelete
  <2>4. Start \/ Quit \/ KeepaliveExpires => retained' = retained
    BY DEF Start, Quit, KeepaliveExpires
  <2>5. Loop \/ PrintResponse \/ ResponseTimeout => retained' = retained
    BY DEF Loop, PrintResponse, ResponseTimeout, EndCommand
  <2> QED BY <1>3, <2>3, <2>4, <2>5 DEF CliNext
<1>4. BrokerHandlesCli \/ Relay => retained' = retained
  BY DEF BrokerHandlesCli, Relay
<1> QED BY <1>2, <1>3, <1>4 DEF watched

-----------------------------------------------------------------------------
(* AnnouncedArePeers is inductive as it stands.                            *)

LEMMA InitAnnounced == Init => AnnouncedArePeers
BY DEF Init, BusInit, ServerInit, Fresh, AnnouncedArePeers

\* The end of a listing: the difference that moves the peers moves what is
\* retained, and takes over the orphans that are clients again.
LEMMA StatsAnnounced ==
  ASSUME AnnouncedArePeers, NEW t, ReadStats(t), orphans' = orphans \ (active' \cup active)
  PROVE  AnnouncedArePeers'
<1>1. peers' = (peers \cup (polled \ active)) \ (active \ polled) /\ active' = polled
  BY DEF ReadStats, Disconnected
<1>2. retained' = (retained \cup ((polled \ active) \ peers)) \ (active \ polled)
  BY DEF ReadStats, Announce, Connected
<1> QED BY <1>1, <1>2 DEF AnnouncedArePeers

LEMMA StepAnnounced ==
  ASSUME AnnouncedArePeers, [Next]_vars
  PROVE  AnnouncedArePeers'
<1>1. ASSUME UNCHANGED watched PROVE AnnouncedArePeers'
  BY <1>1 DEF watched, AnnouncedArePeers
<1>2. ASSUME UNCHANGED vars PROVE AnnouncedArePeers'
  BY <1>2 DEF vars, bus, server, AnnouncedArePeers
<1>3. ASSUME HandleRead PROVE AnnouncedArePeers'
  <2>1. orphans' = orphans \ (active' \cup active) BY <1>3 DEF HandleRead
  <2>2. ASSUME NEW t, ReadStats(t) PROVE AnnouncedArePeers'
    BY <2>1, <2>2, StatsAnnounced
  <2>3. ASSUME peers' = peers, active' = active, retained' = retained
        PROVE  AnnouncedArePeers'
    BY <2>1, <2>3 DEF AnnouncedArePeers
  <2>4. ReadTitle => AnnouncedArePeers' BY <2>3 DEF ReadTitle, bus
  <2>5. ASSUME NEW v, ReadRow(v) PROVE AnnouncedArePeers'
    BY <2>3, <2>5 DEF ReadRow, bus
  <2>6. CASE UNCHANGED <<inTable, polled, active, listed, peers, bus>>
    BY <2>3, <2>6 DEF bus
  <2> QED BY <1>3, <2>2, <2>4, <2>5, <2>6 DEF HandleRead, ParseMgmtLine
<1>4. ASSUME Restart PROVE AnnouncedArePeers'
  BY <1>4 DEF Restart, Fresh, AnnouncedArePeers
<1>5. ASSUME NEW v \in Vips, TableChanges(v) \/ PeerSubscribes(v) \/ OnMqttMessage(v)
      PROVE  AnnouncedArePeers'
  <2>1. peers' = peers /\ active' = active /\ retained' = retained /\ orphans' = orphans
    BY <1>5 DEF TableChanges, PeerSubscribes, OnMqttMessage, bus, server, mgmt
  <2> QED BY <2>1 DEF AnnouncedArePeers
<1>6. ASSUME \/ HandleConnect \/ HandleTimeout \/ HandleClose
             \/ \E r \in calls : CallDone(r)
      PROVE  AnnouncedArePeers'
  <2>1. peers' = peers /\ active' = active /\ retained' = retained /\ orphans' = orphans
    BY <1>6 DEF HandleConnect, HandleTimeout, HandleClose, CallDone, bus, mgmt
  <2> QED BY <2>1 DEF AnnouncedArePeers
<1>7. ServerNext => AnnouncedArePeers'
  BY <1>3, <1>4, <1>5, <1>6 DEF ServerNext
<1> QED BY <1>1, <1>2, <1>7, OthersKeep DEF Next

\* In every reachable state the peers are the clients of the last listing and
\* the addresses retained at the broker are theirs, apart from those an
\* earlier supervisor left (on_client_connect, on_client_disconnect), for any
\* number of polls, lost connections and restarts.
THEOREM AnnouncedSafe == Spec => []AnnouncedArePeers
BY InitAnnounced, StepAnnounced, PTL DEF Spec
-----------------------------------------------------------------------------
(* ListingIsWhole. Lines are read from the left, so the invariant says of  *)
(* every GLOBAL STATS still to be read that what lies before it makes the  *)
(* table it ends: from the last title, or from the rows read so far.       *)

RowsIn(s, a, b) == {v \in Vips : \E k \in a..b : s[k] = Row(v)}
IsStats(line) == line.is = "GLOBAL STATS"
NoTitle(s, a, b) == \A k \in a..b : s[k] # Title

FromTitle(s) ==
  \A j, i \in 1..Len(s) :
    j < i /\ s[j] = Title /\ IsStats(s[i]) /\ NoTitle(s, j + 1, i - 1)
      => RowsIn(s, j + 1, i - 1) = s[i].of
FromHere(s, read, set) ==
  \A i \in 1..Len(s) :
    read /\ IsStats(s[i]) /\ NoTitle(s, 1, i - 1)
      => set \cup RowsIn(s, 1, i - 1) = s[i].of

\* FromTitle at one title and GLOBAL STATS.
LEMMA FromTitleAt ==
  ASSUME NEW s, FromTitle(s), NEW j \in 1..Len(s), NEW i \in 1..Len(s),
         j < i, s[j] = Title, IsStats(s[i]), NoTitle(s, j + 1, i - 1)
  PROVE  RowsIn(s, j + 1, i - 1) = s[i].of
BY Zenon DEF FromTitle

ListingInv ==
  /\ table \subseteq Vips
  /\ lines \in Seq(Line)
  /\ FromTitle(lines)
  /\ FromHere(lines, inTable, polled)
  /\ ListingIsWhole

\* Lines differ by their first word.
LEMMA LineFacts ==
  /\ \A v : Row(v) # Title /\ Row(v) # End /\ ~IsStats(Row(v))
  /\ \A v, w : Row(v) = Row(w) => v = w
  /\ ~IsStats(Title) /\ ~IsStats(End) /\ End # Title
  /\ \A t : IsStats(Stats(t)) /\ Stats(t).of = t /\ Stats(t) # Title
<1>1. ASSUME NEW v, NEW w
      PROVE  /\ Row(v) # Title /\ Row(v) # End /\ ~IsStats(Row(v))
             /\ Row(v) = Row(w) => v = w
  <2>1. Row(v).is = "row" /\ Row(v).vip = v /\ Row(w).vip = w BY DEF Row
  <2>2. Title.is = "ROUTING TABLE" /\ End.is = "END" BY DEF Title, End
  <2> QED BY <2>1, <2>2 DEF IsStats
<1>2. ~IsStats(Title) /\ ~IsStats(End) /\ End # Title
  BY DEF Title, End, IsStats
<1>3. ASSUME NEW t
      PROVE  IsStats(Stats(t)) /\ Stats(t).of = t /\ Stats(t) # Title
  <2>1. Stats(t).is = "GLOBAL STATS" /\ Stats(t).of = t BY DEF Stats
  <2>2. Title.is = "ROUTING TABLE" BY DEF Title
  <2> QED BY <2>1, <2>2 DEF IsStats
<1> QED BY <1>1, <1>2, <1>3

\* SetToSeq lists a finite set: it contains its elements and no others.
LEMMA SetToSeqFacts ==
  ASSUME NEW S, IsFiniteSet(S)
  PROVE  /\ Cardinality(S) \in Nat
         /\ SetToSeq(S) \in [1..Cardinality(S) -> S]
         /\ \A x \in S : \E i \in 1..Cardinality(S) : SetToSeq(S)[i] = x
<1> DEFINE n == Cardinality(S)
<1>1. n \in Nat /\ ExistsBijection(1..n, S) BY FS_CardinalityType
<1>2. \E f \in [1..n -> S] : IsInjective(f)
  <2>1. PICK f \in Bijection(1..n, S) : TRUE BY <1>1 DEF ExistsBijection
  <2> QED BY <2>1 DEF Bijection, Injection, IsInjective
<1>3. SetToSeq(S) \in [1..n -> S] /\ IsInjective(SetToSeq(S))
  BY <1>2 DEF SetToSeq
<1>4. SetToSeq(S) \in Injection(1..n, S)
  BY <1>3 DEF Injection, IsInjective
<1>5. Cardinality(1..n) = n BY <1>1, FS_Interval
<1>6. SetToSeq(S) \in Surjection(1..n, S)
  BY <1>4, <1>5, FS_Injection
<1> QED BY <1>1, <1>3, <1>6 DEF Surjection

\* The answer to a poll: a title, the rows of the table, its end.
LEMMA ListingFacts ==
  ASSUME NEW t \in SUBSET Vips
  PROVE  \E n \in Nat :
           /\ Listing(t) \in Seq(Line) /\ Len(Listing(t)) = n + 3
           /\ Listing(t)[1] = Title
           /\ Listing(t)[n + 2] = Stats(t) /\ Listing(t)[n + 3] = End
           /\ \A k \in 2..(n + 1) : \E v \in t : Listing(t)[k] = Row(v)
           /\ \A v \in t : \E k \in 2..(n + 1) : Listing(t)[k] = Row(v)
<1> DEFINE rws == {Row(v) : v \in t}
           n == Cardinality(rws)
           rs == SetToSeq(rws)
<1>1. IsFiniteSet(rws)
  <2> DEFINE f == [r \in rws |-> r.vip]
  <2>1. \A v : Row(v).vip = v BY DEF Row
  <2>2. f \in Injection(rws, t) BY <2>1 DEF Injection, IsInjective
  <2>3. IsFiniteSet(t) BY RequestPathAssumption, FS_Subset
  <2> QED BY <2>2, <2>3, FS_Injection
<1>2. /\ n \in Nat /\ rs \in [1..n -> rws]
      /\ \A x \in rws : \E i \in 1..n : rs[i] = x
  BY <1>1, SetToSeqFacts
<1>3. rws \subseteq Line /\ Title \in Line /\ Stats(t) \in Line /\ End \in Line
  BY DEF Line
<1> HIDE DEF rws, n, rs
<1>4. rs \in Seq(Line) /\ Len(rs) = n
  BY <1>2, <1>3
<1>5. Listing(t) = <<Title>> \o rs \o <<Stats(t), End>>
  BY DEF Listing, rs, rws
<1>6. <<Title>> \in Seq(Line) /\ Len(<<Title>>) = 1 /\ <<Title>>[1] = Title
  BY <1>3
<1>7. /\ <<Stats(t), End>> \in Seq(Line) /\ Len(<<Stats(t), End>>) = 2
      /\ <<Stats(t), End>>[1] = Stats(t) /\ <<Stats(t), End>>[2] = End
  BY <1>3
<1> DEFINE head == <<Title>> \o rs
<1>8. /\ head \in Seq(Line) /\ Len(head) = n + 1 /\ head[1] = Title
      /\ \A k \in 2..(n + 1) : head[k] = rs[k - 1]
  BY <1>2, <1>4, <1>6, ConcatProperties
<1>9. /\ Listing(t) \in Seq(Line) /\ Len(Listing(t)) = n + 3
      /\ \A k \in 1..(n + 1) : Listing(t)[k] = head[k]
      /\ Listing(t)[n + 2] = Stats(t) /\ Listing(t)[n + 3] = End
  <2> HIDE DEF head
  <2>1. Listing(t) = head \o <<Stats(t), End>> BY <1>5 DEF head
  <2> QED BY <1>2, <1>7, <1>8, <2>1, ConcatProperties
<1>10. \A k \in 2..(n + 1) : \E v \in t : rs[k - 1] = Row(v)
  BY <1>2 DEF rws
<1>11. \A v \in t : \E k \in 2..(n + 1) : rs[k - 1] = Row(v)
  <2> SUFFICES ASSUME NEW v \in t PROVE \E k \in 2..(n + 1) : rs[k - 1] = Row(v)
    OBVIOUS
  <2>1. PICK i \in 1..n : rs[i] = Row(v) BY <1>2 DEF rws
  <2>2. i + 1 \in 2..(n + 1) /\ rs[(i + 1) - 1] = Row(v) BY <1>2, <2>1
  <2> QED BY <2>2
<1> HIDE DEF head
<1>12. \A k \in 2..(n + 1) : Listing(t)[k] = rs[k - 1]
  BY <1>2, <1>8, <1>9
<1>13. Listing(t)[1] = Title BY <1>2, <1>8, <1>9
<1>14. \A k \in 2..(n + 1) : \E v \in t : Listing(t)[k] = Row(v)
  BY <1>10, <1>12
<1>15. \A v \in t : \E k \in 2..(n + 1) : Listing(t)[k] = Row(v)
  BY <1>11, <1>12
<1> HIDE DEF Listing
<1>16. n \in Nat BY <1>2
<1> WITNESS n \in Nat
<1> QED BY <1>9, <1>13, <1>14, <1>15

\* Rows do not depend on where the lines are counted from.
LEMMA ShiftedRows ==
  ASSUME NEW s, NEW r, NEW a \in Int, NEW b \in Int, NEW d \in Int,
         \A k \in a..b : s[k] = r[k + d]
  PROVE  /\ RowsIn(s, a, b) = RowsIn(r, a + d, b + d)
         /\ NoTitle(s, a, b) <=> NoTitle(r, a + d, b + d)
<1>1. \A k \in (a + d)..(b + d) : k - d \in a..b /\ r[k] = s[k - d]
  <2> TAKE k \in (a + d)..(b + d)
  <2>1. k - d \in a..b OBVIOUS
  <2>2. s[k - d] = r[(k - d) + d] BY <2>1
  <2> QED BY <2>1, <2>2
<1>2. \A k \in a..b : k + d \in (a + d)..(b + d) OBVIOUS
<1> QED BY <1>1, <1>2 DEF RowsIn, NoTitle

\* A poll appends a listing; what is said of the lines stays true.
LEMMA PollInv ==
  ASSUME lines \in Seq(Line), FromTitle(lines), FromHere(lines, inTable, polled),
         NEW t \in SUBSET Vips, NEW s, s = lines \o Listing(t)
  PROVE  s \in Seq(Line) /\ FromTitle(s) /\ FromHere(s, inTable, polled)
<1> DEFINE m == Len(lines)
<1>1. PICK n \in Nat :
        /\ Listing(t) \in Seq(Line) /\ Len(Listing(t)) = n + 3
        /\ Listing(t)[1] = Title
        /\ Listing(t)[n + 2] = Stats(t) /\ Listing(t)[n + 3] = End
        /\ \A k \in 2..(n + 1) : \E v \in t : Listing(t)[k] = Row(v)
        /\ \A v \in t : \E k \in 2..(n + 1) : Listing(t)[k] = Row(v)
  BY ListingFacts
<1> DEFINE L == Listing(t)
<1> HIDE DEF L
<1>2. /\ m \in Nat /\ s \in Seq(Line) /\ Len(s) = m + n + 3
      /\ \A k \in 1..m : s[k] = lines[k]
      /\ \A k \in (m + 1)..(m + n + 3) : s[k] = L[k - m]
  <2>1. L \in Seq(Line) /\ Len(L) = n + 3 BY <1>1 DEF L
  <2>2. s = lines \o L BY DEF L
  <2>3. m \in Nat /\ lines \in Seq(Line) OBVIOUS
  <2>4. /\ s \in Seq(Line) /\ Len(s) = m + (n + 3)
        /\ \A k \in 1..(m + (n + 3)) :
             s[k] = IF k <= m THEN lines[k] ELSE L[k - m]
    <3> HIDE DEF L
    <3>1. /\ lines \o L \in Seq(Line) /\ Len(lines \o L) = Len(lines) + Len(L)
          /\ \A k \in 1..(Len(lines) + Len(L)) :
               (lines \o L)[k] = IF k <= Len(lines) THEN lines[k] ELSE L[k - Len(lines)]
      BY <2>1, <2>3, ConcatProperties, Zenon
    <3> QED BY <2>1, <2>2, <3>1
  <2> HIDE DEF m
  <2>5. m + (n + 3) = m + n + 3 BY <2>3
  <2>6. \A k \in 1..m : k \in 1..(m + (n + 3)) /\ k <= m BY <2>3
  <2>7. \A k \in (m + 1)..(m + n + 3) : k \in 1..(m + (n + 3)) /\ ~(k <= m) BY <2>3
  <2> QED BY <2>3, <2>4, <2>5, <2>6, <2>7
<1> HIDE DEF m
<1>3. /\ s[m + 1] = Title /\ s[m + n + 2] = Stats(t) /\ s[m + n + 3] = End
      /\ \A k \in (m + 2)..(m + n + 1) : \E v \in t : s[k] = Row(v)
      /\ \A v \in t : \E k \in (m + 2)..(m + n + 1) : s[k] = Row(v)
  <2>1. s[m + 1] = Title /\ s[m + n + 2] = Stats(t) /\ s[m + n + 3] = End
    BY <1>1, <1>2 DEF L
  <2>2. \A k \in (m + 2)..(m + n + 1) : \E v \in t : s[k] = Row(v)
    <3> TAKE k \in (m + 2)..(m + n + 1)
    <3>1. k - m \in 2..(n + 1) /\ s[k] = L[k - m] BY <1>2
    <3> QED BY <1>1, <3>1 DEF L
  <2>3. ASSUME NEW v \in t PROVE \E k \in (m + 2)..(m + n + 1) : s[k] = Row(v)
    <3>1. PICK k \in 2..(n + 1) : L[k] = Row(v) BY <1>1 DEF L
    <3>2. k + m \in (m + 2)..(m + n + 1) /\ s[k + m] = L[(k + m) - m] BY <1>2
    <3> QED BY <1>2, <3>1, <3>2
  <2> QED BY <2>1, <2>2, <2>3
\* The only GLOBAL STATS and title of the listing.
<1>4. \A k \in (m + 1)..(m + n + 3) :
        /\ IsStats(s[k]) => k = m + n + 2
        /\ s[k] = Title => k = m + 1
  <2> TAKE k \in (m + 1)..(m + n + 3)
  <2>1. CASE k \in (m + 2)..(m + n + 1)
    <3>1. PICK v \in t : s[k] = Row(v) BY <1>3, <2>1, Zenon
    <3>2. ~IsStats(Row(v)) /\ Row(v) # Title BY LineFacts, Zenon
    <3> QED BY <3>1, <3>2, Zenon
  <2>2. CASE k = m + 1 BY <1>2, <1>3, <2>2, LineFacts
  <2>3. CASE k = m + n + 2 BY <1>2, <1>3, <2>3, LineFacts
  <2>4. CASE k = m + n + 3 BY <1>2, <1>3, <2>4, LineFacts
  <2> QED BY <1>2, <2>1, <2>2, <2>3, <2>4
<1>5. ASSUME NEW a \in 1..m, NEW i \in 1..m
      PROVE  /\ RowsIn(s, a, i - 1) = RowsIn(lines, a, i - 1)
             /\ NoTitle(s, a, i - 1) <=> NoTitle(lines, a, i - 1)
  <2>1. \A k \in a..(i - 1) : s[k] = lines[k] BY <1>2
  <2> QED BY <2>1 DEF RowsIn, NoTitle
<1>6. RowsIn(s, m + 2, m + n + 1) = t
  <2>1. \A v, w : Row(v) = Row(w) => v = w BY LineFacts
  <2>2. \A v \in RowsIn(s, m + 2, m + n + 1) : v \in t
    BY <1>3, <2>1, ZenonT(30) DEF RowsIn
  <2>3. \A v \in t : v \in RowsIn(s, m + 2, m + n + 1)
    BY <1>3 DEF RowsIn
  <2> QED BY <2>2, <2>3
<1>7. FromTitle(s)
  <2> SUFFICES ASSUME NEW j \in 1..Len(s), NEW i \in 1..Len(s), j < i,
                      s[j] = Title, IsStats(s[i]), NoTitle(s, j + 1, i - 1)
               PROVE  RowsIn(s, j + 1, i - 1) = s[i].of
    BY DEF FromTitle
  <2>1. CASE i <= m
    <3>1. i \in 1..m /\ j \in 1..m /\ j + 1 \in 1..m BY <1>2, <2>1
    <3>2. s[j] = lines[j] /\ s[i] = lines[i] BY <1>2, <3>1
    <3>3. RowsIn(lines, j + 1, i - 1) = lines[i].of
      <4>1. NoTitle(lines, j + 1, i - 1) BY <1>5, <3>1
      <4>2. lines[j] = Title /\ IsStats(lines[i]) BY <3>2
      <4> QED BY <3>1, <4>1, <4>2, FromTitleAt, Zenon DEF m
    <3> QED BY <1>5, <3>1, <3>2, <3>3
  <2>2. CASE i > m
    <3> i \in (m + 1)..(m + n + 3) BY <1>2, <2>2
    <3>1. i = m + n + 2 BY <1>4
    <3>2. j >= m + 1
      <4>1. j \in Nat /\ m \in Nat BY <1>2
      <4>2. j < m + 1 => m + 1 \in (j + 1)..(i - 1) BY <3>1, <4>1
      <4>3. \A k \in (j + 1)..(i - 1) : s[k] # Title BY DEF NoTitle
      <4> QED BY <1>3, <4>1, <4>2, <4>3
    <3>3. j = m + 1 BY <1>2, <1>4, <3>2
    <3>4. j + 1 = m + 2 /\ i - 1 = m + n + 1 BY <1>2, <3>1, <3>3
    <3>5. s[i].of = t BY <1>3, <3>1, LineFacts
    <3> QED BY <1>6, <3>4, <3>5
  <2> QED BY <1>2, <2>1, <2>2
<1>8. FromHere(s, inTable, polled)
  <2> SUFFICES ASSUME NEW i \in 1..Len(s), inTable, IsStats(s[i]), NoTitle(s, 1, i - 1)
               PROVE  polled \cup RowsIn(s, 1, i - 1) = s[i].of
    BY DEF FromHere
  <2>1. CASE i <= m
    <3>1. i \in 1..m /\ 1 \in 1..m BY <1>2, <2>1
    <3>2. s[i] = lines[i] BY <1>2, <3>1
    <3>3. IsStats(lines[i]) /\ NoTitle(lines, 1, i - 1) BY <1>5, <3>1, <3>2
    <3>4. polled \cup RowsIn(lines, 1, i - 1) = lines[i].of
      BY <3>1, <3>3 DEF FromHere, m
    <3> QED BY <1>5, <3>1, <3>2, <3>4
  <2>2. CASE i > m
    <3> i \in (m + 1)..(m + n + 3) BY <1>2, <2>2
    <3>1. i = m + n + 2 BY <1>4
    <3>2. m + 1 \in 1..(i - 1) BY <1>2, <3>1
    <3> QED BY <1>3, <3>2 DEF NoTitle
  <2> QED BY <1>2, <2>1, <2>2
<1> QED BY <1>2, <1>7, <1>8

\* Reading a line: what is said of the other lines stays true, and what lies
\* before a GLOBAL STATS is the line read and what is left of it.
LEMMA ReadInv ==
  ASSUME lines \in Seq(Line), lines # <<>>,
         FromTitle(lines), FromHere(lines, inTable, polled)
  PROVE  /\ Tail(lines) \in Seq(Line) /\ FromTitle(Tail(lines))
         /\ Head(lines) = Title => FromHere(Tail(lines), TRUE, {})
         /\ Head(lines) # Title =>
              FromHere(Tail(lines), inTable,
                       polled \cup {v \in Vips : Head(lines) = Row(v)})
         /\ inTable /\ IsStats(Head(lines)) => polled = Head(lines).of
<1> DEFINE T == Tail(lines)
           m == Len(lines)
<1>1. /\ T \in Seq(Line) /\ m \in Nat \ {0} /\ Len(T) = m - 1
      /\ \A k \in 1..(m - 1) : T[k] = lines[k + 1]
      /\ Head(lines) = lines[1]
  <2>1. m \in Nat \ {0} BY EmptySeq
  <2>2. Head(lines) = lines[1] OBVIOUS
  <2> QED BY <2>1, <2>2, HeadTailProperties
<1> HIDE DEF T, m
<1>2. ASSUME NEW a \in 1..m, NEW i \in 1..(m - 1)
      PROVE  /\ RowsIn(T, a, i - 1) = RowsIn(lines, a + 1, i)
             /\ NoTitle(T, a, i - 1) <=> NoTitle(lines, a + 1, i)
  <2>1. \A k \in a..(i - 1) : T[k] = lines[k + 1] BY <1>1
  <2>2. a \in Int /\ i - 1 \in Int /\ 1 \in Int /\ (i - 1) + 1 = i BY <1>1
  <2> DEFINE b == i - 1
  <2>3. b \in Int /\ (\A k \in a..b : T[k] = lines[k + 1]) BY <2>1, <2>2
  <2> HIDE DEF b
  <2>4. /\ RowsIn(T, a, b) = RowsIn(lines, a + 1, b + 1)
        /\ NoTitle(T, a, b) <=> NoTitle(lines, a + 1, b + 1)
    BY <2>2, <2>3, ShiftedRows
  <2> QED BY <2>2, <2>4 DEF b
<1>3. FromTitle(T)
  <2> SUFFICES ASSUME NEW j \in 1..(m - 1), NEW i \in 1..(m - 1), j < i,
                      T[j] = Title, IsStats(T[i]), NoTitle(T, j + 1, i - 1)
               PROVE  RowsIn(T, j + 1, i - 1) = T[i].of
    BY <1>1 DEF FromTitle
  <2>1. j + 1 \in 1..m /\ i + 1 \in 1..m /\ j + 1 < i + 1 /\ (i + 1) - 1 = i BY <1>1
  <2>2. T[j] = lines[j + 1] /\ T[i] = lines[i + 1] BY <1>1
  <2>3. NoTitle(lines, (j + 1) + 1, i) BY <1>2, <2>1
  <2>4. RowsIn(lines, (j + 1) + 1, i) = lines[i + 1].of
    <3>1. lines[j + 1] = Title /\ IsStats(lines[i + 1]) BY <2>2
    <3>2. NoTitle(lines, (j + 1) + 1, (i + 1) - 1) BY <2>1, <2>3
    <3>3. RowsIn(lines, (j + 1) + 1, (i + 1) - 1) = lines[i + 1].of
      BY <2>1, <3>1, <3>2, FromTitleAt, Zenon DEF m
    <3> QED BY <2>1, <3>3
  <2> QED BY <1>2, <2>1, <2>2, <2>4
<1>4. ASSUME NEW i \in 1..(m - 1), IsStats(T[i]), NoTitle(T, 1, i - 1)
      PROVE  /\ i + 1 \in 1..m /\ (i + 1) - 1 = i
             /\ IsStats(lines[i + 1]) /\ T[i] = lines[i + 1]
             /\ NoTitle(lines, 2, i) /\ RowsIn(T, 1, i - 1) = RowsIn(lines, 2, i)
  <2>1. 1 \in 1..m /\ i + 1 \in 1..m /\ (i + 1) - 1 = i /\ 1 + 1 = 2 BY <1>1
  <2>2. T[i] = lines[i + 1] BY <1>1
  <2> QED BY <1>2, <1>4, <2>1, <2>2
<1>5. ASSUME Head(lines) = Title PROVE FromHere(T, TRUE, {})
  <2> SUFFICES ASSUME NEW i \in 1..(m - 1), IsStats(T[i]), NoTitle(T, 1, i - 1)
               PROVE  RowsIn(T, 1, i - 1) = T[i].of
    BY <1>1 DEF FromHere
  <2>1. 1 \in 1..m /\ 1 < i + 1 /\ 1 + 1 = 2 BY <1>1
  <2>2. RowsIn(lines, 2, i) = lines[i + 1].of
    <3>1. lines[1] = Title BY <1>1, <1>5
    <3>2. /\ i + 1 \in 1..m /\ IsStats(lines[i + 1])
          /\ NoTitle(lines, 1 + 1, (i + 1) - 1)
      BY <1>4, <2>1
    <3>3. RowsIn(lines, 1 + 1, (i + 1) - 1) = lines[i + 1].of
      BY <2>1, <3>1, <3>2, FromTitleAt, Zenon DEF m
    <3> QED BY <1>4, <2>1, <3>3
  <2> QED BY <1>4, <2>2
<1>6. ASSUME NEW set, Head(lines) # Title,
             set = polled \cup {v \in Vips : Head(lines) = Row(v)}
      PROVE  FromHere(T, inTable, set)
  <2> SUFFICES ASSUME NEW i \in 1..(m - 1), inTable, IsStats(T[i]), NoTitle(T, 1, i - 1)
               PROVE  set \cup RowsIn(T, 1, i - 1) = T[i].of
    BY <1>1 DEF FromHere
  <2>1. \A k \in 1..i : k = 1 \/ k \in 2..i OBVIOUS
  <2>2. NoTitle(lines, 1, i) BY <1>1, <1>4, <1>6, <2>1 DEF NoTitle
  <2>3. polled \cup RowsIn(lines, 1, i) = lines[i + 1].of
    <3>1. i + 1 \in 1..m /\ (i + 1) - 1 = i /\ IsStats(lines[i + 1]) BY <1>4
    <3>2. NoTitle(lines, 1, (i + 1) - 1) BY <2>2, <3>1
    <3>3. polled \cup RowsIn(lines, 1, (i + 1) - 1) = lines[i + 1].of
      BY <3>1, <3>2 DEF FromHere, m
    <3> QED BY <3>1, <3>3
  <2>4. RowsIn(lines, 1, i) =
          {v \in Vips : Head(lines) = Row(v)} \cup RowsIn(lines, 2, i)
    <3>1. \A k \in 2..i : k \in 1..i OBVIOUS
    <3>2. 1 \in 1..i OBVIOUS
    <3> QED BY <1>1, <2>1, <3>1, <3>2 DEF RowsIn
  <2> QED BY <1>4, <1>6, <2>3, <2>4
<1>7. ASSUME inTable, IsStats(Head(lines)) PROVE polled = Head(lines).of
  <2>1. 1 \in 1..m /\ 1 - 1 = 0 BY <1>1
  <2>2. NoTitle(lines, 1, 0) /\ RowsIn(lines, 1, 0) = {} BY DEF NoTitle, RowsIn
  <2>3. NoTitle(lines, 1, 1 - 1) /\ RowsIn(lines, 1, 1 - 1) = {} BY <2>1, <2>2
  <2>4. IsStats(lines[1]) BY <1>1, <1>7
  <2>5. polled \cup RowsIn(lines, 1, 1 - 1) = lines[1].of
    BY <1>7, <2>1, <2>3, <2>4 DEF FromHere, m
  <2> QED BY <1>1, <2>3, <2>5
<1> QED BY <1>1, <1>3, <1>5, <1>6, <1>7 DEF T

LEMMA InitListing == Init => ListingInv
<1> SUFFICES ASSUME Init PROVE ListingInv
  OBVIOUS
<1>1. lines = <<>> /\ table = {} /\ listed = {} /\ active = {}
  BY DEF Init, ServerInit, Fresh
<1>2. lines \in Seq(Line) /\ Len(lines) = 0 BY <1>1, EmptySeq
<1>3. \A i \in 1..Len(lines) : FALSE BY <1>2
<1> QED BY <1>1, <1>2, <1>3 DEF ListingInv, FromTitle, FromHere, ListingIsWhole

\* Nothing is said of an empty connection.
LEMMA EmptyLines ==
  ASSUME NEW read, NEW set
  PROVE  <<>> \in Seq(Line) /\ FromTitle(<<>>) /\ FromHere(<<>>, read, set)
<1>1. <<>> \in Seq(Line) /\ Len(<<>>) = 0 BY EmptySeq
<1>2. \A i \in 1..Len(<<>>) : FALSE BY <1>1
<1> QED BY <1>1, <1>2 DEF FromTitle, FromHere

\* The lines read by parse_mgmt_line, one step per kind of line.
LEMMA ReadStep ==
  ASSUME ListingInv, HandleRead
  PROVE  ListingInv'
<1>1. /\ lines # <<>> /\ lines' = Tail(lines) /\ table' = table
      /\ ParseMgmtLine(Head(lines))
  BY DEF HandleRead
<1>2. /\ Tail(lines) \in Seq(Line) /\ FromTitle(Tail(lines))
      /\ Head(lines) = Title => FromHere(Tail(lines), TRUE, {})
      /\ Head(lines) # Title =>
           FromHere(Tail(lines), inTable,
                    polled \cup {v \in Vips : Head(lines) = Row(v)})
      /\ inTable /\ IsStats(Head(lines)) => polled = Head(lines).of
  BY <1>1, ReadInv DEF ListingInv
<1>3. ASSUME FromHere(lines', inTable', polled'), active' = listed'
      PROVE  ListingInv'
  BY <1>1, <1>2, <1>3 DEF ListingInv, ListingIsWhole
<1>4. CASE Head(lines) = Title /\ ReadTitle
  <2>1. inTable' = TRUE /\ polled' = {} /\ active' = active /\ listed' = listed
    BY <1>4 DEF ReadTitle
  <2> QED BY <1>1, <1>2, <1>3, <1>4, <2>1 DEF ListingInv, ListingIsWhole
<1>5. ASSUME NEW v \in Vips, Head(lines) = Row(v), ReadRow(v) PROVE ListingInv'
  <2>1. polled' = PolledWith(v) /\ inTable' = inTable /\ active' = active /\ listed' = listed
    BY <1>5 DEF ReadRow
  <2>2. {w \in Vips : Head(lines) = Row(w)} = {v} /\ Head(lines) # Title
    BY <1>5, LineFacts
  <2>3. FromHere(lines', inTable', polled')
    <3>1. CASE inTable
      <4>1. polled' = polled \cup {v}
        BY <2>1, <3>1, RequestPathAssumption DEF PolledWith, NoRow
      <4>2. FromHere(Tail(lines), inTable, polled \cup {v}) BY <1>2, <2>2
      <4> QED BY <1>1, <2>1, <4>1, <4>2
    <3>2. CASE ~inTable
      BY <2>1, <3>2 DEF FromHere
    <3> QED BY <3>1, <3>2
  <2> QED BY <1>3, <2>1, <2>3 DEF ListingInv, ListingIsWhole
<1>6. CASE IsStats(Head(lines)) /\ ReadStats(Head(lines).of)
  <2>1. /\ inTable /\ inTable' = FALSE /\ polled' = polled
        /\ active' = polled /\ listed' = Head(lines).of
    BY <1>6 DEF ReadStats
  <2>2. FromHere(lines', inTable', polled') BY <2>1 DEF FromHere
  <2> QED BY <1>2, <1>3, <1>6, <2>1, <2>2
<1>7. CASE Head(lines) = End /\ UNCHANGED <<inTable, polled, active, listed, peers, bus>>
  <2>1. {w \in Vips : Head(lines) = Row(w)} = {} /\ Head(lines) # Title
    BY <1>7, LineFacts
  <2>2. inTable' = inTable /\ polled' = polled /\ active' = active /\ listed' = listed
    BY <1>7
  <2>3. FromHere(lines', inTable', polled')
    <3>1. polled \cup {w \in Vips : Head(lines) = Row(w)} = polled BY <2>1
    <3>2. FromHere(Tail(lines), inTable, polled) BY <1>2, <2>1, <3>1
    <3> QED BY <1>1, <2>2, <3>2
  <2> QED BY <1>3, <2>2, <2>3 DEF ListingInv, ListingIsWhole
<1> QED BY <1>1, <1>4, <1>5, <1>6, <1>7 DEF ParseMgmtLine, IsStats

LEMMA StepListing ==
  ASSUME ListingInv, [Next]_vars
  PROVE  ListingInv'
<1>1. ASSUME UNCHANGED <<table, lines, inTable, polled, active, listed>>
      PROVE  ListingInv'
  BY <1>1 DEF ListingInv, FromTitle, FromHere, ListingIsWhole, RowsIn, NoTitle
<1>2. ASSUME UNCHANGED vars \/ UNCHANGED watched PROVE ListingInv'
  BY <1>1, <1>2 DEF vars, server, mgmt, watched
<1>3. ASSUME lines' = <<>>, table' \subseteq Vips, active' = listed'
      PROVE  ListingInv'
  BY <1>3, EmptyLines DEF ListingInv, ListingIsWhole
<1>4. ASSUME NEW v \in Vips, TableChanges(v) PROVE ListingInv'
  <2>1. table' \subseteq Vips BY <1>4 DEF TableChanges, ListingInv
  <2>2. UNCHANGED <<lines, inTable, polled, active, listed>>
    BY <1>4 DEF TableChanges, mgmt
  <2> QED BY <2>1, <2>2 DEF ListingInv, FromTitle, FromHere, ListingIsWhole, RowsIn, NoTitle
<1>5. ASSUME HandleConnect \/ HandleClose PROVE ListingInv'
  <2>1. lines' = <<>> /\ table' = table /\ active' = active /\ listed' = listed
    BY <1>5 DEF HandleConnect, HandleClose
  <2> QED BY <1>3, <2>1 DEF ListingInv, ListingIsWhole
<1>6. ASSUME HandleTimeout PROVE ListingInv'
  <2>1. /\ lines' = lines \o Listing(table)
        /\ UNCHANGED <<table, inTable, polled, active, listed>>
    BY <1>6 DEF HandleTimeout
  <2>2. lines' \in Seq(Line) /\ FromTitle(lines') /\ FromHere(lines', inTable, polled)
    BY <2>1, PollInv DEF ListingInv
  <2> QED BY <2>1, <2>2 DEF ListingInv, ListingIsWhole
<1>7. ASSUME Restart PROVE ListingInv'
  BY <1>3, <1>7 DEF Restart, Fresh
<1>8. ASSUME NEW v \in Vips, PeerSubscribes(v) \/ OnMqttMessage(v) PROVE ListingInv'
  BY <1>1, <1>8 DEF PeerSubscribes, OnMqttMessage, server, mgmt
<1>9. ASSUME NEW r, CallDone(r) PROVE ListingInv'
  BY <1>1, <1>9 DEF CallDone, mgmt
<1>10. ServerNext => ListingInv'
  BY <1>4, <1>5, <1>6, <1>7, <1>8, <1>9, ReadStep DEF ServerNext
<1> QED BY <1>2, <1>10, OthersKeep DEF Next

\* Every listing read to its end makes the clients of the supervisor exactly
\* the addresses openvpn listed (parse_mgmt_line, handle_close, m_mgmt_buf),
\* for any table and any number of polls and lost connections.
THEOREM ListingSafe == Spec => []ListingIsWhole
<1>1. ListingInv => ListingIsWhole BY DEF ListingInv
<1> QED BY <1>1, InitListing, StepListing, PTL DEF Spec

-----------------------------------------------------------------------------
(* Types.                                                                  *)

Packets == [packet : {"subscribe", "publish", "unsubscribe"}, req : Request]
Relays == [topic : {"cli", "resp"}, req : Request]
Backs == [topic : {"clients"}, msg : Event] \cup [topic : {"cli_resp"}, msg : Request]

\* A command that waits has made a request, the last one so far.
Waits == phase = "waiting" =>
           cur \in Request /\ cur.id = spent.commands /\ spent.commands >= 1
PathType == TypeOK /\ Waits

\* A bounded set of numbers has a greatest element.
LEMMA Greatest ==
  ASSUME NEW T, T \subseteq Int, T # {}, NEW b \in Nat, \A x \in T : x <= b
  PROVE  \E x \in T : \A y \in T : y <= x
<1> DEFINE D == {b - x : x \in T}
<1>1. D \subseteq Nat /\ D # {}
  <2>1. \A x \in T : x \in Int /\ x <= b OBVIOUS
  <2>2. \A x \in T : b - x \in Nat BY <2>1
  <2> QED BY <2>2
<1> DEFINE R == OpToRel(<, Nat)
<1>2. IsWellFoundedOn(R, Nat) BY NatLessThanWellFounded
<1>3. \A x, y \in Nat : x < y => <<x, y>> \in R BY DEF OpToRel
<1>4. \E x \in D : \A y \in D : ~(<<y, x>> \in R)
  <2> HIDE DEF R, D
  <2> QED BY <1>1, <1>2, WFMin
<1>5. PICK d \in D : \A y \in D : ~(<<y, d>> \in R) BY <1>4
<1> HIDE DEF R
<1>6. \A y \in D : ~(y < d) BY <1>1, <1>3, <1>5
<1>7. PICK x \in T : d = b - x BY <1>5
<1>8. \A y \in T : y <= x
  <2> TAKE y \in T
  <2>1. b - y \in D OBVIOUS
  <2>2. ~(b - y < b - x) BY <1>6, <1>7, <2>1
  <2>3. y \in Int /\ x \in Int OBVIOUS
  <2> HIDE DEF D
  <2> QED BY <2>2, <2>3
<1> QED BY <1>8

\* Lifecycle messages of a set of addresses: one for each.
LEMMA EventsFacts ==
  ASSUME NEW S \in SUBSET Vips, NEW up \in BOOLEAN
  PROVE  /\ Events(S, up) \in Seq(Backs)
         /\ \A i \in 1..Len(Events(S, up)) :
              \E v \in S : Events(S, up)[i] = EventOf(v, up)
         /\ \A v \in S : \E i \in 1..Len(Events(S, up)) :
              Events(S, up)[i] = EventOf(v, up)
<1> DEFINE E == {EventOf(v, up) : v \in S}
           n == Cardinality(E)
<1>1. IsFiniteSet(E)
  <2> DEFINE f == [e \in E |-> e.msg.vip]
  <2>1. \A v : EventOf(v, up).msg.vip = v BY DEF EventOf
  <2>2. f \in Injection(E, S) BY <2>1 DEF Injection, IsInjective
  <2>3. IsFiniteSet(S) BY RequestPathAssumption, FS_Subset
  <2> QED BY <2>2, <2>3, FS_Injection
<1>2. E \subseteq Backs
  <2> SUFFICES ASSUME NEW v \in S PROVE EventOf(v, up) \in Backs OBVIOUS
  <2>1. [vip |-> v, up |-> up] \in Event BY DEF Event
  <2> QED BY <2>1 DEF EventOf, Backs
<1>3. Events(S, up) = SetToSeq(E) BY DEF Events
<1> HIDE DEF E, Events
<1>4. /\ n \in Nat /\ SetToSeq(E) \in [1..n -> E]
      /\ \A x \in E : \E i \in 1..n : SetToSeq(E)[i] = x
  BY <1>1, SetToSeqFacts
<1> DEFINE s == SetToSeq(E)
<1> HIDE DEF n, s
<1>5. s \in [1..n -> E] /\ n \in Nat /\ \A x \in E : \E i \in 1..n : s[i] = x
  BY <1>4 DEF s, n
<1>6. s \in Seq(E) /\ Len(s) = n BY <1>5
<1>7. s \in Seq(Backs) BY <1>2, <1>6, SeqMonotonic
<1>8. \A i \in 1..n : s[i] \in E BY <1>5
<1>9. Events(S, up) = s BY <1>3 DEF s
<1> QED BY <1>5, <1>6, <1>7, <1>8, <1>9 DEF E

LEMMA SendType ==
  ASSUME toCli \in Seq(Backs), NEW messages \in Seq(Backs), SendToCli(messages)
  PROVE  toCli' \in Seq(Backs)
BY DEF SendToCli

\* The types of the broker's variables, by name.
BusTypes ==
  /\ cliUp \in BOOLEAN /\ subs \subseteq Vips /\ retained \subseteq Vips
  /\ fromCli \in Seq(Packets) /\ toRelay \in Seq(Relays) /\ toCli \in Seq(Backs)
  /\ DOMAIN toPeer \subseteq Vips
  /\ \A v \in DOMAIN toPeer : toPeer[v] \in Seq(Request)
LEMMA BusTypesAre == BusTypeOK <=> BusTypes
BY DEF BusTypeOK, BusTypes, Packets, Relays, Backs
LEMMA BusTypesNext == BusTypeOK' <=> BusTypes'
BY DEF BusTypeOK, BusTypes, Packets, Relays, Backs

LEMMA InitTypes == Init => PathType
<1> SUFFICES ASSUME Init PROVE PathType OBVIOUS
<1>1. {MaxPolls, MaxChanges, MaxRestarts, MaxCommands, MaxStarts, MaxDrops} \subseteq Nat
  BY RequestPathAssumption
<1>2. BusTypes
  <2>1. DOMAIN toPeer = {} BY DEF Init, BusInit, EmptyMap
  <2>2. <<>> \in Seq(Packets) /\ <<>> \in Seq(Relays) /\ <<>> \in Seq(Backs)
    BY EmptySeq
  <2> QED BY <2>1, <2>2 DEF Init, BusInit, BusTypes
<1>3. ServerTypeOK
  BY <1>1 DEF Init, ServerInit, ServerTypeOK, Fresh
<1>4. CliTypeOK /\ Waits
  BY <1>1 DEF Init, CliInit, CliTypeOK, Waits
<1> QED BY <1>2, <1>3, <1>4, BusTypesAre DEF PathType, TypeOK

LEMMA ServerKeepsTypes ==
  ASSUME ServerTypeOK, UNCHANGED server
  PROVE  ServerTypeOK'
BY DEF ServerTypeOK, server, mgmt

LEMMA CliKeepsTypes ==
  ASSUME CliTypeOK, Waits, UNCHANGED cli
  PROVE  CliTypeOK' /\ Waits'
BY DEF CliTypeOK, Waits, cli

\* Steps of the broker and the relay.
LEMMA BrokerTypes ==
  ASSUME BusTypes, BrokerHandlesCli \/ Relay
  PROVE  BusTypes'
<1>1. CASE BrokerHandlesCli
  <2> DEFINE p == Head(fromCli)
  <2>1. fromCli # <<>> /\ p \in Packets /\ Tail(fromCli) \in Seq(Packets)
    BY <1>1 DEF BrokerHandlesCli, BusTypes
  <2>2. p.packet \in {"subscribe", "publish", "unsubscribe"} /\ p.req \in Request /\ p.req.vip \in Vips
    BY <2>1 DEF Packets, Request
  <2>3. [topic |-> "cli", req |-> p.req] \in Relays BY <2>2 DEF Relays
  <2> HIDE DEF p
  <2>4. /\ subs' \in {subs, subs \cup {p.req.vip}, subs \ {p.req.vip}}
        /\ toRelay' \in {toRelay, Append(toRelay, [topic |-> "cli", req |-> p.req])}
        /\ fromCli' = Tail(fromCli)
        /\ UNCHANGED <<cliUp, toPeer, retained, toCli>>
    BY <1>1, <2>2 DEF BrokerHandlesCli, p
  <2> DEFINE m == [topic |-> "cli", req |-> p.req]
  <2> HIDE DEF m
  <2>5. toRelay' \in Seq(Relays)
    <3>1. m \in Relays /\ toRelay' \in {toRelay, Append(toRelay, m)} BY <2>3, <2>4 DEF m
    <3>2. toRelay \in Seq(Relays) BY DEF BusTypes
    <3> QED BY <3>1, <3>2, AppendProperties
  <2> QED BY <2>1, <2>2, <2>4, <2>5 DEF BusTypes
<1>2. CASE Relay
  <2> DEFINE m == Head(toRelay)
  <2>1. toRelay # <<>> /\ m \in Relays /\ Tail(toRelay) \in Seq(Relays)
    BY <1>2 DEF Relay, BusTypes
  <2>2. m.req \in Request BY <2>1 DEF Relays
  <2>3. [topic |-> "cli_resp", msg |-> m.req] \in Backs BY <2>2 DEF Backs
  <2> HIDE DEF m
  <2>4. /\ RelayMessage(m) /\ toRelay' = Tail(toRelay)
        /\ UNCHANGED <<cliUp, subs, fromCli, retained>>
    BY <1>2 DEF Relay, m
  <2>5. CASE m.topic = "cli"
    <3>1. Forward(m.req) /\ toCli' = toCli BY <2>4, <2>5 DEF RelayMessage
    <3>2. DOMAIN toPeer' \subseteq Vips /\ \A v \in DOMAIN toPeer' : toPeer'[v] \in Seq(Request)
      BY <2>2, <3>1 DEF Forward, BusTypes
    <3> QED BY <2>1, <2>4, <3>1, <3>2 DEF BusTypes
  <2>6. CASE m.topic # "cli"
    <3>1. Return(m.req) /\ toPeer' = toPeer BY <2>4, <2>6 DEF RelayMessage
    <3> DEFINE out == IF m.req.vip \in subs
                      THEN <<[topic |-> "cli_resp", msg |-> m.req]>> ELSE <<>>
    <3>2. out \in Seq(Backs) BY <2>3
    <3>3. SendToCli(out) BY <3>1 DEF Return
    <3> HIDE DEF out
    <3>4. toCli' \in Seq(Backs) BY <3>2, <3>3, SendType DEF BusTypes
    <3> QED BY <2>1, <2>4, <3>1, <3>4 DEF BusTypes
  <2> QED BY <2>5, <2>6
<1> QED BY <1>1, <1>2

LEMMA Bounds ==
  /\ MaxPolls \in Nat /\ MaxChanges \in Nat /\ MaxRestarts \in Nat
  /\ MaxCommands \in Nat /\ MaxStarts \in Nat /\ MaxDrops \in Nat
BY RequestPathAssumption

\* The counters of the CLI.
Spents == [commands : 0..MaxCommands, starts : 0..MaxStarts, drops : 0..MaxDrops]
LEMMA SpentFacts ==
  ASSUME CliTypeOK
  PROVE  /\ spent \in Spents /\ spent.commands \in Nat /\ spent.commands <= MaxCommands
         /\ spent.commands < MaxCommands =>
              /\ [spent EXCEPT !.commands = @ + 1] \in Spents
              /\ [spent EXCEPT !.commands = @ + 1].commands = spent.commands + 1
         /\ spent.starts < MaxStarts =>
              /\ [spent EXCEPT !.starts = @ + 1] \in Spents
              /\ [spent EXCEPT !.starts = @ + 1].commands = spent.commands
         /\ spent.drops < MaxDrops =>
              /\ [spent EXCEPT !.drops = @ + 1] \in Spents
              /\ [spent EXCEPT !.drops = @ + 1].commands = spent.commands
<1>1. spent \in Spents BY DEF CliTypeOK, Spents
<1> QED BY <1>1, Bounds DEF Spents

\* Steps of the CLI.
LEMMA CommandTypes ==
  ASSUME BusTypes, CliTypeOK, Waits, NEW v \in Vips, Command(v)
  PROVE  BusTypes' /\ CliTypeOK' /\ Waits'
<1> DEFINE n == spent.commands
           r == [id |-> n + 1, vip |-> v]
<1>1. MaxCommands \in Nat /\ n \in Nat /\ n < MaxCommands
  BY Bounds, SpentFacts DEF Command, NewCommand
<1>2. r \in Request /\ r.id = n + 1 BY <1>1 DEF Request
<1>3. spent'.commands = n + 1 /\ n + 1 \in 1..MaxCommands
      /\ spent' \in Spents
  BY <1>1, SpentFacts DEF Command, NewCommand
<1>4. UNCHANGED <<cliUp, subs, toRelay, toPeer, retained, toCli, known, shown>>
      /\ (Publish(r) \/ PublishFails(r))
  BY DEF Command
<1> DEFINE two == <<Packet("subscribe", r), Packet("publish", r)>>
<1>5. two \in Seq(Packets)
  <2>1. Packet("subscribe", r) \in Packets /\ Packet("publish", r) \in Packets
    BY <1>2 DEF Packet, Packets
  <2> QED BY <2>1
<1>6. Publish(r) => CliSends(two) BY DEF Publish
<1> HIDE DEF n, r, two
<1>7. CASE Publish(r)
  <2>1. fromCli' \in Seq(Packets)
    BY <1>5, <1>6, <1>7, ConcatProperties DEF CliSends, BusTypes
  <2>2. phase' = "waiting" /\ cur' = r /\ resp' = NoRequest /\ unanswered' = unanswered
    BY <1>7 DEF Publish
  <2> QED BY <1>1, <1>2, <1>3, <1>4, <2>1, <2>2 DEF BusTypes, CliTypeOK, Waits, Spents
<1>8. CASE PublishFails(r)
  <2>1. /\ resp' = NoRequest /\ unanswered' = unanswered \cup {n + 1}
        /\ UNCHANGED <<phase, cur, fromCli>>
    BY <1>2, <1>8 DEF PublishFails
  <2>2. phase = "prompt" BY DEF Command, NewCommand
  <2> QED BY <1>1, <1>3, <1>4, <2>1, <2>2 DEF BusTypes, CliTypeOK, Waits, Spents
<1> QED BY <1>4, <1>7, <1>8

LEMMA TunnelFailsTypes ==
  ASSUME BusTypes, CliTypeOK, Waits, TunnelFails
  PROVE  BusTypes' /\ CliTypeOK' /\ Waits'
<1> DEFINE n == spent.commands
<1>1. MaxCommands \in Nat /\ n \in Nat /\ n < MaxCommands
  BY Bounds, SpentFacts DEF TunnelFails, NewCommand
<1>2. n + 1 \in 1..MaxCommands /\ spent' \in Spents
  BY <1>1, SpentFacts DEF TunnelFails, NewCommand
<1>3. /\ unanswered' = unanswered \cup {n + 1} /\ phase = "prompt"
      /\ UNCHANGED <<bus, phase, cur, resp, known, shown>>
  BY DEF TunnelFails, NewCommand
<1> HIDE DEF n
<1> QED BY <1>2, <1>3 DEF BusTypes, CliTypeOK, Waits, bus, Spents

LEMMA StartTypes ==
  ASSUME BusTypes, CliTypeOK, Start
  PROVE  BusTypes' /\ CliTypeOK' /\ Waits'
<1>1. PICK early \in SUBSET retained :
        known' = early /\ toCli' = Events(retained \ early, TRUE)
  BY DEF Start
<1>2. toCli' \in Seq(Backs) BY <1>1, EventsFacts DEF BusTypes
<1>3. /\ phase' = "prompt" /\ cliUp' = TRUE
      /\ UNCHANGED <<subs, fromCli, toRelay, toPeer, retained, cur, resp, shown, unanswered>>
  BY DEF Start
<1>4. spent' \in Spents
  BY SpentFacts DEF Start
<1> QED BY <1>1, <1>2, <1>3, <1>4 DEF BusTypes, CliTypeOK, Waits, Spents

LEMMA LeaveTypes ==
  ASSUME BusTypes, CliTypeOK, Quit \/ KeepaliveExpires
  PROVE  BusTypes' /\ CliTypeOK' /\ Waits'
<1>1. /\ cliUp' = FALSE /\ subs' = {} /\ fromCli' = <<>>
      /\ phase' \in {"off", "prompt"} /\ toCli' \in {<<>>, toCli}
      /\ known' \in {{}, known}
      /\ UNCHANGED <<toRelay, toPeer, retained, cur, resp, shown, unanswered>>
  BY DEF Quit, KeepaliveExpires, BrokerDropsCli
<1>2. spent' \in Spents
  BY SpentFacts DEF Quit, KeepaliveExpires
<1>3. fromCli' \in Seq(Packets) /\ toCli' \in Seq(Backs)
  BY <1>1, EmptySeq DEF BusTypes
<1> QED BY <1>1, <1>2, <1>3 DEF BusTypes, CliTypeOK, Waits, Spents

LEMMA LoopTypes ==
  ASSUME BusTypes, CliTypeOK, Waits, Loop
  PROVE  BusTypes' /\ CliTypeOK' /\ Waits'
<1> DEFINE m == Head(toCli)
<1>1. m \in Backs /\ Tail(toCli) \in Seq(Backs) BY DEF Loop, BusTypes
<1>2. /\ OnMessage(m) /\ toCli' = Tail(toCli)
      /\ UNCHANGED <<cliUp, subs, fromCli, toRelay, toPeer, retained, phase, cur, shown,
                     unanswered, spent>>
  BY DEF Loop
<1> HIDE DEF m
<1>3. BusTypes' BY <1>1, <1>2 DEF BusTypes
<1>4. known' \subseteq Vips /\ resp' \in Request \cup {NoRequest}
  <2>1. CASE m.topic = "clients"
    <3>1. m.msg.vip \in Vips BY <1>1, <2>1 DEF Backs, Event
    <3> QED BY <1>2, <2>1, <3>1 DEF OnMessage, OnLifecycle, CliTypeOK
  <2>2. CASE m.topic # "clients"
    <3>1. m.msg \in Request BY <1>1, <2>2 DEF Backs
    <3> QED BY <1>2, <2>2, <3>1 DEF OnMessage, OnAnswer, CliTypeOK
  <2> QED BY <2>1, <2>2
<1> QED BY <1>2, <1>3, <1>4 DEF CliTypeOK, Waits

LEMMA EndTypes ==
  ASSUME BusTypes, CliTypeOK, Waits, PrintResponse \/ ResponseTimeout
  PROVE  BusTypes' /\ CliTypeOK' /\ Waits'
<1>1. EndCommand BY DEF PrintResponse, ResponseTimeout
<1>2. cur \in Request /\ cur.id = spent.commands /\ spent.commands >= 1
  BY <1>1 DEF EndCommand, Waits
<1> DEFINE one == <<Packet("unsubscribe", cur)>>
<1>3. one \in Seq(Packets)
  <2>1. Packet("unsubscribe", cur) \in Packets BY <1>2 DEF Packet, Packets
  <2> QED BY <2>1
<1>4. CliSends(one) BY <1>1 DEF EndCommand
<1> HIDE DEF one
<1>5. fromCli' \in Seq(Packets)
  BY <1>3, <1>4, ConcatProperties DEF CliSends, BusTypes
<1>6. /\ phase' = "prompt" /\ cur' = NoRequest
      /\ UNCHANGED <<cliUp, subs, toRelay, toPeer, retained, toCli, known, resp, spent>>
  BY <1>1 DEF EndCommand
<1>7. BusTypes' BY <1>5, <1>6 DEF BusTypes
<1>8. shown' \subseteq Request \X Request /\ unanswered' \subseteq 1..MaxCommands
  <2>1. CASE PrintResponse
    BY <1>2, <2>1 DEF PrintResponse, Printed, CliTypeOK
  <2>2. CASE ResponseTimeout
    <3>1. cur.id \in 1..MaxCommands BY <1>2, Bounds, SpentFacts
    <3> QED BY <2>2, <3>1 DEF ResponseTimeout, CliTypeOK
  <2> QED BY <2>1, <2>2
<1> QED BY <1>6, <1>7, <1>8 DEF CliTypeOK, Waits

LEMMA CliTypes ==
  ASSUME BusTypes, CliTypeOK, Waits, CliNext
  PROVE  BusTypes' /\ CliTypeOK' /\ Waits'
<1>1. ASSUME ProcessCommand PROVE BusTypes' /\ CliTypeOK' /\ Waits'
  BY <1>1, CommandTypes, TunnelFailsTypes
     DEF ProcessCommand, GnmiGet, GnmiUpdate, GnmiReplace, GnmiDelete
<1> QED BY <1>1, StartTypes, LeaveTypes, LoopTypes, EndTypes DEF CliNext

\* The types of the supervisor's variables, one conjunct each.
Runs == [polls : 0..MaxPolls, changes : 0..MaxChanges, restarts : 0..MaxRestarts]
ServerTypes ==
  /\ table \subseteq Vips /\ polled \subseteq Vips /\ active \subseteq Vips
  /\ peers \subseteq Vips /\ listed \subseteq Vips /\ orphans \subseteq Vips
  /\ link \in BOOLEAN /\ inTable \in BOOLEAN /\ lines \in Seq(Line)
  /\ buf \in Vips \cup {NoRow} /\ calls \subseteq Request /\ runs \in Runs
LEMMA ServerTypesAre == ServerTypeOK <=> ServerTypes
<1>1. {table, polled, active, peers, listed, orphans} \subseteq SUBSET Vips <=>
        /\ table \subseteq Vips /\ polled \subseteq Vips /\ active \subseteq Vips
        /\ peers \subseteq Vips /\ listed \subseteq Vips /\ orphans \subseteq Vips
  OBVIOUS
<1> QED BY <1>1 DEF ServerTypeOK, ServerTypes, Runs
LEMMA ServerTypesNext == ServerTypeOK' <=> ServerTypes'
<1>1. {table', polled', active', peers', listed', orphans'} \subseteq SUBSET Vips <=>
        /\ table' \subseteq Vips /\ polled' \subseteq Vips /\ active' \subseteq Vips
        /\ peers' \subseteq Vips /\ listed' \subseteq Vips /\ orphans' \subseteq Vips
  OBVIOUS
<1> QED BY <1>1 DEF ServerTypeOK, ServerTypes, Runs

LEMMA RunsFacts ==
  ASSUME runs \in Runs
  PROVE  /\ runs.polls < MaxPolls => [runs EXCEPT !.polls = @ + 1] \in Runs
         /\ runs.changes < MaxChanges => [runs EXCEPT !.changes = @ + 1] \in Runs
         /\ runs.restarts < MaxRestarts => [runs EXCEPT !.restarts = @ + 1] \in Runs
BY Bounds DEF Runs

\* The end of a listing announces addresses of the two listings.
LEMMA AnnounceTypes ==
  ASSUME BusTypes, NEW came \in SUBSET Vips, NEW gone \in SUBSET Vips,
         Announce(came, gone)
  PROVE  retained' \subseteq Vips /\ toCli' \in Seq(Backs)
<1> DEFINE out == Events(came, TRUE) \o Events(gone, FALSE)
<1>1. Events(came, TRUE) \in Seq(Backs) /\ Events(gone, FALSE) \in Seq(Backs)
  BY EventsFacts
<1>2. out \in Seq(Backs)
  <2> HIDE DEF Events
  <2> QED BY <1>1, ConcatProperties
<1>3. SendToCli(out) BY DEF Announce
<1> HIDE DEF out
<1> QED BY <1>2, <1>3, SendType DEF Announce, BusTypes

LEMMA ReadTypes ==
  ASSUME BusTypes, ServerTypes, HandleRead
  PROVE  BusTypes' /\ ServerTypes'
<1> DEFINE line == Head(lines)
<1>1. /\ lines # <<>> /\ line \in Line /\ Tail(lines) \in Seq(Line)
  BY DEF HandleRead, ServerTypes
<1>2. /\ ParseMgmtLine(line) /\ lines' = Tail(lines) /\ buf' = NoRow
      /\ orphans' = orphans \ (active' \cup active)
      /\ UNCHANGED <<table, link, calls, runs>>
  BY DEF HandleRead
<1> HIDE DEF line
<1>3. ASSUME /\ polled' \subseteq Vips /\ active' \subseteq Vips /\ peers' \subseteq Vips
             /\ listed' \subseteq Vips /\ inTable' \in BOOLEAN
      PROVE  ServerTypes'
  BY <1>1, <1>2, <1>3 DEF ServerTypes
<1>4. ASSUME bus' = bus PROVE BusTypes' BY <1>4 DEF bus, BusTypes
<1>5. CASE ReadTitle BY <1>3, <1>4, <1>5 DEF ReadTitle, ServerTypes
<1>6. ASSUME NEW v \in Vips, ReadRow(v) PROVE BusTypes' /\ ServerTypes'
  BY <1>3, <1>4, <1>6 DEF ReadRow, PolledWith, ServerTypes
<1>7. CASE UNCHANGED <<inTable, polled, active, listed, peers, bus>>
  BY <1>3, <1>4, <1>7 DEF ServerTypes
<1>8. CASE line.is = "GLOBAL STATS" /\ ReadStats(line.of)
  <2>1. line.of \subseteq Vips
    <3>1. PICK t \in SUBSET Vips : line = Stats(t)
      BY <1>1, <1>8, LineFacts DEF Line, IsStats
    <3> QED BY <3>1, LineFacts
  <2>2. /\ inTable' = FALSE /\ polled' = polled /\ active' = polled /\ listed' = line.of
        /\ Disconnected(active \ polled)
        /\ Announce(Connected(polled \ active), active \ polled)
        /\ UNCHANGED <<cliUp, subs, fromCli, toRelay>>
    BY <1>8 DEF ReadStats
  <2>3. peers' \subseteq Vips BY <2>2 DEF Disconnected, ServerTypes
  <2>4. DOMAIN toPeer' \subseteq DOMAIN toPeer /\ \A v \in DOMAIN toPeer' : toPeer'[v] = toPeer[v]
    BY <2>2 DEF Disconnected, MapErase, Restrict
  <2>5. Connected(polled \ active) \subseteq Vips /\ active \ polled \subseteq Vips
    BY DEF Connected, ServerTypes
  <2>6. retained' \subseteq Vips /\ toCli' \in Seq(Backs)
    BY <2>2, <2>5, AnnounceTypes
  <2>7. BusTypes' BY <2>2, <2>4, <2>6 DEF BusTypes
  <2> QED BY <1>3, <2>1, <2>2, <2>3, <2>7 DEF ServerTypes
<1> QED BY <1>2, <1>5, <1>6, <1>7, <1>8 DEF ParseMgmtLine

LEMMA ServerStepTypes ==
  ASSUME BusTypes, ServerTypes, ServerNext
  PROVE  BusTypes' /\ ServerTypes'
<1>1. ASSUME NEW v \in Vips, TableChanges(v) PROVE BusTypes' /\ ServerTypes'
  <2>1. runs' \in Runs BY <1>1, RunsFacts DEF TableChanges, ServerTypes
  <2>2. table' \subseteq Vips BY <1>1 DEF TableChanges, ServerTypes
  <2>3. UNCHANGED <<mgmt, active, peers, calls, listed, orphans, bus>>
    BY <1>1 DEF TableChanges
  <2> QED BY <2>1, <2>2, <2>3 DEF ServerTypes, BusTypes, mgmt, bus
<1>2. CASE HandleConnect
  <2>1. /\ link' = TRUE /\ lines' = <<>> /\ polled' = PolledWith(buf) /\ buf' = NoRow
        /\ UNCHANGED <<table, inTable, active, peers, calls, runs, listed, orphans, bus>>
    BY <1>2 DEF HandleConnect
  <2>2. polled' \subseteq Vips BY <2>1 DEF PolledWith, ServerTypes
  <2>3. lines' \in Seq(Line) BY <2>1, EmptySeq
  <2> QED BY <2>1, <2>2, <2>3 DEF ServerTypes, BusTypes, bus
<1>3. CASE HandleTimeout
  <2>1. runs' \in Runs BY <1>3, RunsFacts DEF HandleTimeout, ServerTypes
  <2>2. /\ lines' = lines \o Listing(table)
        /\ UNCHANGED <<table, link, buf, inTable, polled, active, peers, calls, listed,
                       orphans, bus>>
    BY <1>3 DEF HandleTimeout
  <2>3. Listing(table) \in Seq(Line) BY ListingFacts DEF ServerTypes
  <2>4. lines' \in Seq(Line)
    <3> HIDE DEF Listing
    <3> QED BY <2>2, <2>3, ConcatProperties DEF ServerTypes
  <2> QED BY <2>1, <2>2, <2>4 DEF ServerTypes, BusTypes, bus
<1>4. CASE HandleClose
  <2>1. /\ link' = FALSE /\ lines' = <<>> /\ buf' \in CutRows
        /\ UNCHANGED <<table, inTable, polled, active, peers, calls, runs, listed,
                       orphans, bus>>
    BY <1>4 DEF HandleClose
  <2>2. buf' \in Vips \cup {NoRow} BY <2>1 DEF CutRows
  <2>3. lines' \in Seq(Line) BY <2>1, EmptySeq
  <2> QED BY <2>1, <2>2, <2>3 DEF ServerTypes, BusTypes, bus
<1>5. ASSUME NEW v \in Vips, PeerSubscribes(v) PROVE BusTypes' /\ ServerTypes'
  <2>1. /\ toPeer' = MapPut(toPeer, v, <<>>)
        /\ UNCHANGED <<cliUp, subs, fromCli, toRelay, retained, toCli, server>>
    BY <1>5 DEF PeerSubscribes
  <2>2. DOMAIN toPeer' \subseteq Vips /\ \A w \in DOMAIN toPeer' : toPeer'[w] \in Seq(Request)
    BY <2>1, EmptySeq DEF MapPut, BusTypes
  <2> QED BY <2>1, <2>2 DEF ServerTypes, BusTypes, server, mgmt
<1>6. ASSUME NEW v \in Vips, OnMqttMessage(v) PROVE BusTypes' /\ ServerTypes'
  <2>1. /\ v \in DOMAIN toPeer /\ toPeer[v] # <<>>
        /\ calls' = calls \cup {Head(toPeer[v])}
        /\ toPeer' = [toPeer EXCEPT ![v] = Tail(@)]
        /\ UNCHANGED <<cliUp, subs, fromCli, toRelay, retained, toCli, table, mgmt, active,
                       peers, runs, listed, orphans>>
    BY <1>6 DEF OnMqttMessage
  <2>2. Head(toPeer[v]) \in Request /\ Tail(toPeer[v]) \in Seq(Request)
    BY <2>1 DEF BusTypes
  <2>3. DOMAIN toPeer' \subseteq Vips /\ \A w \in DOMAIN toPeer' : toPeer'[w] \in Seq(Request)
    BY <2>1, <2>2 DEF BusTypes
  <2> QED BY <2>1, <2>2, <2>3 DEF ServerTypes, BusTypes, mgmt
<1>7. ASSUME NEW r \in calls, CallDone(r) PROVE BusTypes' /\ ServerTypes'
  <2> DEFINE m == [topic |-> "resp", req |-> r]
  <2>1. m \in Relays BY DEF Relays, ServerTypes
  <2>2. /\ calls' = calls \ {r} /\ toRelay' \in {Append(toRelay, m), toRelay}
        /\ UNCHANGED <<cliUp, subs, fromCli, toPeer, retained, toCli, table, mgmt, active,
                       peers, runs, listed, orphans>>
    BY <1>7 DEF CallDone
  <2> HIDE DEF m
  <2>3. toRelay' \in Seq(Relays)
    <3>1. toRelay \in Seq(Relays) BY DEF BusTypes
    <3> QED BY <2>1, <2>2, <3>1, AppendProperties
  <2> QED BY <2>2, <2>3 DEF ServerTypes, BusTypes, mgmt
<1>8. CASE Restart
  <2>1. runs' \in Runs BY <1>8, RunsFacts DEF Restart, ServerTypes
  <2>2. lines' = <<>> /\ lines' \in Seq(Line) BY <1>8, EmptySeq DEF Restart, Fresh
  <2>3. /\ link' = FALSE /\ buf' = NoRow /\ inTable' = FALSE /\ polled' = {} /\ active' = {}
        /\ peers' = {} /\ calls' = {} /\ table' = {} /\ listed' = {} /\ orphans' = retained
        /\ toPeer' = EmptyMap
        /\ UNCHANGED <<cliUp, subs, fromCli, toRelay, retained, toCli>>
    BY <1>8 DEF Restart, Fresh
  <2>4. DOMAIN toPeer' = {} BY <2>3 DEF EmptyMap
  <2> QED BY <2>1, <2>2, <2>3, <2>4 DEF ServerTypes, BusTypes
<1> QED BY <1>1, <1>2, <1>3, <1>4, <1>5, <1>6, <1>7, <1>8, ReadTypes DEF ServerNext

LEMMA StepTypes ==
  ASSUME PathType, [Next]_vars
  PROVE  PathType'
<1>1. BusTypes /\ ServerTypeOK /\ ServerTypes /\ CliTypeOK /\ Waits
  BY BusTypesAre, ServerTypesAre DEF PathType, TypeOK
<1>2. ASSUME BusTypes', ServerTypeOK', CliTypeOK', Waits' PROVE PathType'
  BY <1>2, BusTypesNext DEF PathType, TypeOK
<1>3. CASE CliNext /\ UNCHANGED server
  <2>1. BusTypes' /\ CliTypeOK' /\ Waits' BY <1>1, <1>3, CliTypes
  <2> QED BY <1>1, <1>2, <1>3, <2>1, ServerKeepsTypes
<1>4. CASE ServerNext /\ UNCHANGED cli
  <2>1. BusTypes' /\ ServerTypes' BY <1>1, <1>4, ServerStepTypes
  <2>2. CliTypeOK' /\ Waits' BY <1>1, <1>4, CliKeepsTypes
  <2> QED BY <1>2, <2>1, <2>2, ServerTypesNext
<1>5. CASE (BrokerHandlesCli \/ Relay) /\ UNCHANGED <<server, cli>>
  <2>1. BusTypes' BY <1>1, <1>5, BrokerTypes
  <2>2. CliTypeOK' /\ Waits' BY <1>1, <1>5, CliKeepsTypes
  <2>3. ServerTypeOK' BY <1>1, <1>5, ServerKeepsTypes
  <2> QED BY <1>2, <2>1, <2>2, <2>3
<1>6. CASE UNCHANGED vars
  <2>1. UNCHANGED server /\ UNCHANGED cli /\ UNCHANGED bus BY <1>6 DEF vars
  <2>2. BusTypes' BY <1>1, <2>1 DEF BusTypes, bus
  <2>3. CliTypeOK' /\ Waits' BY <1>1, <2>1, CliKeepsTypes
  <2> QED BY <1>1, <1>2, <2>1, <2>2, <2>3, ServerKeepsTypes
<1> QED BY <1>3, <1>4, <1>5, <1>6 DEF Next

\* Every variable of the request path keeps its type, messages on their way
\* included, and a command waits only for the request it has made
\* (on_mqtt_message, relay_msg_cb, on_message), for every set of addresses.
THEOREM PathTypeCorrect == Spec => []TypeOK
<1>1. PathType => TypeOK BY DEF PathType
<1> QED BY <1>1, InitTypes, StepTypes, PTL DEF Spec

-----------------------------------------------------------------------------
(* ListCatchesUp. For one address, what a queue of messages says after a    *)
(* list: the last message about it decides, and without one the list.       *)

Silent(s, v) == \A i \in 1..Len(s) : ~About(s[i], v)
LastIsUp(s, v) ==
  \E i \in 1..Len(s) :
    About(s[i], v) /\ s[i].msg.up /\ \A j \in 1..Len(s) : j > i => ~About(s[j], v)
Lists(k, s, v) == (v \in k /\ Silent(s, v)) \/ LastIsUp(s, v)

LEMMA CaughtUpIs ==
  ASSUME toCli \in Seq(Backs)
  PROVE  CaughtUp = {v \in Vips : Lists(known, toCli, v)}
<1>1. DOMAIN toCli = 1..Len(toCli) BY LenProperties
<1> QED BY <1>1 DEF CaughtUp, Lists, Silent, LastIsUp

LEMMA CaughtUpIsNext ==
  ASSUME toCli' \in Seq(Backs)
  PROVE  CaughtUp' = {v \in Vips : Lists(known', toCli', v)}
<1>1. DOMAIN toCli' = 1..Len(toCli') BY LenProperties
<1> QED BY <1>1 DEF CaughtUp, Lists, Silent, LastIsUp

\* More messages: silent ones change nothing, others have the last word.
LEMMA ListsConcat ==
  ASSUME NEW s \in Seq(Backs), NEW t \in Seq(Backs), NEW v, NEW k
  PROVE  Lists(k, s \o t, v) <=> IF Silent(t, v) THEN Lists(k, s, v) ELSE LastIsUp(t, v)
<1> DEFINE m == Len(s)
           n == Len(t)
           u == s \o t
<1>1. /\ m \in Nat /\ n \in Nat /\ Len(u) = m + n
      /\ \A i \in 1..m : u[i] = s[i]
      /\ \A i \in 1..n : u[m + i] = t[i]
  <2>1. m \in Nat /\ n \in Nat BY LenProperties
  <2>2. Len(u) = m + n /\ \A i \in 1..(m + n) : u[i] = IF i <= m THEN s[i] ELSE t[i - m]
    BY ConcatProperties
  <2> HIDE DEF m, n, u
  <2>3. \A i \in 1..n : m + i \in 1..(m + n) /\ ~(m + i <= m) /\ (m + i) - m = i BY <2>1
  <2> QED BY <2>1, <2>2, <2>3
<1>2. Silent(s, v) <=> \A i \in 1..m : ~About(s[i], v) BY DEF Silent
<1>3. Silent(t, v) <=> \A i \in 1..n : ~About(t[i], v) BY DEF Silent
<1>4. LastIsUp(s, v) <=>
        \E i \in 1..m : /\ About(s[i], v) /\ s[i].msg.up
                        /\ \A j \in 1..m : j > i => ~About(s[j], v)
  BY DEF LastIsUp
<1>5. LastIsUp(t, v) <=>
        \E i \in 1..n : /\ About(t[i], v) /\ t[i].msg.up
                        /\ \A j \in 1..n : j > i => ~About(t[j], v)
  BY DEF LastIsUp
<1>6. Silent(u, v) <=> \A i \in 1..Len(u) : ~About(u[i], v) BY DEF Silent
<1>7. LastIsUp(u, v) <=>
        \E i \in 1..Len(u) : /\ About(u[i], v) /\ u[i].msg.up
                             /\ \A j \in 1..Len(u) : j > i => ~About(u[j], v)
  BY DEF LastIsUp
<1>8. Lists(k, u, v) <=> (v \in k /\ Silent(u, v)) \/ LastIsUp(u, v) BY DEF Lists
<1>9. Lists(k, s, v) <=> (v \in k /\ Silent(s, v)) \/ LastIsUp(s, v) BY DEF Lists
<1> HIDE DEF m, n, u
<1>10. \A i \in 1..(m + n) : i \in 1..m \/ (i > m /\ i - m \in 1..n /\ i = m + (i - m))
  BY <1>1
<1>11. /\ \A i \in 1..m : i \in 1..(m + n)
       /\ \A i \in 1..n : m + i \in 1..(m + n)
  BY <1>1
<1>12. Silent(u, v) <=> Silent(s, v) /\ Silent(t, v)
  <2>1. ASSUME Silent(s, v), Silent(t, v) PROVE Silent(u, v)
    <3> SUFFICES ASSUME NEW i \in 1..(m + n) PROVE ~About(u[i], v) BY <1>1, <1>6
    <3>1. CASE i \in 1..m BY <1>1, <1>2, <2>1, <3>1
    <3>2. CASE i - m \in 1..n /\ i = m + (i - m)
      <4>1. u[m + (i - m)] = t[i - m] BY <1>1, <3>2
      <4>2. ~About(t[i - m], v) BY <1>3, <2>1, <3>2
      <4> QED BY <3>2, <4>1, <4>2
    <3> QED BY <1>10, <3>1, <3>2
  <2>2. ASSUME Silent(u, v) PROVE Silent(s, v) /\ Silent(t, v)
    <3>1. \A i \in 1..(m + n) : ~About(u[i], v) BY <1>1, <1>6, <2>2
    <3>2. \A i \in 1..m : ~About(s[i], v) BY <1>1, <1>11, <3>1
    <3>3. \A i \in 1..n : ~About(t[i], v) BY <1>1, <1>11, <3>1
    <3> QED BY <1>2, <1>3, <3>2, <3>3
  <2> QED BY <2>1, <2>2
<1>13. ASSUME Silent(t, v) PROVE LastIsUp(u, v) <=> LastIsUp(s, v)
  <2>1. \A i \in 1..n : ~About(u[m + i], v) BY <1>1, <1>3, <1>13
  <2>2. \A i \in 1..(m + n) : About(u[i], v) => i \in 1..m BY <1>10, <2>1
  <2>3. ASSUME LastIsUp(u, v) PROVE LastIsUp(s, v)
    <3>1. PICK i \in 1..(m + n) : /\ About(u[i], v) /\ u[i].msg.up
                                 /\ \A j \in 1..(m + n) : j > i => ~About(u[j], v)
      BY <1>1, <1>7, <2>3
    <3>2. i \in 1..m /\ u[i] = s[i] BY <1>1, <2>2, <3>1
    <3>3. \A j \in 1..m : j > i => ~About(s[j], v) BY <1>1, <1>11, <3>1
    <3> QED BY <1>4, <3>1, <3>2, <3>3
  <2>4. ASSUME LastIsUp(s, v) PROVE LastIsUp(u, v)
    <3>1. PICK i \in 1..m : /\ About(s[i], v) /\ s[i].msg.up
                           /\ \A j \in 1..m : j > i => ~About(s[j], v)
      BY <1>4, <2>4
    <3>2. i \in 1..(m + n) /\ u[i] = s[i] BY <1>1, <1>11
    <3>3. \A j \in 1..(m + n) : j > i => ~About(u[j], v)
      BY <1>1, <2>2, <3>1
    <3> QED BY <1>1, <1>7, <3>1, <3>2, <3>3
  <2> QED BY <2>3, <2>4
<1>14. ASSUME ~Silent(t, v) PROVE LastIsUp(u, v) <=> LastIsUp(t, v)
  <2>1. PICK w \in 1..n : About(t[w], v) BY <1>3, <1>14
  <2>2. m + w \in 1..(m + n) /\ About(u[m + w], v) BY <1>1, <1>11, <2>1
  <2>3. ASSUME LastIsUp(u, v) PROVE LastIsUp(t, v)
    <3>1. PICK i \in 1..(m + n) : /\ About(u[i], v) /\ u[i].msg.up
                                 /\ \A j \in 1..(m + n) : j > i => ~About(u[j], v)
      BY <1>1, <1>7, <2>3
    <3>2. ~(m + w > i) BY <2>2, <3>1
    <3>3. i > m /\ i - m \in 1..n /\ i = m + (i - m) BY <1>1, <1>10, <3>2
    <3> DEFINE h == i - m
    <3>4. h \in 1..n /\ i = m + h BY <3>3
    <3> HIDE DEF h
    <3>5. u[i] = t[h] BY <1>1, <3>4
    <3>6. ASSUME NEW j \in 1..n, j > h PROVE ~About(t[j], v)
      <4>1. m + j \in 1..(m + n) /\ m + j > i BY <1>1, <3>4, <3>6
      <4>2. ~About(u[m + j], v) BY <3>1, <4>1
      <4> QED BY <1>1, <4>2
    <3> QED BY <1>5, <3>1, <3>4, <3>5, <3>6
  <2>4. ASSUME LastIsUp(t, v) PROVE LastIsUp(u, v)
    <3>1. PICK i \in 1..n : /\ About(t[i], v) /\ t[i].msg.up
                           /\ \A j \in 1..n : j > i => ~About(t[j], v)
      BY <1>5, <2>4
    <3>2. m + i \in 1..(m + n) /\ u[m + i] = t[i] BY <1>1, <1>11
    <3>3. ASSUME NEW j \in 1..(m + n), j > m + i PROVE ~About(u[j], v)
      <4> DEFINE h == j - m
      <4>1. h \in 1..n /\ j = m + h /\ h > i BY <1>1, <3>3
      <4> HIDE DEF h
      <4>2. u[j] = t[h] BY <1>1, <4>1
      <4> QED BY <3>1, <4>1, <4>2
    <3> QED BY <1>1, <1>7, <3>1, <3>2, <3>3
  <2> QED BY <2>3, <2>4
<1>15. CASE Silent(t, v) BY <1>8, <1>9, <1>12, <1>13, <1>15 DEF u
<1>16. CASE ~Silent(t, v) BY <1>8, <1>12, <1>14, <1>16 DEF u
<1> QED BY <1>15, <1>16

\* Announcing addresses: they are listed after it, or not, as announced.
LEMMA ListsEvents ==
  ASSUME NEW s \in Seq(Backs), NEW S \in SUBSET Vips, NEW up \in BOOLEAN, NEW v, NEW k
  PROVE  Lists(k, s \o Events(S, up), v) <=> IF v \in S THEN up ELSE Lists(k, s, v)
<1> DEFINE t == Events(S, up)
<1>1. /\ t \in Seq(Backs)
      /\ \A i \in 1..Len(t) : \E w \in S : t[i] = EventOf(w, up)
      /\ \A w \in S : \E i \in 1..Len(t) : t[i] = EventOf(w, up)
  BY EventsFacts
<1>2. Lists(k, s \o t, v) <=> IF Silent(t, v) THEN Lists(k, s, v) ELSE LastIsUp(t, v)
  <2> HIDE DEF t
  <2> QED BY <1>1, ListsConcat
<1> HIDE DEF t
<1>3. \A w : About(EventOf(w, up), v) <=> w = v BY DEF About, EventOf
<1>4. \A w : EventOf(w, up).msg.up = up BY DEF EventOf
<1>5. CASE v \notin S
  <2>1. Silent(t, v) BY <1>1, <1>3, <1>5 DEF Silent
  <2> QED BY <1>2, <1>5, <2>1 DEF t
<1>6. CASE v \in S
  <2>1. ~Silent(t, v) BY <1>1, <1>3, <1>6 DEF Silent
  <2>2. ASSUME up PROVE LastIsUp(t, v)
    <3> DEFINE T == {i \in 1..Len(t) : About(t[i], v)}
    <3>1. T # {} BY <2>1 DEF Silent
    <3>2. Len(t) \in Nat BY <1>1, LenProperties
    <3>3. PICK i \in T : \A j \in T : j <= i
      <4>1. IsFiniteSet(1..Len(t)) BY <3>2, FS_Interval
      <4>2. T \subseteq Int /\ \A j \in T : j <= Len(t) BY <3>2
      <4>3. \E i \in T : \A j \in T : j <= i BY <3>1, <3>2, <4>2, Greatest
      <4> QED BY <4>3
    <3>4. \A j \in 1..Len(t) : j > i => ~About(t[j], v) BY <3>2, <3>3
    <3>5. t[i].msg.up BY <1>1, <1>4, <2>2, <3>3, ZenonT(30)
    <3> QED BY <3>3, <3>4, <3>5 DEF LastIsUp
  <2>3. ASSUME LastIsUp(t, v) PROVE up BY <1>1, <1>4, <2>3 DEF LastIsUp
  <2> QED BY <1>2, <1>6, <2>1, <2>2, <2>3 DEF t
<1> QED BY <1>5, <1>6

\* Reading the first message moves what it says from the queue to the list.
LEMMA ListsRead ==
  ASSUME NEW s \in Seq(Backs), s # <<>>, NEW v \in Vips, NEW k, NEW k2,
         Head(s).topic = "clients" =>
           k2 = IF Head(s).msg.up THEN k \cup {Head(s).msg.vip} ELSE k \ {Head(s).msg.vip},
         Head(s).topic # "clients" => k2 = k
  PROVE  Lists(k2, Tail(s), v) <=> Lists(k, s, v)
<1> DEFINE m == Head(s)
           t == Tail(s)
           one == <<m>>
<1>1. m \in Backs /\ t \in Seq(Backs) /\ one \in Seq(Backs) OBVIOUS
<1>2. s = one \o t
  <2>1. /\ Len(s) \in Nat \ {0} /\ Len(t) = Len(s) - 1 /\ m = s[1]
        /\ \A i \in 1..(Len(s) - 1) : t[i] = s[i + 1]
    BY HeadTailProperties, EmptySeq, LenProperties
  <2>2. Len(one) = 1 /\ one[1] = m OBVIOUS
  <2> HIDE DEF m, t, one
  <2>3. /\ one \o t \in Seq(Backs) /\ Len(one \o t) = 1 + (Len(s) - 1)
        /\ \A i \in 1..(1 + (Len(s) - 1)) : (one \o t)[i] = IF i <= 1 THEN one[i] ELSE t[i - 1]
    <3>1. /\ one \o t \in Seq(Backs) /\ Len(one \o t) = Len(one) + Len(t)
          /\ \A i \in 1..(Len(one) + Len(t)) :
               (one \o t)[i] = IF i <= Len(one) THEN one[i] ELSE t[i - Len(one)]
      BY <1>1, ConcatProperties
    <3>2. Len(one) = 1 /\ Len(t) = Len(s) - 1 BY <2>1, <2>2
    <3> QED BY <3>1, <3>2
  <2>4. Len(one \o t) = Len(s) BY <2>1, <2>3
  <2>5. \A i \in 1..Len(s) : (one \o t)[i] = s[i] BY <2>1, <2>2, <2>3
  <2> QED BY <2>3, <2>4, <2>5, SeqEqual
<1>3. Len(one) = 1 /\ one[1] = m OBVIOUS
<1> HIDE DEF t, one
<1>4. Lists(k, s, v) <=> IF Silent(t, v) THEN Lists(k, one, v) ELSE LastIsUp(t, v)
  BY <1>1, <1>2, ListsConcat
<1>5. \A i \in 1..1 : i = 1 OBVIOUS
<1>6. Lists(k, one, v) <=> IF About(m, v) THEN m.msg.up ELSE v \in k
  <2>1. Silent(one, v) <=> ~About(m, v) BY <1>3, <1>5 DEF Silent
  <2>2. LastIsUp(one, v) <=> About(m, v) /\ m.msg.up
    <3>1. \A j \in 1..1 : ~(j > 1) OBVIOUS
    <3> QED BY <1>3, <1>5, <3>1 DEF LastIsUp
  <2> HIDE DEF m
  <2> QED BY <2>1, <2>2 DEF Lists
<1>7. Silent(t, v) => ~LastIsUp(t, v) BY DEF Silent, LastIsUp
<1>8. v \in k2 <=> IF About(m, v) THEN m.msg.up ELSE v \in k
  <2>1. CASE m.topic = "clients" BY <2>1 DEF About
  <2>2. CASE m.topic # "clients" BY <2>2 DEF About
  <2> QED BY <2>1, <2>2
<1>9. Lists(k2, t, v) <=> (v \in k2 /\ Silent(t, v)) \/ LastIsUp(t, v) BY DEF Lists
<1> HIDE DEF m
<1>10. CASE Silent(t, v) BY <1>4, <1>6, <1>7, <1>8, <1>9, <1>10 DEF t
<1>11. CASE ~Silent(t, v) BY <1>4, <1>9, <1>11 DEF t
<1> QED BY <1>10, <1>11

\* Only lifecycle messages, the list and what is retained matter.
LEMMA CaughtUpKept ==
  ASSUME ListCatchesUp, UNCHANGED <<cliUp, known, toCli, retained>>
  PROVE  ListCatchesUp'
BY DEF ListCatchesUp, CaughtUp

LEMMA StatsCaughtUp ==
  ASSUME BusTypes, BusTypes', ListCatchesUp, known' = known, cliUp' = cliUp,
         NEW came \in SUBSET Vips, NEW gone \in SUBSET Vips, Announce(came, gone)
  PROVE  ListCatchesUp'
<1> SUFFICES ASSUME cliUp PROVE CaughtUp' = retained' BY DEF ListCatchesUp
<1>1. /\ toCli' = toCli \o (Events(came, TRUE) \o Events(gone, FALSE))
      /\ retained' = (retained \cup came) \ gone
  BY DEF Announce, SendToCli
<1> DEFINE up == Events(came, TRUE)
           down == Events(gone, FALSE)
<1>2. toCli \in Seq(Backs) /\ up \in Seq(Backs) /\ down \in Seq(Backs)
  BY EventsFacts DEF BusTypes
<1> DEFINE mid == toCli \o up
<1>3. mid \in Seq(Backs)
  <2> HIDE DEF up
  <2> QED BY <1>2, ConcatProperties
<1>4. toCli' = mid \o down
  <2>1. toCli' = toCli \o (up \o down) BY <1>1
  <2> HIDE DEF up, down
  <2> QED BY <1>2, <2>1, ConcatAssociative, SMTT(30)
<1>5. ASSUME NEW v PROVE Lists(known, mid, v) <=> v \in came \/ Lists(known, toCli, v)
  BY <1>2, ListsEvents
<1> HIDE DEF mid
<1>6. ASSUME NEW v
      PROVE  Lists(known, mid \o down, v) <=> v \notin gone /\ Lists(known, mid, v)
  BY <1>3, ListsEvents
<1>7. CaughtUp = {v \in Vips : Lists(known, toCli, v)} BY <1>2, CaughtUpIs
<1>8. CaughtUp' = {v \in Vips : Lists(known', toCli', v)} BY CaughtUpIsNext DEF BusTypes
<1> HIDE DEF down
<1>9. CaughtUp' = {v \in Vips : v \notin gone /\ (v \in came \/ Lists(known, toCli, v))}
  BY <1>4, <1>5, <1>6, <1>8
<1>10. CaughtUp = retained BY DEF ListCatchesUp
<1> QED BY <1>1, <1>7, <1>9, <1>10

LEMMA StartCaughtUp ==
  ASSUME BusTypes, BusTypes', Start
  PROVE  ListCatchesUp'
<1>1. PICK early \in SUBSET retained :
        known' = early /\ toCli' = Events(retained \ early, TRUE)
  BY DEF Start
<1>2. retained' = retained /\ retained \subseteq Vips BY DEF Start, BusTypes
<1> DEFINE late == retained \ early
           out == Events(late, TRUE)
<1>3. out \in Seq(Backs) BY <1>2, EventsFacts
<1>4. ASSUME NEW v PROVE Lists(early, out, v) <=> v \in retained
  <2>1. Lists(early, <<>> \o out, v) <=>
          IF v \in late THEN TRUE ELSE Lists(early, <<>>, v)
    <3>1. late \in SUBSET Vips /\ <<>> \in Seq(Backs) BY <1>2, EmptySeq
    <3> HIDE DEF late
    <3> QED BY <3>1, ListsEvents
  <2> HIDE DEF out
  <2>2. <<>> \o out = out BY <1>3, ConcatEmptySeq
  <2>3. Lists(early, <<>>, v) <=> v \in early
    <3>1. Len(<<>>) = 0 BY EmptySeq
    <3>2. Silent(<<>>, v) /\ ~LastIsUp(<<>>, v) BY <3>1 DEF Silent, LastIsUp
    <3> QED BY <3>2 DEF Lists
  <2> QED BY <2>1, <2>2, <2>3
<1> HIDE DEF out
<1>5. CaughtUp' = {v \in Vips : Lists(known', toCli', v)} BY CaughtUpIsNext DEF BusTypes
<1>6. CaughtUp' = retained' BY <1>1, <1>2, <1>4, <1>5 DEF out
<1> QED BY <1>6 DEF ListCatchesUp

LEMMA LoopCaughtUp ==
  ASSUME BusTypes, BusTypes', ListCatchesUp, Loop
  PROVE  ListCatchesUp'
<1>1. /\ toCli # <<>> /\ toCli' = Tail(toCli) /\ OnMessage(Head(toCli))
      /\ retained' = retained /\ cliUp' = cliUp
  BY DEF Loop
<1>2. toCli \in Seq(Backs) BY DEF BusTypes
<1> DEFINE m == Head(toCli)
<1>3. /\ m.topic = "clients" =>
           known' = IF m.msg.up THEN known \cup {m.msg.vip} ELSE known \ {m.msg.vip}
      /\ m.topic # "clients" => known' = known
  BY <1>1 DEF OnMessage, OnLifecycle, OnAnswer
<1>4. \A v \in Vips : Lists(known', Tail(toCli), v) <=> Lists(known, toCli, v)
  BY <1>1, <1>2, <1>3, ListsRead
<1>5. CaughtUp' = {v \in Vips : Lists(known', toCli', v)} BY CaughtUpIsNext DEF BusTypes
<1>6. CaughtUp = {v \in Vips : Lists(known, toCli, v)} BY <1>2, CaughtUpIs
<1>7. CaughtUp' = CaughtUp BY <1>1, <1>4, <1>5, <1>6
<1> QED BY <1>1, <1>7 DEF ListCatchesUp

\* The relay hands the CLI answers only.
LEMMA RelayCaughtUp ==
  ASSUME BusTypes, BusTypes', ListCatchesUp, Relay, known' = known
  PROVE  ListCatchesUp'
<1> DEFINE r == Head(toRelay).req
           a == [topic |-> "cli_resp", msg |-> r]
<1>1. cliUp' = cliUp /\ retained' = retained /\ toCli' \in {toCli, toCli \o <<a>>, toCli \o <<>>}
  BY DEF Relay, RelayMessage, Return, SendToCli
<1>2. toCli \in Seq(Backs) /\ a \in Backs
  <2>1. Head(toRelay) \in Relays BY DEF Relay, BusTypes
  <2>2. r \in Request BY <2>1 DEF Relays
  <2> HIDE DEF r
  <2> QED BY <2>2 DEF Backs, BusTypes
<1>3. a.topic = "cli_resp" OBVIOUS
<1> HIDE DEF a
<1>4. toCli \o <<>> = toCli BY <1>2, ConcatEmptySeq
<1>5. CASE toCli' = toCli BY <1>1, <1>5, CaughtUpKept
<1>6. CASE toCli' = toCli \o <<a>>
  <2>1. <<a>> \in Seq(Backs) /\ Len(<<a>>) = 1 /\ <<a>>[1] = a BY <1>2
  <2>2. ASSUME NEW v PROVE Lists(known, toCli \o <<a>>, v) <=> Lists(known, toCli, v)
    <3>1. ~About(a, v) BY <1>3 DEF About
    <3>2. \A i \in 1..1 : i = 1 OBVIOUS
    <3>3. Silent(<<a>>, v) BY <2>1, <3>1, <3>2 DEF Silent
    <3> QED BY <1>2, <2>1, <3>3, ListsConcat
  <2>3. CaughtUp' = {v \in Vips : Lists(known', toCli', v)} BY CaughtUpIsNext DEF BusTypes
  <2>4. CaughtUp = {v \in Vips : Lists(known, toCli, v)} BY <1>2, CaughtUpIs
  <2>5. CaughtUp' = CaughtUp BY <1>6, <2>2, <2>3, <2>4
  <2> QED BY <1>1, <2>5 DEF ListCatchesUp
<1> QED BY <1>1, <1>4, <1>5, <1>6

LEMMA StepCaughtUp ==
  ASSUME PathType, ListCatchesUp, [Next]_vars
  PROVE  ListCatchesUp'
<1>1. BusTypes /\ BusTypes' /\ ServerTypes
  BY StepTypes, BusTypesAre, BusTypesNext, ServerTypesAre DEF PathType, TypeOK
<1> DEFINE seen == <<cliUp, known, toCli, retained>>
<1>2. CASE CliNext /\ UNCHANGED server
  <2>1. ASSUME ProcessCommand PROVE UNCHANGED seen
    <3>1. \A v \in Vips : Command(v) => UNCHANGED seen BY DEF Command
    <3>2. TunnelFails => UNCHANGED seen BY DEF TunnelFails, bus
    <3> QED BY <2>1, <3>1, <3>2
        DEF ProcessCommand, GnmiGet, GnmiUpdate, GnmiReplace, GnmiDelete
  <2>2. PrintResponse \/ ResponseTimeout => UNCHANGED seen
    BY DEF PrintResponse, ResponseTimeout, EndCommand
  <2>3. Quit \/ KeepaliveExpires => ListCatchesUp'
    BY DEF Quit, KeepaliveExpires, BrokerDropsCli, ListCatchesUp
  <2> QED BY <1>1, <1>2, <2>1, <2>2, <2>3, CaughtUpKept, StartCaughtUp, LoopCaughtUp
      DEF CliNext
<1>3. CASE ServerNext /\ UNCHANGED cli
  <2>1. known' = known BY <1>3 DEF cli
  <2>2. ASSUME HandleRead PROVE ListCatchesUp'
    <3>1. ASSUME bus' = bus PROVE ListCatchesUp'
      BY <2>1, <3>1, CaughtUpKept DEF bus
    <3>2. ASSUME NEW t, ReadStats(t) PROVE ListCatchesUp'
      <4>1. cliUp' = cliUp /\ Announce(Connected(polled \ active), active \ polled)
        BY <3>2 DEF ReadStats
      <4>2. Connected(polled \ active) \subseteq Vips /\ active \ polled \subseteq Vips
        BY <1>1 DEF Connected, ServerTypes
      <4> QED BY <1>1, <2>1, <4>1, <4>2, StatsCaughtUp
    <3>3. ReadTitle => bus' = bus BY DEF ReadTitle
    <3>4. \A v \in Vips : ReadRow(v) => bus' = bus BY DEF ReadRow
    <3> QED BY <2>2, <3>1, <3>2, <3>3, <3>4 DEF HandleRead, ParseMgmtLine
  <2>3. ASSUME NEW v \in Vips, TableChanges(v) \/ PeerSubscribes(v) \/ OnMqttMessage(v)
        PROVE  UNCHANGED <<cliUp, toCli, retained>>
    BY <2>3 DEF TableChanges, PeerSubscribes, OnMqttMessage, bus
  <2>4. HandleConnect \/ HandleTimeout \/ HandleClose \/ Restart
          => UNCHANGED <<cliUp, toCli, retained>>
    BY DEF HandleConnect, HandleTimeout, HandleClose, Restart, bus
  <2>5. \A r \in calls : CallDone(r) => UNCHANGED <<cliUp, toCli, retained>>
    BY DEF CallDone
  <2> QED BY <1>3, <2>1, <2>2, <2>3, <2>4, <2>5, CaughtUpKept DEF ServerNext
<1>4. CASE (BrokerHandlesCli \/ Relay) /\ UNCHANGED <<server, cli>>
  <2>1. known' = known BY <1>4 DEF cli
  <2>2. BrokerHandlesCli => UNCHANGED seen BY <2>1 DEF BrokerHandlesCli
  <2> QED BY <1>1, <1>4, <2>1, <2>2, CaughtUpKept, RelayCaughtUp
<1>5. CASE UNCHANGED vars
  BY <1>5, CaughtUpKept DEF vars, bus, cli
<1> QED BY <1>2, <1>3, <1>4, <1>5 DEF Next

\* A session of the CLI loses no lifecycle message (main, on_message,
\* on_client_connect, on_client_disconnect): whatever was retained when it
\* began and however many listings end during it.
THEOREM ListCaughtUp == Spec => []ListCatchesUp
<1>1. Init => ListCatchesUp BY DEF Init, BusInit, ListCatchesUp
<1> QED BY <1>1, InitTypes, StepTypes, StepCaughtUp, PTL DEF Spec

-----------------------------------------------------------------------------
(* AnswersAreNotReused. A request bears the number of the command that made *)
(* it. The invariant: a number is in one place at a time, be it a packet,   *)
(* a message, a call, the answer a waiting command holds, or one printed.   *)

\* The request or answer that a message carries, as a set: a lifecycle
\* message, a subscription and its end carry none.
PacketLoad == [p \in Packets |-> IF p.packet = "publish" THEN {p.req} ELSE {}]
RelayLoad == [m \in Relays |-> {m.req}]
RequestLoad == [r \in Request |-> {r}]
BackLoad == [m \in Backs |-> IF m.topic = "cli_resp" THEN {m.msg} ELSE {}]

\* What a sequence carries, and that it carries no number twice.
In(s, load) == UNION {load[s[i]] : i \in 1..Len(s)}
Once(s, load) ==
  \A i, j \in 1..Len(s) :
    \A r \in load[s[i]], q \in load[s[j]] : r.id = q.id => i = j

\* The answer that a waiting command holds.
Holding == IF phase = "waiting" /\ resp # NoRequest THEN {resp} ELSE {}

Places == {"sent", "relay", "peer", "call", "back", "held", "shown"}
At ==
  [sent  |-> In(fromCli, PacketLoad),
   relay |-> In(toRelay, RelayLoad),
   peer  |-> UNION {In(toPeer[v], RequestLoad) : v \in DOMAIN toPeer},
   call  |-> calls,
   back  |-> In(toCli, BackLoad),
   held  |-> Holding,
   shown |-> {p[2] : p \in shown}]

\* No number is in two places, and there is one request with that number.
Apart(at) ==
  \A c, d \in Places : \A r \in at[c], q \in at[d] : r.id = q.id => c = d /\ r = q
PeersOnce ==
  /\ \A v \in DOMAIN toPeer : Once(toPeer[v], RequestLoad)
  /\ \A v, w \in DOMAIN toPeer :
       \A r \in In(toPeer[v], RequestLoad), q \in In(toPeer[w], RequestLoad) :
         r.id = q.id => v = w
LinesOnce ==
  Once(fromCli, PacketLoad) /\ Once(toRelay, RelayLoad) /\ Once(toCli, BackLoad)

\* A command waits for the last request made, and a request on its way that
\* no command waits for comes with a command that ended without an answer.
Fate(r) ==
  /\ r.id \in 1..spent.commands
  /\ phase = "waiting" /\ r.id = cur.id => r = cur
  /\ (phase = "waiting" /\ r = cur) \/ \E u \in unanswered : u <= r.id
Fates ==
  /\ phase = "waiting" => cur \in Request /\ cur.id = spent.commands
  /\ \A p \in shown : p[2].id \in 1..spent.commands
  /\ \A c \in Places \ {"shown"} : \A r \in At[c] : Fate(r)

OnceInv == Apart(At) /\ LinesOnce /\ PeersOnce
AnswersInv == PathType /\ OnceInv /\ Fates /\ AnswersAreNotReused

\* Putting two sequences together: the loads add up.
LEMMA OnceConcat ==
  ASSUME NEW S, NEW s \in Seq(S), NEW t \in Seq(S), NEW load
  PROVE  /\ s \o t \in Seq(S)
         /\ In(s \o t, load) = In(s, load) \cup In(t, load)
         /\ /\ Once(s, load) /\ Once(t, load)
            /\ \A r \in In(s, load), q \in In(t, load) : r.id # q.id
            => Once(s \o t, load)
<1> DEFINE m == Len(s)
           n == Len(t)
           u == s \o t
<1>1. /\ m \in Nat /\ n \in Nat /\ Len(u) = m + n /\ u \in Seq(S)
      /\ \A i \in 1..m : u[i] = s[i]
      /\ \A i \in 1..n : u[m + i] = t[i]
  <2>1. m \in Nat /\ n \in Nat BY LenProperties
  <2>2. /\ u \in Seq(S) /\ Len(u) = m + n
        /\ \A i \in 1..(m + n) : u[i] = IF i <= m THEN s[i] ELSE t[i - m]
    BY ConcatProperties
  <2> HIDE DEF m, n, u
  <2>3. \A i \in 1..n : m + i \in 1..(m + n) /\ ~(m + i <= m) /\ (m + i) - m = i BY <2>1
  <2> QED BY <2>1, <2>2, <2>3
<1>2. In(s, load) = UNION {load[s[i]] : i \in 1..m} BY DEF In
<1>3. In(t, load) = UNION {load[t[i]] : i \in 1..n} BY DEF In
<1>4. In(u, load) = UNION {load[u[i]] : i \in 1..(m + n)} BY <1>1 DEF In
<1>5. Once(s, load) <=> \A i, j \in 1..m : \A r \in load[s[i]], q \in load[s[j]] : r.id = q.id => i = j
  BY DEF Once
<1>6. Once(t, load) <=> \A i, j \in 1..n : \A r \in load[t[i]], q \in load[t[j]] : r.id = q.id => i = j
  BY DEF Once
<1>7. Once(u, load) <=> \A i, j \in 1..(m + n) : \A r \in load[u[i]], q \in load[u[j]] : r.id = q.id => i = j
  BY <1>1 DEF Once
<1> HIDE DEF m, n, u
<1>8. \A i \in 1..(m + n) : i \in 1..m \/ (\E h \in 1..n : i = m + h)
  <2> TAKE i \in 1..(m + n)
  <2>1. CASE i <= m BY <1>1, <2>1
  <2>2. CASE i > m
    <3>1. i - m \in 1..n /\ i = m + (i - m) BY <1>1, <2>2
    <3> QED BY <3>1
  <2> QED BY <1>1, <2>1, <2>2
<1>9. /\ \A i \in 1..m : i \in 1..(m + n)
      /\ \A i \in 1..n : m + i \in 1..(m + n)
  BY <1>1
<1>10. In(u, load) = In(s, load) \cup In(t, load)
  <2>1. ASSUME NEW r \in In(u, load) PROVE r \in In(s, load) \cup In(t, load)
    <3>1. PICK i \in 1..(m + n) : r \in load[u[i]] BY <1>4
    <3>2. CASE i \in 1..m BY <1>1, <1>2, <3>1, <3>2
    <3>3. ASSUME NEW h \in 1..n, i = m + h PROVE r \in In(t, load) BY <1>1, <1>3, <3>1, <3>3, ZenonT(30)
    <3> QED BY <1>8, <3>2, <3>3
  <2>2. ASSUME NEW r \in In(s, load) PROVE r \in In(u, load)
    <3>1. PICK i \in 1..m : r \in load[s[i]] BY <1>2
    <3> QED BY <1>1, <1>4, <1>9, <3>1
  <2>3. ASSUME NEW r \in In(t, load) PROVE r \in In(u, load)
    <3>1. PICK i \in 1..n : r \in load[t[i]] BY <1>3
    <3>2. r \in load[u[m + i]] BY <1>1, <3>1
    <3> QED BY <1>4, <1>9, <3>2
  <2> QED BY <2>1, <2>2, <2>3
<1>11. ASSUME Once(s, load), Once(t, load),
              \A r \in In(s, load), q \in In(t, load) : r.id # q.id
       PROVE  Once(u, load)
  <2> SUFFICES ASSUME NEW i \in 1..(m + n), NEW j \in 1..(m + n),
                      NEW r \in load[u[i]], NEW q \in load[u[j]], r.id = q.id
               PROVE  i = j
    BY <1>7
  <2>1. ASSUME NEW h \in 1..m, NEW x \in load[u[h]] PROVE x \in load[s[h]] /\ x \in In(s, load)
    BY <1>1, <1>2
  <2>2. ASSUME NEW h \in 1..n, NEW x \in load[u[m + h]]
        PROVE  x \in load[t[h]] /\ x \in In(t, load)
    BY <1>1, <1>3
  <2>3. CASE i \in 1..m /\ j \in 1..m BY <1>5, <1>11, <2>1, <2>3
  <2>4. ASSUME i \in 1..m, NEW k \in 1..n, j = m + k PROVE FALSE
    BY <1>11, <2>1, <2>2, <2>4
  <2>5. ASSUME j \in 1..m, NEW h \in 1..n, i = m + h PROVE FALSE
    BY <1>11, <2>1, <2>2, <2>5
  <2>6. ASSUME NEW h \in 1..n, i = m + h, NEW k \in 1..n, j = m + k PROVE i = j
    <3>1. r \in load[t[h]] /\ q \in load[t[k]] BY <2>2, <2>6
    <3>2. h = k BY <1>6, <1>11, <3>1
    <3> QED BY <2>6, <3>2
  <2> QED BY <1>8, <2>3, <2>4, <2>5, <2>6
<1> QED BY <1>1, <1>10, <1>11 DEF u

\* One message, and messages without a load.
LEMMA OnceOne ==
  ASSUME NEW S, NEW x \in S, NEW load
  PROVE  <<x>> \in Seq(S) /\ In(<<x>>, load) = load[x] /\ Once(<<x>>, load)
<1>1. <<x>> \in Seq(S) /\ Len(<<x>>) = 1 /\ <<x>>[1] = x OBVIOUS
<1>2. \A i \in 1..1 : i = 1 OBVIOUS
<1>3. 1 \in 1..1 OBVIOUS
<1> QED BY <1>1, <1>2, <1>3 DEF In, Once

LEMMA OnceSilent ==
  ASSUME NEW s, NEW load, \A i \in 1..Len(s) : load[s[i]] = {}
  PROVE  In(s, load) = {} /\ Once(s, load)
BY DEF In, Once

LEMMA OnceAppend ==
  ASSUME NEW S, NEW s \in Seq(S), NEW x \in S, NEW load
  PROVE  /\ Append(s, x) \in Seq(S)
         /\ In(Append(s, x), load) = In(s, load) \cup load[x]
         /\ Once(s, load) /\ (\A r \in In(s, load), q \in load[x] : r.id # q.id)
              => Once(Append(s, x), load)
<1> DEFINE one == <<x>>
<1>1. one \in Seq(S) /\ In(one, load) = load[x] /\ Once(one, load) BY OnceOne
<1>2. Append(s, x) = s \o one BY AppendIsConcat
<1> HIDE DEF one
<1> QED BY <1>1, <1>2, OnceConcat

\* Taking the first message: its load leaves the sequence.
LEMMA OnceTail ==
  ASSUME NEW S, NEW s \in Seq(S), s # <<>>, NEW load
  PROVE  /\ Head(s) \in S /\ Tail(s) \in Seq(S)
         /\ load[Head(s)] \subseteq In(s, load) /\ In(Tail(s), load) \subseteq In(s, load)
         /\ Once(s, load) =>
              /\ Once(Tail(s), load)
              /\ \A r \in load[Head(s)], q \in In(Tail(s), load) : r.id # q.id
<1> DEFINE t == Tail(s)
           m == Len(s)
<1>1. /\ m \in Nat \ {0} /\ Len(t) = m - 1 /\ Head(s) = s[1]
      /\ t \in Seq(S) /\ s[1] \in S
      /\ \A i \in 1..(m - 1) : t[i] = s[i + 1]
  BY HeadTailProperties, EmptySeq, LenProperties
<1>2. In(s, load) = UNION {load[s[i]] : i \in 1..m} BY DEF In
<1>3. In(t, load) = UNION {load[t[i]] : i \in 1..(m - 1)} BY <1>1 DEF In
<1>4. Once(s, load) <=> \A i, j \in 1..m : \A r \in load[s[i]], q \in load[s[j]] : r.id = q.id => i = j
  BY DEF Once
<1>5. Once(t, load) <=> \A i, j \in 1..(m - 1) : \A r \in load[t[i]], q \in load[t[j]] : r.id = q.id => i = j
  BY <1>1 DEF Once
<1> HIDE DEF t, m
<1>6. \A i \in 1..(m - 1) : i + 1 \in 1..m /\ i + 1 # 1 BY <1>1
<1>7. 1 \in 1..m BY <1>1
<1>8. load[Head(s)] \subseteq In(s, load) BY <1>1, <1>2, <1>7
<1>9. In(t, load) \subseteq In(s, load) BY <1>1, <1>2, <1>3, <1>6
<1>10. ASSUME Once(s, load) PROVE Once(t, load)
  <2> SUFFICES ASSUME NEW i \in 1..(m - 1), NEW j \in 1..(m - 1),
                      NEW r \in load[t[i]], NEW q \in load[t[j]], r.id = q.id
               PROVE  i = j
    BY <1>5
  <2>1. r \in load[s[i + 1]] /\ q \in load[s[j + 1]] BY <1>1
  <2>2. i + 1 = j + 1 BY <1>4, <1>6, <1>10, <2>1
  <2> QED BY <2>2
<1>11. ASSUME Once(s, load), NEW r \in load[Head(s)], NEW q \in In(t, load)
       PROVE  r.id # q.id
  <2>1. PICK i \in 1..(m - 1) : q \in load[t[i]] BY <1>3
  <2>2. q \in load[s[i + 1]] /\ r \in load[s[1]] BY <1>1, <2>1
  <2> QED BY <1>4, <1>6, <1>7, <1>11, <2>2
<1> QED BY <1>1, <1>8, <1>9, <1>10, <1>11 DEF t

\* One step moves at most the request n, to the place to: what is elsewhere
\* was there before, and n is at no other place any more.
LEMMA OneMoves ==
  ASSUME NEW a, NEW b, Apart(a), NEW to \in Places, NEW n,
         b[to] \subseteq a[to] \cup {n},
         \A c \in Places : c # to => b[c] \subseteq a[c],
         \A c \in Places : \A r \in b[c] : r.id = n.id => c = to /\ r = n
  PROVE  Apart(b)
<1> SUFFICES ASSUME NEW c \in Places, NEW d \in Places, NEW r \in b[c], NEW q \in b[d],
                    r.id = q.id
             PROVE  c = d /\ r = q
  BY DEF Apart
<1>1. CASE r.id = n.id BY <1>1
<1>2. CASE r.id # n.id
  <2>1. r # n /\ q # n BY <1>2
  <2>2. r \in a[c] /\ q \in a[d] BY <2>1
  <2> QED BY <2>2 DEF Apart
<1> QED BY <1>1, <1>2

LEMMA NoneMoves ==
  ASSUME NEW a, NEW b, Apart(a), \A c \in Places : b[c] \subseteq a[c]
  PROVE  Apart(b)
BY DEF Apart

\* A request goes from one place to another, the rest stays or is lost.
LEMMA OneMovesFrom ==
  ASSUME NEW a, NEW b, Apart(a), NEW from \in Places, NEW to \in Places, from # to,
         NEW n \in a[from], b[to] \subseteq a[to] \cup {n},
         \A c \in Places : c # to => b[c] \subseteq a[c],
         \A r \in b[from] : r.id # n.id
  PROVE  Apart(b)
<1>1. ASSUME NEW c \in Places, NEW r \in b[c], r.id = n.id PROVE c = to /\ r = n
  <2>1. r = n \/ r \in a[c] BY <1>1
  <2>2. r \in a[c] => c = from /\ r = n BY <1>1 DEF Apart
  <2>3. c # from BY <1>1
  <2>4. r = n BY <2>1, <2>2
  <2>5. c # to => r \in a[c] BY <1>1
  <2> QED BY <2>2, <2>3, <2>4, <2>5
<1> QED BY <1>1, OneMoves

\* The places by name, before and after a step.
LEMMA AtIs ==
  /\ At["sent"] = In(fromCli, PacketLoad) /\ At["relay"] = In(toRelay, RelayLoad)
  /\ At["peer"] = UNION {In(toPeer[v], RequestLoad) : v \in DOMAIN toPeer}
  /\ At["call"] = calls /\ At["back"] = In(toCli, BackLoad)
  /\ At["held"] = Holding /\ At["shown"] = {p[2] : p \in shown}
BY DEF At
LEMMA AtNext ==
  /\ At'["sent"] = In(fromCli', PacketLoad) /\ At'["relay"] = In(toRelay', RelayLoad)
  /\ At'["peer"] = UNION {In(toPeer'[v], RequestLoad) : v \in DOMAIN toPeer'}
  /\ At'["call"] = calls' /\ At'["back"] = In(toCli', BackLoad)
  /\ At'["held"] = Holding' /\ At'["shown"] = {p[2] : p \in shown'}
BY DEF At
LEMMA EachPlace ==
  ASSUME NEW c \in Places
  PROVE  \/ c = "sent" \/ c = "relay" \/ c = "peer" \/ c = "call" \/ c = "back"
         \/ c = "held" \/ c = "shown"
BY DEF Places

LEMMA LoadFacts ==
  /\ \A p \in Packets : PacketLoad[p] = IF p.packet = "publish" THEN {p.req} ELSE {}
  /\ \A m \in Relays : RelayLoad[m] = {m.req}
  /\ \A r \in Request : RequestLoad[r] = {r}
  /\ \A m \in Backs : BackLoad[m] = IF m.topic = "cli_resp" THEN {m.msg} ELSE {}
BY DEF PacketLoad, RelayLoad, RequestLoad, BackLoad

\* What is on its way after a step was on its way before it.
Sourced ==
  \A c \in Places \ {"shown"} : \A r \in At'[c] :
    \E d \in Places \ {"shown"} : r \in At[d]

\* The queues of the peers after a step that takes from them at most.
LEMMA PeersKept ==
  ASSUME PeersOnce,
         \A v \in DOMAIN toPeer' :
           /\ Once(toPeer'[v], RequestLoad)
           /\ IF v \in DOMAIN toPeer
              THEN In(toPeer'[v], RequestLoad) \subseteq In(toPeer[v], RequestLoad)
              ELSE In(toPeer'[v], RequestLoad) = {}
  PROVE  PeersOnce' /\ At'["peer"] \subseteq At["peer"]
<1>1. PeersOnce'
  <2> SUFFICES ASSUME NEW v \in DOMAIN toPeer', NEW w \in DOMAIN toPeer',
                      NEW r \in In(toPeer'[v], RequestLoad),
                      NEW q \in In(toPeer'[w], RequestLoad), r.id = q.id
               PROVE  v = w
    BY DEF PeersOnce
  <2>1. v \in DOMAIN toPeer /\ r \in In(toPeer[v], RequestLoad) OBVIOUS
  <2>2. w \in DOMAIN toPeer /\ q \in In(toPeer[w], RequestLoad) OBVIOUS
  <2> QED BY <2>1, <2>2 DEF PeersOnce
<1>2. At'["peer"] \subseteq At["peer"]
  <2> SUFFICES ASSUME NEW r \in At'["peer"] PROVE r \in At["peer"] OBVIOUS
  <2>1. PICK v \in DOMAIN toPeer' : r \in In(toPeer'[v], RequestLoad) BY AtNext
  <2>2. v \in DOMAIN toPeer /\ r \in In(toPeer[v], RequestLoad) BY <2>1
  <2> QED BY <2>2, AtIs
<1> QED BY <1>1, <1>2

\* Nothing new anywhere.
LEMMA NoneMove ==
  ASSUME Apart(At), LinesOnce', PeersOnce', \A c \in Places : At'[c] \subseteq At[c]
  PROVE  OnceInv' /\ Sourced
<1>1. Apart(At')
  <2> DEFINE a == At
             b == At'
  <2>1. Apart(a) /\ \A c \in Places : b[c] \subseteq a[c] OBVIOUS
  <2> HIDE DEF a, b
  <2>2. Apart(b) BY <2>1, NoneMoves
  <2> QED BY <2>2 DEF b
<1> QED BY <1>1 DEF OnceInv, Sourced, Apart

LEMMA OneMove ==
  ASSUME Apart(At), LinesOnce', PeersOnce',
         NEW from \in Places \ {"shown"}, NEW to \in Places \ {"shown"}, from # to,
         NEW n \in At[from], At'[to] \subseteq At[to] \cup {n},
         \A c \in Places : c # to => At'[c] \subseteq At[c],
         \A r \in At'[from] : r.id # n.id
  PROVE  OnceInv' /\ Sourced
<1>1. Apart(At')
  <2> DEFINE a == At
             b == At'
  <2>1. /\ Apart(a) /\ n \in a[from] /\ b[to] \subseteq a[to] \cup {n}
        /\ \A c \in Places : c # to => b[c] \subseteq a[c]
        /\ \A r \in b[from] : r.id # n.id
    OBVIOUS
  <2> HIDE DEF a, b
  <2>2. Apart(b) BY <2>1, OneMovesFrom
  <2> QED BY <2>2 DEF b
<1>2. Sourced
  <2> SUFFICES ASSUME NEW c \in Places \ {"shown"}, NEW r \in At'[c]
               PROVE  \E d \in Places \ {"shown"} : r \in At[d]
    BY DEF Sourced
  <2>1. r = n \/ r \in At[c] OBVIOUS
  <2> QED BY <2>1
<1> QED BY <1>1, <1>2 DEF OnceInv

LEMMA BrokerOnce ==
  ASSUME BusTypes, OnceInv, BrokerHandlesCli, UNCHANGED <<server, cli>>
  PROVE  OnceInv' /\ Sourced
<1> DEFINE p == Head(fromCli)
           m == [topic |-> "cli", req |-> p.req]
<1>1. fromCli # <<>> /\ fromCli \in Seq(Packets) /\ toRelay \in Seq(Relays)
  BY DEF BrokerHandlesCli, BusTypes
<1>2. /\ p \in Packets /\ PacketLoad[p] \subseteq In(fromCli, PacketLoad)
      /\ In(Tail(fromCli), PacketLoad) \subseteq In(fromCli, PacketLoad)
      /\ Once(Tail(fromCli), PacketLoad)
      /\ \A r \in PacketLoad[p], q \in In(Tail(fromCli), PacketLoad) : r.id # q.id
  BY <1>1, OnceTail DEF OnceInv, LinesOnce
<1>3. p.req \in Request /\ m \in Relays /\ m.req = p.req BY <1>2 DEF Packets, Relays
<1>4. /\ fromCli' = Tail(fromCli)
      /\ toRelay' = IF p.packet = "publish" THEN Append(toRelay, m) ELSE toRelay
      /\ UNCHANGED <<toPeer, toCli, calls, Holding, shown>>
  BY DEF BrokerHandlesCli, server, cli, Holding
<1> HIDE DEF p, m
<1>5. PeersOnce' BY <1>4 DEF OnceInv, PeersOnce
<1>6. /\ At'["sent"] \subseteq At["sent"] /\ At'["peer"] = At["peer"] /\ At'["call"] = At["call"]
      /\ At'["back"] = At["back"] /\ At'["held"] = At["held"] /\ At'["shown"] = At["shown"]
  BY <1>2, <1>4, AtIs, AtNext
<1>7. CASE p.packet # "publish"
  <2>1. toRelay' = toRelay BY <1>4, <1>7
  <2>2. LinesOnce' BY <1>2, <1>4, <2>1 DEF OnceInv, LinesOnce
  <2>3. \A c \in Places : At'[c] \subseteq At[c] BY <1>6, <2>1, AtIs, AtNext, EachPlace
  <2> QED BY <1>5, <2>2, <2>3, NoneMove DEF OnceInv
<1>8. CASE p.packet = "publish"
  <2> DEFINE n == p.req
  <2>1. PacketLoad[p] = {n} /\ RelayLoad[m] = {n} BY <1>2, <1>3, <1>8, LoadFacts
  <2>2. n \in At["sent"] /\ \A r \in At'["sent"] : r.id # n.id
    BY <1>2, <1>4, <2>1, AtIs, AtNext
  <2>3. toRelay' = Append(toRelay, m) BY <1>4, <1>8
  <2>4. At'["relay"] = At["relay"] \cup {n}
    BY <1>1, <1>3, <2>1, <2>3, OnceAppend, AtIs, AtNext
  <2>5. "sent" \in Places \ {"shown"} /\ "relay" \in Places \ {"shown"} BY DEF Places
  <2>6. \A r \in At["relay"] : r.id # n.id
    BY <2>2, <2>5 DEF OnceInv, Apart
  <2>7. Once(toRelay', RelayLoad)
    BY <1>1, <1>3, <2>1, <2>3, <2>6, OnceAppend, AtIs DEF OnceInv, LinesOnce
  <2>8. LinesOnce' BY <1>2, <1>4, <2>7 DEF OnceInv, LinesOnce
  <2>9. \A c \in Places : c # "relay" => At'[c] \subseteq At[c] BY <1>6, EachPlace
  <2> HIDE DEF n
  <2> QED BY <1>5, <2>2, <2>4, <2>5, <2>8, <2>9, OneMove DEF OnceInv
<1> QED BY <1>7, <1>8

\* The relay forwards a request to its peer or returns an answer to the CLI;
\* without a subscriber it is lost.
LEMMA RelayOnce ==
  ASSUME BusTypes, OnceInv, Relay, UNCHANGED <<server, cli>>
  PROVE  OnceInv' /\ Sourced
<1> DEFINE m == Head(toRelay)
           n == m.req
<1>1. toRelay # <<>> /\ toRelay \in Seq(Relays) /\ toCli \in Seq(Backs)
  BY DEF Relay, BusTypes
<1>2. /\ m \in Relays /\ RelayLoad[m] \subseteq In(toRelay, RelayLoad)
      /\ In(Tail(toRelay), RelayLoad) \subseteq In(toRelay, RelayLoad)
      /\ Once(Tail(toRelay), RelayLoad)
      /\ \A r \in RelayLoad[m], q \in In(Tail(toRelay), RelayLoad) : r.id # q.id
  BY <1>1, OnceTail DEF OnceInv, LinesOnce
<1>3. n \in Request /\ RelayLoad[m] = {n} BY <1>2, LoadFacts DEF Relays
<1>4. /\ toRelay' = Tail(toRelay) /\ RelayMessage(m)
      /\ UNCHANGED <<fromCli, calls, Holding, shown>>
  BY DEF Relay, server, cli, Holding
<1>5. /\ At'["relay"] \subseteq At["relay"] /\ At'["sent"] = At["sent"] /\ At'["call"] = At["call"]
      /\ At'["held"] = At["held"] /\ At'["shown"] = At["shown"]
      /\ n \in At["relay"] /\ \A r \in At'["relay"] : r.id # n.id
  BY <1>2, <1>3, <1>4, AtIs, AtNext
<1>6. /\ "relay" \in Places \ {"shown"} /\ "peer" \in Places \ {"shown"}
      /\ "back" \in Places \ {"shown"}
  BY DEF Places
<1>7. CASE m.topic = "cli"
  <2>1. Forward(n) /\ toCli' = toCli BY <1>4, <1>7 DEF RelayMessage
  <2> HIDE DEF m, n
  <2>2. At'["back"] = At["back"] BY <2>1, AtIs, AtNext
  <2>3. LinesOnce' BY <1>2, <1>4, <2>1 DEF OnceInv, LinesOnce
  <2>4. CASE n.vip \notin DOMAIN toPeer
    <3>1. toPeer' = toPeer BY <2>1, <2>4 DEF Forward
    <3>2. PeersOnce' /\ At'["peer"] = At["peer"] BY <3>1, AtIs, AtNext DEF OnceInv, PeersOnce
    <3>3. \A c \in Places : At'[c] \subseteq At[c] BY <1>5, <2>2, <3>2, EachPlace
    <3> QED BY <2>3, <3>2, <3>3, NoneMove DEF OnceInv
  <2>5. CASE n.vip \in DOMAIN toPeer
    <3> DEFINE v == n.vip
               q == toPeer[v]
               g == RequestLoad
    <3>1. q \in Seq(Request) /\ v \in DOMAIN toPeer BY <2>5 DEF BusTypes
    <3>2. toPeer' = [toPeer EXCEPT ![v] = Append(q, n)] BY <2>1, <2>5 DEF Forward
    <3>3. DOMAIN toPeer' = DOMAIN toPeer /\ toPeer'[v] = Append(q, n)
          /\ \A w \in DOMAIN toPeer : w # v => toPeer'[w] = toPeer[w]
      BY <3>1, <3>2
    <3>4. g[n] = {n} BY <1>3, LoadFacts DEF n, m
    <3>5. In(toPeer'[v], g) = In(q, g) \cup {n}
      BY <1>3, <3>1, <3>3, <3>4, OnceAppend DEF n, m
    <3>6. \A r \in At["peer"] : r.id # n.id BY <1>5, <1>6 DEF OnceInv, Apart
    <3>7. ASSUME NEW w \in DOMAIN toPeer, NEW r \in In(toPeer[w], g) PROVE r.id # n.id
      <4>1. r \in At["peer"] BY AtIs
      <4> QED BY <3>6, <4>1
    <3>8. Once(toPeer'[v], g)
      <4>1. Once(q, g) BY <3>1 DEF OnceInv, PeersOnce
      <4>2. \A r \in In(q, g), x \in g[n] : r.id # x.id BY <3>1, <3>4, <3>7
      <4> QED BY <1>3, <3>1, <3>3, <4>1, <4>2, OnceAppend DEF n, m
    <3>9. At'["peer"] \subseteq At["peer"] \cup {n}
      <4> SUFFICES ASSUME NEW r \in At'["peer"], r # n PROVE r \in At["peer"] OBVIOUS
      <4>1. PICK w \in DOMAIN toPeer' : r \in In(toPeer'[w], g) BY AtNext
      <4>2. r \in In(toPeer[w], g) BY <3>3, <3>5, <4>1
      <4> QED BY <3>3, <4>1, <4>2, AtIs
    <3> HIDE DEF q, v, g
    <3>10. PeersOnce'
      <4>1. \A w \in DOMAIN toPeer' : Once(toPeer'[w], g)
        BY <3>3, <3>8 DEF OnceInv, PeersOnce, g
      <4>2. ASSUME NEW w \in DOMAIN toPeer', NEW x \in DOMAIN toPeer',
                   NEW r \in In(toPeer'[w], g), NEW y \in In(toPeer'[x], g), r.id = y.id
            PROVE  w = x
        <5>1. w = v => r = n \/ r \in In(toPeer[w], g) BY <3>5 DEF q
        <5>2. w # v => r \in In(toPeer[w], g) BY <3>3
        <5>3. x = v => y = n \/ y \in In(toPeer[x], g) BY <3>5 DEF q
        <5>4. x # v => y \in In(toPeer[x], g) BY <3>3
        <5>5. w \in DOMAIN toPeer /\ x \in DOMAIN toPeer BY <3>3
        <5>6. CASE r \in In(toPeer[w], g) /\ y \in In(toPeer[x], g)
          BY <4>2, <5>5, <5>6 DEF OnceInv, PeersOnce, g
        <5>7. CASE r = n /\ w = v BY <3>7, <4>2, <5>3, <5>4, <5>5, <5>7
        <5>8. CASE y = n /\ x = v BY <3>7, <4>2, <5>1, <5>2, <5>5, <5>8
        <5> QED BY <5>1, <5>2, <5>3, <5>4, <5>6, <5>7, <5>8
      <4> QED BY <4>1, <4>2 DEF PeersOnce, g
    <3>11. \A c \in Places : c # "peer" => At'[c] \subseteq At[c] BY <1>5, <2>2, EachPlace
    <3> QED BY <1>5, <1>6, <2>3, <3>9, <3>10, <3>11, OneMove DEF OnceInv
  <2> QED BY <2>4, <2>5
<1>8. CASE m.topic # "cli"
  <2> DEFINE a == [topic |-> "cli_resp", msg |-> n]
             one == <<a>>
  <2>1. Return(n) /\ toPeer' = toPeer BY <1>4, <1>8 DEF RelayMessage
  <2>2. a \in Backs /\ BackLoad[a] = {n}
    <3>1. a \in Backs BY <1>3 DEF Backs
    <3> QED BY <3>1, LoadFacts
  <2>3. one \in Seq(Backs) /\ In(one, BackLoad) = {n} /\ Once(one, BackLoad)
    BY <2>2, OnceOne
  <2>4. toCli' \in {toCli, toCli \o <<>>, toCli \o one} BY <2>1 DEF Return, SendToCli
  <2> HIDE DEF m, n, a, one
  <2>5. toCli \o <<>> = toCli BY <1>1, ConcatEmptySeq
  <2>6. PeersOnce' /\ At'["peer"] = At["peer"] BY <2>1, AtIs, AtNext DEF OnceInv, PeersOnce
  <2>7. CASE toCli' = toCli
    <3>1. LinesOnce' BY <1>2, <1>4, <2>7 DEF OnceInv, LinesOnce
    <3>2. At'["back"] = At["back"] BY <2>7, AtIs, AtNext
    <3>3. \A c \in Places : At'[c] \subseteq At[c] BY <1>5, <2>6, <3>2, EachPlace
    <3> QED BY <2>6, <3>1, <3>3, NoneMove DEF OnceInv
  <2>8. CASE toCli' = toCli \o one
    <3>1. \A r \in At["back"] : r.id # n.id BY <1>5, <1>6 DEF OnceInv, Apart
    <3>2. At'["back"] = At["back"] \cup {n} BY <1>1, <2>3, <2>8, OnceConcat, AtIs, AtNext
    <3>3. Once(toCli', BackLoad)
      <4>1. \A r \in In(toCli, BackLoad), x \in In(one, BackLoad) : r.id # x.id
        BY <2>3, <3>1, AtIs
      <4>2. Once(toCli, BackLoad) BY DEF OnceInv, LinesOnce
      <4> QED BY <1>1, <2>3, <2>8, <4>1, <4>2, OnceConcat
    <3>4. LinesOnce' BY <1>2, <1>4, <3>3 DEF OnceInv, LinesOnce
    <3>5. \A c \in Places : c # "back" => At'[c] \subseteq At[c] BY <1>5, <2>6, EachPlace
    <3> QED BY <1>5, <1>6, <2>6, <3>2, <3>4, <3>5, OneMove DEF OnceInv
  <2> QED BY <2>4, <2>5, <2>7, <2>8
<1> QED BY <1>7, <1>8

LEMMA OnceKept ==
  ASSUME OnceInv, UNCHANGED <<fromCli, toRelay, toPeer, calls, toCli, Holding, shown>>
  PROVE  OnceInv' /\ Sourced
<1>1. LinesOnce' /\ PeersOnce' BY DEF OnceInv, LinesOnce, PeersOnce
<1>2. \A c \in Places : At'[c] \subseteq At[c] BY AtIs, AtNext, EachPlace
<1> QED BY <1>1, <1>2, NoneMove DEF OnceInv

\* A peer that goes takes its subscription and what was queued on it along;
\* announcements carry no request.
LEMMA ReadOnce ==
  ASSUME BusTypes, ServerTypes, OnceInv, HandleRead, UNCHANGED cli
  PROVE  OnceInv' /\ Sourced
<1>1. UNCHANGED <<calls, Holding, shown>> BY DEF HandleRead, cli, Holding
<1>2. ASSUME bus' = bus PROVE OnceInv' /\ Sourced
  BY <1>1, <1>2, OnceKept DEF bus
<1>3. ASSUME NEW now, ReadStats(now) PROVE OnceInv' /\ Sourced
  <2> DEFINE came == Connected(polled \ active)
             gone == active \ polled
             up == Events(came, TRUE)
             down == Events(gone, FALSE)
             out == up \o down
  <2>1. /\ Disconnected(gone) /\ Announce(came, gone)
        /\ UNCHANGED <<cliUp, subs, fromCli, toRelay>>
    BY <1>3 DEF ReadStats
  <2>2. came \subseteq Vips /\ gone \subseteq Vips BY DEF Connected, ServerTypes
  <2>3. /\ up \in Seq(Backs) /\ down \in Seq(Backs)
        /\ \A i \in 1..Len(up) : \E v \in came : up[i] = EventOf(v, TRUE)
        /\ \A i \in 1..Len(down) : \E v \in gone : down[i] = EventOf(v, FALSE)
    BY <2>2, EventsFacts
  <2>4. \A v \in Vips, b \in BOOLEAN : BackLoad[EventOf(v, b)] = {}
    <3> SUFFICES ASSUME NEW v \in Vips, NEW b \in BOOLEAN PROVE BackLoad[EventOf(v, b)] = {}
      OBVIOUS
    <3>1. EventOf(v, b) \in Backs BY DEF EventOf, Event, Backs
    <3>2. EventOf(v, b).topic = "clients" BY DEF EventOf
    <3> QED BY <3>1, <3>2, LoadFacts
  <2>5. toCli' \in {toCli, toCli \o out} BY <2>1 DEF Announce, SendToCli
  <2> HIDE DEF came, gone, up, down, out
  <2>6. In(up, BackLoad) = {} /\ Once(up, BackLoad)
    BY <2>2, <2>3, <2>4, OnceSilent
  <2>7. In(down, BackLoad) = {} /\ Once(down, BackLoad)
    BY <2>2, <2>3, <2>4, OnceSilent
  <2>8. out \in Seq(Backs) /\ In(out, BackLoad) = {} /\ Once(out, BackLoad)
    BY <2>3, <2>6, <2>7, OnceConcat DEF out
  <2>9. In(toCli', BackLoad) = In(toCli, BackLoad) /\ Once(toCli', BackLoad)
    <3>1. toCli \in Seq(Backs) BY DEF BusTypes
    <3>2. Once(toCli, BackLoad) BY DEF OnceInv, LinesOnce
    <3> DEFINE both == toCli \o out
    <3>3. out \in Seq(Backs) BY <2>8
    <3>4. /\ In(both, BackLoad) = In(toCli, BackLoad) \cup In(out, BackLoad)
          /\ /\ Once(toCli, BackLoad) /\ Once(out, BackLoad)
             /\ \A r \in In(toCli, BackLoad), q \in In(out, BackLoad) : r.id # q.id
             => Once(both, BackLoad)
      BY <3>3, <3>1, OnceConcat
    <3> HIDE DEF both
    <3>5. In(both, BackLoad) = In(toCli, BackLoad) /\ Once(both, BackLoad)
      BY <2>8, <3>2, <3>4
    <3>6. toCli' = toCli \/ toCli' = both BY <2>5 DEF both
    <3> QED BY <3>2, <3>5, <3>6
  <2>10. LinesOnce' BY <2>1, <2>9 DEF OnceInv, LinesOnce
  <2>11. \A v \in DOMAIN toPeer' : v \in DOMAIN toPeer /\ toPeer'[v] = toPeer[v]
    BY <2>1 DEF Disconnected, MapErase, Restrict
  <2>12. PeersOnce' /\ At'["peer"] \subseteq At["peer"]
    <3>1. PeersOnce BY DEF OnceInv
    <3>2. \A v \in DOMAIN toPeer' :
            /\ Once(toPeer'[v], RequestLoad)
            /\ IF v \in DOMAIN toPeer
               THEN In(toPeer'[v], RequestLoad) \subseteq In(toPeer[v], RequestLoad)
               ELSE In(toPeer'[v], RequestLoad) = {}
      BY <2>11, <3>1 DEF PeersOnce
    <3> QED BY <3>1, <3>2, PeersKept
  <2>13. \A c \in Places : At'[c] \subseteq At[c]
    BY <1>1, <2>1, <2>9, <2>12, AtIs, AtNext, EachPlace
  <2> QED BY <2>10, <2>12, <2>13, NoneMove DEF OnceInv
<1>4. ReadTitle => bus' = bus BY DEF ReadTitle
<1>5. \A v \in Vips : ReadRow(v) => bus' = bus BY DEF ReadRow
<1> QED BY <1>2, <1>3, <1>4, <1>5 DEF HandleRead, ParseMgmtLine

\* on_mqtt_message: the request leaves the subscription for a call.
LEMMA CallOnce ==
  ASSUME BusTypes, OnceInv, NEW v \in Vips, OnMqttMessage(v), UNCHANGED cli
  PROVE  OnceInv' /\ Sourced
<1> DEFINE q == toPeer[v]
           n == Head(q)
           g == RequestLoad
<1>1. v \in DOMAIN toPeer /\ q # <<>> /\ q \in Seq(Request)
  BY DEF OnMqttMessage, BusTypes
<1>2. Once(q, g) BY <1>1 DEF OnceInv, PeersOnce
<1>3. /\ n \in Request /\ Tail(q) \in Seq(Request)
      /\ g[n] \subseteq In(q, g) /\ In(Tail(q), g) \subseteq In(q, g) /\ Once(Tail(q), g)
      /\ \A r \in g[n], x \in In(Tail(q), g) : r.id # x.id
  BY <1>1, <1>2, OnceTail
<1>4. g[n] = {n} BY <1>3, LoadFacts
<1>5. /\ calls' = calls \cup {n} /\ toPeer' = [toPeer EXCEPT ![v] = Tail(q)]
      /\ UNCHANGED <<fromCli, toRelay, toCli, Holding, shown>>
  BY DEF OnMqttMessage, cli, Holding
<1>6. DOMAIN toPeer' = DOMAIN toPeer /\ toPeer'[v] = Tail(q)
      /\ \A w \in DOMAIN toPeer : w # v => toPeer'[w] = toPeer[w]
  BY <1>1, <1>5
<1>7. n \in At["peer"] BY <1>1, <1>3, <1>4, AtIs
<1>8. PeersOnce' /\ At'["peer"] \subseteq At["peer"]
  <2>1. PeersOnce BY DEF OnceInv
  <2>2. \A w \in DOMAIN toPeer' :
          /\ Once(toPeer'[w], RequestLoad)
          /\ IF w \in DOMAIN toPeer
             THEN In(toPeer'[w], RequestLoad) \subseteq In(toPeer[w], RequestLoad)
             ELSE In(toPeer'[w], RequestLoad) = {}
    BY <1>3, <1>6, <2>1 DEF PeersOnce
  <2> QED BY <2>1, <2>2, PeersKept
<1> HIDE DEF n, q
<1>9. \A r \in At'["peer"] : r.id # n.id
  <2> SUFFICES ASSUME NEW w \in DOMAIN toPeer', NEW r \in In(toPeer'[w], g) PROVE r.id # n.id
    BY AtNext
  <2>1. CASE w = v BY <1>3, <1>4, <1>6, <2>1
  <2>2. CASE w # v
    <3>1. w \in DOMAIN toPeer /\ r \in In(toPeer[w], g) BY <1>6, <2>2
    <3>2. n \in In(toPeer[v], g) BY <1>3, <1>4 DEF q
    <3> QED BY <1>1, <2>2, <3>1, <3>2 DEF OnceInv, PeersOnce
  <2> QED BY <2>1, <2>2
<1>10. LinesOnce' BY <1>5 DEF OnceInv, LinesOnce
<1>11. At'["call"] = At["call"] \cup {n} BY <1>5, AtIs, AtNext
<1>12. \A c \in Places : c # "call" => At'[c] \subseteq At[c]
  BY <1>5, <1>8, AtIs, AtNext, EachPlace
<1>13. "peer" \in Places \ {"shown"} /\ "call" \in Places \ {"shown"} BY DEF Places
<1> QED BY <1>7, <1>8, <1>9, <1>10, <1>11, <1>12, <1>13, OneMove DEF OnceInv

\* The callback of a call: its outcome goes to the relay, once.
LEMMA DoneOnce ==
  ASSUME BusTypes, ServerTypes, OnceInv, NEW n \in calls, CallDone(n), UNCHANGED cli
  PROVE  OnceInv' /\ Sourced
<1> DEFINE m == [topic |-> "resp", req |-> n]
<1>1. n \in Request /\ m \in Relays /\ m.req = n BY DEF ServerTypes, Relays
<1>2. RelayLoad[m] = {n} BY <1>1, LoadFacts
<1>3. /\ calls' = calls \ {n}
      /\ toRelay' \in {Append(toRelay, m), toRelay}
      /\ UNCHANGED <<fromCli, toPeer, toCli, Holding, shown>>
  BY DEF CallDone, cli, Holding
<1> HIDE DEF m
<1>4. toRelay \in Seq(Relays) BY DEF BusTypes
<1>5. PeersOnce' BY <1>3 DEF OnceInv, PeersOnce
<1>6. "call" \in Places \ {"shown"} /\ "relay" \in Places \ {"shown"} BY DEF Places
<1>7. n \in At["call"] /\ \A r \in At'["call"] : r.id # n.id
  <2>1. \A r \in calls : r.id = n.id => r = n BY <1>6, AtIs DEF OnceInv, Apart
  <2> QED BY <1>3, <2>1, AtIs, AtNext
<1>8. \A c \in Places : c # "relay" => At'[c] \subseteq At[c]
  BY <1>3, AtIs, AtNext, EachPlace
<1>9. CASE toRelay' = toRelay
  <2>1. LinesOnce' BY <1>3, <1>9 DEF OnceInv, LinesOnce
  <2>2. \A c \in Places : At'[c] \subseteq At[c] BY <1>8, <1>9, AtIs, AtNext
  <2> QED BY <1>5, <2>1, <2>2, NoneMove DEF OnceInv
<1>10. CASE toRelay' = Append(toRelay, m)
  <2>1. \A r \in At["relay"] : r.id # n.id BY <1>6, <1>7 DEF OnceInv, Apart
  <2>2. At'["relay"] = At["relay"] \cup {n} BY <1>1, <1>2, <1>4, <1>10, OnceAppend, AtIs, AtNext
  <2>3. Once(toRelay', RelayLoad)
    <3>1. Once(toRelay, RelayLoad) BY DEF OnceInv, LinesOnce
    <3>2. \A r \in In(toRelay, RelayLoad), x \in RelayLoad[m] : r.id # x.id
      BY <1>2, <2>1, AtIs
    <3> QED BY <1>1, <1>4, <1>10, <3>1, <3>2, OnceAppend
  <2>4. LinesOnce' BY <1>3, <2>3 DEF OnceInv, LinesOnce
  <2> QED BY <1>5, <1>6, <1>7, <1>8, <2>2, <2>4, OneMove DEF OnceInv
<1> QED BY <1>3, <1>9, <1>10

LEMMA ServerOnce ==
  ASSUME BusTypes, ServerTypes, OnceInv, ServerNext, UNCHANGED cli
  PROVE  OnceInv' /\ Sourced
<1>1. UNCHANGED <<Holding, shown>> BY DEF cli, Holding
<1>2. ASSUME UNCHANGED <<bus, calls>> PROVE OnceInv' /\ Sourced
  BY <1>1, <1>2, OnceKept DEF bus
<1>3. ASSUME NEW v \in Vips, TableChanges(v) PROVE OnceInv' /\ Sourced
  BY <1>2, <1>3 DEF TableChanges
<1>4. CASE HandleConnect \/ HandleTimeout \/ HandleClose
  BY <1>2, <1>4 DEF HandleConnect, HandleTimeout, HandleClose
<1>5. ASSUME PeersOnce, LinesOnce', NEW v, DOMAIN toPeer' \subseteq DOMAIN toPeer \cup {v},
             \A w \in DOMAIN toPeer' : toPeer'[w] = <<>> \/
               (w \in DOMAIN toPeer /\ toPeer'[w] = toPeer[w]),
             calls' \subseteq calls, UNCHANGED <<fromCli, toRelay, toCli>>
      PROVE  OnceInv' /\ Sourced
  <2>1. In(<<>>, RequestLoad) = {} /\ Once(<<>>, RequestLoad)
    <3>1. Len(<<>>) = 0 BY EmptySeq
    <3> QED BY <3>1, OnceSilent
  <2>2. \A w \in DOMAIN toPeer' :
          /\ Once(toPeer'[w], RequestLoad)
          /\ IF w \in DOMAIN toPeer
             THEN In(toPeer'[w], RequestLoad) \subseteq In(toPeer[w], RequestLoad)
             ELSE In(toPeer'[w], RequestLoad) = {}
    BY <1>5, <2>1 DEF PeersOnce
  <2>3. PeersOnce' /\ At'["peer"] \subseteq At["peer"] BY <1>5, <2>2, PeersKept
  <2>4. \A c \in Places : At'[c] \subseteq At[c]
    BY <1>1, <1>5, <2>3, AtIs, AtNext, EachPlace
  <2> QED BY <1>5, <2>3, <2>4, NoneMove DEF OnceInv
<1>6. ASSUME NEW v \in Vips, PeerSubscribes(v) PROVE OnceInv' /\ Sourced
  <2>1. /\ toPeer' = MapPut(toPeer, v, <<>>) /\ calls' = calls
        /\ UNCHANGED <<fromCli, toRelay, toCli>>
    BY <1>6 DEF PeerSubscribes, server
  <2>2. DOMAIN toPeer' = DOMAIN toPeer \cup {v}
        /\ \A w \in DOMAIN toPeer' : toPeer'[w] = IF w = v THEN <<>> ELSE toPeer[w]
    BY <2>1 DEF MapPut
  <2>3. LinesOnce' /\ PeersOnce BY <2>1 DEF OnceInv, LinesOnce
  <2>4. \A w \in DOMAIN toPeer' : toPeer'[w] = <<>> \/
          (w \in DOMAIN toPeer /\ toPeer'[w] = toPeer[w])
    BY <2>2
  <2> QED BY <1>5, <2>1, <2>2, <2>3, <2>4
<1>7. CASE Restart
  <2>1. toPeer' = EmptyMap /\ calls' = {} /\ UNCHANGED <<fromCli, toRelay, toCli>>
    BY <1>7 DEF Restart, Fresh
  <2>2. DOMAIN toPeer' = {} BY <2>1 DEF EmptyMap
  <2>3. LinesOnce' /\ PeersOnce BY <2>1 DEF OnceInv, LinesOnce
  <2>4. \A w \in DOMAIN toPeer' : toPeer'[w] = <<>> \/
          (w \in DOMAIN toPeer /\ toPeer'[w] = toPeer[w])
    BY <2>2
  <2> QED BY <1>5, <2>1, <2>2, <2>3, <2>4
<1> QED BY <1>3, <1>4, <1>6, <1>7, CallOnce, DoneOnce, ReadOnce DEF ServerNext

\* on_message: an answer becomes the one the command holds, in the place of
\* another that it may have held.
LEMMA LoopOnce ==
  ASSUME BusTypes, OnceInv, Loop, UNCHANGED server
  PROVE  OnceInv' /\ Sourced
<1> DEFINE m == Head(toCli)
           n == m.msg
<1>1. toCli # <<>> /\ toCli \in Seq(Backs) BY DEF Loop, BusTypes
<1>2. /\ m \in Backs /\ BackLoad[m] \subseteq In(toCli, BackLoad)
      /\ In(Tail(toCli), BackLoad) \subseteq In(toCli, BackLoad)
      /\ Once(Tail(toCli), BackLoad)
      /\ \A r \in BackLoad[m], q \in In(Tail(toCli), BackLoad) : r.id # q.id
  BY <1>1, OnceTail DEF OnceInv, LinesOnce
<1>3. /\ toCli' = Tail(toCli) /\ OnMessage(m)
      /\ UNCHANGED <<fromCli, toRelay, toPeer, calls, shown, phase>>
  BY DEF Loop, server
<1> HIDE DEF m
<1>4. LinesOnce' /\ PeersOnce' BY <1>2, <1>3 DEF OnceInv, LinesOnce, PeersOnce
<1>5. \A c \in Places : c # "held" => At'[c] \subseteq At[c]
  BY <1>2, <1>3, AtIs, AtNext, EachPlace
<1>6. CASE m.topic = "clients"
  <2>1. resp' = resp BY <1>3, <1>6 DEF OnMessage, OnLifecycle
  <2>2. Holding' = Holding BY <1>3, <2>1 DEF Holding
  <2>3. \A c \in Places : At'[c] \subseteq At[c] BY <1>5, <2>2, AtIs, AtNext
  <2> QED BY <1>4, <2>3, NoneMove DEF OnceInv
<1>7. CASE m.topic # "clients"
  <2>1. m.topic = "cli_resp" BY <1>2, <1>7 DEF Backs
  <2>2. BackLoad[m] = {n} BY <1>2, <2>1, LoadFacts
  <2>3. resp' = n BY <1>3, <1>7 DEF OnMessage, OnAnswer
  <2>4. Holding' \subseteq {n} BY <2>3 DEF Holding
  <2>5. "back" \in Places \ {"shown"} /\ "held" \in Places \ {"shown"} BY DEF Places
  <2>6. n \in At["back"] /\ \A r \in At'["back"] : r.id # n.id
    BY <1>2, <1>3, <2>2, AtIs, AtNext
  <2>7. At'["held"] \subseteq At["held"] \cup {n} BY <2>4, AtNext
  <2> HIDE DEF n
  <2> QED BY <1>4, <1>5, <2>5, <2>6, <2>7, OneMove DEF OnceInv
<1> QED BY <1>6, <1>7

\* The program starts, leaves, or loses its session.
LEMMA LeaveOnce ==
  ASSUME BusTypes, OnceInv, Start \/ Quit \/ KeepaliveExpires, UNCHANGED server
  PROVE  OnceInv' /\ Sourced
<1>1. In(<<>>, PacketLoad) = {} /\ Once(<<>>, PacketLoad)
      /\ In(<<>>, BackLoad) = {} /\ Once(<<>>, BackLoad)
  <2>1. Len(<<>>) = 0 BY EmptySeq
  <2> QED BY <2>1, OnceSilent
<1>2. /\ Holding' = {}
      /\ UNCHANGED <<toRelay, toPeer, calls, shown>>
      /\ fromCli' \in {fromCli, <<>>}
  BY DEF Start, Quit, KeepaliveExpires, BrokerDropsCli, Holding, server
<1>3. toCli' \in {toCli, <<>>} \/ (In(toCli', BackLoad) = {} /\ Once(toCli', BackLoad))
  <2>1. CASE Quit \/ KeepaliveExpires BY <2>1 DEF Quit, KeepaliveExpires
  <2>2. CASE Start
    <3>1. PICK early \in SUBSET retained : toCli' = Events(retained \ early, TRUE)
      BY <2>2 DEF Start
    <3> DEFINE late == retained \ early
               out == Events(late, TRUE)
    <3>2. late \in SUBSET Vips BY DEF BusTypes
    <3>3. out \in Seq(Backs) /\ \A i \in 1..Len(out) : \E v \in late : out[i] = EventOf(v, TRUE)
      <4> HIDE DEF late
      <4> QED BY <3>2, EventsFacts
    <3> HIDE DEF out
    <3>4. ASSUME NEW i \in 1..Len(out) PROVE BackLoad[out[i]] = {}
      <4>1. PICK v \in late : out[i] = EventOf(v, TRUE) BY <3>3
      <4>2. out[i] \in Backs BY <3>3, ElementOfSeq
      <4>3. out[i].topic = "clients" BY <4>1 DEF EventOf
      <4> QED BY <4>2, <4>3, LoadFacts
    <3>5. In(out, BackLoad) = {} /\ Once(out, BackLoad) BY <3>4, OnceSilent
    <3> QED BY <3>1, <3>5 DEF out
  <2> QED BY <2>1, <2>2
<1>4. /\ In(toCli', BackLoad) \subseteq In(toCli, BackLoad) /\ Once(toCli', BackLoad)
      /\ In(fromCli', PacketLoad) \subseteq In(fromCli, PacketLoad) /\ Once(fromCli', PacketLoad)
  BY <1>1, <1>2, <1>3 DEF OnceInv, LinesOnce
<1>5. LinesOnce' /\ PeersOnce' BY <1>2, <1>4 DEF OnceInv, LinesOnce, PeersOnce
<1>6. \A c \in Places : At'[c] \subseteq At[c]
  BY <1>2, <1>4, AtIs, AtNext, EachPlace
<1> QED BY <1>5, <1>6, NoneMove DEF OnceInv

\* Steps that move requests without ending or beginning a command.
LEMMA FatesKept ==
  ASSUME Fates, Sourced, UNCHANGED <<cur, unanswered, shown>>,
         phase' = "waiting" <=> phase = "waiting", spent'.commands = spent.commands
  PROVE  Fates'
<1>1. \A r : Fate(r) => Fate(r)' BY DEF Fate
<1>2. \A c \in Places \ {"shown"} : \A r \in At'[c] : Fate(r)' BY <1>1 DEF Sourced, Fates
<1> QED BY <1>2 DEF Fates

LEMMA ReuseKept ==
  ASSUME AnswersAreNotReused, shown' = shown, unanswered \subseteq unanswered'
  PROVE  AnswersAreNotReused'
BY DEF AnswersAreNotReused

\* Every number given out is at most that of the last command.
LEMMA NumbersBounded ==
  ASSUME Fates, CliTypeOK, NEW c \in Places, NEW r \in At[c]
  PROVE  r.id \in 1..spent.commands
<1>1. CASE c # "shown" BY <1>1 DEF Fates, Fate
<1>2. CASE c = "shown" BY <1>2, AtIs DEF Fates
<1> QED BY <1>1, <1>2

\* mqtt_gnmi_publish: a request with a new number.
LEMMA CommandOnce ==
  ASSUME BusTypes, CliTypeOK, OnceInv, Fates, AnswersAreNotReused,
         NEW v \in Vips, Command(v), UNCHANGED server
  PROVE  OnceInv' /\ Fates' /\ AnswersAreNotReused'
<1> DEFINE k == spent.commands
<1>1. PICK n : n = [id |-> k + 1, vip |-> v] OBVIOUS
<1>2. /\ k \in Nat /\ spent'.commands = k + 1 /\ phase = "prompt"
  BY SpentFacts DEF Command, NewCommand
<1>3. n \in Request /\ n.id = k + 1 BY <1>1, <1>2 DEF Request
<1>4. /\ UNCHANGED <<toRelay, toPeer, calls, toCli, shown>>
      /\ Publish(n) \/ PublishFails(n)
  BY <1>1 DEF Command, server
<1> DEFINE sub == Packet("subscribe", n)
           pub == Packet("publish", n)
           two == <<sub, pub>>
<1>5. Publish(n) => CliSends(two) /\ phase' = "waiting" /\ cur' = n /\ resp' = NoRequest
                    /\ unanswered' = unanswered
  BY DEF Publish
<1>6. PublishFails(n) => /\ UNCHANGED <<phase, cur, fromCli>>
                         /\ unanswered' = unanswered \cup {n.id}
  BY DEF PublishFails
<1>7. sub \in Packets /\ pub \in Packets /\ PacketLoad[sub] = {} /\ PacketLoad[pub] = {n}
  <2>1. /\ sub \in Packets /\ sub.packet = "subscribe"
        /\ pub \in Packets /\ pub.packet = "publish" /\ pub.req = n
    BY <1>3 DEF Packet, Packets
  <2> HIDE DEF sub, pub
  <2> QED BY <2>1, LoadFacts
<1> HIDE DEF sub, pub
<1>8. two \in Seq(Packets) /\ In(two, PacketLoad) = {n} /\ Once(two, PacketLoad)
  <2> DEFINE one == <<sub>>
  <2>1. one \in Seq(Packets) /\ In(one, PacketLoad) = {} /\ Once(one, PacketLoad)
    BY <1>7, OnceOne
  <2>2. two = Append(one, pub) OBVIOUS
  <2> HIDE DEF one, two
  <2>3. \A r \in In(one, PacketLoad), q \in PacketLoad[pub] : r.id # q.id BY <2>1
  <2> QED BY <1>7, <2>1, <2>2, <2>3, OnceAppend
<1> HIDE DEF two
<1>9. \A c \in Places : \A r \in At[c] : r.id \in 1..k BY NumbersBounded
<1>10. \A c \in Places : \A r \in At[c] : r.id # n.id BY <1>2, <1>3, <1>9
<1>11. Holding' = {} BY <1>2, <1>4, <1>5, <1>6 DEF Holding
<1>12. PeersOnce' BY <1>4 DEF OnceInv, PeersOnce
<1>13. Once(fromCli', PacketLoad) /\ In(fromCli', PacketLoad) \subseteq In(fromCli, PacketLoad) \cup {n}
       /\ (~Publish(n) => In(fromCli', PacketLoad) = In(fromCli, PacketLoad))
  <2>1. fromCli \in Seq(Packets) /\ Once(fromCli, PacketLoad) BY DEF BusTypes, OnceInv, LinesOnce
  <2>2. \A r \in In(fromCli, PacketLoad), q \in In(two, PacketLoad) : r.id # q.id
    <3>1. "sent" \in Places BY DEF Places
    <3> QED BY <1>8, <1>10, <3>1, AtIs
  <2> DEFINE both == fromCli \o two
  <2>3. In(both, PacketLoad) = In(fromCli, PacketLoad) \cup {n} /\ Once(both, PacketLoad)
    BY <1>8, <2>1, <2>2, OnceConcat
  <2>4. fromCli' = fromCli \/ (fromCli' = both /\ Publish(n)) BY <1>4, <1>5, <1>6 DEF CliSends
  <2> HIDE DEF both
  <2> QED BY <2>1, <2>3, <2>4
<1>14. LinesOnce' BY <1>4, <1>13 DEF OnceInv, LinesOnce
<1>15. At'["sent"] \subseteq At["sent"] \cup {n}
       /\ \A c \in Places : c # "sent" => At'[c] \subseteq At[c]
  BY <1>4, <1>11, <1>13, AtIs, AtNext, EachPlace
<1>16. Apart(At')
  <2> DEFINE a == At
             b == At'
  <2>1. "sent" \in Places BY DEF Places
  <2>2. Apart(a) BY DEF OnceInv
  <2>3. \A c \in Places : \A r \in b[c] : r.id = n.id => c = "sent" /\ r = n
    BY <1>10, <1>15
  <2>4. b["sent"] \subseteq a["sent"] \cup {n} /\ \A c \in Places : c # "sent" => b[c] \subseteq a[c]
    BY <1>15
  <2> HIDE DEF a, b
  <2>5. Apart(b) BY <2>1, <2>2, <2>3, <2>4, OneMoves
  <2> QED BY <2>5 DEF b
<1>17. Fates'
  <2>1. /\ \A u \in unanswered : u \in unanswered'
        /\ \A r : r.id \in 1..k => r.id \in 1..(k + 1) /\ r.id # n.id
    BY <1>2, <1>3, <1>5, <1>6, <1>4
  <2>2. ASSUME NEW c \in Places \ {"shown"}, NEW r \in At[c] PROVE Fate(r)'
    <3>1. r.id \in 1..k /\ \E u \in unanswered : u <= r.id BY <1>2 DEF Fates, Fate
    <3>2. phase' = "waiting" => cur'.id = n.id BY <1>2, <1>4, <1>5, <1>6
    <3> QED BY <1>2, <2>1, <3>1, <3>2 DEF Fate
  <2>3. ASSUME n \in At'["sent"] PROVE Fate(n)'
    <3>1. Publish(n)
      <4>1. n \in In(fromCli', PacketLoad) /\ n \notin In(fromCli, PacketLoad)
        <5>1. "sent" \in Places BY DEF Places
        <5> QED BY <1>10, <2>3, <5>1, AtIs, AtNext
      <4> QED BY <1>13, <4>1
    <3>2. phase' = "waiting" /\ cur' = n BY <1>5, <3>1
    <3>3. n.id \in 1..(k + 1) BY <1>2, <1>3
    <3> QED BY <1>2, <3>2, <3>3 DEF Fate
  <2>4. \A c \in Places \ {"shown"} : \A r \in At'[c] : Fate(r)'
    <3> SUFFICES ASSUME NEW c \in Places \ {"shown"}, NEW r \in At'[c] PROVE Fate(r)'
      OBVIOUS
    <3>1. r \in At[c] \/ (r = n /\ c = "sent") BY <1>15
    <3>2. r = n /\ c = "sent" => n \in At'["sent"] OBVIOUS
    <3> QED BY <2>2, <2>3, <3>1, <3>2
  <2>5. \A p \in shown' : p[2].id \in 1..spent'.commands
    BY <1>2, <1>4, <2>1 DEF Fates
  <2>6. phase' = "waiting" => cur' \in Request /\ cur'.id = spent'.commands
    BY <1>2, <1>3, <1>4, <1>5, <1>6
  <2> QED BY <2>4, <2>5, <2>6 DEF Fates
<1>18. AnswersAreNotReused' BY <1>4, <1>5, <1>6, ReuseKept
<1> QED BY <1>12, <1>14, <1>16, <1>17, <1>18 DEF OnceInv

\* A command whose tunnel fails makes no request.
LEMMA TunnelFailsOnce ==
  ASSUME BusTypes, CliTypeOK, OnceInv, Fates, AnswersAreNotReused, TunnelFails,
         UNCHANGED server
  PROVE  OnceInv' /\ Fates' /\ AnswersAreNotReused'
<1> DEFINE k == spent.commands
<1>1. /\ k \in Nat /\ spent'.commands = k + 1 /\ phase = "prompt" /\ phase' = phase
      /\ unanswered' = unanswered \cup {k + 1}
      /\ UNCHANGED <<bus, cur, resp, shown, calls>>
  BY SpentFacts DEF TunnelFails, NewCommand, server
<1>2. UNCHANGED <<fromCli, toRelay, toPeer, calls, toCli, Holding, shown>>
  BY <1>1 DEF bus, Holding
<1>3. OnceInv' /\ Sourced BY <1>2, OnceKept
<1>4. \A n \in 1..k : n \in 1..(k + 1) BY <1>1
<1>5. \A r : Fate(r) => Fate(r)' BY <1>1, <1>4 DEF Fate
<1>6. \A c \in Places \ {"shown"} : \A r \in At'[c] : Fate(r)' BY <1>3, <1>5 DEF Sourced, Fates
<1>7. \A p \in shown' : p[2].id \in 1..spent'.commands BY <1>1, <1>4 DEF Fates
<1>8. Fates' BY <1>1, <1>6, <1>7 DEF Fates
<1> QED BY <1>1, <1>3, <1>8, ReuseKept

\* A command that ends asks the broker to unsubscribe, which is no request.
LEMMA EndOnce ==
  ASSUME BusTypes, OnceInv, EndCommand, cur \in Request, UNCHANGED server
  PROVE  /\ LinesOnce' /\ PeersOnce' /\ Holding' = {}
         /\ \A c \in Places \ {"shown"} : At'[c] \subseteq At[c]
<1>1. /\ phase' = "prompt" /\ CliSends(<<Packet("unsubscribe", cur)>>)
      /\ UNCHANGED <<toRelay, toPeer, toCli, calls>>
  BY DEF EndCommand, server
<1> DEFINE leave == Packet("unsubscribe", cur)
<1>2. leave \in Packets /\ leave.packet = "unsubscribe" BY DEF Packet, Packets
<1> HIDE DEF leave
<1>3. PacketLoad[leave] = {} BY <1>2, LoadFacts
<1> DEFINE both == Append(fromCli, leave)
<1>4. fromCli \in Seq(Packets) /\ Once(fromCli, PacketLoad)
  BY DEF BusTypes, OnceInv, LinesOnce
<1>5. In(both, PacketLoad) = In(fromCli, PacketLoad) /\ Once(both, PacketLoad)
  <2>1. fromCli \in Seq(Packets) /\ leave \in Packets BY <1>2, <1>4
  <2>2. \A r \in In(fromCli, PacketLoad), q \in PacketLoad[leave] : r.id # q.id BY <1>3
  <2>3. /\ In(both, PacketLoad) = In(fromCli, PacketLoad) \cup PacketLoad[leave]
        /\ Once(fromCli, PacketLoad)
             /\ (\A r \in In(fromCli, PacketLoad), q \in PacketLoad[leave] : r.id # q.id)
           => Once(both, PacketLoad)
    BY <2>1, OnceAppend
  <2> HIDE DEF both
  <2> QED BY <1>3, <1>4, <2>2, <2>3
<1>6. fromCli' = fromCli \/ fromCli' = both
  BY <1>1, <1>4, AppendIsConcat DEF CliSends, leave
<1> HIDE DEF both
<1>7. In(fromCli', PacketLoad) = In(fromCli, PacketLoad) /\ Once(fromCli', PacketLoad)
  BY <1>4, <1>5, <1>6
<1>8. LinesOnce' /\ PeersOnce' BY <1>1, <1>7 DEF OnceInv, LinesOnce, PeersOnce
<1>9. Holding' = {} BY <1>1 DEF Holding
<1>10. \A c \in Places \ {"shown"} : At'[c] \subseteq At[c]
  BY <1>1, <1>7, <1>9, AtIs, AtNext, EachPlace
<1> QED BY <1>8, <1>9, <1>10

\* Five seconds without an answer: from now on the request is nobody's.
LEMMA TimeoutOnce ==
  ASSUME BusTypes, CliTypeOK, OnceInv, Fates, AnswersAreNotReused, ResponseTimeout,
         UNCHANGED server
  PROVE  OnceInv' /\ Fates' /\ AnswersAreNotReused'
<1>1. /\ phase = "waiting" /\ phase' = "prompt" /\ EndCommand
      /\ unanswered' = unanswered \cup {cur.id} /\ UNCHANGED <<shown, spent>>
  BY DEF ResponseTimeout, EndCommand
<1>2. cur \in Request /\ cur.id = spent.commands /\ cur.id \in Nat BY <1>1 DEF Fates, Request
<1>3. /\ LinesOnce' /\ PeersOnce' /\ Holding' = {}
      /\ \A c \in Places \ {"shown"} : At'[c] \subseteq At[c]
  BY <1>1, <1>2, EndOnce
<1>4. \A c \in Places : At'[c] \subseteq At[c] BY <1>1, <1>3, AtIs, AtNext
<1>5. OnceInv' BY <1>3, <1>4, NoneMove DEF OnceInv
<1>6. \A c \in Places \ {"shown"} : \A r \in At'[c] : Fate(r)'
  <2> SUFFICES ASSUME NEW c \in Places \ {"shown"}, NEW r \in At'[c] PROVE Fate(r)'
    OBVIOUS
  <2>1. Fate(r) BY <1>4 DEF Fates
  <2>2. r.id \in 1..spent'.commands BY <1>1, <2>1 DEF Fate
  <2>3. \E u \in unanswered' : u <= r.id
    <3>1. CASE r = cur BY <1>1, <1>2, <3>1
    <3>2. CASE r # cur BY <1>1, <2>1, <3>2 DEF Fate
    <3> QED BY <3>1, <3>2
  <2> QED BY <1>1, <2>2, <2>3 DEF Fate
<1>7. Fates' BY <1>1, <1>6 DEF Fates
<1> QED BY <1>1, <1>5, <1>7, ReuseKept

\* The answer held is printed: for the command itself, or for a later one.
LEMMA PrintOnce ==
  ASSUME BusTypes, CliTypeOK, OnceInv, Fates, AnswersAreNotReused, PrintResponse,
         UNCHANGED server
  PROVE  OnceInv' /\ Fates' /\ AnswersAreNotReused'
<1>1. PICK n : n = resp OBVIOUS
<1>2. PICK m : m = cur OBVIOUS
<1>3. /\ phase = "waiting" /\ phase' = "prompt" /\ EndCommand
      /\ resp # NoRequest /\ shown' = shown \cup {<<m, n>>}
      /\ UNCHANGED <<unanswered, spent>>
  BY <1>1, <1>2 DEF PrintResponse, EndCommand, Printed
<1>4. m \in Request /\ m.id = spent.commands /\ m.id \in Nat BY <1>2, <1>3 DEF Fates, Request
<1>5. /\ LinesOnce' /\ PeersOnce' /\ Holding' = {}
      /\ \A c \in Places \ {"shown"} : At'[c] \subseteq At[c]
  BY <1>2, <1>3, <1>4, EndOnce
<1>6. "held" \in Places /\ "shown" \in Places BY DEF Places
<1>7. n \in At["held"] BY <1>1, <1>3, AtIs DEF Holding
<1>8. At'["held"] = {} BY <1>5, AtNext
<1>9. At'["shown"] = At["shown"] \cup {n}
  <2> DEFINE p == <<m, n>>
  <2>1. p[2] = n /\ shown' = shown \cup {p} BY <1>3
  <2> HIDE DEF p
  <2> QED BY <2>1, AtIs, AtNext
<1>10. Apart(At')
  <2> DEFINE a == At
             b == At'
  <2>1. Apart(a) BY DEF OnceInv
  <2>2. /\ n \in a["held"] /\ b["shown"] \subseteq a["shown"] \cup {n}
        /\ \A c \in Places : c # "shown" => b[c] \subseteq a[c]
        /\ \A r \in b["held"] : r.id # n.id
    BY <1>5, <1>7, <1>8, <1>9
  <2> HIDE DEF a, b
  <2>3. Apart(b) BY <1>6, <2>1, <2>2, OneMovesFrom
  <2> QED BY <2>3 DEF b
<1>11. OnceInv' BY <1>5, <1>10 DEF OnceInv
<1>12. Fate(n) BY <1>6, <1>7 DEF Fates
<1>13. n.id \in 1..spent.commands /\ (n = m \/ (n.id < m.id /\ \E u \in unanswered : u <= n.id))
  <2>1. n.id \in 1..spent.commands /\ (n.id = m.id => n = m)
        /\ (n = m \/ \E u \in unanswered : u <= n.id)
    BY <1>2, <1>3, <1>12 DEF Fate
  <2> QED BY <1>4, <2>1
<1>14. AnswersAreNotReused'
  <2>1. \A q \in shown : q[2].id # n.id
    <3> SUFFICES ASSUME NEW q \in shown PROVE q[2].id # n.id OBVIOUS
    <3>1. q[2] \in At["shown"] BY AtIs
    <3> QED BY <1>6, <1>7, <3>1 DEF OnceInv, Apart
  <2> DEFINE new == <<m, n>>
  <2>2. new[1] = m /\ new[2] = n /\ shown' = shown \cup {new} BY <1>3
  <2> HIDE DEF new
  <2>3. \A p, q \in shown' : p[2].id = q[2].id => p = q
    BY <2>1, <2>2 DEF AnswersAreNotReused
  <2>4. \A p \in shown' : \/ p[2] = p[1]
                          \/ p[2].id < p[1].id /\ \E u \in unanswered' : u <= p[2].id
    BY <1>3, <1>13, <2>2 DEF AnswersAreNotReused
  <2> QED BY <2>3, <2>4 DEF AnswersAreNotReused
<1>15. \A c \in Places \ {"shown"} : \A r \in At'[c] : Fate(r)'
  <2> SUFFICES ASSUME NEW c \in Places \ {"shown"}, NEW r \in At'[c] PROVE Fate(r)'
    OBVIOUS
  <2>1. r \in At[c] BY <1>5
  <2>2. Fate(r) BY <2>1 DEF Fates
  <2>3. r.id \in 1..spent.commands /\ (r = m \/ \E u \in unanswered : u <= r.id)
    BY <1>2, <2>2 DEF Fate
  <2>4. r.id # n.id
    <3>1. c # "held" BY <1>8
    <3> QED BY <1>6, <1>7, <2>1, <3>1 DEF OnceInv, Apart
  <2>5. \E u \in unanswered : u <= r.id
    <3>1. CASE r = m
      <4>1. PICK u \in unanswered : u <= n.id BY <1>13, <2>4, <3>1
      <4>2. u \in Nat /\ n.id \in Nat /\ n.id < r.id /\ r.id \in Nat
        <5>1. \A x \in unanswered : x \in Nat BY DEF CliTypeOK
        <5>2. \A x \in 1..spent.commands : x \in Nat OBVIOUS
        <5> QED BY <1>13, <2>3, <2>4, <3>1, <5>1, <5>2
      <4> QED BY <4>1, <4>2
    <3> QED BY <2>3, <3>1
  <2> QED BY <1>3, <2>3, <2>5 DEF Fate
<1>16. \A p \in shown' : p[2].id \in 1..spent'.commands
  <2> DEFINE new == <<m, n>>
  <2>1. new[2] = n /\ shown' = shown \cup {new} BY <1>3
  <2> HIDE DEF new
  <2> QED BY <1>3, <1>13, <2>1 DEF Fates
<1>17. Fates' BY <1>3, <1>15, <1>16 DEF Fates
<1> QED BY <1>11, <1>14, <1>17

LEMMA StepAnswers ==
  ASSUME AnswersInv, [Next]_vars
  PROVE  AnswersInv'
<1>1. BusTypes /\ ServerTypes /\ CliTypeOK /\ PathType'
  BY StepTypes, BusTypesAre, ServerTypesAre DEF AnswersInv, PathType, TypeOK
<1>2. OnceInv /\ Fates /\ AnswersAreNotReused BY DEF AnswersInv
<1>3. ASSUME OnceInv', Sourced, UNCHANGED <<cur, unanswered, shown>>,
             phase' = "waiting" <=> phase = "waiting", spent'.commands = spent.commands
      PROVE  OnceInv' /\ Fates' /\ AnswersAreNotReused'
  BY <1>2, <1>3, FatesKept, ReuseKept
<1>4. ASSUME CliNext /\ UNCHANGED server
      PROVE  OnceInv' /\ Fates' /\ AnswersAreNotReused'
  <2>1. ASSUME ProcessCommand PROVE OnceInv' /\ Fates' /\ AnswersAreNotReused'
    <3>1. (\E v \in Vips : Command(v)) \/ TunnelFails
      BY <2>1 DEF ProcessCommand, GnmiGet, GnmiUpdate, GnmiReplace, GnmiDelete
    <3> QED BY <1>1, <1>2, <1>4, <3>1, CommandOnce, TunnelFailsOnce
  <2>2. ASSUME Start \/ Quit \/ KeepaliveExpires
        PROVE  OnceInv' /\ Fates' /\ AnswersAreNotReused'
    <3>1. OnceInv' /\ Sourced BY <1>1, <1>2, <1>4, <2>2, LeaveOnce
    <3>2. UNCHANGED <<cur, unanswered, shown>> /\ (phase' = "waiting" <=> phase = "waiting")
      BY <2>2 DEF Start, Quit, KeepaliveExpires
    <3>3. spent'.commands = spent.commands
      BY <1>1, <2>2, SpentFacts DEF Start, Quit, KeepaliveExpires
    <3> QED BY <1>3, <3>1, <3>2, <3>3
  <2>3. ASSUME Loop PROVE OnceInv' /\ Fates' /\ AnswersAreNotReused'
    <3>1. OnceInv' /\ Sourced BY <1>1, <1>2, <1>4, <2>3, LoopOnce
    <3>2. UNCHANGED <<cur, unanswered, shown, phase, spent>> BY <2>3 DEF Loop
    <3> QED BY <1>3, <3>1, <3>2
  <2> QED BY <1>1, <1>2, <1>4, <2>1, <2>2, <2>3, PrintOnce, TimeoutOnce DEF CliNext
<1>5. ASSUME UNCHANGED cli, OnceInv', Sourced
      PROVE  OnceInv' /\ Fates' /\ AnswersAreNotReused'
  BY <1>3, <1>5 DEF cli
<1>6. ASSUME ServerNext /\ UNCHANGED cli
      PROVE  OnceInv' /\ Fates' /\ AnswersAreNotReused'
  BY <1>1, <1>2, <1>5, <1>6, ServerOnce
<1>7. ASSUME (BrokerHandlesCli \/ Relay) /\ UNCHANGED <<server, cli>>
      PROVE  OnceInv' /\ Fates' /\ AnswersAreNotReused'
  <2>1. OnceInv' /\ Sourced BY <1>1, <1>2, <1>7, BrokerOnce, RelayOnce
  <2> QED BY <1>5, <1>7, <2>1
<1>8. ASSUME UNCHANGED vars
      PROVE  OnceInv' /\ Fates' /\ AnswersAreNotReused'
  <2>1. UNCHANGED <<fromCli, toRelay, toPeer, calls, toCli, Holding, shown>> /\ UNCHANGED cli
    BY <1>8 DEF vars, bus, server, cli, Holding
  <2> QED BY <1>2, <1>5, <2>1, OnceKept
<1>9. OnceInv' /\ Fates' /\ AnswersAreNotReused' BY <1>4, <1>6, <1>7, <1>8 DEF Next
<1> QED BY <1>1, <1>9 DEF AnswersInv

LEMMA InitAnswers == Init => AnswersInv
<1> SUFFICES ASSUME Init PROVE AnswersInv OBVIOUS
<1>1. /\ fromCli = <<>> /\ toRelay = <<>> /\ toCli = <<>> /\ DOMAIN toPeer = {}
      /\ calls = {} /\ shown = {} /\ Holding = {} /\ phase = "off"
  BY DEF Init, BusInit, CliInit, ServerInit, Fresh, EmptyMap, Holding
<1>2. \A load : In(<<>>, load) = {} /\ Once(<<>>, load)
  <2>1. Len(<<>>) = 0 BY EmptySeq
  <2> QED BY <2>1, OnceSilent
<1>3. \A c \in Places : At[c] = {} BY <1>1, <1>2, AtIs, EachPlace
<1>4. OnceInv BY <1>1, <1>2, <1>3 DEF OnceInv, LinesOnce, PeersOnce, Apart
<1>5. Fates /\ AnswersAreNotReused BY <1>1, <1>3 DEF Fates, AnswersAreNotReused
<1> QED BY <1>4, <1>5, InitTypes DEF AnswersInv

\* No answer is printed for two commands, and none for a command before the
\* one that asked; an answer printed late comes with a command that ended
\* without one (mqtt_gnmi_publish, on_message, relay_msg_cb,
\* on_mqtt_message), for every number of commands, starts, lost sessions and
\* restarts of the supervisor.
THEOREM AnswersOnce == Spec => []AnswersAreNotReused
<1>1. AnswersInv => AnswersAreNotReused BY DEF AnswersInv
<1> QED BY <1>1, InitAnswers, StepAnswers, PTL DEF Spec

=============================================================================

---------------------------- MODULE OpenvpnClient ----------------------------
(***************************************************************************)
(* openvpn_client: runs the openvpn binary, follows its log, writes the    *)
(* status file and forwards the gNMI ports of the virtual address to the   *)
(* gNMI service with iptables rules. One action is one line of the log, an *)
(* event of the openvpn process, or the end of the supervisor.             *)
(***************************************************************************)
EXTENDS Naturals, FiniteSets

CONSTANTS
  Addrs,        \* virtual addresses
  Ports,        \* m_fwd_ports (m_fwd_host is set)
  MaxLog,       \* bound: log lines the supervisor reads in one run
  MaxConnections,  \* bound: times openvpn connects, in all runs
  MaxRuns       \* bound: runs of the supervisor

VARIABLES
  session,    \* the address openvpn has now
  pipe,       \* the openvpn process runs and its log can be read
  vip,        \* m_assigned_ip
  up,         \* m_tunnel_up
  nat,        \* how many DNAT rules there are for an address and a port
  status,     \* the status file
  left,       \* the rules killed runs left and no later run has removed
  spent       \* lines of this run, sessions and runs

ovpn == <<session, pipe, vip, up, nat, status, left, spent>>

NoAddr == ""
ASSUME OpenvpnClientAssumption ==
  /\ NoAddr \notin Addrs
  /\ MaxLog \in Nat /\ MaxConnections \in Nat /\ MaxRuns \in Nat \ {0}

Rules == [Addrs \X Ports -> Nat]
NoRules == [r \in Addrs \X Ports |-> 0]

OvpnTypeOK ==
  /\ {session, vip} \subseteq Addrs \cup {NoAddr}
  /\ {pipe, up} \subseteq BOOLEAN
  /\ {nat, left} \subseteq Rules
  /\ status \in [state : {"none", "Connected"}, ip : Addrs \cup {NoAddr}]
  /\ spent \in [log : 0..MaxLog, sessions : 0..MaxConnections, runs : 0..MaxRuns]

OvpnInit ==
  /\ session = NoAddr
  /\ pipe = TRUE
  /\ vip = NoAddr /\ up = FALSE
  /\ nat = NoRules /\ left = NoRules
  /\ status = [state |-> "none", ip |-> NoAddr]
  /\ spent = [log |-> 0, sessions |-> 0, runs |-> 1]

\* setup_nat, for the ports done: -C looks for the rule, -A appends it only
\* when it is missing.
SetupNatAppends(rules, v, done) ==
  [r \in DOMAIN rules |-> IF r[1] = v /\ r[2] \in done THEN rules[r] + 1 ELSE rules[r]]
SetupNat(rules, v, done) ==
  [r \in DOMAIN rules |-> IF r[1] = v /\ r[2] \in done THEN 1 ELSE rules[r]]

\* teardown_nat: -D removes one rule for each port.
TeardownNat(rules, v) ==
  [r \in DOMAIN rules |-> IF r[1] = v /\ rules[r] > 0 THEN rules[r] - 1 ELSE rules[r]]

-----------------------------------------------------------------------------
(* parse_line.                                                             *)

ReadsLine ==
  /\ pipe /\ spent.log < MaxLog
  /\ spent' = [spent EXCEPT !.log = @ + 1]

\* `Initialization Sequence Completed'. openvpn writes it again whenever it
\* has connected again.
TunnelUp(done) ==
  /\ session # NoAddr
  /\ up' = TRUE
  /\ status' = [state |-> "Connected", ip |-> vip]
  /\ nat' = SetupNat(nat, vip, done)
  /\ UNCHANGED vip

\* A line that carries the address, in one of the five forms. The first
\* address found stays.
FindsVip(found, done) ==
  /\ session # NoAddr /\ found = session
  /\ vip = NoAddr
  /\ vip' = found
  /\ nat' = IF up THEN SetupNat(nat, found, done) ELSE nat
  /\ UNCHANGED <<up, status>>
IgnoresVip ==
  /\ session # NoAddr
  /\ vip # NoAddr
  /\ UNCHANGED <<vip, up, status, nat>>

ParseLine(done) ==
  \/ TunnelUp(done)
  \/ \E v \in Addrs : FindsVip(v, done)
  \/ IgnoresVip

\* handle_read, one line.
OvpnHandleRead ==
  /\ ReadsLine
  /\ ParseLine(Ports)
  /\ UNCHANGED <<session, pipe, left>>

-----------------------------------------------------------------------------
(* The openvpn process, and the end of the supervisor.                     *)

\* openvpn connects, at first or after a ping restart; the server may give it
\* another address.
OvpnConnects(v) ==
  /\ pipe /\ spent.sessions < MaxConnections
  /\ session' = v
  /\ spent' = [spent EXCEPT !.sessions = @ + 1]
  /\ UNCHANGED <<pipe, vip, up, nat, status, left>>

\* The process ends: handle_close logs it, and nothing starts it again.
OvpnExits ==
  /\ pipe
  /\ pipe' = FALSE
  /\ session' = NoAddr
  /\ UNCHANGED <<vip, up, nat, status, left, spent>>

NewRun(rules, remaining) ==
  /\ spent.runs < MaxRuns
  /\ spent' = [spent EXCEPT !.runs = @ + 1, !.log = 0]
  /\ session' = NoAddr /\ pipe' = TRUE
  /\ vip' = NoAddr /\ up' = FALSE
  /\ nat' = rules /\ left' = remaining
  /\ UNCHANGED status

\* ~openvpn_client, and the next run. teardown_nat answers for every rule of
\* the address, those of killed runs included.
Stop ==
  \/ vip = NoAddr /\ NewRun(nat, left)
  \/ /\ vip # NoAddr
     /\ NewRun(TeardownNat(nat, vip),
               [r \in Addrs \X Ports |-> IF r[1] = vip THEN 0 ELSE left[r]])

\* The supervisor is killed, perhaps while setup_nat runs its commands: no
\* destructor runs.
Crash ==
  /\ spent.runs < MaxRuns
  /\ \/ NewRun(nat, nat)
     \/ \E done \in SUBSET Ports :
          /\ pipe /\ session # NoAddr /\ vip # NoAddr
          /\ NewRun(SetupNat(nat, vip, done), SetupNat(nat, vip, done))

OvpnNext ==
  \/ OvpnHandleRead
  \/ \E v \in Addrs : OvpnConnects(v)
  \/ OvpnExits \/ Stop \/ Crash

OvpnSpec == OvpnInit /\ [][OvpnNext]_ovpn

-----------------------------------------------------------------------------
(* Properties.                                                             *)

\* While openvpn runs with the address the supervisor found, and has reported
\* its tunnel up, that address has exactly one rule for every port. No rule is
\* ever doubled: not by the repeated `Completed' of a reconnect, nor by what a
\* killed run left half done (setup_nat's -C). And a rule is there only for
\* the tunnel of this run, or because a run was killed: none outlives a run
\* that ended (~openvpn_client).
\*
\* Of the rules of a child that exited, or that came back with another
\* address, it says only that they are not doubled. The code keeps them until
\* ~openvpn_client; openvpn_client.hpp says they go when the child exits.
NatServesFirstVip ==
  \A r \in Addrs \X Ports :
    /\ up /\ pipe /\ session = vip /\ r[1] = vip => nat[r] = 1
    /\ nat[r] <= 1
    /\ nat[r] > left[r] => up /\ r[1] = vip
=============================================================================

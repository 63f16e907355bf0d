----------------------------- MODULE Management ------------------------------
(***************************************************************************)
(* mgmt_hub and the DialTcc.Subscribe handlers of connected_client: devices *)
(* dial in and open a bidi stream; what the operator types goes down every *)
(* stream as a DeviceRequest, answers and pushes come up and are printed.  *)
(* One action is one command, one message as the gRPC layer dispatches it, *)
(* or the opening and the end of a stream or connection.                   *)
(*                                                                         *)
(* rpc ids are drawn from 48 random bits; here they are numbers never used *)
(* twice. ProbeId stands for "__mgmt_probe__", and NoRpcId, the empty one,  *)
(* is the same number: no answer to a probe is counted or looked up.       *)
(***************************************************************************)
EXTENDS Naturals, FiniteSets, SequencesExt, Maps, Lists

CONSTANTS
  Links,       \* connections; a name is used again for a later connection
  Calls,       \* stream ids of Subscribe calls on a connection
  Devices,     \* device ids, those behind a device that dials in included
  Commands,    \* what the operator types: CLI, gnmi or a file
  MaxSends,    \* bound: commands sent
  MaxLinks,    \* bound: connections
  MaxSessions, \* bound: Subscribe streams opened
  MaxNotifs    \* bound: notifications printed for one rpc id

ASSUME ManagementAssumption == MaxSends \in Nat /\ MaxLinks \in Nat

VARIABLES
  links,       \* the live connections
  sessions,    \* m_sessions
  nextId,      \* m_next_id
  pending,     \* m_pending: rpc id -> command
  m_notif,     \* rpc id -> notifications printed
  stream,      \* streams: "idle", "open", "ended"
  inbox,       \* what the device of a stream was sent: [rpc, cmd]
  told,        \* device ids and identity a stream's device has reported
  audience,    \* rpc id -> streams that were open when it was sent
  printed,     \* the last line printed for a response: the command it names,
               \* and the command that device was sent under this rpc id
  opened       \* connections so far

mgmt == <<links, sessions, nextId, pending, m_notif, stream, inbox, told,
          audience, printed, opened>>

DeviceStreams == Links \X Calls
ProbeId == 0
NoRpcId == 0
NoDevice == ""
NoCommand == "push"
NothingPrinted == [names |-> NoCommand, sent |-> NoCommand]

MgmtInit ==
  /\ links = {}
  /\ sessions = <<>>
  /\ nextId = 0
  /\ pending = EmptyMap /\ audience = EmptyMap
  /\ m_notif = EmptyMap
  /\ stream = [s \in DeviceStreams |-> "idle"]
  /\ inbox = [s \in DeviceStreams |-> <<>>]
  /\ told = [s \in DeviceStreams |-> {}]
  /\ printed = NothingPrinted
  /\ opened = 0

Sends == Cardinality(DOMAIN pending)

MgmtTypeOK ==
  /\ links \subseteq Links
  /\ \A i \in DOMAIN sessions :
       /\ sessions[i].stream \in DeviceStreams /\ sessions[i].id \in 1..nextId
       /\ sessions[i].device \in Devices \cup {NoDevice}
       /\ sessions[i].role \in Devices \cup {NoDevice}
  /\ \A r \in DOMAIN pending : r \in 1..MaxSends /\ pending[r] \in Commands
  /\ \A r \in DOMAIN m_notif : r \in 0..MaxSends /\ m_notif[r] \in Nat \ {0}
  /\ stream \in [DeviceStreams -> {"idle", "open", "ended"}]
  /\ opened \in 0..MaxLinks

-----------------------------------------------------------------------------
(* mgmt_hub.                                                               *)

AddSession(s) ==
  Append(sessions, [stream |-> s, id |-> nextId + 1, device |-> NoDevice, role |-> NoDevice])
RemoveByStreamFirst(c) ==
  LET i == SelectInSeq(sessions, LAMBDA e : e.stream[1] = c)
  IN IF i = 0 THEN sessions ELSE RemoveAt(sessions, i)
RemoveByStream(c) == Keep(sessions, {e \in Range(sessions) : e.stream[1] # c})

\* note_device and set_identity: the session of that connection and stream.
OnSession(list, s, change(_)) ==
  [i \in DOMAIN list |-> IF list[i].stream = s THEN change(list[i]) ELSE list[i]]
NoteDevice(list, s, dev) ==
  IF dev = NoDevice THEN list
  ELSE OnSession(list, s, LAMBDA e : [e EXCEPT !.device = dev])
SetIdentity(list, s, role) ==
  IF role = NoDevice THEN list
  ELSE OnSession(list, s, LAMBDA e : [e EXCEPT !.role = role])

\* gen_rpc_id.
GenRpcIdOfSession == nextId
GenRpcId == Sends + 1

\* stream_send: a stream that ended takes nothing.
Delivered(box, s, msg) == IF stream[s] = "open" THEN [box EXCEPT ![s] = Append(@, msg)] ELSE box

\* send_request, send_device_request: every session, then m_pending.
Broadcast(cmd) ==
  LET rpc == GenRpcId
      sent[i \in 0..Len(sessions)] ==
        IF i = 0 THEN inbox
        ELSE Delivered(sent[i - 1], sessions[i].stream, [rpc |-> rpc, cmd |-> cmd])
  IN /\ inbox' = sent[Len(sessions)]
     /\ pending' = MapPut(pending, rpc, cmd)
     /\ audience' = MapPut(audience, rpc,
                           {s \in DeviceStreams : stream[s] = "open"})

\* command_for.
CommandFor(rpc) == IF rpc \in DOMAIN pending THEN pending[rpc] ELSE NoCommand

\* next_notif.
NextNotif(rpc) ==
  MapPut(m_notif, rpc, IF rpc \in DOMAIN m_notif THEN m_notif[rpc] + 1 ELSE 1)

-----------------------------------------------------------------------------
(* Connections and streams.                                                *)

LinkUp(c) ==
  /\ c \notin links /\ opened < MaxLinks
  /\ links' = links \cup {c}
  /\ opened' = opened + 1
  /\ stream' = [s \in DeviceStreams |-> IF s[1] = c THEN "idle" ELSE stream[s]]
  /\ inbox' = [s \in DeviceStreams |-> IF s[1] = c THEN <<>> ELSE inbox[s]]
  /\ told' = [s \in DeviceStreams |-> IF s[1] = c THEN {} ELSE told[s]]
  /\ UNCHANGED <<sessions, nextId, pending, m_notif, audience, printed>>

\* The open handler: the session, and the probe of the device's identity.
OpenSession(s) ==
  /\ s[1] \in links /\ stream[s] = "idle"
  /\ nextId < MaxSessions
  /\ stream' = [stream EXCEPT ![s] = "open"]
  /\ sessions' = AddSession(s)
  /\ nextId' = nextId + 1
  /\ inbox' = [inbox EXCEPT ![s] = <<[rpc |-> ProbeId, cmd |-> NoCommand]>>]
  /\ UNCHANGED <<links, pending, m_notif, told, audience, printed, opened>>

\* The stream ends or is reset while the connection stays: the hub is not told.
EndOfStream(s) ==
  /\ s[1] \in links /\ stream[s] = "open"
  /\ stream' = [stream EXCEPT ![s] = "ended"]
  /\ UNCHANGED <<links, sessions, nextId, pending, m_notif, inbox, told,
                 audience, printed, opened>>

\* handle_close.
LinkDown(c) ==
  /\ c \in links
  /\ links' = links \ {c}
  /\ sessions' = RemoveByStream(c)
  /\ stream' = [s \in DeviceStreams |-> IF s[1] = c THEN "ended" ELSE stream[s]]
  /\ audience' = [r \in DOMAIN audience |-> {s \in audience[r] : s[1] # c}]
  /\ UNCHANGED <<nextId, pending, m_notif, inbox, told, printed, opened>>

-----------------------------------------------------------------------------
(* A DeviceResponse. A device answers requests it was sent, any number of  *)
(* times (a subscription), or pushes with no rpc id.                       *)

\* The answer to the probe: identity, not printed as a reply.
ProbeAnswer(s, dev, role) ==
  /\ stream[s] = "open"
  /\ sessions' = SetIdentity(NoteDevice(sessions, s, dev), s, role)
  /\ told' = [told EXCEPT ![s] = @ \cup ({dev, role} \ {NoDevice})]
  /\ UNCHANGED <<links, nextId, pending, m_notif, stream, inbox, audience, printed, opened>>

\* An answer or a push: heading, then by type. Only a notification counts.
Response(s, rpc, sent, dev, notification) ==
  /\ stream[s] = "open"
  /\ sessions' = NoteDevice(sessions, s, dev)
  /\ told' = [told EXCEPT ![s] = @ \cup ({dev} \ {NoDevice})]
  /\ printed' = [names |-> CommandFor(rpc), sent |-> sent]
  /\ m_notif' = IF notification THEN NextNotif(rpc) ELSE m_notif
  /\ UNCHANGED <<links, nextId, pending, stream, inbox, audience, opened>>
WithinNotifs(rpc, notification) == notification => NextNotif(rpc)[rpc] <= MaxNotifs
Answer(s, msg, dev, notification) ==
  /\ msg.rpc # ProbeId
  /\ WithinNotifs(msg.rpc, notification)
  /\ Response(s, msg.rpc, msg.cmd, dev, notification)
\* No rpc id: command_for finds nothing, and notifications are counted for all
\* pushes together, those of every device.
Push(s, dev, notification) ==
  /\ WithinNotifs(NoRpcId, notification)
  /\ Response(s, NoRpcId, NoCommand, dev, notification)

\* submit_input, send_gnmi, send_file: nothing is sent without a session.
Command(cmd) ==
  /\ Sends < MaxSends
  /\ sessions # <<>>
  /\ Broadcast(cmd)
  /\ UNCHANGED <<links, sessions, nextId, m_notif, stream, told, printed, opened>>

MgmtNext ==
  \/ \E c \in Links : LinkUp(c) \/ LinkDown(c)
  \/ \E s \in DeviceStreams :
       \/ OpenSession(s) \/ EndOfStream(s)
       \/ \E dev \in Devices \cup {NoDevice} :
            \/ \E role \in Devices \cup {NoDevice} : ProbeAnswer(s, dev, role)
            \/ \E msg \in Range(inbox[s]), n \in BOOLEAN : Answer(s, msg, dev, n)
            \/ \E n \in BOOLEAN : Push(s, dev, n)
  \/ \E cmd \in Commands : Command(cmd)

MgmtSpec == MgmtInit /\ [][MgmtNext]_mgmt

-----------------------------------------------------------------------------
(* Properties.                                                             *)

\* Sessions point into live connections only, one for each stream that was
\* opened on them, with an id of its own; and the device and the identity the
\* prompt shows for a session were reported by the device of that very stream,
\* also when a connection carries several or its name is used again
\* (remove_by_stream, note_device, set_identity).
SessionsAreTheirDevices ==
  /\ \A i \in DOMAIN sessions :
       /\ sessions[i].stream[1] \in links
       /\ {sessions[i].device, sessions[i].role} \subseteq told[sessions[i].stream] \cup {NoDevice}
  /\ \A i, j \in DOMAIN sessions :
       sessions[i].stream = sessions[j].stream \/ sessions[i].id = sessions[j].id => i = j
  /\ \A s \in DeviceStreams :
       stream[s] = "open" => \E i \in DOMAIN sessions : sessions[i].stream = s

\* A command reaches the device of every stream that was open when it was
\* typed, once, and no other; and a line printed for a response names the
\* command that its device was sent under that rpc id, a push none, however
\* late the answer comes and whatever was typed since (send_request,
\* gen_rpc_id, command_for).
RepliesNameTheirCommand ==
  /\ \A r \in DOMAIN pending, s \in DeviceStreams :
       stream[s] = "open" =>
         Cardinality({i \in DOMAIN inbox[s] : inbox[s][i].rpc = r})
           = IF s \in audience[r] THEN 1 ELSE 0
  /\ printed.names = printed.sent
=============================================================================

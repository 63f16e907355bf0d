------------------------------- MODULE Programs -------------------------------
(***************************************************************************)
(* The parts of the system that keep their state to themselves, each as    *)
(* the program that runs it: a behaviour is one program, chosen at the     *)
(* start as main() chooses it by the --mode flag or by the binary.         *)
(***************************************************************************)
EXTENDS Telemetry, Management, OpenvpnClient, FsApp, Completion, Transcript,
        PeerShell

CONSTANT Modes    \* the programs to run

VARIABLE mode

AllModes ==
  {"telemetry", "mgmt", "openvpn-client", "commands", "completion", "tui", "peer"}

ASSUME ProgramsAssumption == Modes \subseteq AllModes

vars == <<mode, tele, mgmt, ovpn, fs, completion, tui, peershell>>

TypeOK ==
  /\ mode \in Modes
  /\ TeleTypeOK /\ MgmtTypeOK /\ OvpnTypeOK /\ FsTypeOK
  /\ TranscriptTypeOK /\ PeerShellTypeOK

\* A program that is not run has one initial state only.
Init ==
  /\ mode \in Modes
  /\ TeleInit /\ MgmtInit /\ OvpnInit
  /\ FsInit /\ (mode # "commands" => disk = EmptyMap)
  /\ CompletionInit
  /\ mode # "completion" => table = (CHOOSE t \in Tables : TRUE) /\ typed = <<>>
  /\ TranscriptInit /\ (mode # "tui" => screen = "server" /\ rows = 0)
  /\ PeerShellInit /\ (mode # "peer" => script = <<>>)

Next ==
  /\ UNCHANGED mode
  /\ \/ /\ mode = "telemetry" /\ TeleNext
        /\ UNCHANGED <<mgmt, ovpn, fs, completion, tui, peershell>>
     \/ /\ mode = "mgmt" /\ MgmtNext
        /\ UNCHANGED <<tele, ovpn, fs, completion, tui, peershell>>
     \/ /\ mode = "openvpn-client" /\ OvpnNext
        /\ UNCHANGED <<tele, mgmt, fs, completion, tui, peershell>>
     \/ /\ mode = "commands" /\ FsNext
        /\ UNCHANGED <<tele, mgmt, ovpn, completion, tui, peershell>>
     \/ /\ mode = "completion" /\ CompletionNext
        /\ UNCHANGED <<tele, mgmt, ovpn, fs, tui, peershell>>
     \/ /\ mode = "tui" /\ TranscriptNext
        /\ UNCHANGED <<tele, mgmt, ovpn, fs, completion, peershell>>
     \/ /\ mode = "peer" /\ PeerShellNext
        /\ UNCHANGED <<tele, mgmt, ovpn, fs, completion, tui>>

Spec == Init /\ [][Next]_vars
=============================================================================

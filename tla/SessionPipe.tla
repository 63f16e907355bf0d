----------------------------- MODULE SessionPipe -----------------------------
(***************************************************************************)
(* What the gRPC tunnel promises the operator of each session, whatever    *)
(* connections and streams carry it: a one-way byte pipe per session tag.  *)
(* Bytes offered before the device joins are all handed over, in order,    *)
(* when it joins; later bytes follow in order and at most once (a byte is  *)
(* lost only if the device's stream is gone); a session that has ended     *)
(* never carries anything again.                                           *)
(***************************************************************************)
EXTENDS Naturals, Sequences

CONSTANT Tags

VARIABLES
  phase,    \* per tag: "idle", "waiting" (for the device), "joined", "closed"
  inp,      \* per tag: number of bytes read from the operator
  out       \* per tag: the bytes handed to the device, in order

pipeVars == <<phase, inp, out>>

PipeInit ==
  /\ phase = [t \in Tags |-> "idle"]
  /\ inp   = [t \in Tags |-> 0]
  /\ out   = [t \in Tags |-> <<>>]

Open(t) ==
  /\ phase[t] = "idle"
  /\ phase' = [phase EXCEPT ![t] = "waiting"]
  /\ UNCHANGED <<inp, out>>

\* A byte arrives before the device: it is kept.
Offer(t) ==
  /\ phase[t] = "waiting"
  /\ inp' = [inp EXCEPT ![t] = @ + 1]
  /\ UNCHANGED <<phase, out>>

\* The device joins: everything offered so far reaches it at once.  It may
\* say goodbye in the same message.
Join(t) ==
  /\ phase[t] = "waiting"
  /\ \E p \in {"joined", "closed"} : phase' = [phase EXCEPT ![t] = p]
  /\ out' = [out EXCEPT ![t] = [i \in 1 .. inp[t] |-> i]]
  /\ UNCHANGED inp

\* A byte arrives after the device joined: handed over, or lost.
Relay(t) ==
  /\ phase[t] = "joined"
  /\ inp' = [inp EXCEPT ![t] = @ + 1]
  /\ \/ out' = [out EXCEPT ![t] = Append(@, inp[t] + 1)]
     \/ UNCHANGED out
  /\ UNCHANGED phase

\* One event (a device connection closing) may end several sessions.
Close(S) ==
  /\ S # {}
  /\ \A t \in S : phase[t] \in {"waiting", "joined"}
  /\ phase' = [t \in Tags |-> IF t \in S THEN "closed" ELSE phase[t]]
  /\ UNCHANGED <<inp, out>>

PipeNext ==
  \/ \E t \in Tags : Open(t) \/ Offer(t) \/ Join(t) \/ Relay(t)
  \/ \E S \in SUBSET Tags : Close(S)

PipeSpec == PipeInit /\ [][PipeNext]_pipeVars
=============================================================================

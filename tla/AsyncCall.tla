------------------------------ MODULE AsyncCall ------------------------------
(***************************************************************************)
(* What gnmi_client promises the issuer of a unary call: it completes at   *)
(* most once, and with a status the peer really sent or with a transport   *)
(* error, never with a status made up on the way.                          *)
(***************************************************************************)
CONSTANTS
  Calls,         \* the unary calls
  Statuses,      \* statuses a peer may answer with
  TransportError \* the status of a call that failed on the way

VARIABLES
  state,   \* of each call: "idle", "pending" or "done"
  said,    \* statuses the peer has answered with
  outcome  \* status the issuer was told; meaningful once done

asyncVars == <<state, said, outcome>>

AsyncInit ==
  /\ state = [c \in Calls |-> "idle"]
  /\ said = [c \in Calls |-> {}]
  /\ outcome = [c \in Calls |-> TransportError]

Issue(c) ==
  /\ state[c] = "idle"
  /\ state' = [state EXCEPT ![c] = "pending"]
  /\ UNCHANGED <<said, outcome>>

Say(c, s) ==
  /\ said' = [said EXCEPT ![c] = @ \cup {s}]
  /\ UNCHANGED <<state, outcome>>

Complete(c, s) ==
  /\ state[c] = "pending"
  /\ s \in said[c] \cup {TransportError}
  /\ state' = [state EXCEPT ![c] = "done"]
  /\ outcome' = [outcome EXCEPT ![c] = s]
  /\ UNCHANGED said

AsyncNext ==
  \E c \in Calls :
    \/ Issue(c)
    \/ \E s \in Statuses : Say(c, s)
    \/ \E s \in Statuses \cup {TransportError} : Complete(c, s)

AsyncSpec == AsyncInit /\ [][AsyncNext]_asyncVars
=============================================================================

------------------------------ MODULE Telemetry ------------------------------
(***************************************************************************)
(* The gNMI service of connected_client and the telemetry fan-out: a Set   *)
(* that one client sends goes to every matching STREAM subscription of all *)
(* connections, through sub_hub. One action is one RPC as the gRPC layer   *)
(* dispatches it, a stream the client cancels, or the end of a connection. *)
(*                                                                         *)
(* A path is the sequence of its elements as path_to_string renders them.  *)
(***************************************************************************)
EXTENDS Naturals, SequencesExt, Lists

CONSTANTS
  Clients,    \* connections; a name is used again for a later connection
  Sids,       \* stream ids of Subscribe calls on a connection
  Elems,      \* elements of paths
  PathLists,  \* path lists of subscriptions; {} is the empty list
  Requests,   \* SetRequests: [role, update, replace, delete]
  MaxSets,    \* bound: Sets the server accepts
  MaxConnects, \* bound: connections
  MaxCalls    \* bound: Subscribe calls

ASSUME TelemetryAssumption ==
  /\ {MaxSets, MaxConnects, MaxCalls} \subseteq Nat
  /\ \A paths \in PathLists : paths \subseteq Seq(Elems)
  /\ \A req \in Requests :
       {req.update, req.replace, req.delete} \subseteq Seq(Seq(Elems))

VARIABLES
  clients,    \* the live connections
  subs,       \* sub_hub::m_subs
  call,       \* Subscribe streams: "idle", "streaming", "ended" or "reset"
  got,        \* what the client received on each stream
  history,    \* the Sets accepted (for the properties)
  since,      \* how many of them came before each subscription
  count       \* connections and Subscribe calls so far

tele == <<clients, subs, call, got, history, since, count>>

Streams == Clients \X Sids
NoStreams(f, c, v) == [s \in Streams |-> IF s[1] = c THEN v ELSE f[s]]

Sync == [updated |-> <<>>, deleted |-> <<>>]

TeleInit ==
  /\ clients = {}
  /\ subs = <<>>
  /\ call = [s \in Streams |-> "idle"]
  /\ got = [s \in Streams |-> <<>>]
  /\ history = <<>>
  /\ since = [s \in Streams |-> 0]
  /\ count = [connects |-> 0, calls |-> 0]

TeleTypeOK ==
  /\ clients \subseteq Clients
  /\ \A i \in DOMAIN subs : subs[i].stream \in Streams /\ subs[i].paths \in PathLists
  /\ call \in [Streams -> {"idle", "streaming", "ended", "reset"}]
  /\ Range(history) \subseteq Requests
  /\ since \in [Streams -> 0..MaxSets]
  /\ count \in [connects : 0..MaxConnects, calls : 0..MaxCalls]

-----------------------------------------------------------------------------
(* sub_hub.                                                                *)

\* stream_send: a stream that ended or was reset takes nothing.
Sent(g, s, msg) == IF call[s] = "streaming" THEN [g EXCEPT ![s] = Append(@, msg)] ELSE g

\* matches: no list, the root, the path itself, or a path above it.
MatchesExactly(paths, p) == paths = {} \/ p \in paths
Matches(paths, p) ==
  paths = {} \/ <<>> \in paths \/ p \in paths \/ \E sp \in paths : IsStrictPrefix(sp, p)

Covered(paths, ops) == Keep(ops, {p \in Range(ops) : Matches(paths, p)})

\* add, and remove by owner.
AddSub(s, paths) == Append(subs, [stream |-> s, paths |-> paths])
RemoveSubs(c) == Keep(subs, {e \in Range(subs) : e.stream[1] # c})

\* publish: one message for a subscription, with all it covers, if anything.
Notification(paths, req) ==
  [updated |-> Covered(paths, req.update) \o Covered(paths, req.replace),
   deleted |-> Covered(paths, req.delete)]
Publish(req) ==
  LET n(i) == Notification(subs[i].paths, req)
      sent[i \in 0..Len(subs)] ==
        IF i = 0 THEN got
        ELSE IF n(i) = Sync THEN sent[i - 1] ELSE Sent(sent[i - 1], subs[i].stream, n(i))
  IN sent[Len(subs)]

-----------------------------------------------------------------------------
(* connected_client.                                                       *)

Accept(c) ==
  /\ c \notin clients /\ count.connects < MaxConnects
  /\ clients' = clients \cup {c}
  /\ count' = [count EXCEPT !.connects = @ + 1]
  /\ UNCHANGED <<subs, call, got, history, since>>

\* start_subscription: sync_response first. STREAM stays open and is added;
\* ONCE and POLL end, a request that does not parse ends at once.
StartSubscription(s, mode, paths) ==
  /\ s[1] \in clients /\ call[s] = "idle"
  /\ count.calls < MaxCalls
  /\ count' = [count EXCEPT !.calls = @ + 1]
  /\ got' = [got EXCEPT ![s] = IF mode = "BAD" THEN <<>> ELSE <<Sync>>]
  /\ call' = [call EXCEPT ![s] = IF mode = "STREAM" THEN "streaming" ELSE "ended"]
  /\ subs' = IF mode = "STREAM" THEN AddSub(s, paths) ELSE subs
  /\ since' = [since EXCEPT ![s] = Len(history)]
  /\ UNCHANGED <<clients, history>>

\* Set: only ADMIN may; each operation goes to update_sink, then the request
\* to sub_hub. (Get, Capabilities and IsAlive change nothing.)
Set(c, req) ==
  /\ c \in clients
  /\ req.role = "ADMIN"
  /\ Len(history) < MaxSets
  /\ got' = Publish(req)
  /\ history' = Append(history, req)
  /\ UNCHANGED <<clients, subs, call, since, count>>

\* RST_STREAM: nghttp2 forgets the stream, sub_hub is not told.
CancelSubscription(s) ==
  /\ s[1] \in clients /\ call[s] = "streaming"
  /\ call' = [call EXCEPT ![s] = "reset"]
  /\ UNCHANGED <<clients, subs, got, history, since, count>>

\* handle_close.
Disconnect(c) ==
  /\ c \in clients
  /\ clients' = clients \ {c}
  /\ subs' = RemoveSubs(c)
  /\ call' = NoStreams(call, c, "idle")
  /\ got' = NoStreams(got, c, <<>>)
  /\ since' = NoStreams(since, c, 0)
  /\ UNCHANGED <<history, count>>

TeleNext ==
  \/ \E c \in Clients :
       Accept(c) \/ Disconnect(c) \/ \E req \in Requests : Set(c, req)
  \/ \E s \in Streams :
       \/ CancelSubscription(s)
       \/ \E mode \in {"STREAM", "ONCE", "BAD"}, paths \in PathLists :
            StartSubscription(s, mode, paths)

TeleSpec == TeleInit /\ [][TeleNext]_tele

-----------------------------------------------------------------------------
(* Properties.                                                             *)

\* What a Set changed below a path, in the order of the request.
Below(paths, ops) ==
  Keep(ops, {p \in Range(ops) : paths = {} \/ \E sp \in paths : IsPrefix(sp, p)})
Concerning(paths, reqs) ==
  LET all == [i \in DOMAIN reqs |->
                [updated |-> Below(paths, reqs[i].update \o reqs[i].replace),
                 deleted |-> Below(paths, reqs[i].delete)]]
  IN Keep(all, Range(all) \ {Sync})

\* A subscription that streams has received, after its sync_response, one
\* message for each Set accepted since, from any connection, that touched a
\* path at or below one of its own, with exactly those operations, in order:
\* whatever other subscriptions were cancelled, ended or lost meanwhile
\* (publish, matches, remove). And no subscription outlives its connection,
\* so none is sent through a session that is gone.
\*
\* This is the on-change telemetry of sub_hub.hpp and start_subscription. The
\* comment where the handler is registered speaks of samples with synthetic
\* counters on a timer; the code sends none, and none is received here.
FanOutIsExact ==
  /\ \A i \in DOMAIN subs :
       /\ subs[i].stream[1] \in clients
       /\ call[subs[i].stream] \in {"streaming", "reset"}
  /\ \A s \in Streams :
       call[s] = "streaming" =>
         \E i \in DOMAIN subs :
           /\ subs[i].stream = s
           /\ got[s] = <<Sync>> \o
                Concerning(subs[i].paths, SubSeq(history, since[s] + 1, Len(history)))
=============================================================================

# hackthon in TLA+

TLA+ models of the C++ program in `src/hackthon`: a gNMI/gRPC server over
nghttp2 with a gRPC tunnel, a management dial-out, a built-in VPN and an MQTT
request relay. TLC checks the models on small instances; TLAPS proves the main
invariants and refinements for every value of the constants.

## The system

Everything runs on one libevent thread per process. A process is a set of
objects derived from `evt_io`; libevent calls their hooks (`handle_connect`,
`handle_read`, `handle_close`, `handle_event`, `handle_timeout`). One hook runs
to completion before the next starts, so **one action of a model is one hook,
with every call it makes**. What interleaves is the order of the hooks, and
that order belongs to the network, the kernel and the other process. Memory is
owned by maps of `unique_ptr`; the maps refer to each other by raw pointers,
descriptors, tags and stream ids. Most of what can go wrong is one of these
references outliving what it refers to.

| component | state it keeps | operations | interacts with |
|---|---|---|---|
| event framework (`framework.cpp`) | bufferevents, timers | dispatch of libevent events to hooks | everything |
| HTTP/2 session (`http2.cpp`) | `m_streams`: one `stream_ctx` per stream | feed received bytes, submit response, push, finish, trailer | nghttp2 (external), gRPC session |
| gRPC session (`grpc_session.cpp`) | handlers by path, `m_bidi_opened` | dispatch by kind of call, `stream_send`, `stream_finish` | hubs call it through raw pointers |
| connections (`client_app.cpp`, `server_app.cpp`) | `m_clients` | accept, close, RPC handlers | removes itself from every hub on close |
| gRPC tunnel (`tunnel_hub.hpp`, `tunnel_proxy.cpp`) | `m_targets`, `m_bridges`, `m_next_tag`; per listener `m_conns` | register, remove, open bridge, pair, relay, close from either side | devices over gRPC, operators over TCP |
| telemetry (`sub_hub.hpp`) | subscriptions | add, remove, publish | `Set`, gRPC sessions |
| management (`mgmt_hub.hpp`) | sessions, pending rpc ids | add, remove, broadcast a request, correlate replies | gRPC sessions, operator TUI |
| gNMI client (`gnmi_client.cpp`) | calls in flight (`s_active`, `s_active_sub`) | call, push_async, subscribe_async | VPN peer, OpenVPN server, CLI |
| VPN server (`vpn_server.cpp`, `vpn_peer.cpp`) | `ip_pool`, `m_peers`, routes, TUN | accept, close, TUN packet, MQTT request | VPN clients, kernel, broker, gNMI client |
| VPN client (`vpn_client.cpp`) | address, TUN, NAT rule, status file, reconnect timer | frames, TUN packets, reconnect | VPN server, kernel |
| OpenVPN supervisors (`openvpn_server.cpp`, `openvpn_client.cpp`) | parsed status, peers, NAT rule | poll management port, parse child output | OpenVPN, broker, gNMI client |
| MQTT (`mqtt_io.cpp`, relay in `main_app.cpp`) | connection, timer | subscribe, publish, relay topics | broker |
| command files (`fs_app.cpp`, `lua_engine.cpp`) | inotify watch, tables of commands by file | load at boot, reload, delete | CLI completion |
| CLI (`readline.cpp`, `completion_helpers.cpp`) | connected addresses, the answer awaited | complete, publish a request, wait, print | broker, command files |
| TUIs (`mgmt_tui`, `server_tui`, `tunnel_tui`, `gnmi_tui`) | transcript, scroll offsets, input line, history | print, scroll, resize, send | hubs, gNMI client |
| gnmi-peer shell (`peer_main.cpp`, `gnmi_cmd.cpp`) | the unfinished line, running calls | read input, dispatch, print responses | gNMI client |
| entry points (`main_app.cpp`, `*_main.cpp`) | none | choose the parts a `--mode` runs | everything |

What makes each of them correct, and hard:

* **Tunnel**: every pointer the hub keeps refers to something alive; bridges and
  operator sockets correspond; an operator's bytes reach its device once and in
  order although they may be read before the device joins; a device that
  reconnects is not harmed by the late close of its old connection.
* **VPN server**: an address is leased to one client at a time and never lost;
  packets and answers for an address reach its holder, before and after the
  address is reused; routes follow leases, as far as the kernel does what it is
  asked.
* **gRPC/HTTP/2**: every call gets HEADERS, DATA in order and one trailer; a
  message cut by DATA frames is dispatched once; a paused stream resumes.
* **gNMI client**: a call completes exactly once (answer, timeout or close) and
  its connection is not freed while it runs.
* **VPN client**: the NAT rule, the TUN and the status file describe the current
  address; a lost connection is eventually replaced.
* **Hubs**: nothing is sent through a closed session; every matching subscriber
  gets an update once; a reply is attributed to the request it answers.
* **OpenVPN server**: after a poll the peers are those of the last complete
  status listing, whatever the management link lost before; what is announced
  to the CLI follows the peers.
* **Request path**: an answer is printed for the command it answers, and once.
* **OpenVPN client**: the first address openvpn was given has one DNAT rule per
  port while its tunnel is up; no rule is doubled by reconnects or crashes, and
  none outlives a run that ended.
* **Command files and completion**: the commands are those of the files on the
  disk; TAB offers exactly what the tables allow.
* **TUIs and shell**: output that arrives does not move the text under the
  reader's eyes; every input line runs once however reads cut it.

PROJECT.json lists every hazard with its line.

## Modules

| module | what it is |
|---|---|
| `Maps` | partial maps as functions: `MapPut`, `MapErase` (the C++ maps) |
| `SessionPipe` | abstract: what the tunnel promises the operator of a session |
| `TunnelHub` | `tunnel_hub`, `tunnel_gnmi_listener`/`tunnel_bridge`, the Register and Tunnel handlers, connections and their streams |
| `MCTunnelHub` | instances of `TunnelHub` for TLC |
| `TunnelHub_proofs` | invariants of `TunnelHub` and `TunnelHub => SessionPipe` |
| `AddressLease` | abstract: exclusive leases of addresses, delivery to the holder |
| `VpnServer` | `vpn_server`, `ip_pool`, `vpn_peer`, the server TUN, gNMI calls in flight |
| `MCVpnServer` | instances of `VpnServer` for TLC |
| `VpnServer_proofs` | invariants of `VpnServer` and `VpnServer => AddressLease` |
| `GrpcStream` | `http2_session` and `grpc_session` of a server connection, `start_subscription` |
| `MCGrpcStream` | instances of `GrpcStream` for TLC |
| `GrpcStream_proofs` | the wire, the dispatch and the end of every call of `GrpcStream` |
| `AsyncCall` | abstract: what `gnmi_client` promises the issuer of a unary call |
| `GnmiClient` | `gnmi_client`: `call`, `push_async`, `subscribe_async` and their connections |
| `MCGnmiClient` | instances of `GnmiClient` for TLC |
| `GnmiClient_proofs` | invariants and messages of `GnmiClient`, and `GnmiClient => AsyncCall` |
| `VpnClient` | `vpn_client` and its `tun_io`: connection, retry timer, frames, NAT rules, status file |
| `MCVpnClient` | instance of `VpnClient` for TLC |
| `VpnClient_proofs` | the session, the rules and the frames of `VpnClient` |
| `MqttBus` | the broker as the programs use it, and the relay of `main_app.cpp` |
| `Cli` | the CLI's commands, its request, its list of clients |
| `OpenvpnServer` | `openvpn_server`: management link, listings, peers, forwarded requests |
| `RequestPath` | composes `Cli`, `OpenvpnServer` and the relay over `MqttBus` |
| `MCRequestPath` | instances of `RequestPath` for TLC |
| `RequestPath_proofs` | what is announced, what a listing makes of the clients, the CLI's list, the answers |
| `OpenvpnClient` | `openvpn_client`: log lines, DNAT rules, status file |
| `Telemetry` | `sub_hub`, the Set handler, `start_subscription` |
| `Management` | `mgmt_hub`, the DialTcc handlers, the commands of `mgmt_tui` |
| `FsApp` | `fs_app` and the loading of command files, over inotify |
| `Completion` | TAB completion of the CLI |
| `Transcript` | transcript, scrolling and input line of the four TUIs |
| `PeerShell` | `headless_shell` and `gnmi_cmd` |
| `Programs` | one of the seven parts above at a time, as `--mode` or the binary chooses it |
| `MCPrograms` | instances of `Programs` for TLC |
| `Programs_proofs` | the invariants of the seven parts, each of its own specification, and that `Programs` implements them |
| `Lists` | `Keep`: the vectors that are searched and thinned out |
| `Lists_proofs` | lemmas about recursive functions on numbers and about sequences |

### TunnelHub

A pair `<<g, sid>>` is what the code stores as `(grpc_session*, stream_id)`. A
connection id is the address of a session: it is allocated again after it was
freed and its stream ids restart, so a stale pointer can meet a new object. A
call through a pointer whose session is gone (`UseSession`) is undefined
behaviour: the model lets the process die (`alive = FALSE`) or the call do
nothing. `Reaches` is `push_stream_data` finding the stream or dropping the
bytes. Variables carry the names of the members; `asked`, `sent` and `got`
record what reached the device, the operator's bytes being numbered.

| action | code |
|---|---|
| `HandleConnect`, `HandleClose` | `server::handle_connect`; `connected_client::handle_close` with `remove_by_stream` |
| `OpenStream`, `EndStream` | HEADERS of a bidi call; half-close or reset |
| `AddTarget`, `RemoveTarget` | Register handler |
| `TunnelData`, `TunnelClose` | Tunnel handler: `pair_tunnel`, then `from_device` or `close_from_device` |
| `OperatorConnect`, `OperatorRead`, `OperatorClose` | listener accept with `open_bridge`; `tunnel_bridge::handle_read`; `handle_close` |

The device is assumed to use only tags it was asked for (`asked`): the hub does
not check this. Only the operator-to-device direction carries data in the
model; device-to-operator bytes are written straight to a socket.

### VpnServer

Descriptors (`Fds`) and object addresses (`Peers`) are reused after they are
freed. `HandleConnect` is the accept with `ip_pool::assign`, the IP_ASSIGN frame
(`told`), the new `vpn_peer` and its route; `RejectConnect` the exhausted pool,
whose descriptor stays open (`parked`). `HandleClose` is
`vpn_peer::handle_close`/`handle_event` with `vpn_server::handle_close`.
`TunPacket` is the server TUN reader, `OnMqttMessage` and `CallDone` the start
and the end of a forwarded gNMI request. `ManageClientRoute` is
`manage_client_route`: the kernel may refuse to add a route and to delete one,
which is only logged, so the address goes back to the pool either way. `refused`
remembers the addresses whose last request was refused: `RoutesFollowLeases`
leaves only those out. The TUN may not open (`m_server_tun`); then no route is
asked for at all.

### GrpcStream

One record per stream holds the response side: `resp_body`, `streaming`,
`finished` as in `stream_ctx`; `provider`, nghttp2's view of the data provider;
`credit`, the client's window; `wire`, what was sent. `Drain` is
`response_body_read` called as often as the window allows, and each send or
finish of `grpc_session` is a function of the record that includes its flushes.
nghttp2 is external: HEADERS, the trailer too, leave at the next flush; DATA
waits for the window; DATA that is still queued when a trailer ends the stream
is dropped; a stream both sides have ended is closed. Only the per-stream window
is modelled: the connection window can block longer but orders nothing
differently. Request bytes are counted in halves of a message, so that a DATA
frame may end in the middle of one. `FrameDone` is what
`on_frame_recv` does at the end of a frame: at END_STREAM `on_request` copies the body and
decodes the copy once more (`again`), with the dispatches and the replies that
would follow. The branch of `on_request` for asynchronous unary handlers
(`grpc_session.cpp:275-287`) is left out, because no program registers one.
Actions: `RequestHeaders`, `RequestData`,
`RequestTrailers`, `Reset`, `WindowUpdate` from the client, `StreamSend` from a
hub at any time.

### GnmiClient

One request is one outbound connection with the member `m_done` and a buffer.
`Open` is the constructor and the lazy collection: a request frees the finished
connections of the list it is put on (`s_active` for pushes, `s_active_sub` for
subscriptions). `call` waits in a nested event loop, which is the same
interleaving of callbacks, and frees its connection when it is done (`Return`).

| action | code |
|---|---|
| `Open`, `Return` | constructor and collection in the three public functions; end of `call` |
| `HandleConnect` | `handle_connect`: the request goes out; a subscription lifts its timeouts |
| `HandleRead` | `handle_read` to `http2_session::recv`, `on_data`, `capture_response` |
| `HandleEvent(c, dir)` | `handle_event` when the five second timer of a direction ends |
| `HandleClose` | `handle_close`: a refused connect, EOF or an error |
| `Peer...` | the peer: pieces of messages, a trailer with or without a status, a reset stream, bytes that are not HTTP/2 |

A message is two pieces, and one read delivers any number of the units that have
arrived, so messages are cut and joined in every way. libevent (external) keeps
one timer per direction and disables a direction whose timer has run out; while
a connect is outstanding both run. What a callback does with a response is in
the module of its caller (`VpnServer`).

### VpnClient

`me` holds the members that describe the session (`m_ip_assigned`,
`m_assigned_ip`, the two copies of the TUN descriptor); `host` what the kernel
and the disk keep: open TUN descriptors, DNAT rules counted by address,
MASQUERADE rules, the status file. `left` is what the process found there when
it started, so a property can tell its own rules from those of a process that
crashed.

| action | code |
|---|---|
| `HandleConnect`, `HandleEvent`, `HandleClose`, `HandleTimeout` | the hooks of the same name; `GiveUp` is what the closing ones share |
| `HandleRead` | `handle_read`, `process_frames`: IP_ASSIGN with `open_tun`, the rules and the status file; DISCONNECT |
| `TunPacket` | `tun_io::handle_read` |
| `ServerSends` | the server's frames: IP_ASSIGN first and once, as `VpnServer` sends it; DISCONNECT from the protocol header |
| `Crash` | the process is killed and started again |

A retry connects on the existing bufferevent. libevent is granted to make that
work after an error; when the connection turns out to be up, the connect fails
at once and its error ends the connection. Timers: when the read timer ends
before the connect, the connect may still succeed (`attempt` stays), with the
retry timer armed. The MASQUERADE rule is appended at each IP_ASSIGN and never
deleted: the model counts it and no property is stated, since no line of the
code or the docs promises its removal.

### RequestPath: Cli, MqttBus, OpenvpnServer

A gNMI request goes from the CLI (`cli/<vip>`) through the relay (`fwd/<vip>`)
to the supervisor's peer, from there by `gnmi_client::push_async` to the device,
and back over `resp/<vip>` and `cli_resp/<vip>`. `MqttBus` holds what is on its
way: every program has one broker session, so what it is sent arrives in order;
all messages have QoS 0, so without a subscriber they are lost unless retained.
A message carries the number of the command that made it; the bytes, and an
answer's status, are abstracted to that number, which the code does not have.

| action | code |
|---|---|
| `Start`, `Quit`, `KeepaliveExpires` | `main` and the end of `run_cli`; a prompt that blocks readline past the keepalive |
| `ProcessCommand` | `process_command` with the four gNMI handlers: subscribe, publish and wait, or fail |
| `Loop`, `PrintResponse`, `ResponseTimeout` | the waiting loop of `mqtt_gnmi_publish`: `mosquitto_loop` with `on_message`, the answer, the time limit |
| `Relay` | `relay_msg_cb` |
| `HandleConnect`, `HandleTimeout`, `HandleRead`, `HandleClose` | `mgmt_io`: the poll, one line of a listing, the lost link |
| `OnMqttMessage`, `CallDone` | `openvpn_server::on_mqtt_message` and its callback |
| `Restart`, `PeerSubscribes` | destructor and constructor; the broker takes a peer's SUBSCRIBE |

The supervisor's members survive a lost management link: `m_mgmt_buf` may keep
half a row (`CutRows`) and `m_in_routing_table` may stay set. `table` is the
routing table of the openvpn process, `listed` that of the last listing read to
its end; both belong to the properties, as `orphans` does, the retained
addresses an earlier supervisor left. mqtt_io connects once and queues its
packets behind CONNECT; after a broker drop nothing reconnects, so a drop is
modelled for the CLI, whose next command then fails.

### OpenvpnClient

`session` is the address the openvpn process has, `vip` and `up` what the
supervisor knows, `nat` the kernel's DNAT rules counted by address and port,
`left` those that killed runs left and no later run has removed. `OvpnHandleRead` is one line of the log:
`TunnelUp` (`Initialization Sequence Completed`), an address line in one of the
formats (`FindsVip`, only the first is kept: `IgnoresVip`), or a line that says
nothing. `setup_nat` runs one command per port, so a crash may find any part of
the ports done (`done`). `OvpnExits` is only logged by the code, and `up` stays
set; `Stop` is the destructor, `Crash` a kill followed by the next run. The MASQUERADE rule that is
appended at every `Completed` is left out: it is never read, and copies of it
change no packet.

### Telemetry

`subs` is `m_subs`; a connection name is used again by a later connection and
stream ids start again on it. `Set` is the handler with its authorisation by
role and `sub_hub::publish`; `StartSubscription` is a Subscribe in one of its
modes (only STREAM is stored); `CancelSubscription` an RST_STREAM, which no hub
hears of; `Disconnect` the close with `sub_hub::remove`. A path is the sequence
of its rendered elements, so the code's test `u == sp || u starts with sp + "/"`
is `IsPrefix`; the names of elements (`Elems`) are any set. `history` and `since` record the Sets for the property.

### Management

`Broadcast` is `send_request`, `send_device_request` or `send_cli`: one rpc id,
one message down every stored session, one entry of `m_pending`. `OpenSession`
is the open handler with the probe of the device's identity, `ProbeAnswer` and
`Response` the two halves of the message handler, `Answer` and `Push` what a
device sends. An ended stream stays in `m_sessions` until its connection closes
and a command sent to it alone is still reported as sent; the model has both.
rpc ids are 48 random bits in the code and numbers never used twice here. A
device answers only rpc ids it was sent, any number of times and at any time,
also for devices behind it; the updates of pushes are counted together, under
the empty rpc id.

### FsApp

`disk` is the directory, `commands` is `m_commands`, `queue` the inotify events
that wait. `Save`, `DeleteFile`, `Rename`, `MoveIn` and `MoveAway` are a user's
operations with the events the kernel raises under the watch mask;
`FsHandleRead` takes any number of them up to `MaxBatch` and is
`process_inotify_onchange` with its `m_old_event`. A file is its version number;
version 0 is one that Lua cannot run. `on_boot` flows off its end without a
return: the repository's default build does nothing harmful there, and the model
takes it as a return.

### Completion

Texts are sequences of letters with `Dot` and `Equals`, a command is a table of
parameters whose members may be tables. `Tab` is `command_completion` with the
two generators, `get_sub_keys` and `walk_dotted_path`; `TakeMatch` puts a match
in the place of the word. Names that begin one another are in the tables. The two
recursive functions of the code go down the levels of a table here: `GetSubKeys`
finds the entries of one level below those of the level above (`Found`), down to
`Depth`, and `WalkDottedPath` takes one character of the path after the other
(`Stepped`). `CompletionAssumption` says that the tables end at `Depth` and that
names are words without a dot or an equals sign, which Lua's identifiers are.

### Transcript

A line is its width; one `Cap` stands for the four. The TUIs differ in the rows
they reserve, in panning and in the input line: `screen` says which it is. `Prints` is
`println` with `push_history` and `redraw_out`, `Scroll`, `Home`, `End`, `PanBy`,
`Edits`, `Submit`, `Older` and `Newer` are keys of `handle_read`, `Relayout` is
`on_winch`. Colours, headers and the panes that list sessions and targets are
drawn from the hubs and keep nothing.

### PeerShell

Standard input is a sequence of words, blanks and line ends; `ShellRead` takes
any piece of it and runs the lines it completes, `ShellEof` is the read of the
end, `ShellTimeout` the two second grace. `Respond`, `Notified`, `Unnumbered`
and `StreamEnded` are the results of calls and subscriptions that run meanwhile.
Arguments that do not parse end a command without a call.

### Programs

The parts from `OpenvpnClient` on share no state, and no program of the
repository runs two of them that do anything to each other except where a module
composes them. `Programs` picks one by `mode` and leaves the others in their
first state, so one TLC run checks them all without multiplying their states.

## Runs

| run | checks | bounds and why they are enough |
|---|---|---|
| `tunnel_hub` | `TypeOK`, `RegistryNeverDangles`, `OperatorsMatchBridges`, `StaleCloseIsHarmless`, `ImplementsSessionPipe` | 3 connections of one stream, 2 targets, 2 operators, 2 tags, 2 bytes per session: enough for a target to move between connections, two bridges to one target, bytes before and after the pairing, and freed addresses to be used again. A Register and a Tunnel stream are on different connections here; that they share one is in `tunnel_dangling`'s instance and in the proofs |
| `vpn_server` | `TypeOK`, `PoolIsPartitioned`, `ViewsAgree`, `RoutesFollowLeases`, `ImplementsAddressLease` | 4 descriptors, 3 addresses (the pool runs out), 3 peer objects, 2 requests |
| `grpc_stream` | `WireGrammar`, `DispatchedOnce`, `NoHangingCall`, `PushedIsSent` | 2 streams, 3 halves (a whole message and a cut one), 3 chunks against a window of 2 (DATA blocks) |
| `gnmi_client` | `TypeOK`, `CompletedOnce`, `MessagesIntact`, `SuccessIsWhole`, `ReportStands`, `EveryCallCompletes`, `ImplementsAsyncCall` | any 2 of a blocking call, 2 pushes and a subscription (2 pushes: one collects the other), 2 messages per subscription: each cut and joined, with the trailer in the same read or not |
| `vpn_client` | `RuleFollowsVip`, `TunFollowsSession`, `StatusIsCurrent`, `FramesStayWhole`, `NeverGivesUp` | 3 connections with 2 addresses (the same again, a new one), 4 frames each, 2 descriptors, 1 crash with a connection before and after it |
| `request_path` | `TypeOK`, `ListingIsWhole`, `AnnouncedArePeers`, `ListCatchesUp`, `AnswersAreNotReused` | 2 addresses (order and identity show), 2 polls and 2 changes of the table (a listing cut, then a whole one that differs), 1 restart, 2 commands, 2 starts of the CLI, 1 broker drop |
| `programs` | `TypeOK`, `FanOutIsExact`, `SessionsAreTheirDevices`, `RepliesNameTheirCommand`, `NatServesFirstVip`, `DeletedIsGone`, `CompletionIsExact`, `ShellRunsItsInput`, `ViewHolds` | telemetry: 2 connections with 2 streams, 3 connects, 2 Sets over nested paths; management: 2 links with 2 streams, 2 commands; OpenVPN client: 2 addresses, 2 ports, 3 runs; files: 2 names, 4 operations, reads of up to 3 events; completion: tables up to three levels deep; transcripts: a cap of 4 lines in windows of up to 8 rows, 12 columns, 6 lines printed; shell: 4 inputs |
| `tunnel_dangling` | violates `BridgeNeverDangles` | a bridge outlives the connection of its Tunnel stream |
| `vpn_callback` | violates `CallbackFindsItsPeer` | the callback of a gNMI call outlives its peer |
| `grpc_trailer` | violates `TrailerAfterData` | the trailer overtakes DATA the window blocks |
| `path_answer` | violates `AnswerMatchesRequest` | a late answer is printed for the next command |
| `fs_reload` | violates `CommandsFollowDisk` | a file saved again is not loaded again |

The passing models include the behaviours the violation runs show: the process
may crash in `TunnelHub` and `VpnServer`, and `WireGrammar` allows an answer
that was cut short by its trailer; `AnswersAreNotReused` allows a late answer
under a later command, and one late answer may put every command after it one
answer behind, but it holds that an answer is printed at most once and for a
later command only if one no later than its own ended unanswered; `DeletedIsGone` holds although reloads do not happen. The passing properties
hold in spite of them.

Four more disagreements of the code with its comments and docs have no run of
their own. The actions model what the code does; each is listed among the hazards.

* The comment at `tunnel_hub.hpp:178` lists the end of a Tunnel stream as a close
  of the bridge, but no handler reports it: bridge and operator stay
  (`EndStream`).
* A subscription whose connect is refused is reported with status 0
  (`gnmi_client.cpp:294`), though `gnmi_client.hpp:21` reserves 0 for success
  (`HandleClose`).
* The comment at the registration of Subscribe (`client_app.cpp:216-219`) says
  that STREAM sends samples on a timer, with synthetic counter values, and ONCE a
  single batch; `docs/commands.md:322` says that Subscribe answers UNIMPLEMENTED
  (12). `start_subscription` does neither: it sends a sync_response, stores a
  STREAM subscription for `sub_hub` and ends any other mode with status 0. No
  timer samples. The program's `README.md:316` and the comments of
  `sub_hub.hpp:9-14` describe that (on-change, no initial dump), and
  `FanOutIsExact` is stated of it: that it holds means that subscribers get
  exactly the Sets, and so no samples.
* `openvpn_client.hpp:32` says that the DNAT rules are torn down when the object
  is destroyed or the child exits. `proc_io::handle_close` only logs the exit
  (`openvpn_client.cpp:47`), `m_tunnel_up` is never cleared, and `m_assigned_ip`
  is the first address found for ever (`openvpn_client.cpp:176`): the rules of
  that address stay after the child exits, and also when openvpn connects again
  with another address, which then gets none. `NatServesFirstVip` asserts only
  what both agree on: the rules while openvpn has that address, no rule twice,
  and none after the destructor.

Fairness is assumed in three places, always weak. `GrpcStream` has it on
`WindowUpdate`, a client that goes on reading what it was sent, without which no
sender can make progress; the data provider needs none, since every code path
that gives it work ends in a flush. `GnmiClient` has it on the read timer of a
unary call, and `VpnClient` on the retry timer: the event loop is dispatched for
ever, so a timer that stays armed fires. No peer and no connect is assumed fair:
the liveness properties hold against a peer that stays silent. The other
specifications are safety only.

Symmetry is used where ids are only compared for equality, never with liveness
properties. The refinement properties are safety properties.

## Proofs

All proof modules follow one argument: a conjunction `IInv` holds initially, is
preserved by every action (one step per action, one lemma per delicate
conjunct), and implies each property; action properties and refinements are
proved step by step under `IInv`.

* `TunnelHub_proofs`: `RegistryNeverDangles` and `OperatorsMatchBridges` are
  inductive together with `TypeOK`, with `StreamsLive` (streams exist only on
  live connections) and with `TagsIssued`, the bound of tags by `m_next_tag`: a new
  tag is new only because every bridge and every session record lies below the
  counter, and a close closes its own operator only because bridges and sockets
  correspond. `StaleCloseIsHarmless` follows from one closing step.
  `HubImplementsPipe` needs in addition that a bridge's buffer holds exactly
  what its operator has sent so far and that nothing of an unpaired session is
  out yet.
* `VpnServer_proofs`: `PoolIsPartitioned`, `ViewsAgree` and `RoutesFollowLeases`
  with `NoTunNoRoutes` (a server without TUN asks the kernel for nothing, so not
  removing a route at close is harmless). `ServerImplementsLease` maps `told` to the lease.

* `GrpcStream_proofs`: one invariant says, for each stream, where its response
  record stands with respect to nghttp2's stream (`Answering`) and what is left
  of the request (`Receiving`). A response that is open and not ended is
  `Flowing`: HEADERS and the chunks on the wire, then those in `resp_body`, are
  the chunks produced, in order. `Drain` only moves the border between the two,
  and a stream that was ended is closed, so nothing is pushed on it any more.
  What `on_request_stream` leaves in the body is less than a message, so the
  second decode at END_STREAM finds none (`NothingFoundAgain`).
  `WireGrammar`, `DispatchedOnce` and `NoHangingCall` follow. A second invariant,
  `Awake` (`NoChunkSleeps`), says that no wakeup is lost: what an open response
  holds back, it holds back with an active provider and a window of 0. From it
  and the fairness of `WindowUpdate`, `HeldChunksMove`: a stream that has sent k
  frames and holds a chunk back sends another, or is closed.
* `GnmiClient_proofs`: `CompletedOnce` is inductive with the types. The
  refinement needs three more conjuncts: `Outcomes` (a request that is not done
  still has the default response), `TrailersAreSaid` (a trailer on the wire was
  sent by the peer, so a status taken from it is its word) and `FreshIsOpen`
  (nothing happened to a request that was not made). `MessagesIntact`,
  `SuccessIsWhole` and `ReportStands` rest on a second invariant, `PInv`: what
  `on_notif` was given, the buffer and the wire carry the pieces in order without
  a gap, and the unit that ends a stream is the last on its wire. `CallsComplete`
  (`EveryCallCompletes`) needs `Armed`: a unary call that waits has its read timer
  armed, because only the timer itself disarms it, and that finishes the call.
* `VpnClient_proofs`: `ClientInv` is `Session` (members, TUN, rules and status
  file agree) and `Framing` (buffer and wire are whole frames, of which only the
  first two pieces may assign an address). `handle_read` handles any number of
  frames, so its step is an induction over the frames of one read: between any
  two of them the state is `Sound`. That the address is assigned at most once per
  connection is why the rule of an older address cannot be forgotten.
  `ReconnectsForEver` (`NeverGivesUp`) rests on `Trying`: a client without a
  connection has an attempt or its timer under way, and a timer that waits is
  followed by an attempt.
* `RequestPath_proofs`: `AnnouncedArePeers` is inductive as it stands; the work is
  the end of a listing, where one difference moves peers, announcements and
  orphans together. `ListingIsWhole` needs `ListingInv`: every GLOBAL STATS that
  is still unread is preceded, among the unread lines, by the title and the rows
  that make its table, unless the title has been read and the rows read so far
  together with the unread ones make it. A lost link empties the lines, so what
  it leaves in `buf` and `inTable` is only ever seen before the next title.
  `ListCatchesUp` is proved one address at a time: the last message about it in the
  queue decides. `AnswersAreNotReused` needs `AnswersInv`: a command's number is in
  at most one place (packet, relay, peer, call, answer, held, printed), and every
  request on its way is the one waited for or comes with an unanswered command.
* `Programs_proofs`, one invariant per part. `NatInv` says what each
  rule is exactly (`NatExact`: the tunnel's own, or what a killed run left): the
  address changes only from none to the one found, `setup_nat` for all ports
  leaves one rule for each, and one `-D` for each is enough. `SessionsInv`: the stored sessions have
  distinct ids and streams and live connections, which thinning out the vector
  keeps. `RepliesInv`: rpc ids are numbered by the sends, and every stream's inbox
  holds each at most once with its own command. `FanInv`: a stored subscription has
  got what it is owed (`Owed`) by the history since it began; publishing appends
  the same to both. `DeletedInv`: while a deletion is unread it is the last event of
  its file. `TopInv`: the types of a view, from which `ViewHolds` follows by counting
  rows through wrapping, capping and clamping. `InputInv`: the shell's line and the
  lines it ran are those of the input consumed (`OpenLine`, `LinesOf`), it leaves
  only by a quit or at the end, and a running call's count is the number of its
  printed notifications. `CompletionInv`: what is offered is `CommandCompletion` of
  the text; `CompletionIsExact` is then a fact about the operators, by induction
  over the levels of a table (`GetSubKeys` finds a path exactly if
  `WalkDottedPath` walks it) and over the characters of a path. Each part has a
  theorem of its type (`TeleTyped`, `MgmtTyped`, ...).
  Last, `ProgramsImplementTheirParts`: a run of `Programs` is a run of the
  specification of every part (`TeleSpec`, `MgmtSpec`, `OvpnSpec`, `FsSpec`,
  `CompletionSpec`, `TranscriptSpec`, `PeerShellSpec`), so that `ProgramsSafe` and
  `ProgramsTyped` carry everything proved of the parts over to it.
* `Lists_proofs`: what these need about vectors. The library's induction theorems
  take an operator and cannot be instantiated; here induction is stated over a set
  of numbers, which serves for every recursive function of the models (`Keep`,
  `Publish`, `Println`, `ReadTokens`, `ProcessFrames`, `GetSubKeys`,
  `WalkDottedPath`).

Assumed: only the named assumptions on the constants, which TLC evaluates in the
runs. They are types and bounds (`TelemetryAssumption`, `CompletionAssumption`,
`PeerShellAssumption` and the like), or keep apart what the code keeps apart: no
address is the empty string, the descriptors of `VpnClient` are positive and there
is one.

The theorems about liveness have one more hypothesis. The provers cannot compute
ENABLED, so `ReconnectsForEver`, `CallsComplete` and `HeldChunksMove` take as
given that the fair action can happen when its guard holds (`TimerMayFire`,
`WindowMayOpen`). That is so in every state: past the guard, the three actions
only assign their primed variables, and each changes one. The rest of each
argument (that the guard goes on to hold while nothing else helps, and that the
action achieves the goal) is proved.

Model-checked only: the end of the argument for `PushedIsSent`, which repeats
`HeldChunksMove` once for each frame up to the pushed chunk, an induction over a
temporal formula and out of the provers' reach. Every other property of a passing
run is stated by a theorem.

The proof of `AnswersAreNotReused` corrected the property. An earlier form said
that an answer goes to a later command only if that answer's own command ended
unanswered. With two commands it holds; with three it does not, because each
command after a late answer may print the answer of the one before, and only the
first of them ended without one. The run keeps two commands, since three exceed
its time; the theorem holds for every number.

The environment is taken to behave in these ways: a device answers only rpc ids
and tags it was sent; random rpc ids do not collide; numeric arguments of the
CLI parse; a retry on an existing bufferevent works after an error; each program
has one MQTT session, in order; packets sent before CONNECT is answered wait
behind it.

## Not modelled, and the plan

In order:

1. `VpnLink`, which composes `VpnClient` with `VpnServer` over a byte stream:
   a client the server has parked, agreement on the address after any sequence
   of closes on either side, the lease as what both sides implement.
2. The request path with `VpnServer` in the place of `OpenvpnServer`: the same
   relay, peers keyed by descriptor.

Left out for good: the event framework, whose dispatch is what makes one hook
one action; the tunnel and endpoint configuration files, read once at start-up;
option parsing, help texts, colours and panes; the Lua-to-protobuf and
JSON-to-protobuf conversions; the unary handlers that answer from their request
alone (Get, Capabilities, IsAlive); nghttp2, libevent, OpenSSL and libmosquitto
themselves.

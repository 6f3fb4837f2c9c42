# sslcon in TLA+

sslcon is an SSL VPN client for AnyConnect-compatible servers. A privileged
agent (`vpnagent.go`) keeps at most one VPN connection and is controlled over
JSON-RPC on a websocket by a command line client or a GUI. This directory models
the agent: who owns the one connection, how it is authenticated, set up, watched,
lost, re-established and torn down, how packets move through the goroutines of a
connection, how the tun device is opened and closed, how the host's routes and
DNS are changed and given back on Linux and macOS, and the LZS codec. The modules
are checked by TLC on small instances, and all invariants of the passing runs but one are
proved by TLAPS for every instance. The exception is `MatchesOpenconnect`, the test
vectors of the codec. Five runs show where the code does not do what its own
documentation says.

## 1. Inventory

| Component | State | Operations | Talks to |
|---|---|---|---|
| `session/session.go`, `Session` | `Sess.CSess`, `ActiveClose`, `CloseChan`: process-wide, no lock | `NewConnSession`, `ConnSession.Close` | everybody |
| `session/session.go`, `ConnSession` | channels `CloseChan`, `DtlsSetupChan`, `PayloadIn`, `PayloadOutTLS`, `PayloadOutDTLS`, flag `DtlsConnected`, `DSess` | `Close`, `DPDTimer`, `ReadDeadTimer`, `ExpiryTimer` | the channel goroutines |
| `rpc/rpc.go`, `rpc/connect.go` | `Clients`, `autoReconnecting`, the two reply strings | CONNECT, RECONNECT, DISCONNECT, STATUS, STAT, CONFIG, INTERFACE, VERSION, `monitor`, `startAutoReconnect`, `DisConnect` | session, vpn, auth, vpnc |
| `vpn/tunnel.go` | `reqHeaders` (process-wide) | `SetupTunnel` | auth (connection), session, tun, vpnc |
| `vpn/tls.go`, `vpn/dtls.go` | the connections, the retry delay, `attemptDone` | reader and writer goroutine of each channel | session's channels |
| `vpn/tun.go`, `vpn/buffer.go` | the device, a buffer pool | `tunToPayloadOut`, `payloadInToTun`, `dynamicSplitRoutes` | session's channels, vpnc |
| `auth/auth.go` | `Prof`, `Conn`, `BufR` (process-wide) | `InitAuth`, `PasswordAuth` | the server |
| `utils/vpnc/vpnc_{linux,darwin,windows}.go` | the host's routes and DNS, a backup of `resolv.conf` | `SetRoutes`, `ResetRoutes`, `ConfigInterface`, ... | the kernel |
| `proto/compress.go` | none | LZS and LZ4 codecs, negotiation | tls, dtls |
| `tun/*`, `wintun/*` | file handles, event queues | open, read, write, close | the kernel |
| `base/*` | `Cfg`, `LocalInterface`, logger | CONFIG replaces `Cfg` while a session runs | everybody |
| `cmd/*`, `svc/*`, `vpnagent.go` | none | one request per process; service start and stop; signals | rpc |

What is hard here:

* **Concurrency without locks.** Every RPC connection, the reconnect goroutine,
  every monitor, the signal handler and all goroutines of old and new sessions
  read and write `session.Sess`. A session's cleanup may run long after its
  successor was made.
* **Checks that are stale when they are used.** CONNECT looks at
  `autoReconnecting` and `Sess.CSess`, then dials for seconds; `DisConnect` reads
  `Sess.CSess` three times; the monitor reads `ActiveClose` after waking up.
* **Bounded channels with select.** Each goroutine blocks on a channel of 64
  packets and must be released by the right close signal.
* **Partial failure.** A setup that fails half way has to undo routes and DNS,
  and who does it depends on a flag; a batch of route requests may break off with
  answers still under way; a login may fail after any of its messages.
* **State of the machine.** Routes, `resolv.conf` and descriptors outlive the
  agent: a crash, a delayed goroutine or a late sniffer leaves them to the next
  session.
* **Process-wide credentials.** Connection, cookies, token and request headers are
  globals that one login leaves to the next.
* **Closing a device** that other goroutines are reading, writing and watching.

What makes each part correct: the register of the current session changes
hands cleanly (session); the user's last request wins, ends are reported, the
link comes back when it should (rpc); routes and DNS belong to the current
session (vpnc, tun, rpc); flags and senders match the DTLS connection in use,
and everything winds up after `Close` (vpn); a login uses nothing of an earlier
one (auth); the host gets back what it had (vpnc); closing a device is safe and
stops everything (tun); decompression inverts compression (proto). `PROJECT.json` lists the single
hazards with the lines where they bite and the properties that watch them.

## 2. Modules

| Module | What it is |
|---|---|
| `SessionRegister` | abstract specification: what `session.Sess` promises its users |
| `Lifecycle` | the connection's life: RPC handlers, auto reconnect, signal, monitors, device writer and TLS channel of every session |
| `LifecycleProofs` | TLAPS proofs about `Lifecycle`, with the refinement of `SessionRegister` |
| `MCLifecycle` | instance for TLC (symmetry of the clients) |
| `DataPath` | the goroutines of one session: device, TLS, DTLS, dead-peer timer, STATUS |
| `DataPathProofs` | TLAPS proofs about `DataPath` |
| `Auth` | logins one after another over the process-wide connection, cookies, token and headers |
| `LinuxNet` | Linux: the kernel's routes, `resolv.conf`, `SetRoutes` and `ResetRoutes` step by step, DNS sniffers |
| `DarwinRoutes` | macOS: the route socket, its batches, answers and roll-back, DNS |
| `TunDevice` | the tun device of Linux, macOS and Windows: listeners, read, write, close |
| `Lzs` | the LZS compressor and decompressor, bit by bit |
| `AuthProofs`, `LinuxNetProofs`, `DarwinRoutesProofs`, `TunDeviceProofs`, `LzsProofs` | TLAPS proofs about the modules they are named after |
| `MCDataPath`, `MCAuth`, `MCLinuxNet`, `MCDarwinRoutes`, `MCTunDevice`, `MCLzs` | instances for TLC |

Definitions whose comment starts with "Mutant of" are faulty variants of the
definition that follows them. No specification uses them: each is there to show
that a property would notice that mistake in the code.

### Lifecycle

Sessions are numbered in the order in which `NewConnSession` makes them, and the
channel `Sess.CloseChan` is named by the session it was made with. *Threads* are
the RPC connections (each runs one request at a time, as `jsonrpc2` calls
`Handle` synchronously), the reconnect goroutine and the main goroutine. `pc`
says where a thread is; a step is the code up to the next point where the
goroutine blocks or re-reads a shared variable. Thus `DisConnect` is three
steps (`connect.go:52-53`, `54`, `55`) and `monitor` three (evaluating
`Sess.CloseChan`, telling the clients, deciding about a reconnect), while
`NewConnSession` and `Close` are one step each: a goroutine that comes between
`session.go:332` and `334`, or between `149` and `152`, is outside the module.

* `ConnectReq`, `ReconnectReq`, `DisconnectReq`, `StopReq`: the guards are the
  handler's tests. Requests that the handler answers without doing anything are
  not steps.
* `Negotiate`, `NegotiateFail`: authentication and the HTTP CONNECT, up to
  `NewConnSession`; then `SetupTun`, `RoutesSet` or their failures.
* `ConnectDone`, `ConnectError`, `ReconnectDone`, `ReconnectError`: what the
  caller does with the result.
* `Panic`: a nil `Sess.CSess` in `DisConnect`. `Handle` recovers; in other
  goroutines the process dies (`agent = "crashed"`).
* `TunWriterExit`, `TunWriterClose`: the deferred function of `payloadInToTun`
  in its two parts; `TlsExit`: that of `tlsChannel` or its sender.
* `routes` is the owner of the host's routes and DNS. They exist once per
  machine, so `SetRoutes` takes them and anybody's `ResetRoutes` removes them.

`asked`, `intent` and `agent` record what the environment sees: which clients
wait for an answer, what the user last asked for, whether the process runs.

`Timely` restricts scheduling, not the code: when TRUE, a goroutine that only
needs the CPU has run before a later negotiation with the server, which takes
network round trips, succeeds (a failure may come at once). It makes the
counterexamples of `revive` and `cancel` short and free of extreme delays; `races`
does not use it.

### DataPath

One session, from `NewConnSession` on. The three packet channels are counters
bounded by `Cap`; packets are not told apart. Each goroutine is a control state
(`tunR`, `tunW`, `tlsR`, `tlsW`, `dtls`, and `sender[k]` for the sender of the
k-th DTLS connection), each select an action with a disjunct per case or an
action per case. `Close` has the code's test of `DtlsConnected` and takes the
flag back only when `Sess.CSess` still points to the session (`session.go:344`);
`flagLeft` records that it did not. `closeSetup` closes `DtlsSetupChan` and so
releases STATUS. `stolen[k]` counts the packets which the sender of the k-th
connection took after that was torn down. `CloseSession` stands for `DisConnect` in
another goroutine. Left out: the bytes of the packets (framing, compression,
statistics), KEEPALIVE and DPD-RESP packets, which change nothing, and the length of
the DTLS retry delay.

### Auth

One attempt at a time: CONNECT, an auto reconnect or RECONNECT. Connections are
numbered in the order they are dialled, and everything that comes from a server
(cookies, the opaque part of the form, the token) is named by the connection it
came over, so that a property can tell whose it is. `InitAuth` and `DialFails`
begin a login; `PostFails`, `PostRefused`, `InitForm`, `AskedAgain`, `Denied` and
`LoggedIn` are the outcomes of `tplPost` and what its caller makes of them, for
every kind of form (`Forms`). `SendConnect` to `StartTls` are `SetupTunnel`, and
`TlsExits` the deferred functions of the goroutines that were given the
connection. `why` records how an attempt ended: "refused" by the server, "garbled"
when the answer's XML is broken, "failed" otherwise. Concurrent attempts are
`Lifecycle`'s subject.

### LinuxNet

`table` is the kernel's routing table with the rules the code relies on: a route is
identified by destination and priority, the lowest priority wins, `RouteDel`
without one takes the preferred match, a device that goes takes its routes along.
`SetRoutes` and `ResetRoutes` are cut at every netlink call or loop of calls
(`AddServer`, `DelDefault`, `LowerDefault`, `AddInclude`, `AddExclude`, `SetDNS`;
`ResetBegin` to `RestoreDNS`), since both may run at once for two sessions.
`Original` is what the host has to begin with: one or more default routes of any
priorities (`DefaultPrios`). A session begins with `GetLocalInterface`, or, once an
INTERFACE request has set `auth.Prof.Initialized`, with `KeepLocalInterface`, which
may leave `localInterface` nil: then `SetRoutes` panics, a handler recovers
(`SetRoutesPanics`) and any other goroutine takes the process along (`Dies`).
`SetupTunFails` is every failure of `setupTun`. The
goroutine of `setDNS` copies `resolv.conf` (`DnsCopy`) and writes it two seconds
later (`DnsWrite`). Sniffers (`SniffLoad`, `SniffStore`, `SniffAdd`) handle one
name of `DynamicSplitExcludeDomains`. `races` records the orders in which the code
gives no guarantee; each property names those it has to exclude, so that the list
is the exact price of the promise: an overlap of `SetRoutes` with the last
`ResetRoutes`, a session begun before the last was reset, a write of `resolv.conf`
or a sniffer that comes after `ResetRoutes`, two sniffers with different answers,
an ignored error of `RouteAdd`, the death of the agent. These are hazards the
properties do not catch: they hold only where the order in question does not come
about, and `PROJECT.json` lists them without a property. `ZeroAssumption` says that
server, answers and split routes are not 0.0.0.0/0 themselves; a server that sends that
network as a split route is not modelled.

### DarwinRoutes

`job` is who holds the mutex of `routeSocketState`, with what is still to be
written (`todo`) and what was written with the answer it will get (`written`).
`WriteRequest` is one turn of the write loop: the kernel acts at once, its verdict
comes back from `write`, in an answer, or never. `Rollback` starts the second
batch that takes back confirmed ADDs. `SetRoutes`, `SetDnsRoutes`, `ResetRoutes`
and `DynamicAdd` are the callers; the mutex is free between them, so sniffers get
in between. `Crash` forgets the process and keeps the kernel's table. `spoilt`
records failures after which the code cannot know what is in place (a DELETE
refused, an answer lost, `scutil` failing to restore, a crash). `SystemRoutes` are the
destinations to which the host has routes of its own; the server may be one of them.

### TunDevice

One device on one of the three systems, from `CreateTUN` on: the listeners
(`routineHackListener` and `routineNetlinkListener` on Linux,
`routineRouteListener` on macOS), the two goroutines of `vpn/tun.go` that read,
write and close, and `Close` in as many steps as others can see. Nobody in this
program calls `Events()`, so the channel only fills; on Linux an ordinary set-up
already gives more events than it holds. The reader either has a packet for TLS,
whose send watches `CloseChan`, or one for DTLS, whose send only watches
`DSess.CloseChan` (`dsess`), which `ConnSession.Close` may leave open.

### Lzs

`lzsCompress` has one action for each way a turn of one of its loops can go:
`ScanLiteral` and `ScanMatch` for the main loop, `FollowChain` for the search along a
hash chain, `PutShortMatch`, `PutLongMatch`, `PutBlock` and `PutLastBlock` for a match,
`HashRest` for the positions it covers, `PutTail` for the last bytes and the marker.
`lzsDecompress` has one for each kind of symbol, and `DecodeLong` for each block of a
long length; the bits pending in either are explicit. A record `codec` holds the widths: `w` bits per
byte, `x` more bits for long offsets, `p` bits for positions, and the sizes of the
buffers. The code's values are 8, 4 and 16; with small ones TLC goes through all
short packets and all short frames, windows that wrap and inputs at the limit
included. `SendFrame` is the choice between compressed and plain data.

### Composition

The modules overlap in `Close`, `SetupTun` and the exit of the device's writer:
`Lifecycle` needs only that a session's goroutines notice `CloseChan` and call
`Close` when they fail; that they all do is what `DataPath` shows
(`TlsSideEnds`). `Lifecycle` has one owner of all routes; `LinuxNet` and
`DarwinRoutes` open that step up, and `Lifecycle` says in which orders their
`SetRoutes` and `ResetRoutes` are called.
`TunDevice` shows what `DataPath` takes for granted, that a closed device ends the
read unless the reader is in its send; `Auth` opens up the negotiation of `Lifecycle`.

## 3. Runs

Passing runs:

| Run | Instance | Shows |
|---|---|---|
| `races` | 2 clients (symmetric), 2 sessions, auto reconnect, failing setups, a signal, arbitrary delays | `TypeOK`; `NoFalseAbort`: the end of a session is announced only when it is closed; `CurrentIsOpen`: `Sess.CSess` is the newest session, open, with its own open channel; `WatchedSession`: its end will be seen by somebody; `FlagMeansReconnecting`; `ImplementsRegister`: the refinement of `SessionRegister` |
| `channels` | capacity 1, 1 DTLS connection, failing setups, STATUS and CONFIG, fair | `TypeOK`; `FlagMeansChannel`: who follows `DtlsConnected` finds a connection, or a closed `DSess`; `OldSendersTakeOne`; `TlsSideEnds`, `DtlsSideEnds`: what ends after `Close` |
| `logins` | 3 connections, all attempts, answers and failures | `CredentialsAreFresh`: a login sends and uses only what it got itself; `LeftOpenAfterAnswer`: which connections are left open; `AttemptKeepsConnection`: late goroutines do not close the new connection |
| `hosts` | Linux, 2 sessions in global mode, default routes of priorities 100 and 600, 2 sniffers with different answers, failing devices and routes, INTERFACE, a crash | `ResolvRestored`: DNS is what it was when all is over; `NoLeftovers`: so are the routes, but for default routes turned into one of priority 0; `DefaultRouteKept`; `LocalIsPhysical`: the tunnel is not taken for the local interface; `TrafficTunnelled` |
| `faults` | macOS, 2 sessions, 2 gateways, all faults | `SystemRoutesKept`: the host's routes to anywhere but the server; `CleanWhenClosed`; `FailedLeavesNothing`: a batch is all or nothing; `SplitFollowsSession`; `ServerRouteCurrent`: even after a crash |
| `device` | the three systems, 3 events, 2 changes of the link, fair | `SendsAreSafe`, `SocketClosedOnce`, `WintunAlive`: closing is safe at any moment; `CloseReturns`, `PumpsLeave` (liveness): it comes to an end, and both goroutines leave unless the reader waits for room in `PayloadOutDTLS` |
| `codec` | small widths exhaustively, the real widths on test vectors | `RoundTrip`; `ChainSound`: hash chains lead to equal pairs in the window; `BuffersHold`: neither buffer is overrun, whatever comes in; `MatchesOpenconnect`: bit for bit |

Runs in which the code does not do what its documentation says (each checks one
property; `PROJECT.json` quotes the text):

| Run | Property | What happens |
|---|---|---|
| `revive` | `UpWhenWanted` | the link drops again before the reconnect goroutine has cleared `autoReconnecting`; nobody reconnects |
| `stuck` | `OutboundFlows` | the DTLS channel is lost while its queue is full; the device's reader never goes over to TLS |
| `cancel` | `DisconnectWins` | DISCONNECT comes while the reconnect goroutine dials; `NewConnSession` resets `ActiveClose`, and the session stays |
| `status` | `StatusReleased` | the session was made with `no_dtls` set, CONFIG clears it, and STATUS waits for a `dtlsChannel` that was never started; a setup that fails gives the same |
| `reconnect` | `ReconnectUsable` | RECONNECT goes on with the connection that the session before has closed |

Statements one would like to make of the code, none of them checked by a run, because
TLC refutes them:

| Statement | What happens |
|---|---|
| `Lifecycle!NoOrphan`: no session is open that is not `Sess.CSess` | a CONNECT and an auto reconnect, or those of two clients, both succeed; `NewConnSession` replaces an open session without closing it (`AutoReconnect = TRUE`, `MaxSessions = 3`). `session.go:328-331` says so of the cleanup of an old session, which indeed makes none; it is the test of CONNECT, stale when it is used, that does |
| `Lifecycle!RoutesFollowSession`: routes and DNS belong to the current session | `SetRoutes` fails half way and `DisConnect` sets `ActiveClose` first, so that the device writer does not reset the routes either; or it resets them late, after the next session has set its own |
| in `DataPath`, `closed ~> dtls \in {"none", "done"}` | `Close` tests `DtlsConnected` once; a handshake that completes afterwards raises the flag of a closed session, whose `DSess` nobody closes, and `dtlsChannel` blocks on a full `PayloadIn` |
| in `TunDevice`, a `Close` that has returned leaves no listener in its send to the full events channel | on Linux one of them stays there for ever, since nobody reads `Events()`; socket and channel remain open, although `tun.go:26` says of `Close` that it "stops the device and closes the event channel" |
| in `LinuxNet`, `Settled => table = Original` in global mode | `vpnc_linux.go:59` deletes every default route, `106` restores one of priority 0 |
| in `DarwinRoutes`, `SystemRoutesKept` with the server | `vpnc_darwin.go:135` deletes the host's own route to the server too, and nobody puts it back |

**Bounds.** Two sessions are enough for every interplay of an old session's
cleanup with its successor, two clients for every pair of concurrent handlers
beside the reconnect goroutine; their safety invariants are also proved without bounds
(section 4). `races` has the view `Observed`, which leaves out `routes` and `intent`:
no action's guard reads them and no property of that run does. Capacity 1 makes every
channel empty and full; the code's 64 adds intermediate fillings. One DTLS connection
that is lost and retried meets every end of the session; two, where an old sender meets
a new connection, are covered by the proofs and were checked for the invariants.
Three connections in `logins` let two old ones meet a new attempt. Two sessions in
`hosts` and `faults` are an old one and its successor. `faults` has one destination
of each role: one included network the host already routes, one it does not, an
excluded one, a DNS server that a sniffer may add too; it keeps sessions apart
(`Orderly`); `HostRoutesKept` and `NoRouteOutlivesSocket` are proved for overlapping
ones. In `hosts` the constraint `Apart` of `MCLinuxNet` stops a behaviour once its
sessions overlap.
`device` has room for 3 events where the code has 5 and 10, and two changes of the
link, enough to fill it with one message to spare. `codec` has every packet and
every frame up to the lengths of `MCLzs`, at which the small window wraps.
`CHECK_DEADLOCK FALSE`: an agent without requests and a session that has ended
rightly do nothing.

**Fairness.** Two modules have liveness properties. `DataPath!Fairness`: goroutines
that can run do so; strong fairness for the `CloseChan` case of the two loops that may
have packets all the time (Go's select picks a ready case at random) and for the
device reader's send (blocked senders are served in order); a read on a closed
connection or device returns; the DTLS reads of a closed session run into their
absolute deadline, which `ReadDeadTimer` has stopped moving. A TLS write is
taken to return, which TCP's own timeouts and `conn.Close` ensure.
`TunDevice!FairSpec`: the pumps and the callers of `Close` run when they can; strong
fairness for the `CloseChan` case of the writer's select; a read of a closed file
returns. The reader's send to a full channel is not assumed to find room, only to be
released. Nothing is assumed of the listeners (what `device` shows does not need
them), of packets, the driver's signals or changes of the link.

## 4. Proofs

`LifecycleProofs` proves for every set of clients, every bound on sessions and
every setting of the switches: `TypeCorrect`, `NeverFalseAbort`,
`CurrentAlwaysOpen`, `FlagCorrect`, `AlwaysWatched` and `Refinement`
(`Spec => Register!Spec`). The inductive invariant is
`IInv == TypeOK /\ SessInv /\ Known`: the register's consistency (`SessInv`: the
current session is the newest, open, and names the channel; ended sessions are
closed) is inductive only together with `Known`, that every session a goroutine
holds (a thread's local, a device writer, a TLS channel) has been made, so that `NewConnSession` makes a session nobody can yet close. The lemmas
`CloseKeeps` and `NewConnSessionKeeps` carry the two central steps. The flag, the
watching and the refinement are proved step by step on top of `IInv`. All of it is
about steps as large as `Close` and `NewConnSession`; what becomes of the register when
their instructions interleave is the first item of the plan.

`DataPathProofs` proves for every capacity and number of DTLS connections:
`TypeCorrect`, `FlagCorrect` (`FlagMeansChannel`) and `SendersCorrect`
(`OldSendersTakeOne`). The strengthening `Order` says that the DTLS session is ended
only with the session and never during a handshake: since `dtlsChannel` tests
`CloseChan` before it dials, no handshake can raise the flag again once `DSess` is
closed. A sender that takes a packet of a lost connection is then at its write, on a
connection that is closed: that is why one packet is all it takes.

`AuthProofs` proves the three properties of `logins` for any number of connections:
`FreshCredentials`, `OnlyAnsweredStayOpen`, `ConnectionKept`; and `NothingToReconnect`,
what the run `reconnect` shows in general: once the last session's goroutines are gone,
RECONNECT finds a closed connection, or one on which a login ended without success. The
strengthening: an attempt that has dialled has the connection to itself (`Owned`), and
what it leaves in `auth.Conn` is served, closed or given up after an answer
(`Leftover`).

`TunDeviceProofs` proves `SendsSafe`, `ClosedOnce` and `NobodyInWintun` for any
capacity of the events channel and any number of link changes. They need to know
where each goroutine can be on each system (`Places`), that the `sync.Once` lets one
closer in (`OneCloser`), who closes channel and socket at which of its steps
(`EventsClosed`, `SocketClosed`), and on Windows that `running` counts the pumps
inside a call (`Counted`).

`DarwinRoutesProofs` proves the five properties of `faults` for any number of
sessions, gateways, split routes, DNS servers and answers, overlapping ones and a
host route of the host's own to the server included. `HostRoutesKept` and `NoRouteOutlivesSocket` (the part of
`CleanWhenClosed` about routes) hold in any order of the sessions; `CleanAfterReset`,
`AllOrNothing`, `SplitInPlace` and `ServerReachable` have the hypothesis `Orderly`,
that sessions follow one another. The heart of the invariant is `Accounted`: every
route of ours in the kernel is in `installed`, confirmed in the batch under way, or
still to be deleted by a reset or a roll-back. It needs `Foreign` (nothing confirmed
or to be deleted is the host's), `Holder` and `Contents` (whose batch it is and what
is in it). `ServerRoute` and `SplitRoutes` follow the batch of `SetRoutes` request
by request, since an ADD of a later request must not meet the destination of an
earlier one.

`LinuxNetProofs` proves the five properties of `hosts` for any number of sessions
and sniffers, any split routes and answers (the server's address and excluded
networks among them), any default routes of the host, global and split mode: `LocalPhysical`, `HostKeepsDefault`,
`AllThroughTunnel`, `HostDNSBack`, `NothingLeft`. The argument: without the races
"early" and "overlap" one session at a time has anything under way (`Order`); so
every default route has the priority which that session's progress implies
(`Defaults`), and the server's route is there until its reset (`ServerKept`).
`Physical` is what makes the next session's `GetLocalInterface` right although the
last tunnel may still be open, `Kept` says which session has lowered the default
route and that otherwise the default routes are the original ones or that of priority
0, `Resolv` whose `restoreDNS` is still to come, and `Leftovers` names for every
route the step of `ResetRoutes` that will delete it. The races that a property
excludes are the same in the invariant: a part that excludes fewer holds also after
a crash or a failed `RouteAdd`.

`LzsProofs` proves three of the four properties of `codec` for all widths, buffer sizes,
packets and frames: `ChainIsSound`, `BuffersAreEnough` and `PacketsSurvive` (`RoundTrip`).

* `Inv == TypeOK /\ Stages /\ Budget /\ ChainSound /\ BuffersHold` is inductive. The
  chain array is indexed by position modulo the window, so `InsertSound` rests on
  `Apart`: two positions of the window, being less than its size apart, never share an
  entry. That `BuffersHold` is true after a match needs `Budget`: a block of eight
  bits stands for thirty bytes, a match of two bytes already pays for its offset, and
  while the rest of a match is hashed its bytes are paid in advance. `Copied` goes
  round with the period of the offset; that this restores the packet's bytes is
  `CopyRestores`, by a least counterexample (`Least`, from the library's well-founded
  induction, with a set in place of a predicate), as is the existence of the length
  that `MatchLength` chooses.
* `RoundInv` adds what the bits mean. A bit string is a function `V` from a position to
  the number that the bits before it make, so that `Field(V, p, n) = V[p + n] - V[p] * 2 ^ n`
  is what `n` bits at `p` say and appending, splitting and reading are arithmetic on
  `V`; nothing is by recursion. `Encodes` says that bytes and pending bits are such a
  string (`PutBitsEncodes`: a token is its next field, however it is cut into bytes),
  `Carries` that a frame is
  (`GetBitsReads`: reading returns the field at the position reached). `Path` is the set
  of boundaries between symbols, pairs of a bit position and a position in the packet:
  each is the end or has a literal or a match of the packet to the next. The compressor
  extends the path (`Coded`, and `Partial` within a long match); the end marker makes it
  `Whole`; the decompressor is always on it with the bytes before it (`AtSymbol`), or
  within a length (`InLong`). `ReadAt` is where the code's own rule could have failed:
  `getBits` refuses when fewer than two bytes are left, whatever it needs, and the
  padding of the marker is what keeps two bytes there until the marker is read.
* `CodecAssumption` asks for bytes of at least four bits, fewer extra bits of a long
  offset than bits of a byte, and a `decompressBuf` with room for a packet (16384 bytes
  against the 2048 of `BufferSize`). `PowerAssumption` states that powers of two up to
  three bytes are positive and multiply, and that `2 ^ p` is positive: the provers
  calculate `2 ^ n` for numerals only. TLC evaluates both on the instance.

Each inductive invariant was first checked by TLC on the instances of the runs, except
`RoundInv`, which says that there is a bit string and a path: there TLC checked
`RoundTrip` alone.

Only model-checked: the liveness properties (`TlsSideEnds`, `DtlsSideEnds`,
`CloseReturns`, `PumpsLeave`), since fairness is outside the prover's reach; and `MatchesOpenconnect`, which compares the output for
four given inputs, a calculation. That the properties of the five violation
runs fail is what these runs show.

## 5. Not modelled

The wire format (framing of CSTP and DTLS), LZ4 (a library), Windows routes and
DNS (calls of `winipcfg` without state of the agent's own), dynamic include routes
on Linux (they go with the tunnel), `ConfigInterface` and `GetLocalInterface` on
macOS (output of `ifconfig` and `route`), the buffer pool, the list of clients,
timers with durations, logging, the command line, wintun and its loader
(third-party). `PROJECT.json` says for each component what is covered.

Also abstracted: `Close` and `NewConnSession` are atomic although the code takes
no lock; the data race between `session.go:332-334` and `session.go:149-152` is
outside the model. A server without a DTLS port is the case `DTLSOff`. In `LinuxNet` and
`DarwinRoutes` the host's network does not change while a session is up, and no
other process changes routes; on Linux the host has no route of its own to a
destination the agent uses, which `ResetRoutes` would delete. On macOS an answer is
the agent's own: the code compares only the sequence number. A listener of the
macOS device that reads its descriptor after it was closed and reused is outside
`TunDevice`.

## 6. Plan

1. `SessionRace`: `Close`, `NewConnSession` and `DisConnect` instruction by
   instruction, the nil dereferences included; which of the register's promises
   survive.
2. `Buffers`: ownership of pooled packets, with the DNS sniffer.
3. `Timers`: dead-peer interval against read deadline, the two backoffs, expiry.
4. `Clients`: registration, removal and notification.

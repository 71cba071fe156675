# WattToolkit-Lite in TLA+

A verification project for WattToolkit-Lite, a network accelerator for Windows
written in Rust (`src/crates`: `core`, `ui`, `loader`). A user ticks
acceleration projects in a tree and presses *start*; the program then brings the
traffic of those projects to its own listeners, in one of four modes, and
forwards it over addresses it resolves itself. When the user presses *stop*, or
leaves, the machine has to look as it did before.

The modules here are translated from the source, and every mapped definition is
tied to its lines by `PROJECT.json` (`map`). The finding, the hazards and the
theorems are listed there as well.

* [1 The system](#1-the-system)
* [2 Modules, and how they correspond to the code](#2-modules-and-how-they-correspond-to-the-code)
* [3 Runs](#3-runs)
* [4 Observations](#4-observations)
* [5 Theorems and their proofs](#5-theorems-and-their-proofs)
* [6 What is only model-checked, and what is not modelled](#6-what-is-only-model-checked-and-what-is-not-modelled)
* [7 Plan](#7-plan)

## 1 The system

### 1.1 Components

| Component (source) | State it keeps | Operations | What is hard about it |
|---|---|---|---|
| **Proxy life cycle**, `core/src/proxy.rs` | `Inner` behind one mutex: `running`, `mode`, `runtime`, `tasks`, `windivert_stop`, statistics; on the machine: the hosts block, the proxy setting, the PAC URL, bound sockets | `start_blocking`, `start`, `stop`, `stop_inner`, `is_running` | A start runs on a thread of its own and releases the mutex between its steps; `stop` runs on the user-interface thread. Runtimes are dropped by whoever holds the last `Arc`, sometimes with the mutex held. Every step can fail after the ones before it took effect. |
| **Hosts file editor**, `core/src/hosts.rs` | the hosts file: user lines, a managed block, a backup block | `update_hosts`, `remove_hosts`, `reset`, tag queries | Read, modify, write without a lock or a temporary file; the user edits the same file. |
| **Windows proxy settings**, `core/src/sysproxy.rs` | registry values and the WinINET blob, two copies of one setting | `set_system_proxy`, `set_pac_proxy`, `describe_effective_proxy` | Several writes without a transaction; the setting also belongs to the user. |
| **Acceleration tree and settings**, `core/src/{model,service,settings,data}.rs`, `ui/src/state.rs`, `ui/src/pages/accelerator.rs` | the tree twice (user interface and service), the saved list, `settings.json` | click a leaf or a group, `commit`, `apply_enabled`, load, save | Two copies and a derived three-state value that must agree; a restart in between. |
| **DNS resolver and cache**, `core/src/dns.rs` | a cache of answers, IPv6 support, the source port of own queries | `resolve_a`, `resolve_alternatives`, DoH race, UDP and system fallback | Concurrent tasks, deadlines, abandoned tasks that still write the cache. |
| **DNS interceptor**, `core/src/windivert.rs` | a WinDivert handle, the stop flag | `run`: receive, match, answer or re-inject | A blocking receive between two readings of the stop flag; its own queries must pass. |
| **Intercepting proxy**, `core/src/mitm.rs` | pooled upstream connections, last good address per host | accept, TLS with a generated leaf, serve, reuse, retry, hedged dial | Reuse of a connection the server closes at that moment; staggered attempts that race; a request replayed after a failure. |
| **Forward proxy**, `core/src/fwd.rs` | one task per connection | CONNECT, PAC, absolute URI; relay | Two directions with half-close; first-match rules. |
| **HTTP/1 framing**, `core/src/http1.rs` | a read buffer | heads, fixed, chunked and until-close bodies | Which framing wins, and when the connection may be reused. |
| **Agents**, `core/src/agent.rs` | none | HTTP CONNECT, SOCKS4, SOCKS5 handshakes | Multi-step exchange over a stream. |
| **Certificates**, `core/src/cert.rs` | root certificate in two files and in memory, leaf cache, Windows store | load or generate, issue, install, uninstall | Two files that belong together; a cache with an expiry. |
| **Network test**, `core/src/nettest.rs` | results | independent probes | None that interact. |
| **Application loop**, `ui/src/{app,actions,lib}.rs` | settings, the tree, a queue of deferred actions, a log buffer | every button and menu; timer | Worker threads report through a channel; the user may act meanwhile. |
| **Win32 layer, dialogs, pages**, **loader**, **paths** | windows | drawing, controls, set-up | Pure input and output of the operating system. |
| **WinDivert driver**, `vendor/windivert` | external | | External binary. |

### 1.2 Interactions

```
 ui thread ──spawn──▶ start thread ── tokio runtime ── accept tasks ─▶ mitm / fwd ─▶ dns ─▶ network
     │                    │  mutex: Inner                  │ blocking task: windivert loop
     └── stop() ──────────┴──▶ hosts file, registry, WinINET blob ◀── the user, in Windows
     └── clicks ─▶ tree ─▶ AccelerateService ─▶ settings.json
```

### 1.3 What makes it correct

* *Life cycle.* While the record says "running" the proxy serves; at rest
  nothing is on the machine but the effect of the running mode; nothing survives
  that no later `stop()` can reach; no runtime is destroyed under the thread
  that blocks on it; every start returns and what is aborted is released.
* *Hosts.* No user line is lost as long as the file can be read and a write is
  not cut short, the block decides for the managed names while it is there,
  nothing is left of it afterwards.
* *Proxy settings.* The two copies agree, and a stopped accelerator directs no
  browser to a listener that is no longer there.
* *Tree.* Both copies and the container states agree, a relaunch restores the
  selection, and once the user has clicked the proxy works with the groups whose
  boxes are ticked.
* *Resolver.* A resolution always ends, comes back empty only when every plain
  source is silent, and neither the cache nor a result mixes address families.
* *Upstream.* A request that is not safe to repeat is not written again after
  silence, a signed-in one never races, the pool holds only idle connections,
  a 502 comes only after every known address, and every request ends.
* *Client side.* Requests and responses are read exactly where they start, a
  response that is told complete is complete, and a relay ends when the origin
  falls silent or the client leaves.
* *Tunnels.* What comes out of a tunnel is what went in, in both directions,
  whichever agent is in between; only addresses of the source a host is entitled
  to are dialled.
* *Certificates.* A certificate, its key and the leaves made of it belong
  together, and what is decrypted is decrypted with a root the system trusts.
* *Interceptor.* The proxy's own look-ups are not answered with loopback, none
  takes the answer of another, and a stop ends the steering.

## 2 Modules, and how they correspond to the code

### 2.1 `ProxyManager`

The life cycle. A `start_blocking` call and the runtime it builds share one name
`s \in Starts`; one action is one critical section of the mutex or one call with
an effect outside the process, so that all interleavings the mutex permits are
there.

| Variables | Code |
|---|---|
| `running`, `mode`, `runtime`, `tasks`, `wdStop` | the fields of `Inner`; `tasks` holds the starts whose task handles it contains |
| `lock` | a runtime being dropped while the mutex guard is alive |
| `pc`, `want` | where a start thread is, and the `proxy_mode` it was spawned with |
| `rt`, `listen`, `aborted`, `hook`, `flagged` | each call's runtime, its sockets, whether its tasks were aborted, its interceptor thread, its stop flag |
| `effects` | the hosts block, `ProxyEnable`, `AutoConfigURL` |
| `uiPc`, `uiMode`, `uiThen`, `chosen` | `stop()` in progress and what follows it; the chosen mode |

| Actions | Code |
|---|---|
| `PressStart`, `PressStop`, `SwitchProxyMode`, `ApplyProxyDialog`, `RequestExit` | `start_accel`, `stop_accel`, `switch_proxy_mode`, `apply_proxy_dialog`, `request_exit` of `ui` |
| `StopReadMode`, `StopCallInner`, `StopCleanUp`, `Restart`, `Exit` | `stop()`: read the mode, `stop_inner`, clean up by that mode; then the caller's rest |
| `Publish`, `LockedDropEnds` | `start_blocking` builds its runtime and stores it; the replaced one is dropped with the guard held |
| `Begin`, `WriteHosts`, `Bind`, `ApplyProxy`, `Register` | the steps of `start()` in every mode |
| `Rollback`, `UndoHosts`, `ClearRuntime` | the error paths |
| `Leave`, `DropEnds` | the end of `start_blocking`, which blocks until the runtime it drops is drained |
| `CloseSocket`, `HookOpen`, `HookCheck`, `HookPacket` | tokio workers and `DnsInterceptRuntime::run` |
| `Kill` | the process dies |

Abstractions: the tables `start()` computes from the groups are left out (they
belong to `AccelerateTree`), and so are statistics. All modes bind the same
configured address, so two of the program's own sockets on one port collide.
A write of the hosts file or of the settings is one step here; `HostsFile` and
`SystemProxy` take them apart. Reads of `Inner` that feed a label on the screen
are left out; those that decide an action (`is_running`) are guards.

### 2.2 `HostsContract` and `HostsFile`

`HostsFile` has the file as a sequence of lines, and of a call the text it is
going to write. `UpdateHosts` and `RemoveByTag` read the file and compute the
text (`Updated`, `Removed`: the loop over the lines with its phases `main`,
`block`, `backup`, as the recursive function `Reader` of which `Take` is one
turn, then blank lines trimmed and the blocks appended, `Composed`) and hand it
to `Rewrite`; `OpenForWrite` truncates and `FinishWrite` ends the
write. `OpenFails`, `WriteFails` and `Dies` are the failures: a write that is
refused before the truncation, one that fails behind it (a full disk) and returns
its error with a cut file, and the end of the process. `UserInserts` and `UserDeletes` are the user, who edits
between calls and outside the managed block; a block has no line the user wants
to keep. Which faults can happen is chosen once, in `HostsInit` (the variable
`mishaps`), so that one run covers every combination and a property can say what
it needs.

`HostsContract` is the promise: a set of user lines and a set of installed
domains, changed by install, withdraw, edit and reset. The refinement mapping
counts the user's lines wherever they are in the file, and takes the text being
written for the file while it is written: `UserLinesKept == Contract!Spec`.
The contract has two more actions for what the code does not prevent. `CutOff` is
a write that is cut short, by a death or by an error behind the truncation: a
part of what was to be written is left, and nothing else. `Overwrite` is a file
that could not be read and is written over. They are possible only where the
faults are (`cut <- mishaps \cap {"kill", "write"} # {}`,
`unread <- "read" \in mishaps`).

### 2.3 `SystemProxy`

Plain values (`enable`, `server`, `autoUrl`) and the blob (`bManual`, `bAuto`,
`bServer`, `bUrl`); one action per registry write, in the order of
`set_system_proxy` and `set_pac_proxy`, with `update_blob` and `set_blob_flags`
as operators. `manual` is the flag `set_pac_proxy` reads at its head and uses at
its end. The user works in the Windows settings between calls; one who enables a
proxy there has entered an address that is not the accelerator's.
`ProxyOverride`, and the other flag bits of the blob, are not told apart. As the
mishaps of `HostsFile`, `faults` is chosen in `Init`.

### 2.4 `AccelerateTree`

The selection as the set of leaves that are on, and the three-state value of
each container and group, in both copies (`leafOn`, `node` for `app.groups`;
`svcOn`, `svcNode` for the service). `Select` is the whole of a click:
`set_leaf` or `set_group`, `recompute`, `commit`, `apply_enabled`. `StartAccel`
sets the list, saves it and records which leaves `start()` would make its tables
from. `Launch` is `App::new` with any manifest: the built-in list enables its
groups, one found on the disk (`LOCAL_ACCELERATE.json`, which is read first) may
give each group any state, and nothing but a click recomputes it. `given` and
`clicked` are history: the states of the manifest, and whether the user has
clicked since the launch. `ClicksDecide` says what a start takes of a group in
either case. Ids are unique, as in the built-in list. Which of a failing save
(before or behind its truncation) and a kill that cuts one off can happen is
chosen in the initial state here too (`failures`).
The specification is `TreeSpec`, so that one module can be about this one and
`SystemProxy`.

### 2.5 `DnsResolver`

One host and one call of `resolve_a` at a time, with everything earlier calls
left running.

| Variables | Code |
|---|---|
| `v6` | the result of `is_support_ipv6`, kept for the life of the process |
| `table` | `DNS_CACHE`, the fresh entries by source and record type |
| `task` | the lookups the call waits for: `resolve_doh_typed` per endpoint, `resolve_udp_typed` per server |
| `stray` | the spawned lookups of a race that ended or timed out; they are not aborted |
| `pc`, `fam`, `at`, `ips` | the leg, its record type, the place in its list, what was collected |
| `via`, `silent` | history for the properties |

| Actions | Code |
|---|---|
| `Resolve`, `DohAnswers`, `StartRace` | `resolve_a` with and without DoH; the configured endpoint |
| `AwaitNext`, `RaceLost`, `Deadline` | `race_doh`: the tasks in list order under `tokio::time::timeout`, which polls the tasks before its timer |
| `AskServer`, `ServerAnswers`, `ServerSilent`, `ServersSilent` | `plain_lookup`, AAAA then A, and `plain_then_system` |
| `AskOS`, `OSDone` | the system resolver, last |
| `Answer`, `StrayAnswer` | `doh_query_once` with the retry of `resolve_doh_typed`, `resolve_udp_typed`: parse, filter, `cache_put` |
| `Expire` | the lifetime of an entry ends (`cache_ttl`, `cache_get`) |

Time is not modelled: an entry may expire at any moment, a deadline may pass
whenever the awaited task is not done, and a lookup that fails or times out is
one with an empty answer. Sources answer any set of the host's addresses; in a
DoH answer a record's type and the family of its address agree.

### 2.6 `Upstream`

`forward_one` and what it calls, for several concurrent requests to one host.
They share `pool` (`UpstreamPool`, connections with their age), `lastGood`
(`LAST_GOOD`) and `agent` (the setting, which the user may switch at any time);
each has its phase `pc`, its snapshot `via` of the setting, and what is still to
be tried (`todo`, `spare`, `stage`, `tried`, `flying`).

| Actions | Code |
|---|---|
| `Begin` | the settings are read, a reusable connection is taken (`UpstreamPool::take`) |
| `ReuseFails`, `ReuseDropped`, `ReuseAdopted` | the exchange on the pooled connection fails, answers with a gateway error or no body in time, or is adopted |
| `Plan`, `Start`, `SecondWave`, `More` | endpoints and candidates; the next attempt of the sequential loop or of the hedge, the hedge's second wave, and the further sources (host, alternatives of alias and host) |
| `ConnectFails`, `NoResponse`, `GatewayAnswer`, `Adopt` | how an attempt ends (`attempt_upstream`, `exchange`, `probe_body`) |
| `GiveUp`, `Budget` | `write_502` after the last candidate, or when a time-out (`UPSTREAM_BUDGET`, `HEDGE_BUDGET`) passes |
| `Completes`, `Breaks` | `finish_response`: the body came whole, and is pooled if the origin keeps the connection, or broke off |
| `Ages`, `SwitchAgent` | `POOL_IDLE_TIMEOUT`; the settings dialog |

A candidate is a TLS mode (no SNI, substitute or requested name, dialled name)
and an address. Ages are 0, 1 (older than 2 s) and 2 (expired). A request is a
read-only one, a Git POST or another POST, with cookies or without.
`dirty`, `copies`, `headed` and `missed` are history for the properties.

What `retain` and `filter` keep of a list is `Kept` and `Without` of the small
module `Selection`, which `Tunnel` uses too: the n-th kept element is the one at
the kept position of rank n. The library's `SelectSeq` and the like mean the same
but are RECURSIVE operators, which the prover does not read.

### 2.7 `HttpFraming` and `ClientConnection`

`HttpFraming` has a message as a sequence of tokens and the reader's place in
it, one `Step` for every reader of `http1.rs`: the request body, the response
body relayed verbatim, and the one decoded for HTTP/2. The pieces of a body are
given in closed form (`Plain`, `Chunked`), which is easier to reason about than
a recursion. `ClientConnection` is the connection around it: `ReadHead`, `ReadBody`, `ReadFails` are `read_request`
with its interim answer; `Answers`, `AnswerLost` the result of `forward_one`;
`FwdReads`, `FwdEof`, `FwdIdle`, `FwdWrites`, `FwdWriteFails`, `FwdOver` the
relay of the body into a pipe of bounded `Room`; `ServedH1` the keep-alive loop
of `handle_conn`; `H2NoHead`, `H2Head`, `H2Reads`, `H2Starves`, `ServedH2` the
second task of an HTTP/2 stream. The client's actions are external: it sends,
reads, waits for `100 Continue`, stops or leaves. It may also stay and take
nothing more (`stalled`): the pipe to an HTTP/1.1 client then stays full, and an
HTTP/2 client returns no window. `window` says whether a stream's window has room
for a piece; `H2Reads` waits for it as `poll_write` does (`Passes`), may find it
used up behind any piece it sends, and `ClientGrants` opens it again. No write
has a time-out, so such a client holds the relay (`Held`). Its requests are well formed;
the origin may stop at any token.

### 2.8 `Tunnel`, `Relay`, `AgentHandshake`, `Duplex`

One connection to the forward proxy or to a 443 listener that relays.
`Tunnel` composes the other modules: it extends `AgentHandshake` (what each read
of the three handshakes leads to) and `Relay` (the two pumps, their `Notify`, and
the peers). `Connect`, `ServePac`, `BadTarget`, `Absolute`, `Steered` are the
dispatch; `PeekHead`, `PeekSni`, `NoSni` the look at the client's first bytes;
`Resolve`, `Guard`, `OwnLeg`, `NameLeg`, `DialFails`, `DialOk`, `DialSpent`
`dial_tunnel_upstream` and the dialling of `handle_http`; `AgentReached`,
`AgentFails`, `AgentReads` `connect_agent`. A host may have an alias or configured
addresses without being accelerated, when its pattern is also the target of
another alias (`start` takes those out of the domains): a tunnel then asks B's
resolver for the alias only, a plain request dials the configured addresses
without the guard (`Resolves`, `Known`, `Unknown`). The built-in list has no such
host. A list of addresses is taken to name
none twice. `Duplex` is the abstract promise, two
independent one-way channels; the refinement mapping counts what a pump holds as
still sent and leaves the agent's own bytes out: `TunnelIsDuplex == Tube!Spec`.
A connection that is to be decrypted here is handed over (`pc = "handed"`): the
rest of it is 2.6 and 2.7.

### 2.9 `RootCertificate`

The two files (`cer`, `key`), the pair in memory, the system's `store`, the
cached `verdict` of `is_installed`, and two threads: the user's (install,
remove, information) and a start (root, gate, listeners, leaf caches).
`LoadMemory`, `LoadFiles` are `load`; `CutCer`, `WriteCer`, `CutKey`,
`WriteKey`, `WriteFails`, `Keep` are `generate`, where `std::fs::write`
truncates first; `FirstRoot`, `Probe`, `Gate`, `Serve` are what `start` makes of
it; `Handshake` is `leaf_for` through the cache. A root is a number, so that a
pair fits when its numbers are the same. `spoilt` and `unsettled` are history:
when a write was cut or failed or two threads were at the files at once, and
when the root was renewed or removed behind the verdict.

### 2.10 `DnsInterceptor`

Several hooks (`DnsInterceptRuntime::run`), which share the set of domains, and
the askers: programs, whose queries go through the system's resolver, and the
proxy's own look-ups (`dns_query`), which use port 53453 when it is free.
`Open`, `Check`, `Recv`, `Send`, `Close`, `LastFlush` follow `run`; `Covered`
and `Steers` are what `modify_dns_packet` decides; `OwnAsks`, `Mine`,
`StrayArrives`, `TimesOut` follow `dns_query`. A name is a sequence of labels,
top level first, so that a pattern covers a name when it is a prefix.
`Resolver` caches of the system and the driver's queue are external.

## 3 Runs

| Run (`.cfg`) | Question | Bounds |
|---|---|---|
| `ProxySequential` | Does any sequence of starts, stops, switches, failed starts and exits leave a side effect behind (`EffectsMatchMode`)? Does the proxy serve while it says so (`ServingWhenRunning`)? Does every start return and everything aborted go away (`StartsReturn`, `ReleasedAfterStop`)? | two starts, every failure the code can clean up after, fair threads |
| `ProxyOverlap` | What do the mutex and the `Arc` guarantee when starts and stops overlap (`RuntimeOutlivesCall`, `FailedStartReleases`)? | two starts, every fault, kills, partial writes and failing clean-ups included |
| `HostsEdits` | Updates with changing domains, removals, resets, edits, failing reads, opens and writes, kills (`NothingPilesUp`, `EntriesDecide`, `UserLinesKept`) | two domains, three user lines, at most 2 of them in the file, no insertion beyond 9 lines |
| `SystemProxy` | Sessions in both modes around a user who reconfigures (`BlobInSync`, `StoppedDirectsNobody`); does a disabling call repair what failures and kills left (`OffWithdraws`)? | two servers, two scripts, every combination of faults |
| `AccelerateTree` | Do both trees agree, does the selection survive a relaunch, what does a start take of each group (`CopiesAgree`, `SelectionSurvives`, `ClicksDecide`)? | two groups, one container, four leaves, any manifest, every combination of faults |
| `DnsResolve` | Are families kept apart (`SingleFamily`), is every source asked before a call gives up (`GivesUpLast`), does it end (`ResolveEnds`)? | three endpoints, one configured, one server, an address of each family |
| `Upstream` | Is nothing replayed after silence (`NoBlindReplay`), nothing raced that may not be (`OneAtATime`), the pool idle (`PoolIsIdle`), every address tried (`GivesUpAfterAll`), every request ended (`RequestsEnd`)? | two requests, every class of request, three kinds of host, three addresses, a pool of two |
| `UpstreamReplay` | *violation*: is a POST written to one connection only (`NotReplayed`)? | the same |
| `ClientConnection` | `Aligned`, `CompleteIsWhole`, `PooledIsEmpty`; does a client get its end (`ClientServed`), does the relay end (`RelayEnds`)? | two requests, bodies of up to two pieces, a pipe of two tokens, a window that may be used up at any piece |
| `Tunnel` | Which addresses are dialled (`DialsOnlyItsOwn`, `JudgedIsDialled`), when is the target given up (`GivesUpAfterAll`), is the tunnel two channels (`TunnelIsDuplex`), does it end (`TunnelEnds`)? | every kind of host, every agent, lists of up to two addresses, two items down, first bytes and one item up, a socket buffer of one |
| `RootCertificate` | `PairFits`, `DecryptsTrusted`, `GateAgrees` | two roots, one failed write, one crash |
| `DnsInterceptor` | `OwnLookupsAreDirect`, `AnswersItsOwn`, `NothingStaysSteered` | two starts, one program, two look-ups, a name and one below it, with and without an alias |

Type invariants are run as a conjunct of one of the properties where they are
not a property of their own.

*Why the bounds are enough.* Two starts in sequence give a session and one that
meets what the first left, after an error or not; two are also the least that
can overlap, and every race of this code is between two threads, the second
being a start or `stop()`. Two domains and lines that map one, both or none give
every way a line enters and leaves the backup block, and two of them in one
file give an order and a repetition. Two values are the least that tell a new
user setting from the old one. The tree has a group that can be partly selected
above and below a container, and one with a single leaf. Of three endpoints one
is configured and two race, so that one can hide the other. Two requests are the
least that share a pool; the lists of `Upstream` are chosen so that each source
of addresses has one the earlier ones lack. Two pieces put one boundary inside a
body, and a pipe or socket that holds less than a message lets every write
block. Two roots are an old and a new one. Two hooks are an old one that waits
for its last packet and a new one; two look-ups are the least that compete for
the port, and the least to take each other's answers.

*Deadlock.* In `ProxyManager` the supply of starts ends and the process may end,
so those runs switch the deadlock check off; that no thread is stuck is
`StartsReturn`. All other runs check deadlock.

*Fairness.*

* `ProxySequential`: weak fairness of each start thread, of the user-interface
  thread inside `stop()`, of the workers that drop aborted tasks and of the
  interceptor's thread, which the operating system and tokio schedule. The last
  includes that DNS queries keep arriving, since the interceptor leaves its
  receive only with a packet; without one, `stop` does not end it. What the user
  does is not fair, and neither are kills.
* `DnsResolve`: the call goes on when what it awaits is there, the deadline
  passes, and the configured endpoint and the plain sources answer or time out
  (5 s in `ureq`, 1.5 s per server, the system resolver's own limit). Nothing is
  assumed of the other endpoints: that a call ends all the same is what the
  deadline is for.
* `Upstream`: only time-outs: of the exchange on a pooled connection, of the
  upstream phase (`UPSTREAM_BUDGET`), of a response that stops
  (`BODY_IDLE_TIMEOUT`). No peer has to answer.
* `ClientConnection`: the tasks of the proxy, its time-outs, and a client that
  goes on sending, reading and granting window until it leaves or stalls, which
  it may do at any point. `ClientServed` is about one that does not stall;
  `RelayEnds` about any, with the relay that a stalled one holds named as the
  exception. The origin is not fair.
* `Tunnel`: the task of the connection up to the relay (every wait of it has a
  time-out, but for `peek`, which the property leaves out), then each pump.

*Mutants.* Each property of a passing run is listed with a plausible bug of a
mapped definition under which TLC finds it violated.

## 4 Observations

**A finding**, with a run of its own. `UpstreamReplay`: the comment above the
reuse of a pooled connection says that a POST which may have been received is
not replayed (`mitm.rs:1149`). The code holds this for an exchange that fails;
one that answers with a gateway error, or with a head and no body in time, is
dropped and the POST dialled again.

What follows are further things the models showed. They have no run, since
each needs a property that says the opposite of what the code does; the actions
they rest on are in the modules.

*Life cycle.* Of two overlapping starts, the one that is refused clears
`Inner.runtime`, which is the other's: the record says running and the runtime
dies with its owner's `Arc` (`proxy.rs:372`; `ServingWhenRunning` with
`Overlap = TRUE`). A `stop()` during a start removes a side effect that is not
there yet; the start puts it in place afterwards (`proxy.rs:919`;
`EffectsMatchMode` with `Overlap = TRUE`). A start that registers while another
one's flag is stored overwrites it, and that interceptor can no longer be
stopped (`proxy.rs:907`). A `set_system_proxy(true)` that fails after its first
write is not undone by the rollback of the start (fault "partial").

*Hosts, settings, tree.* `read_hosts_at(path).unwrap_or_default()` turns a file
that cannot be read into an empty one, and the rewrite drops the user's lines
(`hosts.rs:182`; `Overwrite` of `HostsContract` allows exactly this). The write
truncates the file, so an error behind that (a full disk) or a kill leaves a
prefix (`CutOff`), in the first case with an error message and the lines gone,
while the head of `hosts.rs` speaks of atomic edits. The user's `ProxyServer` is
overwritten and not restored (`sysproxy.rs:181`), although the comments at 61
and 188 say that it survives. `state.rs:45` calls the list of enabled leaves
what the proxy actually receives, but `start` skips every group whose state is
not "on" (`proxy.rs:426`): after a click, a ticked leaf of a partly selected
group is listed, saved, and not proxied. A group keeps the state its manifest
gave it until the first click after a launch: with a manifest that does not
enable its groups, a group whose box is ticked is then not proxied
(`service.rs:131`), and with one that does, a partly selected group is. The
first click anywhere changes both (`ClicksDecide`). A save of `settings.json`
that fails behind its truncation makes the next launch fall back to the
defaults.

*Resolver and interceptor.* The raced endpoints are awaited in list order, so a
silent one ahead of one that has answered makes the race fail (`dns.rs:475`),
although 455 promises the first answer. A look-up that runs while another holds
port 53453 cannot bind it (`SO_REUSEADDR` is set behind the `bind`), is taken by
the hook, and 127.0.0.1 goes into `DNS_CACHE` (`dns.rs:690`; the history variable
`overlapped` marks it). The last leg of a look-up, the system's resolver, is
taken by the hook as well. The set of domains is shared: a hook that waits for
its last packet uses those of a newer start, also of one that failed. An alias
is taken out of the set by its exact name only, so that it is steered when a
broader pattern covers it (`proxy.rs:502`). An answer under way at the last
flush stays in the system's cache (`late`).

*Upstream.* A pooled connection that was made through an agent and is reused after
the agent was switched off lets the agent's own address be remembered as the
last good edge (`Winner`). The hedge asks no further resolver when its candidates fail, and
with an alias it never falls back to the host's own addresses, while the comment
on `forward_one` promises alternatives after a failure; only the sequential loop
has them. Answers of 5xx from every hedged candidate become a 502. The exchange
on a pooled connection runs outside `UPSTREAM_BUDGET`. Direct pooled connections
are used right after an agent was switched on.

*Client side.* `handle_h2_request` holds the reading end of its pipe while it
waits for the task that writes to it; a stream that was given up with a full
pipe keeps both (`mitm.rs:482`, `Stranded`). No write to a client has a time-out
(`http1.rs:567`, `mitm.rs:297`): one that stays and reads nothing more, or gives
no window, holds the relay and its upstream connection for as long as it likes
(`Held`). A body without framing that the
origin cuts off is finished like a whole one, which HTTP/1.1 cannot tell apart;
on HTTP/2 it could be.

*Tunnels.* A side that has ended cleanly and then breaks is not noticed
(`fwd.rs:478`). A pump that is blocked in `write_all` does not see the abort
(`Blocked`). `peek_client_head` has no time-out, and one byte followed by an end
keeps it polling. The pollution guard judges only the first address of an answer.

*Certificates.* A crash or failure between the two writes, or two threads at a
time, leaves a certificate with another root's key; `load` compares nothing and
accepts it until it expires (`spoilt`). The verdict is kept for the process:
after a removal or a renewal the next start still decrypts (`unsettled`).
`install` adds what the file holds by then, not what `root` returned. The path
in the PowerShell command of `remove` has no separators
(`Cert:LocalMachineRoot`, `cert.rs:193`); the model has the removal as it is
meant.

## 5 Theorems and their proofs

All are proved for every value of the constants, from the named assumptions of
the module alone: sets that do not overlap, finitely many names that a hosts
file can map (`DomainsAssumption`), fault sets within the known kinds,
the shape of the tree, lists that are sequences (`ListAssumption`,
`SourceAssumption`), bounds that are numbers and room for at least one token in
a buffer (`BoundAssumption`, `SideAssumption`), and for one of them fewer
look-ups than identifiers (`IdAssumption`). Two carry a hypothesis of their
own: `CleanAfterStop` and `ServesWhenRunning` are about starts that do not
overlap.

**`ProxyManagerProofs`.** `TypeCorrect` (`Spec => []TypeOK`) with the added fact
that only the System and Pac modes reach the registry step. `ModeAgreement`: the
flag and the mode agree in every state; the two are only ever written together.
`RuntimeSafety`: `RuntimeOutlivesCall` for any number of starts and any overlap.
It is not inductive: one needs that a start holds its own runtime alive from
`Publish` to `Leave`, that `Inner.runtime` names a live runtime or none, and
that `lock` names a runtime nobody holds exactly while one thread is in a locked
drop (`RuntimeInv`). `CleanAfterStop`: `EffectsMatchMode` when
`Overlap = FALSE` and no cleanup fails, no write is partial and no kill occurs.
Its invariant says, for each place a start or `stop()` can be, which effects may
be there, and that with `Overlap = FALSE` at most one of them is under way.
`ServesWhenRunning`: `ServingWhenRunning` when `Overlap = FALSE`, with every
fault and kill. `Served` says what stands behind the record at each place of the
call that owns it (its sockets from `apply` on, its effect from `register` on,
its stop flag behind that); `CallFresh` that nothing was registered, aborted or
flagged of a call that has not registered, without which a stop could hit a
proxy that is still to come; `CallRecord` that a failed call leaves the record
stopped. `StartsRelease`: the action property `FailedStartReleases`, under any
overlap.

**`SettingsProofs`**, of `HostsFile`, `SystemProxy` and `AccelerateTree`.

*The hosts file.* `EditorNeverPilesUp` (`NothingPilesUp`), `EditorDecides`
(`EntriesDecide`) and `EditorKeepsContract` (the refinement `UserLinesKept` of
`HostsContract`), for any finite set of names, any lines of the user, any length
of the file and any sequence of calls, edits, failures and kills. All three are
about what a loop computes for every file, so they need induction over its
lines. The library gives it: the order of the numbers is well-founded and every
set has a minimal element (`NatLessThanWellFounded`, `WFMin`), from which
`Upwards` proves that a set with 0 and with the successor of each of its numbers
below n has all numbers up to n. `Reads` proves with it that `Reader` is the run
of the loop, `AllTurns` that what each turn keeps holds at the end.

The argument rests on one notion, a *tidy* file: read from the top, its lines
other than markers are entries in the block, and lines of the user or blank ones
everywhere else (`Tidy`, `Proper`). Read by the loop, such a file gives lists
without markers and entries (`ListsOfTidy`) that have exactly the user's lines
of the file (`OwnKept`); a text composed of such lists is tidy again
(`ComposedTidy`), and reading it gives the same lists back, since the blank
lines that were added are popped and the backup is copied in its order
(`ReadComposed`, `TrimSeparated`). So an update after an update changes nothing
(`UpdateAgain`, of any file), nor does a removal after a removal (`RemoveAgain`,
of a tidy one). A file stays tidy when a write is cut off, since a prefix of a
tidy file is tidy (`CutOffFile`), when the user inserts a line outside the block
(`InsertedFile`) and when the user deletes one (`DeletedFile`).

The inductive invariant `HostsInv` is `HostsTypeOK`, with file and text tidy, and
`Careful`: what a call is going to write has the user's lines of the file,
unless it is the reset or the file could not be read. Tidiness is needed: a line
of the user inside the block is thrown away by the next call, and an entry
outside it is taken for a line of the user. `EntriesDecide` follows from what
`Updated` computes alone (`Decides`): before the block nothing maps a managed
name.

The steps map to the contract as follows:

| Steps of `HostsFile` | Step of `HostsContract` |
|---|---|
| `OpenForWrite` of a text with the user's lines | `Install` of the names it maps, none after a removal |
| `OpenForWrite` of the reset | `Reset` |
| `OpenForWrite` of a text made while the file could not be read | `Overwrite` |
| `WriteFails`, and `Dies` during the write | `CutOff` |
| `UserInserts`, `UserDeletes` | `Edit`, or none when the line is there twice |
| all others | none |

*The proxy settings.*
`TypeCorrect`; `SessionsLeaveNoTrace` (`BlobInSync` and `StoppedDirectsNobody`)
and `CopiesInSync` (`BlobInSync`), where both properties speak of executions
without faults. The invariant `SyncInv` says that in those `Synced`
holds: `TypeOK`, with `Progress`, what both copies hold at each step of each
call, and `Session`, what a mode's session leaves of the user's setting until it
ends. `DisablingWithdraws`: the action property `OffWithdraws`, under every
fault, from what the plain values hold once the call's first writes are done
(`PlainWithdrawn`).

*The selection.* `TreesAgree` (`CopiesAgree`, any manifest and any fault),
`SelectionKept` (`SelectionSurvives`, with the saved list, the list in memory
and the selection at the last start kept equal by `Persisted`), `GroupsProxied`
(`ClicksDecide`, any manifest and any fault, from `GroupsFollow`: once the user
has clicked, the state of each group in both copies is the one its leaves give;
before that it is the one of the manifest).

**`DnsResolverProofs`.** `FamiliesApart` (`TypeOK` and `SingleFamily`) for any
endpoints, servers and addresses. `SingleFamily` alone is not inductive: what a
lookup holds may come from the cache, and what a call returns comes from its
lookups. `IInv` adds that every entry of the cache, and every lookup of the call,
holds addresses of its own record type (`TableOK`, the type `Task`), and that on
a network without IPv6 no lookup of the call asks for it (`V4Only`). One lemma
per way a leg ends (`ReturnKeeps`, `ToServersKeeps`, `AfterServersKeeps`) serves
all the actions that end one. `PlainSourcesAskedFirst`: `GivesUpLast`, for any
list of servers. `InServers`: the servers before a call's place in the list were
asked in vain, and a second record type follows a first one that found nothing;
`InSystem`: so were all of them when the system's resolver is reached.

**`DnsInterceptorProofs`.** The three properties of `DnsInterceptor`, for any
number of hooks, programs, look-ups, names and selections (`OwnDirect`,
`OwnAnswers`, `SteeringEnds`). None is inductive. `OwnSpared`: a look-up at port
53453 is sent, in no queue, and stays so until it ends; any other is marked, so
only a marked one can be steered. `StraysApart`: one look-up has the port, its
identifier is that of no answer nobody waits for, unless it is about the same
name. This needs that identifiers are new, hence `IdAssumption` (fewer than 2^16
look-ups; `DNS_ID` starts again behind that). `OneMore`: a hook that has steered
since its flag was raised is past its last receive. `FlushedLast`: what the last
hook to go leaves in the system's cache. `QueryChange`, `HookChange` and `Stored`
say once what a step may do to a query, a hook and the proxy's cache; every step
of the invariant rests on them.

**`RootCertificateProofs`.** The three properties of `RootCertificate`, for any
number of roots, failed writes and crashes (`PairsFit`, `TrustedRoots`,
`OneJudgement`). As long as nothing is spoilt, at most one thread is between the
truncation of the certificate and the end of the key (`OneAtFiles`), so that the
two files fit behind it (`FilesFit`); who holds a root holds the one in memory,
and that is the one in the file, unless its time is over (`HeldIsKept`,
`KeptIsFiled`). `TrustedRoots` adds what a verdict is worth: it was made of the
file (`ProbeIsOfFile`), and until the root is renewed or removed it is true of
what is served later (`VerdictHolds`). `OneJudgement` rests on the verdict being
kept for the process: what the gate armed is what the second judgement gives
(`Judged`).

**`UpstreamProofs`.** All four safety properties of `Upstream`, for any number of
requests of any class, any lists of addresses and any limit of the pool.
`WrittenOnce` (`NoBlindReplay`): `Copies` says, phase by phase, on which
connections a request that may not be repeated has been written, and that a
second one means a head was received. `NeverRaced` (`OneAtATime`): `Flights`, a
race is only begun for what may race and the sequential loop has one attempt out.
`NobodysConnections` (`PoolIsIdle`): a request has a connection exactly while it
reuses or streams, no two have the same, and a connection outlives in the pool
only a request that has ended (`Uses`, `Pools`); the last is what makes it
impossible for a name of a connection to come back. `AllDialled`
(`GivesUpAfterAll`): an address that is known and not dialled is still to be
dialled (`Ahead`). The lemmas on `Kept` and `Without` say that a filter keeps a
sequence, no longer, of the same elements but those it was to drop.

**`ClientConnectionProofs`.** `NeverAstray` (`Aligned`), `NothingCutShort`
(`CompleteIsWhole`) and `PooledClean` (`PooledIsEmpty`), for bodies of any length,
pipes of any room and any number of requests. The reader of `http1.rs` is a
machine over tokens; `Where(m, v)` and `Data(m, v)` give its place and its pieces
after `v` tokens of a message `m` in closed form, and the lemmas about `Step` say
that one token takes it from `v` to `v + 1`. The invariant then counts: the client
has read `v` tokens of the response and the proxy has written `w`, the pipe holds
the ones between (`Heard`), `forward_one` is at most one token ahead and the rest
is still with the origin, or the body broke off (`Passed`); the same of the
request (`Incoming`). `Early` is the one overlap HTTP/1.1 has: the client may ask
again before `handle_conn` is back at its loop. HTTP/2 has the second task
between pipe and client (`LineH2`).

**`TunnelProofs`.** `OwnAddresses` (`DialsOnlyItsOwn`), `JudgesWhatItDials`
(`JudgedIsDialled`), `GivenUpAfterAll` (`GivesUpAfterAll`) and the refinement
`RelaysWhatIsSent`: `Spec => TunnelIsDuplex`, that `Tunnel` implements `Duplex`,
for any lists, agents, streams of either peer and sizes of a socket's buffer. The
first three rest on `Dialling`: what was offered is dialled or still to be
dialled, and by which leg. For the refinement the invariant says what is on the
connection to an agent (`Stream`): what is left of an answer in each phase of its
handshake (`Left`) and behind it exactly what the far end has sent (`Behind`), so
that the read which opens the tunnel leaves all of that and nothing else; and
what a pump holds in each of its states (`Pumps`: a reading one holds nothing, a
finished one has closed its far side or a peer broke). Then the initial states
map to that of `Duplex`, and every action to one step of it or to none:

| Steps of `Tunnel` | Step of `Duplex` |
|---|---|
| `Speaks`, and the answer of an agent that opens the tunnel | `Send` |
| `Ends`, `Breaks` | `End`, `Break` |
| the actions that begin the relay | `Start` |
| `PumpWrites`, `PumpEof` | `Deliver`, `Tell` |
| `AgentFails` | `Retry` |
| the actions that close both sockets | `Drop` |
| all others | none |

## 6 What is only model-checked, and what is not modelled

* Liveness (`ReleasedAfterStop`, `StartsReturn`, `ResolveEnds`, `RequestsEnd`,
  `ClientServed`, `RelayEnds`, `TunnelEnds`) is model-checked: the prover has no
  rule for fairness here. These are the only properties without a theorem. The refinement of `Duplex` that is proved is one of
  safety, too; `Duplex` promises no delivery.
* `ServingWhenRunning` and `EffectsMatchMode` are proved for starts that do not
  overlap, since they fail when starts overlap (section 4).
* Of `mitm.rs`: the rewriting of headers, upgrades, ALPN and the TLS handshakes
  themselves are not modelled; several requests to different hosts share nothing
  but the capacity of the process.
* Of the resolver: several callers at a time, the bound of the cache, DNS over
  TCP and the formats of packets are not modelled.
* Of the application loop: the queue of deferred actions, the log buffer, toasts
  and the tray are not modelled; they display what the modules above decide.
* Not to be modelled: the Win32 layer, dialogs and pages (drawing and controls),
  the loader and the paths (no state that changes), the network test
  (independent probes), the WinDivert driver (an external binary, present only
  as the blocking receive and as faults).

## 7 Plan

The model is complete up to the exceptions of section 6, and every safety
property is proved. What is left: the exceptions of section 6, and the lemmas on
`Selection`, which `UpstreamProofs` and `TunnelProofs` each have, in one place.

Runs of one module are kept together: a new question about a module becomes a
property of its run where the bounds allow it, and which faults happen is part of
the initial state, not of another configuration.

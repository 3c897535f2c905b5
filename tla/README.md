# A verification model of grpc-mesh-server

TLA+ modules, TLC configurations and TLAPS proofs about the mesh server under
`src/`. The server accepts TLS connections from mesh nodes, runs a yamux
session over each, files the sessions under the node's ID, and lets gRPC
clients call the nodes back over streams of those sessions.

## 1. Inventory

| Component | Source | State | Operations |
|---|---|---|---|
| Session registry | `pkg/registry/registry.go` | map from peer ID to `*SessionState` under `sm.mu`; each object has `Connected`, `LastHeartbeat`, `ControlChan` and a yamux session under a lock of its own | `RegisterSession`, `Register`, `Get`, `Remove`, `RemoveIfCurrent`, `List`, `OpenStream`, `ControlChannel`, `Heartbeat`, `MarkDisconnected`, `Cleanup`, `StartCleanupLoop`; `SessionState.Close`, `TouchHeartbeat` |
| Tunnel server | `pkg/tunnel/tunnel.go` | listener, context, wait group; a goroutine per connection and one per control stream; TLS configuration and its file watcher | `Start`, `Stop`, `acceptLoop`, `handleConn`, `readControlLoop`, `watchCerts` |
| Authorisation | `pkg/control/auth.go` | none after construction | `Authorize`, `AuthorizeNode`, `IdentityBound` |
| Control stream | `pkg/control/stream.go`, `types.go` | frame limit, deadline | length-prefixed frames, JSON messages, handshake and heartbeat validation |
| Invoke proxy, gateway, dialer | `pkg/server/invoke.go`, `pkg/reverse/*.go` | none of their own; one goroutine per stream being opened | `Invoke`, `InvokeStream`, `DialPeer` |
| Limiters | `pkg/server/ratelimit.go` | buckets / counters per key | `Allow`, `Release` |
| ACL | `pkg/server/acl.go` | a list of rules | `Match`, `Check`, `UpdateRules` |
| Circuit breaker | `pkg/fault/circuit_breaker.go` | state, three counters, time of the last change | `Execute` (`Allow`, then `RecordSuccess` / `RecordFailure`), `Reset`, `ForceOpen`, `ForceClose` |
| Retry | `pkg/fault/retry.go` | none | `Retry`, `calculateDelay` |
| Method registry | `pkg/registry/method_registry.go` | catalog per peer, reverse index | `UpdateMethods`, `RemovePeer`, queries |
| Extended session manager | `pkg/registry/session_ext.go` | a breaker per peer, over the two registries | `RegisterSession`, `UpdateMethods`, `RemoveSession`, `ExecuteWithCircuitBreaker`, health queries |
| Server, metrics exporter | `pkg/server/server.go`, `pkg/metrics/metrics.go` | three servers and the cleanup loop | `New`, `Start`, `Stop` |
| C library | `cmd/meshlib/main.go` | table of servers, table of strings | `mesh_server_new/start/stop/free`, `mesh_invoke`, `mesh_list_nodes`, `mesh_str_data/release` |
| Configuration, logging, entry point, generated code | `pkg/config`, `pkg/logging`, `cmd/server`, `pkg/rpc` | read once at start | - |

How they meet. The tunnel's handlers register sessions and deregister them when
their connection ends; the cleanup loop prunes what is disconnected or silent;
the data plane looks sessions up, opens streams on them and records heartbeats;
all of them share `SessionManager`, and the objects it hands out outlive their
entries in the map. `Server.Stop` stops the gRPC server, then the tunnel, then
the metrics. The C library calls into all of it from foreign threads.

What is hard, and what makes each part correct:

* **Registry.** Five operations compete to close an object whose channel may be
  closed only once; `Get`, `Heartbeat` and `OpenStream` act on an object after the
  lock is gone. Correct, if callers leave their objects to the manager: a registered
  object is open, one that left is closed, nothing is closed twice, and no reference to
  a former session affects its successor. `Register` accepts any object, so callers can
  spoil this; the manager's own operations must not.
* **Tunnel.** A node reconnects while the handler of its old connection is still
  on its way out; Stop runs while connections are being accepted and set up; the
  handler and its read loop end in either order. Correct: only authorised
  identities are registered, each entry has a handler that will remove it, Stop
  returns and leaves no connection behind.
* **Data plane.** Sessions die and are replaced under a call; the deadline races the
  opening of a stream. Correct: slots are returned on every path, calls return,
  a call stays with its peer, no stream is lost, failures are not signs of life.
* **Circuit breaker.** The result of a call arrives in a state other than the one the
  call was admitted in. Correct: it trips in time, is never stuck, recovers.
* **Control stream.** Frames are cut by a window and written in pieces, deadlines run
  while they are read, and nodes write what they like. Correct: the reader finds
  the messages that were sent, a silent node is given up, a punctual one never.
* **Certificates.** Two files change under a watcher, one after the other and each in
  pieces. Correct: only a pair that belongs together, and was configured, is used,
  and a renewal is loaded, and then served (it is not: section 3).
* **Limiters, ACL, retry.** Rounding: neither more than the rate nor starvation. Rules are
  replaced while they are read. Correct: the decision is the one the rules mean, and
  what Retry reports is what happened.
* **Method registry, extended manager.** Two structures, or three, updated in several
  steps under different locks, one of them also by the tunnel, and searched in several
  steps more. Correct: the index agrees with the catalogs, and a search is right about
  what held still while it ran.
* **Life cycle, C library.** Partial failures of Start; Start, Stop and free at once.

`PROJECT.json` lists the hazards line by line, with the properties that cover them.

## 2. Modules

| Module | Models | EXTENDS / uses |
|---|---|---|
| `Nodes` | the set of node identities, and the value for no node | - |
| `SessionDirectory` | abstract specification: one session per peer ID, retired sessions never return | `Nodes` |
| `SessionRegistry` | state and operations of `SessionManager`; safety properties; refinement mapping to the directory | `Nodes`, INSTANCE `SessionDirectory` |
| `Callers` | the set of goroutines that use the extended manager or a breaker | - |
| `SessionManager` | arbitrary callers of the registry's methods, who may also register an object again and close what they hold | `SessionRegistry` |
| `AuthPolicy` | the authorisation decision | `Nodes` |
| `Tunnel` | accept loop, handlers, read loops, certificate watcher, Stop, cleanup loop, calls that record heartbeats, over the registry | `SessionRegistry`, `AuthPolicy` |
| `Configuration` | where the certificate settings come from and which of them `Load` refuses | - |
| `Certificates` | the pair of files, the watcher, the configuration the listener captured | `Configuration` |
| `MessageChannel` | abstract specification: a first-in first-out channel of messages that may be closed | - |
| `ControlStream` | frames, window, deadlines, what receivers make of a message | - |
| `Connection` | one connection at a time from TLS to its end, its node, the watcher and the operator; refinement mapping to the channel | `Certificates`, `ControlStream`, INSTANCE `MessageChannel` |
| `InvokeProxy` | concurrent `Invoke` calls and direct dials, limiter, `OpenStream`, over the registry | `SessionRegistry` |
| `Patterns` | `matchPattern`, and what a pattern means | - |
| `AccessControl` | `StaticACL`: `Match` rule by rule beside `UpdateRules` | `Patterns` |
| `TokenBucket` | one bucket of the token bucket limiter | - |
| `Retry` | `fault.Retry` for one caller | - |
| `Admission` | a retrying client at the ACL and the bucket | `TokenBucket`, `AccessControl`, `Retry` |
| `MethodRegistry` | catalogs and reverse index | `Nodes` |
| `ExtendedSessionManager` | the operations over the two registries and the breaker map, beside direct use of the shared session manager | `MethodRegistry`, `Callers` |
| `PeerSearch` | the searches for healthy peers beside those operations | `ExtendedSessionManager` |
| `CircuitBreaker` | the breaker under concurrent `Execute` | `Callers` |
| `Threads` | the set of threads of the embedding program | - |
| `ServerLifecycle` | `Start` and `Stop` of one server: exporter, tunnel listener, accept loops, handlers and watcher, gRPC server | `Threads` |
| `StringTable` | the table of strings of the C library, over an allocator that reuses addresses | `Threads` |
| `Meshlib` | the exported functions of the C library, over both | `ServerLifecycle`, `StringTable` |
| `Induction` | induction and loops, for the proofs | - |
| `SessionManagerProofs` | theorems about `SessionManager`, `PeerSearch` and `CircuitBreaker` | these three, `SessionRegistryProofs` |
| other `...Proofs` | theorems | the module named |
| `MC...` | symmetry sets and definitions of constants for TLC | the module named |

A definition whose comment says "Mutation of" is a plausible wrong version of the
definition after it. No specification uses it: putting it in place of the right one
makes a run fail, which shows that the property is about that code.

Correspondence of state and code:

* `sessions[p]` is `sm.sessions[p]`; an element of `Session` is the address of a
  `SessionState`. `owner`, `connected`, `age` are its `PeerID`, `Connected` and the
  time since `LastHeartbeat`; `closed` says that `ControlChan` cannot be closed, because
  it is closed or was never made, `hungUp` that the yamux session is closed. `panicked`
  records the panic of `close` on such a channel. `RegisterSession` makes its object;
  `Register` takes the caller's, new (`RegisterNew`) or known (`RegisterAgain`).
  What runs under `sm.mu` is one action. `Close` is part of the operation that
  calls it. `age` saturates one tick above `MaxAge`, the only thing `Cleanup`
  asks, and stands still for objects outside the map. `misused` in `SessionManager` is a
  history variable: the objects that came without a channel, were registered a second
  time, or were closed by a holder of their pointer.
* In `Tunnel` each connection is an element of `Session` as well. `pc[c]` is the
  place of `handleConn`; its steps are divided where it blocks and where it touches
  shared state. `wg` is the wait group, `readDone` the one-place channel of that
  name, `reader[c]` the read loop, `hello[c]` the handshake while the handler runs.
  A failure of TLS, of `AcceptStream` or of the handshake is one action, `SetupFails`.
  `watcher` is the goroutine of `watchCerts`. A caller of `Server.Stop` first ends the
  cleanup loop and is then in `"grpc"` (`GracefulStop`) before the tunnel's `Stop`.
  `InvokeHeartbeat` is what `Invoke` does to a registered session.
* In `InvokeProxy` `current` is the limiter's map, keyed by peer (one method). The
  default limiter of `server.New` does nothing; the model has a `ConcurrencyLimiter`,
  the one with something to lose. `orphaned` are the goroutines of `OpenStream` that
  lost against the deadline, `leaked` the streams they got. gRPC's repeated
  dialling is the return from `opening` to `dial`. `direct` are the callers of
  `Gateway.Dial` and `Gateway.InvokeStream`, which pass the limiter by and may keep
  their connection as long as they like.
* In `ControlStream` a frame is its header (unit 0) and the units of its payload; a
  unit is what one `Write` or `Read` moves. A message is its kind: what the receiver
  tells apart by JSON decoding and `Validate` is a table over kinds. Bytes that are not
  exactly one frame's payload decode to garbage, and a unit that is not a header can
  announce any length. `readDeadline` is the yamux deadline, which fires only while
  there is nothing to read. Nothing in the repository sends on a control stream from
  the server's side, so the sender is the node, and the server drains the window in
  less than a tick; the write deadline is never due.
* In `Connection` `handler` is the place of `handleConn`, `age` the time since
  `LastHeartbeat`. `silence` and `wellBehaved` are history variables about the node:
  it has sent its handshake first and in time, then only JSON that fits, a heartbeat
  of its own at least every `BeatInterval`, and no frame that it leaves unfinished.
* In `Certificates` a pair is the number of its renewal; `torn` is a certificate file
  between truncation and write. `ReadCert` and `LoadPair` are the two file reads of
  `tls.LoadX509KeyPair`. Renaming a file over the certificate ends the watch.
* In `AccessControl` the slice `acl.rules` is its two words, an array and a length,
  which `UpdateRules` writes without a lock and `Match` reads again for each rule.
  `crashed` in `Admission` is the panic of an index out of range.
* In `ExtendedSessionManager` `present` is the set of peers with a session, all that this
  manager asks of the session manager. `SharedRegister` and `SharedRemove` are what the
  tunnel's handlers, the cleanup loop and users of `SessionManager()` do to it; they
  touch neither breakers nor catalogs.
* In `PeerSearch` a peer's breaker is open or not (`tripped`); `seen` is a history
  variable of the search in progress.
* In `CircuitBreaker` the call of `fn` separates `Allow` from `Return`. The result of
  a call is that of the protected service when it returns. `failures` and
  `attempts` saturate at `CounterCap`; an assumption on the constants says when that
  changes no decision.
* In `ServerLifecycle` each `Start` that reaches the tunnel takes an element of `Run`,
  which names its two listeners; it is free again when both are closed and
  `s.listener` names another. `accepting[r]` is the listener on which the accept
  loop started by `r` waits: after each `Accept` the loop reads the field again, which a
  later `Start` may have replaced. Any listener may fail to bind. The steps between
  `tls.Listen`, the assignment of `s.listener` and `wg.Add` are separate, because
  `Stop` reads the field without a lock; that is a data race, and the outcome in which
  the two words of the interface do not belong together is `TunnelCloseTorn`. The
  panic of `sync.WaitGroup` when it is reused too early is left out.
  `overlapped` is a history variable. `handler[c]` is what is left of a handler here:
  whether the wait group counts it, and whether something is sure to wake it (what
  handlers do is in `Tunnel`). `watching` is the goroutine of `watchCerts`, which exists
  if `CertFiles` says so.
* In `Meshlib` one handle stands for all: servers share no state but the ports they
  bind, and a handle is never issued twice. `fresh` and `doomed` hold the block between
  the allocator and the lock. A call with an unknown handle changes nothing.
* In `TokenBucket` a tick is a fraction of a second, `elapsed` saturates at the time
  in which any bucket is full, and `credit` is a history variable.

## 3. Runs

| Run | Configuration | Shows |
|---|---|---|
| `session_manager` | 2 peer IDs, 3 objects, staleness after one tick | `NoSessionLeaked`, `UnlessMisusedOpen`, `PanicNeedsMisuse` |
| `tunnel` | 2 connections, 2 nodes with a token each, 1 Stop | `RegisteredIsOpen`, `NoPanic`, `ImplementsDirectory`, `RegisteredHasHandler`, `RegisteredIsAuthorised`, `WaitGroupCounts`, `StopLeavesOnlyWatcher`, `EvictionHasCause`; `DeadSessionLeaves`, `StopReturnsUnlessHeld` |
| `tunnel_stop` | 2 connections of 1 node, 1 Stop | **violation** of `StopReturns` |
| `connection` | frames of 2 units, a window of 2, deadlines and ages of 2 ticks, 6 kinds of message, 2 generations of certificates | `HealthyNodeIsKept`, `SilentNodeIsDropped`, `ImplementsChannel`, `ServesConfiguredPair`, `RenewalIsLoaded` |
| `renewal_served` | 1 kind of message, 2 generations of certificates | **violation** of `RenewalIsServed` |
| `circuit_breaker` | 3 callers, trip at 3 failures or one half, 2 probes | `ClosedIsHealthy`, `HalfOpenNotStuck`, `Recovers` |
| `invoke` | 2 callers, 2 peers, 2 sessions, 1 slot per peer | `LimiterIsExact`, `StreamsAreCurrent`, `CallsReturn` |
| `invoke_leak` | 1 caller, 1 session | **violation** of `NoStreamLeaked` |
| `invoke_keeps_alive` | 1 caller, 1 session | **violation** of `DeadSessionIsPruned` |
| `extended` | 2 callers, 1 search, 2 peers, catalogs of up to 2 entries | `IndexMatchesCatalogs`, `SearchIsAccurate` |
| `admission` | 5 rule sets of up to 2 rules, 1 token in 2 ticks, 2 at once, up to 2 retries | `WithinRate`, `CheckIsExact`, `VerdictIsTrue`, `ClientIsServed` |
| `meshlib` | 2 threads, 2 overlapping Starts, 1 connection, 2 strings after one another in 1 block | `CallsHaveTunnel`, `FreedFallsSilent`, `LiveStringsAreSafe`, `NothingFreedTwice`, `NoBlockLost` |

The runs `connection`, `circuit_breaker`, `invoke`, `extended` and `admission` check a type
invariant as well.

Why the bounds are enough. Three objects in `session_manager` are a session, its
replacement and the replacement of that, or one that comes back while two others
take turns. Two peers show that operations on one leave the other alone. Two
connections in `tunnel` are an old one of a node and its successor, or one of each
node; operations never involve a third, and the proofs are for any number. So are they
for callers of Stop, which do the same things to `cancelled` and the listener in any
order and wait for the same counter. With
`MaxAge = 0` one tick makes a session stale; a heartbeat arriving before or after
is all that a larger value would add, and `session_manager` uses 1. Two callers of
`Invoke` with one slot fight for it; three callers of the breaker can be admitted
when closed and return when it is open, half-open, or closed again. In `connection` a
frame does not fit into the window, so its sender, the window and the reader can each
hold a part of it; a payload of two units can be cut in the middle; a heartbeat
interval of 1 leaves a node one tick of grace, of which another frame may use the
read deadline. One of the two paths does not exist, and each may come from the
environment or the file. The rule sets of `admission` have ties, a negative priority,
every form of pattern and three lengths. A catalog of two entries may list the one
method twice, and two callers can be in a removal and a registration, or an update, of
one peer at once. One block and two strings suffice for an address to be reused while a
stale release of its former string is under way; two `Run`s for a second listener
while the first is still open; one connection to hold up the tunnel's Stop.

Deadlock is not checked where the system may really stop: a process that has panicked
(`session_manager`, `admission`), a tunnel or server that has ended (`tunnel`,
`tunnel_stop`, `meshlib`), a node that does not come back (`connection`,
`renewal_served`). In `invoke_leak` and `invoke_keeps_alive` the only object may be used
up. The other runs check it.

What the violations say:

* `tunnel_stop`: `readDone` is received in the `select` of `handleConn`
  (`tunnel.go:294`) and again at `:307`. If the read loop ends first and wins the
  select, there is no second value: the session is never deregistered by its
  handler, `wg.Done` is not called and `Stop` does not return. `StopReturns` excuses
  nodes that stall: a client that is silent in the TLS handshake (`:223`) or before it
  opens its stream (`:243`) holds `Stop` as well, since neither has a deadline or
  watches the context. `StopReturnsUnlessHeld` shows that there is no third cause.
* `invoke_keeps_alive`: `Gateway.Invoke` reports failures in the response, not as an
  error, so the heartbeat "on successful call" follows failed calls too.
* `invoke_leak`: the goroutine of an abandoned `OpenStream` opens its stream all the same,
  although the operation is documented to be cancelled with its context
  (`registry.go:442`).
* `renewal_served`: the watcher stores a renewed configuration in `s.tlsConfig`
  (`tunnel.go:393`), but `tls.Listen` was given the one of the start (`:153`), and
  `GetConfigForClient` (`:397-409`) returns nil. The repository's `README.md:20` and
  `:113`, `tunnel.go:33` and `config.go:68` say that the listener reloads its
  certificate without a restart.

Limits of passing runs worth knowing, and disagreements between code and comments that
no property asserts either way:

* `RegisteredIsOpen`, `NoPanic` and `ImplementsDirectory` are about the server, whose
  handlers use `RegisterSession` and leave closing to the manager. The comment of `Close`
  calls it idempotent (`registry.go:77`); a second call panics, and so does the first on an
  object without a channel, as `docs/API.md:249-258` builds one for `Register`. In
  `session_manager` both happen: closed objects are found in the map, and the process
  dies. `UnlessMisusedOpen` and `PanicNeedsMisuse` say that nothing else leads there. A
  sender on the channel that `ControlChannel` returns (`:533`) would race its close;
  there is none.
* `StopLeavesOnlyWatcher`: the comment of `Stop` says that the certificate watcher has
  stopped and all goroutines have exited when it returns (`tunnel.go:174-177`). The
  wait group does not count `watchCerts` (`:125`): it may still run, and reload, for a
  while (`StopReturnsUnlessHeld` says that it ends).
* `DeadSessionLeaves` excuses the session of a handler that lost its read loop's result
  once a Stop has begun, because `Server.Stop` ends the cleanup loop first
  (`server.go:221`), and sessions that calls keep alive (`invoke_keeps_alive`).
* `FreedFallsSilent` has three exceptions, and all of them occur. A client that keeps an
  `InvokeStream` open holds `GracefulStop`, which has no timeout whatever the comment of
  `Stop` says, and with it the tunnel and the metrics. A handler that waits for a silent
  node, or that has lost its read loop's result, as after an ordinary disconnect, holds
  the tunnel's `Stop`, and with it the metrics (`Held`). And when a `Start` that has
  looked its handle up overlaps with `mesh_server_free`, the tunnel listener it opens
  after `Stop` looked stays open for good, or `Stop` waits for the accept loop for ever.
* `HalfOpenNotStuck` needs a positive failure ratio: with `RatioNum = 0` in the
  configuration, `ForceOpen` followed by probes that fail raises `attempts` to the limit
  without tripping, and the breaker is half-open for good. It says nothing of how many
  probes are out at once: `HalfOpenMaxAttempts`, the maximum number of attempts in the
  half-open state by `docs/API.md:739`, limits failures that have come back, and all
  concurrent callers may be let through.
* The extended manager takes no lock across its steps. A `RemoveSession` that has
  removed the old session deletes the breaker that another caller's `RegisterSession`
  has found or made for the new one (`session_ext.go:67`), and an `UpdateMethods` that has
  looked the session up publishes its catalog after `RemoveSession` has forgotten the
  peer, which is to remove all associated data (`:90`). The tunnel's sessions never have a
  breaker, and leave catalogs behind. All of these are states of the run `extended`;
  what it shows is that index and searches are right in them as well.
* `RenewalIsLoaded` ends at `s.tlsConfig` and is not about what is served. Renewals by
  rename end the watch and are not seen either.
* `SilentNodeIsDropped` begins where the control stream does. Before it, in the TLS
  handshake and in `AcceptStream`, a silent node is kept, and with it `Stop`.
* `ServesConfiguredPair` speaks of generations, not of contents. The precedence of the
  sources is that of the code, the environment before the file (`config.go:194-223`); the
  comment at `:124-127` gives the opposite order.
* `CheckIsExact` leaves out negative priorities, which never match (`acl.go:51`), patterns
  with a star in the middle, of which `matchPattern` misses names, and checks that overlap
  with `UpdateRules`. Those may mix two lists or panic, although `docs/API.md:615-624`
  shows `UpdateRules` as the way to replace rules while the server runs.
* `MaxDelay` of Retry is a cap before jitter (`retry.go:138-150`): a delay may be half as
  long again. The comment at `:21` calls it the maximum delay.
* `SendHandshake` wraps the handshake in a control message, `ReceiveHandshake` takes it
  bare: the kind `wrapped` is refused, and nodes write `hello`.

Fairness. Goroutines that can take a step do (weak fairness per handler, per caller, per
stopper, for the read loop and the watcher). Tickers fire and time passes. A read on a
dead yamux session returns. In `Tunnel` the handshake read has its 30 s deadline, and
nothing makes a handler leave TLS or `AcceptStream` unless yamux finds the session dead;
the cleanup ticker is trusted only until a Stop begins. Accepting connections,
heartbeats, deaths of sessions, tokens presented, frames written and files renewed are
never assumed. In `InvokeProxy` a call has a deadline (`ensureDeadline`) and yamux need
not answer; `CallsReturn` is shown under that. The violation of `DeadSessionIsPruned` is
found although the cleanup loop is even given strong fairness. In `CircuitBreaker` some
caller keeps calling; `Recovers` is conditional on the service staying up and nobody
forcing the breaker open. In `Admission` the client calls again and again and remote
calls end at their deadline; `ClientIsServed` is conditional on calls that get as far as
the limiter. In `Meshlib` unary calls end, because `Gateway.Invoke` gives each a
deadline; streams need not. A handler that serves, and the watcher, end once the
tunnel's context is done; a handler that waits for its node need not.

## 4. Proofs

Each theorem holds for all values of the constants that satisfy the named assumptions of
its module. Each is proved from an inductive invariant (`IInv`, or one named after its
component) that contains it. The proofs cover every invariant, every action property and
every refinement that the passing runs check, one of them under a hypothesis
(`HalfOpenBreakersAdmit`: a failure ratio above 0).

`Induction` is what the proofs about sequences and loops rest on. The induction theorems
of the library are about an operator, which the provers cannot instantiate; the lemmas
here are about a set, that of the numbers with the property to be shown, and follow from
the well-foundedness of the natural numbers. `LoopRuns` says that a loop of `n` turns
has a run: from it follows that the recursive functions with which the models write the
loops of the code (`AddAll`, `RemoveAll`, `Matched`, `Completed`) satisfy the equations
that define them, and what such a loop computes is then shown by induction on its turns.

`SessionRegistryProofs` shows, for each operation that the server uses and any number of
peers and sessions, that it preserves `RegistryInv` and that it is a step (or a stutter)
of `SessionDirectory`. `RegistryInv` is the three safety invariants of the registry with
the type invariant and one fact they need to be inductive: only objects that exist have
been closed, so that a new object enters the map open.

`SessionManagerProofs` is about arbitrary callers, for whom that invariant is false:
`ManagerTypeCorrect`, `ManagerLeaksNothing`, `UntouchedSessionsAreOpen`,
`PanicsNeedMisuse`. Its `ManagerInv` keeps what is left: an entry is filed under its
owner, and a closed one is misused. The second is inductive because what the manager
itself closes leaves the map in the same step, and comes back only through `Register`,
which is then misuse. `PanicsNeedMisuse` follows, since the manager closes only what is in
the map, and nothing twice in one step.

The same module proves every safety property of the run `extended`, for any number of
peers, sessions, methods and callers, and catalogs of any length.

* `IndexIsRight`: an invariant of the index alone (no peer twice under a method, and a
  peer exactly under the methods of its catalog) is carried through the loops over a
  catalog: `removeFromIndex` takes out one entry, which is enough because there is never
  a second, however often a catalog repeats a method. That the three queries agree
  follows, `FindMethods` by induction on its loop.
* `SearchesAreAccurate`: between the two locks of `HealthCheck` the answer of the first
  may be out of date. The invariant (`SearchAnswer`) says that it was right at some
  moment of the search, which is all that soundness and completeness need; the rest
  keeps the peers still to be checked and those found apart and without repetition. Callers of
  one peer may overlap in any way, and so may direct uses of the session manager: the
  proof needs nothing of breakers and catalogs but their types.
* `SearchTypeCorrect`.

Of the breaker it proves `BreakerTypeCorrect`, `ClosedBreakersAreHealthy` and, for
ratios above 0, `HalfOpenBreakersAdmit`. The invariant says that a half-open breaker has
recorded no attempt: whatever came back late and failed has tripped it again, since
failures never lag behind attempts there.

`TunnelProofs` carries the registry's lemmas over to `Tunnel` and proves every safety
property of the run `tunnel`:

* `TypeCorrect`, `ServerNeverPanics`, `OnlyOpenSessionsRegistered`, `SessionsNeverLeak`,
  `NoOrphanEntry`, `WaitGroupExact`, `StopIsClean`, `IdentityIsBound`: invariants;
* `EvictionsHaveCause`: the action property;
* `TunnelImplementsDirectory`: the refinement.

The inductive invariant adds to them what each place of a handler says about its
connection (`HandlerInv`): from `admitted` on it carries an authorised claim, from
`serving` on its session is filed under the claimed node; its read loop runs only
between `serving` and `drain`, and a value in `readDone` means that it has ended.
Without the last two, `StopLeavesOnlyWatcher` is not inductive: the wait group does not
count read loops, and only the receive from `readDone` orders their end before
`wg.Done`. `WaitGroupInv` says besides that the set of running handlers is finite,
whatever `Session` is; each change of `wg` is then a change of that set by one element,
or of the accept loop.

`ConnectionProofs` proves `TypeCorrect`, `PunctualNodesAreKept`,
`ConfiguredPairIsServed` and the refinement `FramesAreMessages`, for every size of
frames and window, every timeout and every heartbeat interval below the read deadline
and within the age limit (`IntervalAssumption`). Its invariant has three parts.

* `FrameInv`: reader, wire and sender are at consecutive units of the frames sent. From
  it follow `HeaderIsHeader`, that the reader takes only headers for headers, and
  `FrameDecodes`, that a complete frame is the message that was sent. Without it a node
  in good standing might be dropped for garbage it never wrote.
* `GoodNodeInv`, of a node that behaves: nothing on the wire ends the connection, and
  there is time left. The second says that, unless a heartbeat is on its way, `age` is
  not more than `silence` and the deadline not further off than what `silence` has left
  of it; a frame that is no heartbeat moves the deadline only, and keeps both.
* `CertInv`: what is in use, or half read by the watcher, is not newer than the files.

For `FramesAreMessages` the queue of the abstract channel is the sequence of messages
whose last unit is on the wire. Writing a last unit is `Send`, reading one is `Receive`
(`CompletedAppend`, `CompletedTail`), and by `FrameInv` the reader completes a frame
exactly when it reads such a unit, and decodes it to that message. Every other unit is a
stutter, or the moment the receiver is done with the message before.

`InvokeProxyProofs` proves `TypeCorrect`, `SlotsAreExact` and `StreamsStayCurrent`. The
count is that of a finite set that each step changes by at most one caller; a caller has
a target exactly while it is inside a call, and one that dialled itself never gets to
`Release`. For the streams: yamux grants one only on a session that is not closed,
whatever left the map has been closed (`NoSessionLeaked`), and an object in the map is
filed under its owner, which it keeps.

`AdmissionProofs` is about the whole pipeline, for every rate, capacity, clock, set of
rules and configuration of Retry. `RateIsKept` compares the exact bucket with what this
one holds and is about to add; its invariant needs to know that a bucket in use is not
full, or the exact one would spill a fraction that this one keeps.
`RetryReportsTheTruth` rests on the invariant that while Retry goes on, every attempt so
far has failed with an error worth another one and one is left. `MatchIsSound` and
`MatchIsComplete` relate `matchPattern`, which compares prefixes, suffixes and
substrings, to the meaning of a pattern (`Glob`: a way to cut the value into what each
character covers), for all values and patterns: it matches nothing that the pattern does
not cover, and all that a pattern of the documented forms covers. `ChecksAreExact` adds
the loop of `Match`, with the invariant that `bestMatch` is the first of highest
priority among the rules seen so far. The assumptions are that the error codes of the
ACL and the limiter are errors of the call, that nil is not, and that a power of
`Multiplier` is a natural number (`PowerAssumption`, which the provers do not know and
TLC evaluates).

`MeshlibProofs` proves the four safety properties of `Meshlib` for any number of
threads, Starts and strings. For `CallsHaveTunnel` the invariant says that whoever is
past the drain has found the server drained, that a drained server serves no listener,
and that one without exporter is drained or has not been started. For the strings it
gives every block one owner: an id, the thread about to enter it, or the thread about to
free it.

Only model-checked: liveness (`DeadSessionLeaves`, `StopReturnsUnlessHeld`,
`SilentNodeIsDropped`, `RenewalIsLoaded`, `CallsReturn`, `Recovers`, `ClientIsServed`,
`FreedFallsSilent`), which under fairness is out of the prover's reach.

## 5. Not modelled

* The contents of `ControlChan` (nothing sends or receives), and queries that copy under a
  lock (`Stats`, `Size`, `Methods`, `GetExtendedStats`).
* The Prometheus collectors, which nothing reads back; logging; the entry point, which
  only calls `Load`, `New`, `Start` and `Stop`; the generated RPC code.
* Configuration keys other than the certificate's: each is copied to its user.
* JSON, TLS and yamux themselves: their outcomes are choices of the model.
* `RetryWithRecovery`, which turns a panic of the retried function into an error, and
  the `With...` builders.
* Several control streams of one session: the server accepts one and never another.

## 6. How to run

In this directory, for every run of `PROJECT.json`: `tlc -config <cfg> <module>`; for every
proof module: `tlapm <module>.tla`.

# Verification of http2-wrapper

TLA+ modules for `http2-wrapper`, the HTTP/2 client whose API mirrors Node's
`http`/`https` modules: models translated from `src/source`, TLC runs on small
instances, and TLAPS proofs for all instances. Line numbers are those of
`src/source/agent.js` unless a file is named.

## 1. The system

| Component | State | Operations | Interacts with |
|---|---|---|---|
| **Session pool**, `agent.js` `class Agent` | `queue[options][origin]` (entry functions with `listeners`, `completed`, `destroyed`, and a count `kLength` per options), `sessions[options]` (sorted by `maxConcurrentStreams`), `_sessionCount`, `_emptySessionCount`; per session `kCurrentStreamCount`, `kGracefullyClosing`, `kOriginSet` | `getSession`, `request`, `closeEmptySessions`, `destroy`; handlers `remoteSettings` (first, later), `origin`, `error`, `close`, the shim of `session.request`, the `close` of a stream | Node's `Http2Session` (events, `close()`, `destroy()`), callers (promises) |
| **Sorted insertion**, `getSortedIndex` | the loop's `low`, `high` | one search per new session | the pool's lists |
| **TLS session cache**, `tlsSessionCache` | LRU map key -> TLS session | set on `session`, delete on `error`, clear on `destroy()` | the entry function |
| **ALPN resolution**, `auto.js` | `cache`, `queue` of pending resolutions, the resolved socket, `options.path` | `resolveProtocol`, choice of agent, `installSocket` | `resolve-alpn`, `https.Agent`, the pool (`_reuseSocket`) |
| **Client request**, `client-request.js` | `kJobs`, `kFlushedHeaders`, `kPendingAgentPromise`, `_request`, `res`, `aborted`, `destroyed` | `write`, `end`, `flushHeaders`, `abort`, `destroy`, the handlers of the stream | the pool's `request()`, the stream, the response |
| **Incoming message**, `incoming-message.js` | read buffer, `aborted`, `complete`, `_dumped` | `push`, `_read`, `_destroy`, `_dump` | the request and its stream |
| **Proxies**, `proxies/*` | a CONNECT stream and the promise of a connection attempt | `createConnection`, `_getProxyStream` | another agent, `http`/`https`, the proxy |
| **Proxy server**, `src/proxy-server.js` | `server.proxied`, a socket per tunnel | the `connect` handler, the handlers of source and socket | clients, targets |
| **Helpers**, `utils/*`, `index.js` | none, except `delayAsyncDestroy` (one pending microtask) | header checks, error classes, forwarding `Proxy`, re-exports | all |

**How they interact.** A request made through `auto` resolves the protocol, then
creates a `ClientRequest`, which asks the pool for a stream (`agent.request`).
The pool either serves the call from a session or appends its listener to the
queue entry of its key. The entry function connects once `maxSessions` allows
it; its session serves its own listeners and, on later events, those queued for
other origins of its origin set. A closing session lets the queue go on.

**What is hard.** JavaScript runs each handler to completion, so there is no
data race; what goes wrong is the order of handlers. Between the steps of one
entry (queued, connecting, connected, first SETTINGS, closed) any number of
handlers of other sessions may serve its listeners, empty and delete it, replace
it, or destroy the agent. Two limits (`maxSessions`, `maxEmptySessions`) are
kept by running totals changed in seven places. Progress depends on every
handler that frees something telling those who wait. `PROJECT.json` lists the
hazards one by one with the line where each bites.

**What makes each component correct.**

- *Pool*: totals equal what they count; queue, pool and entries agree; every
  waiting caller is held by exactly one entry, which is in the queue or runs (but
  for those `destroy()` abandons); every caller gets a session of its options for
  its origin; no
  session is overloaded; nobody waits beside a session that could serve; no
  entry waits while there is room for its session; covered sessions close; open
  empty sessions stay within their limit; the fullest session of the highest
  capacity is picked; every caller is answered.
- *Sorted insertion*: the neighbours bracket the place found, the order is kept, the
  loop ends.
- *ALPN resolution*: one resolution per host at a time; joined calls end as the
  first does; only a completed resolution is cached; the socket is used or
  destroyed, once, unless the constructor of the request it was for throws.
- *Client request and message*: no stream outlives its owners; `close` comes, once,
  after the response's, and tells whether the response is whole; calls keep their
  order across the arrival of the stream; back-pressure is lifted in time; an
  agent's failure is reported.
- *Proxies*: an attempt ends; a tunnel is only taken for one if the proxy reached
  the target; its three parts end together; `server.proxied` stays exact.

## 2. Modules

| Module | Models |
|---|---|
| `Agent` | the session pool |
| `AgentService` | the refinement mapping from `Agent` to `SessionService` |
| `SessionService` | what the pool promises a caller, without queue, entries and counters |
| `MCAgent` | definitions for the TLC instances of `Agent` and `AgentService` |
| `SortedIndex` | `getSortedIndex`, one loop iteration per step, and the insertion |
| `ListLemmas` | proofs about `InsertAt` and `RemoveAt` of lists |
| `SortedIndexProofs` | proofs about `SortedIndex` |
| `AgentProofs` | proofs about `Agent`: types, graceful closing, and what each helper leaves alone |
| `AgentAccountProofs` | proofs about `Agent`: queue, lists, callers and totals agree |
| `AgentServiceProofs` | proofs about `Agent` and `AgentService`: what the pool does for its callers, and the refinement |
| `AlpnResolve` | `auto.js`: `createResolveProtocol`, and `auto()` around it |
| `MCAlpnResolve` | definitions for the TLC instances of `AlpnResolve` |
| `AlpnResolveProofs` | proofs about `AlpnResolve` |
| `ClientRequest` | a request, its response, and the stream they share |
| `ClientRequestProofs` | proofs about `ClientRequest` |
| `ProxyTunnel` | connection attempts through a proxy, the proxy, and the tunnels |
| `ProxyTunnelProofs` | proofs about `ProxyTunnel` |

`AgentService` composes `Agent` with its abstract specification. The others meet
at narrow places: `ClientRequest` sees the pool as a promise that is resolved with a
stream or rejected, which is what `CallersAnswered` says of the pool and
`SessionService` of the answer; `SortedIndex` justifies one operator of `Agent`;
a connection attempt of `ProxyTunnel` is `Connected` or `ConnectFailed` of `Agent`.

### Agent

One action per call of a user, per `await` of the entry function, and per event
handler; each handler is atomic, because JavaScript runs it to completion. The
helpers carry the names of the source's functions and map a state to the state
they leave (or to the set of states they may leave), so that an action reads
like its handler: `SessionClosed` is *decrement, remove from the list, run the
queue*, and `ProcessQueue` may itself close empty sessions.

| Source | Model |
|---|---|
| `getSession`: argument check / scan / queue | `RejectServername` / `GetSession` with `PickedAt` / `Enqueue` |
| `request` | `Serve`: `resolve` opens a stream, or throws (`StatusOffered`) |
| `_accept` | `ServesUntilFull`, `Serve`; what is left over: `Relay` |
| `_processQueue` | `ProcessQueue`, `StartEntries` |
| entry function | `StartEntries`, `Connected`, `ConnectFailed` (`catch`) |
| first `remoteSettings` | `FirstSettings`, or `FirstSettingsRefused` |
| later `remoteSettings`, `origin` | `SettingsUpdate`, `OriginFrame` |
| `processListeners` | `ServesInTurn`, `ProcessListeners` |
| `closeCoveredSessions`, `closeSessionIfCovered`, `gracefullyClose` | the same names |
| `close` of a stream, of a session | `StreamClose`, `SessionClosed` |
| `closeEmptySessions`, `destroy` | `CloseEmpty`, `AgentDestroy` |
| Node's session | `Close`, `Destroy`, `SessionClose`, `SessionLost`, `SessionDrained` |

Abstractions, and why they lose nothing the properties see:

- An entry function runs once and creates at most one session, so entry and
  session share an identifier, taken in creation order.
- The listeners of an entry are a set. A handler that serves some of them
  chooses any subset its loop could have served (`ServesUntilFull`,
  `ServesInTurn`): the first ones in arrival order are among them.
- `_accept()` passes leftover listeners to a nested `getSession()`, recursively.
  `Relay` unrolls that recursion: while `relay` is set nothing else is enabled.
- The place of a session in its list is any place its neighbours allow
  (`SortedIndexes`); `SortedIndex` shows that `getSortedIndex` finds one: `Bracketed`,
  proved as `SearchBrackets`, says exactly that once `low = high`.
- `for ... in` over the options' keys is taken in any order (`ScannedFirst`).
- Node's session is reduced to `open`, `closed` (no new streams) and
  `destroyed`: `close()` without streams destroys it, otherwise it is destroyed
  after its last stream (`SessionDrained`); its streams close before it does.
- `Forget` resets what nothing reads any more, to keep equal states equal.
- A caller calls once, for the options and origin `asked` holds from the start.
- Callers of `request()` are *requests*: resolving opens a stream at once.
  Other callers of `getSession()` hold the session and use it later
  (`UserRequest`). A *malformed* request makes `session.request()` throw.

### SessionService and AgentService

`SessionService` says what each call of `getSession()` or `request()` may rely
on: the key it gave, its options and origin, is the one it waits for, as long as it
waits, and it is answered once, at once or after waiting, with a live session that
serves this key, or rejected. A step of the pool is a step or
a stutter of *every* caller, so one `remoteSettings` handler may answer many. The
mapping derives what the service talks about from what the pool keeps: a caller
`wants` the keys of the entries that hold its listener, a session `serves` its
own origin and its origin set for its own options. What a call `asked` for
is fixed from the start (any choice in `Calls`) and kept until it is answered; no
handler of the pool reads it, only the call itself. So the refinement fails
if the scan gives a session of another origin, if a call is queued under a key it
did not ask for, or if a handler moves a listener to an entry of another key, serves it from a
session of other options, settles it twice, or drops it and takes it up again.
`live` and `accepting` are the environment's in `SessionService`: it
constrains callers, not when sessions come and go.

### SortedIndex

`array` holds the capacities of a list, `low` and `high` are the loop's
variables, 0-based. The lists need not be sorted, since a later SETTINGS frame
changes a capacity in place.

### AlpnResolve

A step is the code of one call between two `await`s. A call is `idle`, then
owner of a resolution (`CallResolves`), or one that joined it (`CallJoins`), or
answered from the cache (`CallCached`). `Settle` is the promise of
`resolve-alpn`; `OwnerSucceeds` is the `try` of `auto.js` 74-82, `OwnerFails` its
`catch`, `JoinerResumes` the other `await` (64). The owner awaits its promise
before anyone else can, so it resumes first, and calls may begin between
settling and resuming. `ThrowTimeout` and `MakeRequest` are `auto()` after its
`await`: `Disposed` says what becomes of the resolved socket, over all kinds of
agents (each `agent` object gives one of three, chosen by protocol) and
`options.createConnection`. If the constructor of the HTTP/2 request throws, the
socket it was to reuse stays `open`, owned by nobody (`Unmade`). `Evict` is the LRU limit, or a user who clears the
exported cache, at any moment.

Left out: the options' normalization, the header clean-up (200-218), the
handlers `installSocket` puts on a socket (its end is the fate *installed*), and
`options.path`, which a call replaces in its own copy of the options before the
`await` and restores in both branches after it. `resolveProtocol()` called
directly is a call of `auto()` without its last step.

### ClientRequest

One request at a time, since requests share nothing but the pool. `request`,
`stream` and `response` are the three objects that destroy each other; `ticks`
holds the callbacks of `process.nextTick()` in their order. As in `Agent`, helpers
carry the source's names and map a state to a state, and an action is a call of
the user, an event, or one callback:

| Source (`client-request.js`) | Model |
|---|---|
| `_write`, `_final`, `setTimeout` with `kJobs` | `Write`, `End`, `SetTimeout`, by way of `Issue` |
| `flushHeaders` before and after its `await` | `Flush`; `Resume` |
| `onStream` | `OnStream`, and an action for each handler it installs |
| `response`/`headers`, `data`, `end` handlers | `StreamResponse`, `StreamData`, `StreamEnd` |
| `aborted`, `error`, `close` handlers | `OnAborted`, `TickStreamError`, `OnStreamClose` with `Finish` |
| `abort`, `destroy`, `_destroy` | `Abort`, `RequestDestroy`, `MarkRequest`, `DestroyCallback` |
| `IncomingMessage`: `push` and `_read`, `_dump`, `_destroy` | `StreamData`, `ReadChunk`, `ReadEnd`, `Dump`, `MarkResponse`, `ResponseDestroy`, `OnEnd` |

Node's `Writable`, `Readable` and `Http2Stream` are external: a `Writable` hands
over one chunk at a time (`pending`), a `Readable` that is destroyed, or had
an error before the tick of its `end`, emits none, `Http2Stream.destroy()` emits `aborted` at once while its writable side is
open, and `error` and `close` on later ticks. Network events wait until no
callback is left, as in Node. Data are chunks that are counted; headers,
the forwarded `timeout`, `continue` and information events, and a socket handed
over as `_reuseSocket` are left out. `issued` (all calls in order) is a history
variable. `Sessions` tells where the stream comes from: the agent (a promise),
`options.h2session`, or one whose `request()` throws.

### ProxyTunnel

`Attempts` are connections through one proxy; `Kinds` says whether the client
speaks HTTP/1.1 or HTTP/2 to it. An attempt is a chain of the client's stream
(`near`), the proxy's (`far`) and the proxy's socket, and each of the three may
fail or close by itself (`LoseNear`, `LoseFar`, `SocketFails`, `SocketEnds`).

| Source | Model |
|---|---|
| `createConnection`, `_getProxyStream` | `Start`, `Ask`, `AskFails`, `ReadReply` |
| what settles `getStream`/`getStatusCode` otherwise | `Shut`, in `NearCloses` and `LoseNear` |
| `proxy-server.js` `connect`: refusals, connecting, its callback | `Refuse`, `Dial`, `Established` |
| handlers of the socket | `SocketFails`, `SocketEnds`, `SocketClosed` |
| handlers of the source | `CloseFar`: when the client's end closed (`FarCloses`), or the proxy loses its connection (`LoseFar`) |

Which requests the proxy refuses (credentials, authorities) is a free choice.

## 3. Runs

All runs use `CHECK_DEADLOCK FALSE`: each caller calls once, so the
system really becomes idle. `Environment` names the optional events of a pool.

| Run | Instance | Shows |
|---|---|---|
| `pool_requests` | 3 requests, one malformed; 2 origins, 2 options, limits 0 and 1; ORIGIN frames, later SETTINGS, no TLS, failed connections, `closeEmptySessions()` | types, totals, callers, empty sessions; no overload; nobody waits beside a usable session; covered sessions close; the pool implements `SessionService`: a session of the options and origin asked for |
| `pool_failures` | 2 requests and a holder; GOAWAY, connection loss, refused servers, agent destroyed, servernames that differ | totals exact; queue and pool agree; callers neither lost nor doubled, but for those of entries `destroy()` abandoned; no place left unused; best session picked |
| `pool_progress` | 3 requests, 3 origins, room for two sessions, ORIGIN frames, sessions lost, fairness | every caller is answered (empty sessions close for those who wait), graceful closing ends |
| `sorted_index` | lists of up to 5 sessions, capacities 0..2 | the search ends, its neighbours bracket the place, and the order is kept |
| `alpn` | 3 calls, a host for each answer, failures, timeouts, evictions, fairness | one resolution per host, truthful requests, no socket left open unless a constructor throws, every call ends |
| `client_request` | GET, POST and CONNECT, each kind of session, up to 3 calls and 2 chunks, all calls of the user, fairness | no orphan stream; `close` once, truthful, and in the end; calls in order; no stall; rejections reported |
| `proxy_tunnel` | 2 attempts over HTTP/1.1 or HTTP/2, fairness | `server.proxied` exact; no false tunnel; no stray socket; tunnels end together; attempts end |

The following are refuted, each by what the code does against what its
documentation, comments or tests say (`findings` in `PROJECT.json` quotes them):

| Run | Claim refuted | What happens |
|---|---|---|
| `max_sessions` | at most `maxSessions` sessions | one pass of `_processQueue()` starts all queued entries |
| `destroy_pending` | `destroy()` makes pending sessions throw | entries that wait for room are dropped unsettled |
| `failed_connection` | a free place is used | `catch` does not run the queue |
| `alpn_timeout` | `auto()` gives the request the host negotiates | a timed out resolution is cached (`auto.js` 77), so a host that speaks h2 gets HTTP/1.1 |
| `client_aborted` | a completed response is not `aborted` | the end of a response destroys the stream (`incoming-message.js:49`) before the body of a POST has ended, and Node then emits `aborted` on it |

More things the code does, on which its texts are not clear enough for a run, or
which a property names as its exception:

- A session that becomes ready at the limit and stays empty is not closed for an
  entry that waits (593-595 does not run the queue).
- The entry of a refused server stays in the queue until the `close` event
  (560-571); callers which attach to it meanwhile are rejected with it.
- A session is closed gracefully as *covered* by one that is itself closed or
  destroyed (117, 129; the comment at 107 promises that it can take over).
- A later SETTINGS frame changes a capacity without sorting the list again (598),
  so the scan may stop at a session of lower capacity: `PicksBest` holds in
  `pool_failures`, which has no such frames.
- `Stranded`: the `close` handler of a stream waits for the `end` of a readable
  response (`client-request.js:402`), which does not come if the response is then
  destroyed, or got no `end` because the request was aborted or the stream was
  reset; neither response nor request emits `close` then.
- `Abandoned`: callers of an entry that `destroy()` took out of the queue before it
  ran are held by nothing that runs (`WaitersAccounted` excepts them, and
  `destroy_pending` refutes the claim about them).
- `Unmade`: when the constructor of an HTTP/2 request throws (`auto.js:195`), the
  socket it was to reuse stays open (`SocketsSettled` excepts it).
- A CONNECT request emits `close` when it hands over its tunnel and again when
  that breaks (`ClosedOnce` allows two).
- `Unheard`: a CONNECT stream that closes without an error or a response leaves
  `getStatusCode()` waiting (`h2-over-h2.js:6`, likewise `h1-over-h2.js`), and so
  the attempt.
- A socket handed over by `auto()` goes to every entry created with the same options
  while it is not destroyed (`client-request.js:139`): the entry for what `_accept()`
  could not serve gets a socket that already carries a session, which Node refuses;
  and if a pooled session serves the request, nobody uses or destroys the socket.
- The stream of a refused CONNECT is neither ended nor destroyed
  (`h2-over-hx.js:18`).

`NoIdleCapacity` passes in `pool_failures` and fails in `failed_connection`; the
difference is that connections fail only in the second.

**Bounds.** Three entries let one session serve, one be replaced and one wait at
`MaxSessions = 2`; `MaxEmptySessions = 1` lets two sessions be empty, which is
one too many. Two origins are the least with proper subsets (covered sessions,
cross-origin service); two options tell a session of other options apart. Limits
1 and 2 give a session that is full after one request and one that is not; 0
serves nobody. A caller calls once; a second call behaves as another caller's.
Callers may ask for any keys (`AllCalls`). Since nothing relates the origins of
different options, `pool_requests` takes the choices that agree in one origin
(`AlignedCalls`); `pool_progress`, whose callers are alike and share their options,
takes one choice for each number of origins (`AlikeCalls`).
Fewer entries than callers could use is a bound:
`Enqueue` stops without a fresh entry, and `FirstSettings` does not fire if its
leftovers would need one. In the liveness run that would be a false liveness
failure; with four entries the bound is never met (a fifth adds no state).
Capacity 1 is enough there: a session that covers another serves one request.
The safety runs of the pool use symmetry of requests, callers, origins and options:
no definition names one of them, orders them or uses `CHOOSE`, and the entries,
which are ordered, are left out of it. `pool_progress` uses none, because it checks
liveness. In `alpn` three calls are an owner, one that joins, and one that comes later or
resolves again after an eviction or a failure. In `client_request` three calls
are one before the stream, one while it is awaited and one after; two chunks with
`HighWaterMark = 2` fill a buffer, which pauses the stream. In `proxy_tunnel` two
attempts close their sockets in either order, and share nothing else.

**Fairness** (`pool_progress`). Weak fairness of: connecting (ends), the first
SETTINGS frame or its refusal (a server must send one), the end of a stream,
`Relay` (the rest of a running handler), and Node's `close` events. Nothing is
assumed of ORIGIN frames, losses or callers. Each conjunct of `Fairness` is
`WF_vars` of an action with its `ENABLED` written out, which TLC evaluates
much faster. In `alpn`: every resolution settles (a connection completes, fails
or times out), and promise jobs run (`Resume`, `Finish`); nothing of new calls or
evictions. In `client_request`: the agent answers (`CallersAnswered`), promise jobs
and ticks run, a response is read (a reader that stops would keep `close` back by
design), and every stream ends or is reset; nothing of the user's other calls. In
`proxy_tunnel`: requests to the proxy end, it answers, its connections come about
or fail, and the end of a part is noticed by its neighbour; nobody has to close a
tunnel that works.

## 4. Proofs

TLAPS checks each theorem for all values of the constants that meet the named
assumptions of its module: finite `Entries` and `Listeners`, `None` outside the
other sets, limits in `Nat`. No symmetry or bound is assumed, and no restriction
of the environment but the two that are part of their theorems' statements
(`EntriesStartInTime`, `BestPicked`).

| Theorem | Says |
|---|---|
| `SearchBrackets`, `OrderKept` | what `sorted_index` checks, for lists of any length |
| `AgentProofs`: `TypeCorrect` | `TypeOK` of `Agent` |
| `CoveredSessionsClose` | `GracefulSessionsClose`: a session told to close gracefully is not open without streams |
| `AgentAccountProofs`: `CountersAgree` | `CountersExact`: the four running totals equal what they count |
| `QueueAndPoolConsistent` | `KeysConsistent`: queue, lists and entries agree |
| `NobodyLost` | `WaitersAccounted`: a waiting caller is held by one entry, which is in the queue or runs, unless `destroy()` abandoned it |
| `AgentServiceProofs`: `FewEmptySessions` | `MaxEmptyRespected` |
| `NobodyOverlooked` | `NoMissedWakeup`: nobody waits beside a session that could serve |
| `EntriesStartInTime` | `NoIdleCapacity`, if `"connectError" \notin Environment` |
| `NeverOverloaded` | `NoOverload`, an action property |
| `BestPicked` | `PicksBest`, an action property, if `"settings" \notin Environment` |
| `PoolImplementsService` | `ImplementsService`: `Agent` implements `SessionService`, step by step |
| `AlpnResolveProofs`: `TypeCorrect`, `OneResolution`, `ProtocolHonest`, `SocketsAccounted` | `TypeOK` and the safety properties of `alpn`; the last but for requests whose constructor throws |
| `ClientRequestProofs`: `TypeCorrect`, `StreamsReleased`, `CallsOrdered`, `NeverStalls` | `TypeOK`, `NoOrphanStream`, `CallsInOrder`, `NoStall` |
| `CloseSaidOnce`, `CloseTold` | `ClosedOnce`, `TruthfulClose`: `close` once, and only when the response is known to be whole or aborted |
| `ProxyTunnelProofs`: `TypeCorrect`, `ListExact`, `TunnelsReal`, `SocketsHaveStreams` | all safety properties of `proxy_tunnel`, for any number of attempts |

So every invariant, every property of steps and the refinement that a passing
run checks is a theorem as well.

**SortedIndex.** The inductive invariant is `TypeOK /\ Bracketed`: what lies
below `low` is greater than the value, the element at `high` is not. In an
unsorted list only the two neighbours can be claimed, in a sorted one the
whole list follows; `ListLemmas` says what an insertion does to the others.

**Agent: types and graceful closing** (`AgentProofs`). `IInv` is `Good(Now)`, a conjunction on a state record, so that each
helper has a lemma of its own (`CloseGood`, `ServeGood`, `UnqueueGood`, ...) and
an action's lemma composes them as the handler composes the calls. Neither
theorem is inductive alone:

- `Keyed`: an entry that is under way has an origin and options; handlers index
  the queue and the pool by them.
- `Pooled`, `Holding`: what a list or a caller refers to had a session, and that
  is ready, or closed and destroyed. `Relaying`: the handler that goes on is
  that of a ready session.
- `Closing` is `GracefulSessionsClose`. A covered session gets streams only
  while `Accepting`, and a closing one does not accept; `GracefullyClose` closes
  those without streams at once. `StreamClose` breaks the predicate in the
  middle of its handler, between the count reaching 0 and `session.close()`: its
  lemma shows that the rest of the handler restores it.

**Agent: accounts** (`AgentAccountProofs`). `AInv` adds to `IInv` what is kept
twice, on both sides. Most of it is needed for some total:

- `Filed`: `queue[options][origin]` is a pending entry of that key that was not
  destroyed, *and* every such entry is where its key says. Without the second
  half `AgentDestroy` and `_processQueue` could miss an entry, and a replaced
  one could lose its callers. `Measured`: `kLength` counts them.
- `Listening(st, r, T)`: every waiting caller is a listener of exactly one entry,
  and that is pending, or is `r`, whose leftovers are being moved; `T` are the
  callers in the hand of a handler that has taken them out of one list and not yet put
  them into another (`GetSession`, `Relay`). Between two actions `T` is empty
  and `r` is `relay`.
- `Listing`: a session is listed under its options exactly while it is `ready`,
  once. Otherwise removing it on `close` would leave a copy behind.
- `Streaming`, `Counted`, `UnusedCounted`: the totals. `_emptySessionCount` is
  changed where a stream count reaches or leaves 0, so that it is exact only if the
  stream counts are, and these only because the streams of a session close before
  it does.
- `Attended`: an entry that waits has a listener. A handler which serves the
  listeners of other entries breaks this until it has removed those it
  emptied, which is why it is not claimed of the states between two helpers.

**Agent: service** (`AgentServiceProofs`). `SInv` adds to `AInv` what a caller
notices. None of the properties is inductive without `AInv`, because each says
that a handler which counts, finds or empties something finds all of it:

- `AtLimit`: while an entry waits, `_sessionCount` has reached `maxSessions`. A
  failed connection frees its place without running the queue (the `catch` of the
  entry function), so it is claimed for an environment without failing
  connections only; the run `failed_connection` shows that this hypothesis is needed.
- `FewVacant(st, r)`: at most `maxEmptySessions` open sessions are empty, not
  counting `r`, which has not yet served its own listeners.
- `Awake(st, b)`: nobody waits beside a session that accepts streams and has room,
  but for `b`, whose handler has yet to serve. Each handler that makes a session
  usable (first and later SETTINGS, ORIGIN, the close of a stream) passes
  through a state with `b` that session and ends in one with `b = None`.
- `Ordered`: lists are sorted by capacity. `SortedIndexes` keeps that for an
  insertion, but a later SETTINGS frame changes a capacity in place, so it is
  claimed for an environment without such frames, and so is `PicksBest`.
- `Decided`: a caller of `request()` never holds a session without a stream.

Two properties and the refinement speak of steps. `CallerStep(st, t, l)` says
that a step is, to a caller `l` that does not call in it, one of five: it stays as it is, is
offered a session which serves what it waits for and which a stream of its own does
not overload, is rejected, uses the session it holds, or its stream ends. To the
caller that calls it is `Asks(st, t, o, p, l)`: `l` is registered for exactly `<<p, o>>`,
or offered a session that serves it. The lemmas show this of each helper that
touches callers and of every action (`OtherCallers`, `NextCallers`). `NeverOverloaded`
reads off the limit. The refinement needs `RInv`, which adds to `SInv` that a caller
which waits is registered for what it `asked` (`Recalled`): no step changes what it
`Wanted`, the keys of the entries that hold it. `PoolImplementsService` then maps each case to a step of `SessionService`. `BestPicked` follows from `Ordered`
at the one action that picks.

**AlpnResolve.** `QueueTracksPending` needs no help from the others.
`ProperUnlessTimedOut` needs where an answer comes from: `HonestAnswers` (cache
and answers hold what the host negotiates, or nothing known after a timeout),
`Joined` (who joined awaits a resolution of the same host, however often the
queue changed since) and `Resolutions`. `TimeoutsStay` says that no step takes
a timeout back.

**ClientRequest.** `IInv` is `Good(Now)` = `Sound /\ NoOrphan`. The helpers
destroy objects in the middle of a handler, so that `NoOrphan` (the property)
does not hold between them; `Sound` does, and each helper's lemma says that it
keeps `Sound` and what it leaves alone (`Marked`), or that the stream is not open
afterwards (`Released`), from which `NoOrphan` follows at the end of the handler.
`Sound` adds to the types:

- `Awaited`: as long as the promise has not been resumed there is no stream,
  without a stream there is no response, and every call is a job. Without it
  `onStream` might run twice, and `CallsInOrder` is not inductive.
- `Forwarded`: a stream with handlers got every call that was issued.
- `Flows`: a stream is paused only beside a response that has something to read or is
  destroyed.
- `Ends`, `Closing`: a pending `end` tick has its response, a pending `close` tick
  its stream.

The assumption `NoneAssumption` says that `None` is not a response.

`ClosedOnce` and `TruthfulClose` need `CInv` = `IInv /\ Accounted(Now)`: who may
still emit `close`. There are three who could, the tick of `_destroy()`, the
handler of the stream's `close`, and `finish()` on the response's `end`.

- `Due`: each pending event is in `ticks` once, and only where what it does has
  not been done: a `close` tick has a request that never got a stream with
  handlers and has not said `close`, a `streamClose` tick has a stream that is
  `destroyed` and not yet `closed`, an `end` tick a response that is not complete.
- `Unserved`: a request without handlers on a stream says `close` only by the
  tick, and that is put there when it is destroyed.
- `Reported(st, said)`, `Answered(st, told)`: how often request and response
  have said it, given whether the stream is through with each. Between two actions
  both parameters are `Over(st)`: the stream is closed and `finish()` does not wait
  for an `end`. Within `finish()` the response is told first, so that
  `told` and `said` differ; a destroy in between keeps both.

**ProxyTunnel.** `RepliesTrue`, that an established reply was sent by a proxy
that had a connection, strengthens `NoFalseTunnel`; `ProxiedExact` is inductive
with the types, because a socket is listed once and taken out by its place, and
so is `NoStraySocket`.

Not proved, and only model-checked: liveness (`CallersAnswered`,
`GracefulSessionsEnd`, `SearchEnds`, `CallsEnd`, `RequestCloses`,
`RejectionReported`, `EndsTogether`, `AttemptsEnd`), which rests on fairness and
`ENABLED`, out of this prover's reach. The theorems hold of `Spec`, without
fairness, and thus of the fair specifications of the runs. What the models
abstract from (section 2) is abstracted from in the proofs as well.

## 5. Not modelled

- The TLS session cache: three operations on an LRU map, whose interplay with the
  pool is one line each; what TLS does with a stale session is not in this code.
- The handlers `installSocket` puts on a socket of the `https` agent, and what the
  pool does with a socket handed over as `_reuseSocket`: they need `AlpnResolve` and
  `Agent` in one model, with sockets of their own.
- Of `ClientRequest`: reading and changing headers, the forwarded `timeout`,
  `continue` and information events; `delayAsyncDestroy`.
- Of the proxies: checks and headers of the proxy options, TLS inside a tunnel.
- Left out for good: header and argument checks, error classes, the socket
  `Proxy`, `normalizeOptions` and `Agent.connect` (stateless string work and I/O);
  an override of `_isBetterSession`; HTTP/2 framing and TLS themselves, which are
  Node's.

## 6. Plan

1. `Agent`, `SortedIndex`, `AlpnResolve`, `ClientRequest`, `ProxyTunnel`,
   `SessionService`, their runs and the proofs of section 4. *Done.*
2. The accounts of `Agent` as theorems, then what the pool does for its callers,
   then the step refinement of `SessionService`, which rests on both. *Done.*
3. `ClosedOnce` and `TruthfulClose` of `ClientRequest`. *Done.*
4. Sockets handed over: `AlpnResolve` and `Agent` composed, with
   `installSocket`'s handlers; then the TLS session cache.

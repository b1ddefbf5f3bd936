# A verification project for the 42U plugin rack

42U is a plugin rack. A host loads plugin modules, plans the order of their
initialisation, starts them as one batch, lets them publish capabilities, lease
one another and call one another through an invoke gateway, delivers events
between them, and takes them out again by an explicit unload protocol. There are
two implementations of the same protocols: one in TypeScript (`ts/src`, with a
set of standard plugins and a CLI) and one in C++ (`src/`, `inc/`). This
project models the TypeScript one: its core, `ts/src/core`, the eight standard
plugins, `ts/src/plugins`, and the CLI, `ts/apps/cli`. Paths below are relative
to the repository.

Everything runs on one event loop. There is no memory shared by threads, and
still nearly every operation is concurrent: it awaits module imports, plugin
callbacks, sockets and timers, and anything the loop can run comes in between.
**A step of these models is the code between two awaits.**

## 1. Inventory

| component | state | operations | modelled by |
|---|---|---|---|
| lease table, `lease.ts` | records: consumer, provider and its generation, calls open, revoker | `acquire` `release` `beginCall` `endCall` `revokeProvider` `releaseAllFrom` | `LeaseGateway` |
| invoke gateway, `calls.ts`; services, `services.ts` | instances in a call | `call` | `LeaseGateway` |
| rack host, `host.ts` | instance records, callback depth, next generation, deferred unloads, staged factories, the shutting-down flag | `boot` `add` `start` `load` `unload` `reload` `poll` `shutdown` | `RackHost`; one batch and its unloads also in `LeaseGateway` |
| capability registry, `caps.ts` | table of the Active providers; list of watchers | `register` `withdraw` `watch`, unsubscribe, `lookup` | `CapWatch`; the table also in `LeaseGateway` |
| event bus, `events.ts` | bounded queue, subscriptions, the draining flag | `publish` `subscribe` `unsubscribe` `unsubscribeAll` `drain` | `EventBus` |
| planner, `order.ts` | none, a pure algorithm | `planOrder` | `InitOrder` |
| loader, `loader.ts` | memo of imports by path and generation | `load` | as awaits of `RackHost` |
| data layer: JSON, statuses, versions, types | none | checks and conversions | version ranges in `Versions` |
| std.http-server | listener, routes, pending requests, one lease per request | `route.add` `route.remove` `route.list`, `handleConnection`, `stop` | `RouteTable` (its management methods), `HttpServer` (its requests) |
| std.rest-server | mounted resources, lease on std.http-server | `resource.mount` `resource.unmount` `mounted.list`, sink, revoker, `stop` | `RestServer` |
| std.rpc | the route and its lease; bridge; client exchanges | mounting, `bridge`, `call` `batch`, `stop` | `RpcEndpoint`, `RpcBridge`, `RpcClient` |
| std.http-client | requests under way: attempts, timer, backoff | `request`, `stop` | `HttpClient` |
| std.rest-client | lease on std.http-client | `resource` `crud`, sink, revoker, `stop` | `RestClient`, `CrudRoutes` |
| std.oauth | token cache | `token` `token.invalidate` `introspect`, `stop` | `TokenCache` |
| std.net | probes under way | `tcp.probe` `dns.resolve` `url.normalize`, `stop` | `NetProbe` |
| std.log | ring of entries, chain of appends | `log` `query` `stats`, `stop` | `LogRing`, `LogDevice` |
| CLI `rack-cli` | one invocation over one rack | every command | `RackCli` |
| SDK, demos and example plugins | none of their own | wrappers, uses | not modelled |
| C++ rack | as the TypeScript core, with retry of revoking instances | the same | not modelled |

How they meet:

* The host calls plugins (`init`, `start`, `stop`, `destroy`, `invoke`) with its
  callback depth raised. While it is, its own entry points answer `busy`, or put
  an unload off until `poll()`.
* Plugins call back into the rack through their services: lease, call, publish,
  subscribe, watch.
* A generation joins the tables. The host gives every record one; the registry
  offers it, a lease is on it, and a call checks that the registry still offers
  what the lease is on.
* Unload runs through all of them: withdraw the capability, ask every consumer
  for its lease back, prove that no call is in flight, stop, release what the
  plugin itself had borrowed and subscribed, destroy, drop the record. An
  instance that can not be proved quiet is quarantined (`faulted`).
* std.http-server and std.rpc borrow the target of a request for one call.
  std.rest-server, std.rpc and std.rest-client watch the registry, lease another
  standard plugin for as long as it is there, and are told by `onRevoke()` to give
  it back. Two of them meet at std.http-server, whose gateway lets one call in at a
  time.

What makes it hard: operations that overlap at an await with state read before
it; callbacks re-entering the tables that called them; an old credential meeting
a new generation; counters kept in three files that must agree; one member of a
batch failing after others succeeded; a consumer that keeps its lease, or a call
that never returns, while its provider is taken down. `PROJECT.json` lists the
hazards one by one under `hazards`, each at its line and with the properties
that would catch it.

What is right, per component:

* leases and calls: no stale credential works again, as long as no two records get
  one generation number; a torn-down instance admits nothing and an unload does not
  stop it under a call; the counters agree; nobody else ends a plugin's lease; an
  unload ends;
* host: records live legal lives; one batch at a time; the depth is balanced;
  deferred unloads are kept; a shutdown gets through failures; operations end;
* registry: a watcher knows the table, and is told nothing twice;
* bus: order, completeness, nothing to those who left, everything in the end;
* planner: a plan is complete, respects edges and otherwise priority; a cycle is
  reported iff there is one;
* std.http-server, std.rpc's bridge: a lease is for one call, a request has one
  answer, of two routes the earlier serves, `stop()` leaves nothing behind;
* std.rest-server, std.rpc's endpoint: what they think is mounted is mounted;
* std.http-client, std.rpc's client: the caller is told what happened, within the
  budget, and in the end;
* std.rest-client: it follows std.http-client and reaches the method it means;
* std.oauth: no token from the cache that the server no longer takes, unless its reply
  was slower than the expiry margin; no refresh token sent again after a refresh with it
  has failed;
* std.log: the last entries, and the file without a gap;
* rack-cli: the lease back, the rack down, and the right exit code on every path.

## 2. Modules

### LeaseGateway: leases, calls and the unload protocol

The state follows the code: per plugId the record (`st`, `gen`, `inFlight`), the
point of the host operation on it (`pc`), the batch (`inBatch`, `failing`); the
counter of generations (`nextGen`) and the number a load has drawn from it and not
yet written back (`drawn`); the registry's entry (`caps`); per credential its lease
record (`lease`, `owner`, `target`, `open`); the notification pass of
`revokeProvider` (`toNotify`, `notified`); and the activations of `call()` with the
reentrancy guard (`busy`). `giver` is a history that only properties read: who took
a lease out of the table.

| code | actions |
|---|---|
| `boot`, `load`, `reload` up to their record: the number drawn before the import and written after it | `Draws` `Loaded` `LoadFails` |
| batch: `createRecord`, `initInstance`, `startInstance`, `start` | `CreateRecord` `InitBegin` `InitReturns` `InitThrows` `StartBegin` `StartReturns` `StartThrows` `BatchCommits` |
| rollback: `discardAll`, `rollbackInstance`, `destroyRecord` | `DiscardBegin` `RollbackBegin` `RollbackStops` `RollbackStopEnds` `DestroyEnds` |
| `runUnloadProtocol`, `revokeProvider` | `UnloadBegin` `RevokeSnapshot` `RevokeNotify` `RevokerEnds` `RevokeVerdict` `StopReturns` `StopThrows` `DestroyEnds` |
| `acquire`, `release` | `Acquire` `Release` |
| `call`, the host's in-flight wrapper | `CallBegin` `InvokeEnds` `CallEnds` |

A callback is two steps, its call and its return, and every other action may come
between. A revoker's decision to give the lease back is a `Release` between
`RevokeNotify` and `RevokerEnds`, as it is in the code. `Release(c, h)` is by any
plugin `c` with any credential `h`; that the lease is another's is for the code to
see. A call may outlive its provider's record (a rollback does not wait for it): it
is "left" then, and the count it takes down is nobody's. Of host operations that
overlap, which are `RackHost`'s subject, only the numbering is here: with
`Overlap = TRUE` records are numbered while imports are awaited, so that a number may
be given out twice; with `Overlap = FALSE` that does not happen. Left out are checks that
refuse an argument before anything changes (version ranges, malformed
credentials, sizes).

`Rack` says what all of this is for, with no table, counter or protocol in it. An
instance is new, serving, closed or being stopped, and serves once. Who serves may
be borrowed, and called through a lease by one call at a time; a lease goes when its
owner gives it back with no call on it, or when its owner is taken down; and an
unload calls `stop()` of an instance nobody holds a lease on and nothing runs in.
`LeaseGateway` implements it (`IsRack`): `owner` and `target` are the same, a
credential's `lease` too, and

* `phase` of an instance (`Phase`) is "serving" if it is the one in the registry's
  entry of its plugin, "stopping" if it is the record's and an unload is in its
  `stop()` or `destroy()`, "new" if its `start()` or its generation is still to
  come, and "closed" otherwise (withdrawn, rolled back, faulted, dropped);
* `running` of a call (`Running`) is its credential while it is inside `invoke()`.

What `Rack` leaves open is what the code leaves open too: a rollback stops a member
whoever holds a lease on it (section 4), so it shows there as "closed".

### RackHost: operations that overlap

An operation is a record in `op`: what it is, where it is, and what it holds in
its local variables (the generation it captured, its plan and its position, the
records it would discard, the plugIds still to unload). `turn` names the one that
has the loop: the steps between two of its awaits are several actions here, and
nobody else's come between. `inside` says that the callback it awaits is still
running; `depth` is `callbackDepth`.

| code | actions |
|---|---|
| the entry of each operation | `Add` `Boot` `Start` `Load` `Unload` `DeferUnload` `Reload` `Poll` `Shutdown` |
| `loadFactory` with its await | `NextFile` `Capture` `ImportFails` `ImportEnds` |
| `start()` | `Enter` `EnterRefused` `Make` `MakeFails` `Plan` `NextInit` `InitEnds` `NextStart` `StartEnds` `RegisterEnds` `DrainEnds` |
| its failures | `UndoInit` `DiscardRest` `UndoStart` `RollbackWithdrawn` `RollbackStopped` `Discard` `DestroyEnds` |
| `runUnloadProtocol` | `UnloadEntry` `WithdrawEnds` `RevokeEnds` `StopEnds` `DestroyEnds` `Unloaded` |
| `poll()`, `shutdown()` | `PollDrained` `NextUnload` `NoMoreUnloads` `PollEnds` |
| `runInCallback` | `CallbackReturns` |
| the gateway's calls | `CallBegins` `CallEnds` |

A callback's return lowers the depth in one microtask, and its caller goes on in a
later one. With `Gaps = TRUE` others may run in between; with `Gaps = FALSE`
nobody uses the rack just then. Leases are `LeaseGateway`'s subject: here
`revokeProvider()` answers as it likes, save that a lease with a call open on it
is never given back.

### InitOrder: the planner

`planOrder()` step by step over any set of declarations: validation, edges,
Kahn's loop with its counters (`indegree`, `ready`, `plan`), and the walk of
`extractCycle()`. Both ends that may declare one edge are there, so that it is
counted twice or once as the code does.

### EventBus: the queue and its deliveries

Events and subscriptions are numbered as they come. A drain pass (`pass[d]`) is
in the loop or inside a sink; `tokens` is what is left of `deliver()`'s snapshot.
Publishers and subscribers do what they like in between, and other flows of the
host try to drain too. `taken`, `since`, `named` and `got` are histories that only
properties read, save that `named` also stands for the queued event's name.

### CapWatch: watchers that nest

Sinks of watchers are synchronous and may watch and unsubscribe themselves, so
the passes form a stack. The registry's own `register` and `withdraw` begin on an
empty one, since the host calls them with its depth raised.

### WebMounts: plugins that mount routes on a server that comes and goes

`RouteTable` is std.http-server as its callers see it: its instance (`srv`), the
table with its counter, the gateway's guard, and of the rack what these plugins
meet (leases, watchers still to be told, revokers still to be asked). `RestServer`
and `RpcEndpoint` extend it, `WebMounts` composes them.

| code | actions |
|---|---|
| `route.add`, `route.remove`, their call and its return | `RouteAdd` and `RouteRemove` inside the callers' actions, `CallReturns` |
| life of std.http-server: registration, unload, rollback | `SrvRegisters` `SrvWithdraws` `RevokeSkips` `SrvVerdict` `SrvRollsBack` `SrvDropped` |
| `mountResource()`, `addConventionRoutes()` with its undoing | `MountBegins` `AddGoesOn` `AddFails` `UndoGoesOn` `AddGivenUp` `AddDone` |
| `unmountResource()` | `UnmountBegins` `UnmountGoesOn` |
| std.rest-server's sink with `remountAll()`, its revoker | `RestToldOffer` `RestToldGone` `RestOnRevoke` |
| its `init` `start` `stop`, by an unload and by a rollback | `RestInits` `RestStarts` `RestUnloads` `RestRollsBack` `RestStopGoesOn` |
| std.rpc: `mountRoute()`, `unmountRoute()`, `setImmediate` in `start()` | `MountAnswered` `FirstMount` `RpcStarts` |
| its sink, revoker and life | `RpcToldOffer` `RpcToldGone` `RpcOnRevoke` `RpcInits` `RpcUnloads` `RpcRollsBack` `RpcStopGoesOn` |

A sequence of calls is a job: what it has done, the ids it holds, the answer it
waits for. Its continuation runs some microtasks after the call ended, so the
other plugin's call may begin in between or be refused.

### WebRequests: requests and their targets

`OneShot` is the rack for a plugin that borrows another one for one call: a
`LeaseGateway` cut down to one lease per borrower. `HttpServer` and `RpcBridge`
extend it, `WebRequests` composes them: the bridge runs inside an invocation that
a request of std.http-server made, and a body may ask std.rpc for itself.

A connection carries one request, and `req[r].open` says that it is not over.
`server.close()` calls back when none is open: not one that has sent no headers yet
or not all, one with an unfinished body, one whose call runs, or one whose client has
not read its answer. A connection accepted before `stop()` may send its request
whenever it likes. In a rollback (`srv = "dropping"`) the instance is still Active,
and the gateway lets its calls through; in an unload they are refused. `asked` of
`OneShot` are the leases whose revoker was called and kept them; it is what an unload
has before it, and forgets a lease that goes back.

| code | actions |
|---|---|
| `handleConnection()`, `dispatchHttpRequest()`: lookup, body, call, answer, `finally` | `Sends` `BodyBad` `BodyRead` (`BodyForwarded`) `CallAnswered` `TaskEnds` |
| what node:http and the client do of a connection: it is accepted, it is over | `Accepts` `Leaves` |
| route methods, `listen`, `stop()` (of an unload, of a rollback) | `RouteAdded` `RouteRemoved` `Listens` `StopBegins` `Closed` `StopEnds` |
| `handleBridge()`, `executeRpcRequest()` | `BridgeBegins` `EntryBegins` `EntryEnds` `BridgeEnds` |
| providers, their unload, revokers of both | `Comes` `UnloadBegins` `Revokes` `UnloadEnds` `InvokeEnds` |

### StdDevices: clients, caches and the command line

`OneCall` says how the rack drives a device: one invocation at a time, `stop()`
after it for an unload and at any time for a rollback. Each device is a module of
its own; `StdDevices` puts them side by side. Only std.rest-client shares state with
another (it is a caller of std.http-client), so a behaviour looks at one part,
which the variable `seen` picks.

| code | actions |
|---|---|
| `performRequest()` and `runAttempt()` of std.http-client | `RequestBegins` `FetchAnswers` `NetworkFails` `TimesOut` `AbortHits` `ResponseSeen` `BodyEnds` `BodyTooLong` `ThrownSeen` `RetrySeen` `BackoffEnds` `Resumes` `RequestEnds` |
| its `stop()` | `HttpStops` `HttpStopEnds` |
| std.rest-client: `performRequest()`, sink, revoker, `stop()` | `Performs` `PerformEnds` `HttpComesBack` `HttpUnloads` `HttpRollsBack` `RestClientStops` |
| `token()`, `postForm()`, `invalidate()`, `introspect()` of std.oauth | `TokenCalled` `Replies` `ReplyFails` `Invalidates` `Introspects` `IntrospectEnds` `OauthStops` |
| `exchange()`, `unwrapSingleResponse()` of std.rpc | `ExchangeBegins` `HeadersCome` `BodyComes` `ExchangeFails` `ExchangeTimesOut` `RpcStops` `ExchangeEnds` |
| `probeTcp()`, `resolveDns()` | `ProbeBegins` `ProbeAnswered` `ProbeTimesOut` `LookupBegins` `FamilyAnswers` `LookupEnds` `NetStops` `NetStopEnds` |
| `handleLog()`, the file chain | `Logs` `Appends` `LogStops` `LogStopEnds` |
| `runCli()` and the commands | `Parses` `Makes` `Boots` `Reads` `Operates` `StartsCaller` `Borrows` `CallEnds` `Returns` `Signalled` `Killed` `ShutsDown` `Ends` |

Three pure parts are modules of operators: `Versions` (order and ranges),
`CrudRoutes` (the routes rest-server declares, the path and verb rest-client makes,
the lookup between them), and the status codes in `RpcClient`.

`LogRing` is the ring as the code has it, slots with a head and a count.
`RecentLog` is what it promises: the latest entries in their order. The ring
implements it under the mapping `recent <- Entries` (`RingIsRecentLog`).

### Proof modules

`LeaseGatewayProofs`, `RackHostProofs`, `InitOrderProofs`, `EventBusProofs`, `CapWatchProofs`,
`WebMountsProofs`, `WebRequestsProofs`, `StdDevicesProofs`: one for each system; see section 5. The `MC*` modules give
instances to TLC: symmetry sets, functions of bounds, routes, and the planner's
inputs.


## 3. Runs

TLC finishes every passing run, each within a few minutes on a few workers.

| run | instance | what it shows |
|---|---|---|
| `leases` | 2 plugins, 2 credentials, 2 calls; 2 loads that overlap (`Overlap`) and `MaxGen` 1, so that every record of a plugin after its first repeats a number | the counters agree and the guard excludes (`InFlightAccounting`, with `OneCallPerInstance`), `UnloadStopsQuiet`, `StoppedOwnsNoLease`, `RevokingAdmitsNothing`, `OnlyOwnerGivesUpLease`, and an unload that began ends (`UnloadEnds`) |
| `generations` | 3 plugins, 1 credential, 1 call, 1 load, 4 generations; no record is numbered while the load awaits its import | `StaleStaysStale`, and the rack is the one its consumers are promised (`IsRack`: `Rack` implemented) |
| `host_serial` | 2 plugins, 1 operation at a time of all seven kinds, 1 call, `Gaps` | types with the balance of the depth (`TypeOK`), `OfferedIsHeld`, `ShutdownLeavesStuck`, `OpEnds` |
| `host_overlap` | 2 plugins, 2 operations at once (load, unload, reload, poll, shutdown), 1 call | `LegalLife`, `OneBatch`, `DeferredNotLost` |
| `init_order` | up to 3 plugins, at most one name on either side, 2 priorities, an initialized and an unknown name | `PlanRespectsEdges`, `EarliestFirst`, `CycleIffCyclic`, `Terminates` |
| `event_bus` | 2 owners, 2 names, 2 flows that drain, capacity 2, budget 2, 2 subscriptions, 3 events | `FifoOnce`, `NoneMissed`, `GoneHearsNothing`, `AllDequeued` |
| `cap_watch` | 2 providers of 2 generations each, 3 watches | `ViewIsTable`, `InactiveHearsNothing` |
| `web_mounts` | one resource of two routes, mounted up to twice, beside the route of std.rpc; 2 generations of std.http-server; one life of each plugin | types with the leases (`TypeOK`), `RoutesAreRecorded`, `RpcInStep` |
| `web_requests` | 2 requests, 2 URLs, 2 overlapping routes, 2 targets of 2 generations, a body that asks std.rpc for itself and for another | `LeasesAreOneShot`, `StopWaits`, `EarlierRouteServes`, `StopReturns` |
| `devices` | see below | `AnswersAreTrue`, `CrudReachesItsMethod`, `RestFollows`, `TokensAreGood`, `LinesKept`, `RingIsRecentLog`, `CliTidiesUp`, `CallsEnd` |
| `in_flight_unload`, `rpc_comes_back` | as small as shows it | where the code and what is said of it part; section 4 |

Why these bounds are enough to meet the interesting cases:

* A lease needs a consumer and a provider, and a provider that is itself a
  consumer needs no third plugin: two plugins borrow from each other. A second
  credential and a second call let two leases on one provider be at different
  points (one kept, one given back; one call refused by the guard). One generation
  number is the worst case of two loads that draw the same: the properties of
  `leases` hold though the next record, its leases and calls are named as the last
  ones were. What a third plugin adds is a batch that fails under a lease while the consumer lives on in
  another, so that its old credential meets the provider's next generation; that
  is `generations`, with the four generations it takes.
* In `host_serial` one operation meets every other kind through what it left
  behind (records `created` or `faulted`, staged factories, queued unloads) and
  through calls and requests between and inside its callbacks. The second
  operation of `host_overlap` is what interleaves two batches, an unload with a
  reload, a shutdown with a load. `boot` and the gap of a callback are left out
  there, because both make a property fail in ways section 4 names; without them
  the rest is shown to hold.
* Generation and record bounds (`MaxGen`, `MaxRec`) cap counters the code leaves
  unbounded. `MaxRec = 2` lets a plugId be created again after its record is gone,
  or two plugins be there together.
* For the planner three nodes have chains, diamonds of priorities, two-cycles,
  three-cycles and nodes behind a cycle. The theorems have no bound.
* Capacity 2 and budget 2 with three events let a pass end on its budget with
  events left, and `publish` meet a full queue. The theorems have no bound.
* Three watches are one that is told something, one it makes inside, and one
  more that comes or goes inside that one's snapshot.
* `web_mounts`: two routes are what a mount needs to fail half-way; two
  generations are the one a plugin's lease is on and the one it is offered next;
  two mounts are one that fails or is undone and one after it, of the same name
  (`MaxMount`). A second life of a plugin begins like the first, with nothing held.
* `web_requests`: two requests are one that holds a target and one that finds it
  busy, or one that `stop()` waits for and one that sends its headers meanwhile; two routes are one that hides the other and the other; a body of two entries
  is one that is refused inside itself and one behind it.
* `devices`: three calls of a device (`MaxCalls`; two of std.http-client, four of
  std.log) are one that leaves something behind, one that meets it, and one after
  `stop()`. Two retries are a first, a middle and a last attempt. Versions are one
  in std.rest-client's range and one too new; identifiers are one that has to be
  escaped and a dot segment. One cache key with lifetimes 0, 2 and 4, margin 1 and
  six ticks have replies that are fresh, at the margin, and dead on arrival. A ring
  of two slots wraps with the third entry. The parts add up instead of
  multiplying, since a behaviour looks at one of them (`seen`).

The bounded runs may stop at their bounds; so deadlock is not checked. The
liveness properties say instead what must go on.

**Fairness.**

* `LeaseGateway`: weak fairness of each step of an unload that has begun. The
  loop runs every continuation, and plugin callbacks (`onRevoke`, `stop`,
  `destroy`) return, which the code relies on as it awaits them with no timeout.
  Nothing is assumed of `invoke()`, of consumers, or of whether an unload is ever
  asked for.
* `RackHost`: weak fairness of an operation's own steps: the loop goes on,
  imports settle, callbacks return. A call may run for ever and no operation is
  ever begun by fairness.
* `EventBus`: weak fairness of the drain passes together: sinks return, and the
  embedder goes on polling. No flow is favoured over another.
* `InitOrder`: a function that is running goes on.
* `WebRequests`: weak fairness of what the process does by itself (`Work`):
  invocations end and the loop runs what they resolve. Nothing is assumed of
  clients: headers and a body may never end, an answer may never be read. `StopReturns`
  says that `stop()` returns unless a client keeps its connection open in one of these
  ways; a call that runs, a client that went during it, a lease that is being revoked
  do not keep it. A kept-alive connection that is not idle when `stop()` begins is one
  whose answer is not read yet: node:http closes it by its keep-alive timeout.
* `StdDevices`: weak fairness of `Work`: continuations run, timers fire, the file
  system answers. Nothing is assumed of the network or of callers: `CallsEnd` rests
  on timeouts and on `stop()`. std.oauth sets no timeout of its own, so nothing is
  said of the end of its requests.

## 4. Where the code and what is said of it part

Each of these runs checks one property that states the quoted words, and TLC
finds it violated; `PROJECT.json` quotes them in full under `findings`.

* `in_flight_unload` (`core/host.ts:823`): an unload that meets a running call
  should answer `busy` and be retryable. A consumer whose own call is running can
  not give its lease back, `revokeProvider` then says `failed`, and the provider is
  quarantined before the in-flight test is reached.
* `rpc_comes_back` (`plugins/rpc/index.ts:866`): std.rpc says that a server which
  becomes available later is mounted on then. Its sink tries once, in the turn of
  the offer. If std.rest-server was told first, its `remountAll()` is already inside
  a call of std.http-server, the gateway refuses the second one as `busy`, and
  nothing tries again while that generation lives.

More are stated as definitions of the modules that no configuration checks; TLC
refutes each on an instance like those above:

* `RollbackStopsQuiet` (`LeaseGateway`): a batch that fails stops members that are
  already Active with calls running in them (`host.ts:755`);
* `DiscardedOwnsNoLease` (`LeaseGateway`): a plugin whose `init()` borrowed and then
  threw goes through `destroyRecord()` alone, its lease stays (`host.ts:370`);
* `NewRecordNewGeneration` (`RackHost`): the next generation is read before the
  import is awaited and written after it, so that two overlapping loads hand out the
  same number (`host.ts:409`). The doc of `reload()` says that "every old credential
  dies (stale)" (`host.ts:450-451`): with `Overlap = TRUE` and three plugins TLC finds
  `StaleStaysStale` violated, an old credential valid again on a record that repeats
  its provider's number. The property, its theorem and `IsRack` are claimed with
  `Overlap = FALSE` only;
* `FailedReloadLeavesNothing` (`RackHost`): the `start()` a reload ends with may be
  refused as `busy`, and the new record stays in the table (`host.ts:470`);
* `NoDestroyUnstopped` (`RackHost`, with `boot` and `load` overlapping): a boot
  that fails discards a record another batch has started meanwhile (`host.ts:287`);
* `InitAtMostOnce` (`RackHost`, `Gaps = TRUE`, two operations): between the return
  of `init()` and the record's new state another `start()` may init it again
  (`host.ts:685`);
* `NoDeferredUnloadInBatch` (`RackHost`, `Gaps = TRUE`): `poll()` tests the depth
  on entry only (`host.ts:483`);
* `ShutdownQuarantines` (`RackHost`): a shutdown may leave an instance `revoking`
  (`host.ts:832`). `ShutdownLeavesStuck` is what does hold;
* `MountedIsOfThis` (`WebMounts`): an answer of `route.add` that comes after
  `serverRevoker` has cleared the mount marks the route as mounted again
  (`plugins/rpc/index.ts:771`), and std.rpc does not mount on the next generation.
  TLC shows it in 13 states under `WebMounts.cfg`'s constants. `RpcInStep` goes on
  past such an answer: it counts as a mount on the generation that gave it (`rpc.of`, a
  history that only properties read), and what is on the server must agree;
* `CycleIsReal` (`InitOrder`): `extractCycle()` starts at the least node that was
  not planned; if that is only behind a cycle, what it reports is no cycle
  (`order.ts:192`).

Of the plugins and the CLI, seen while modelling and left as the code has it:

* a `routeId` kept from an older generation of std.http-server names another route
  on the new one, since ids count from 1 again (`plugins/rest-server/index.ts:603`).
  `WebMounts` models it. Such a removal sets `spoiled`, as do a `route.remove` that was
  refused (the caller forgets the id, the route stays) and an instance of either plugin
  that ended with a route of its own still on the server. `RoutesAreRecorded` and
  `RpcInStep` speak of the states before that;
* a batch's results are aligned with its requests by position
  (`plugins/rpc/index.ts:1022`), which only a remote that keeps the order makes right;
* `serve` tells that the rack was shut down also when `shutdown()` was refused as
  `busy` (`apps/cli/commands.ts:525`). `CliTidiesUp` has the warning that goes before.

## 5. Proofs

All theorems hold for every value of the constants, under each module's named
assumptions; seven theorems name a premise besides, five about the rack host and two
about leases.

**LeaseGateway** (`LeaseGatewayAssumption`: `MaxGen` is a natural number and the
two null values are neither plugins nor credentials). The inductive invariant
`IInv` has a part per component, each inductive relative to the ones before:

1. `TypeOK`;
2. `Lifecycle`: how a record's state, the operation in progress on it, its batch
   and its capability entry may stand to each other. It includes
   `OfferedIsActive`;
3. `Generations`: a record and a lease have one;
4. `CallTable`: what an activation has written down in the lease table, the
   instance record and the guard. The counters of the three files agree because
   each is 1 or 0, as the guard lets one activation in;
5. `UnloadStopsQuiet` and `StoppedOwnsNoLease`. These are not inductive without
   the rest: that nothing comes in between the proof of quiescence and `stop()`
   is `OfferedIsActive` with `Generations`, that a running call is seen by the
   host's counter is `CallTable`;
6. `Fresh`, without `Overlap`: at most one load has a number drawn, and it is the next
   one; no record's number is above the counter; a lease is on no generation above its
   plugin's, and on the present one only if that got past `initialized`; a call left in
   a dropped record is in no later one. This is what makes a credential stale for ever:
   a new record gets a number above all of them. With `Overlap` it is not so, and
   nothing that rests on it is claimed.

From it: `TypeCorrect`, `OfferedIsLive`, `UnloadIsQuiet`, `GuardExcludes`,
`StoppedConsumerOwnsNothing`, `CountersAgree`, and the action properties
`StaleForEver` (premise: `~Overlap`), `RevokingIsClosed`, `NobodyElseEndsALease`. `StepKinds` splits a
step into one of the host, of a lease, or of a call; most parts of the invariant
are disturbed by one kind only.

The refinement `LeaseGatewayIsRack` rests on `IInv` too, `Fresh` included, and so has the
same premise: `Rack` tells instances apart by their numbers. Only a plugin's present
record can stand anywhere but "new" (the generations above it) or "closed" (those
below; `PhaseIs`), so `Phase` is known from how each record stands (`Stands`), and a
step on one record changes `Phase` in one place (`PhaseChanges`). `Onward` lists the
five ways a record may go on; `LifeMaps` turns each into a step of `Rack` and
anything else into a stutter, and is used for the batch (`StartupMaps`) and the
unload (`UnloadMaps`), where the way into `stop()` is `UnloadStopsQuiet` after the
step. `createRecord()` takes its number from a counter all plugins share, so it
passes over generations that were never this plugin's: `Passes` (`RecordedMaps`).
`releaseAllFrom()` is `Leaves` (`LeavesMaps`); `acquire` and `release` are `Borrows`
and `GivesBack` (`LeaseMaps`), where "no call on it" is the lease's counter; an
activation that gets past the guard `Enters`, and `Ends` when `invoke()` returns
(`CallMaps`). The guard, the counters and the tables thus drop out of what a
consumer has to know.

**RackHost** (`RackHostAssumption`: the kinds of operations are the host's, the
bounds are natural numbers, the null values are neither plugins nor operations,
and there are finitely many plugins, operations and calls). `Frames`: an operation
that awaits a running callback is at one and does not have the loop. `Moves` says what
every step of an operation makes of it: it keeps or leaves the loop and the depth
stays, or it awaits a callback and the depth is one more. One lemma per group of
actions proves `Moves`, and `MovesKeeps` is about `Moves` alone. `DepthCounts`
follows: `callbackDepth` is the number of callbacks and calls on the stack.
`BatchesDoNotOverlap` needs `Alone` too: with `Gaps = FALSE` an operation in a
batch has the loop or is inside a callback, so the depth 0 that
`assertEntryOpen()` asks for means that there is no other batch. The test is
about a number and the promise is about batches; with gaps the two part
(section 4), and `Alone` is the premise that fails then. `TypesHold` is about the
types of every variable (`Typed`, with what each local variable of an operation
holds at each point: `Sorted`, `Placed`).

The second part of the module is about the records. Three of its theorems have the premise
`Sheltered`: operations come one at a time, or they overlap without `boot()`
while nobody uses the rack between a callback's return and its caller. It is about
the constants `Op`, `Gaps` and `Kind`, and both runs of `RackHost` meet it. It is
needed: with `Gaps = TRUE`, or with `boot()`, TLC finds two operations that destroy one
record (an unload of a record that a batch is discarding, or a batch that discards
one whose unload is under way).

* `LivesAreLegal` and `OnlyHeldIsOffered` follow from one inductive invariant,
  `LifeInv`, relative to `Typed`. For the two properties alone no step would be
  provable: a `destroy()` is legal only because of what the operation that calls it
  has done with the record before. So `LifeInv` says, of every operation at every
  point, how each record in its hands stands, by its state and the callbacks it has
  had (`PlanOK` for the members of a batch before and behind its position, `RecOK` for
  the record it takes down, `BinOK` for what a failed boot discards); that at most one
  operation is engaged with records at a time, and then has the loop or is inside a
  callback (`Lone`); and that a record in nobody's hands is fresh, Active, isolated or
  gone (`Known`). A step of the engaged operation changes one record, a step of another
  one none (`KeepStep`, `TouchStep`).
* `AcceptedUnloadsStay`: `QueueInv` adds, of every operation that executes an unload,
  what its status says of the record when it is through (`Executing`): only a `busy`
  leaves the instance as it was, and only `poll()` and `shutdown()`, which put the request
  back or drop the queue, can see one.
* `ShutdownTakesAll` has the premise `Serial` (one operation at a time), as an import that is
  in flight when `shutdown()` is called brings a record afterwards. `ShutInv`: once the
  rack is closing, every instance is isolated, or `shutdown()` has it before it or in
  hand.

**InitOrder** (`InitOrderAssumption`: plugIds are finitely many integers, and a
declaration has a set of names on either side and an integer priority). `IInv`
says that Kahn's counters count the predecessors that are not planned and that
`ready` is the set of nodes that have none (`Counted`), that the plan repeats
nothing and is closed under predecessors (`NoneTwice`, `InOrder`), that no part of
it is cyclic (`Acyclic`: its last member in the plan waits for none after it),
that whoever outranks a planned plugin had to wait when that one was chosen
(`Waited`), and what the ends of the loop and of the walk mean (`Halted`). Theorems:
`TypeCorrect`, `PlanSound`, `PriorityKept`, `CycleSound`. For the last, when the loop
halts early, every node left waits for another one left: the set of them is
the cycle. (What `extractCycle()` then reports of it is another matter; see
section 4.)

**EventBus** (`EventBusAssumption`: capacity and budget positive, the bounds
natural numbers). `IInv` says that numbers rise along the queue and are above all
that were taken (`Numbered`), that the draining flag keeps passes apart (`OnePass`),
that the event being delivered was taken and is due to all who still wait for it,
being later than all they have heard (`Current`), and that sinks have heard only
events that were taken (`Heard`). `DeliverStep` proves for one call of a sink what
`DequeueStep` and `SinkReturns` both need. Theorems: `TypeCorrect`,
`DeliveryInOrder`, `DeliveryMatches`, `NothingOnceGone`. Without `OnePass` two
flows could be in one event at a time and the order would not be inductive.
`NothingMissed` needs one more part, `Complete`: an event that was taken after a
subscription began is either given to it or still in the snapshot of the pass that
is inside a sink with it.

**CapWatch** (`CapWatchAssumption`: providers are finitely many integers, as their order
is that of plugIds, and the bounds are natural numbers). `WatchInv` says of every pass
under way what its watchers know. A pass of `watch()` (`Joining`) has all of the table
as its work, and its watcher knows what it was told of it so far; it is in no list and in
no other pass. A pass of `register()` or `withdraw()` (`Telling`) is the outermost one, and
whoever waits for its fact knows the table as it was before (`Former`, `Knows`). An
active watcher is of the list or joins in some pass (`Reached`), so that none is
forgotten when the passes are over. `RowsSort`: `currentEvents()` has every
provider once; it is by the number of providers below each, since the existence of a sorted
sequence would take an induction. Theorems: `WatchersKnowTheTable`,
`UnsubscribedHearNothing`.

**WebMounts** (`RouteTableAssumption`, `RestAssumption`: the bounds are natural numbers, a
resource has at least one route, and none is called as the route of std.rpc is). `MountsInv`
is inductive and has five parts:

1. `Typed`. It says nothing of leases and is inductive by itself.
2. `LeaseInv`: a consumer has one lease at most, the one it has cached; it has lost it only
   when the server's instance is on its way out, or it is itself.
3. `TellInv`: the consumers that live watch, once each, and only they are still to be told.
   Together with the second it is what makes `onRevoke()` and the sink see the generation
   they take for granted.
4. `RpcInv`: while the server is there, the route of std.rpc in the table is the one it
   takes for mounted, or the one of the mount under way (`RpcExact`); if its lease is not on
   this generation, there is none. Parts of it are that its two mounts (the sink's and the
   one `start()` schedules) are never both under way, and that none is while the sink is
   still to be told of the server.
5. `RestInv`: who answers for which id. `Exact`: the routes of resources are those that the
   records of this generation and the sequences under way have, each in its position
   (`RecordExact`, `AddExact`), or for an undoing at least of its resource (`UndoExact`).
   `Apart`: nobody has the id of std.rpc's route, also in `stop()`, which goes on after
   `Exact` is given up. `SinkGood`: what `remountAll()` still has before it are records of an
   older generation, and not the one a `resource.mount` is making (`Paired`).

`spoiled` (section 4) is why `Good` and `RpcGood` are premised: after a removal that was
refused or named an id of an older generation, or an instance that ended before its
routes were taken down, neither holds. A late answer does not set it. `RecordedRoutes`
says nothing either while a failed remount has left a record on an older generation. The properties need all five parts: a record is right
because the sequence that made it was, that one because the lease it began under is still
that of the table's generation, and that one because of who has been told. Two kinds of
lemmas carry the step: what `Exact`, `Apart` and `SinkGood` make of one change of the
table, the records or a job, and per action which of these it is. `KeptIs` says what
`Kept`, the filter of a sequence, leaves: `Induction`, over a set of natural numbers, is
proved from well-foundedness and used for it and for `FlattenIs`. Theorems: `MountsInvariant`,
`MountsTypes`, `RecordedRoutes`, `RpcStaysInStep`.

**WebRequests** (`OneShotAssumption`, `HttpAssumption`, `BridgeAssumption`,
`WebAssumption`: routes are of known methods and name their targets, a body is a
sequence of targets, requests are neither nobody nor std.rpc). `LeaseInv`: a lease is
of a provider that is there, in its present generation, and its borrower is at the
call it was taken for (`LeasePoints`); a provider executes only what somebody
who leases it waits for (`RunPoints`); the bridge works only inside an invocation of
std.rpc (`BridgePoints`). One lemma per group of actions: the rack's, the bridge's,
a forwarded request, the rest. From it `LeasesPaired`, `OneShotLeases` (`OneLease`:
what has at most one member has at most one by count), `StopLeavesNothing` with
`AnswerPoints` (one answer each, a target only where there is a task, and no open
connection once `close()` has called back), and `EarlierServes`. For the last, the lookup's choice is the least
index that matches (`FirstIsFirst`, by the well-foundedness of the naturals).

**StdDevices** (the assumptions of the devices: bounds are natural numbers, versions
are versions, lifetimes and the margin are natural numbers). Each part has its own
invariant; lemmas named `Others...` say that the other parts leave its state alone.

* `ClientFollows`: `RestInv` is `RestFollows` with the types it needs.
* `CrudGetsThere`: `AskInv` says that the client executes only what its parser let through;
  the rest is about the data (`CrudReaches`), for any set of ids (`IdAssumption`: the parser
  refuses an empty one). `TargetIs` is the path that is sent, `RoutesAre` the routes of a
  declaration, as a set (`Lists`), since the order and what is mounted beside them shall not
  matter, `MatchIs` which of them a path matches, `LookupIs` what is found. `Resolved` and
  `RoutesOf` are recursive functions over two or three segments and over the five
  conventions: the proofs give each function and show that it satisfies its equation and
  that no other one does.
* `CliIsTidy`: `CliPoints` says at each point of an invocation where the rack stands,
  whether a lease is out, how many shutdowns there were and which code is set.
* `LinesStay`: `LogInv` says line by line that the file counts up from 1 and that the
  chain goes on where the file ends, until an append fails or `stop()` closes the file.
* `AnswersStayTrue`: `HttpPoints` says between which points an attempt is left;
  `RpcPoints` that a result or a status that is told was sent. `UnwrapsWhatWasSent` is
  the lemma about `unwrapSingleResponse()`: what it makes of every answer.
* `TokensStayGood`: what an entry says of the server's clock holds up to the margin
  unless its reply was slow (`Truthful`), and a refresh token is in one entry, or with
  the one request that is made with it, and not burnt (`TokPoints`).
* The ring (`RingAssumption`: the capacity is positive and the empty slot holds no
  entry), at the end of the module. `RingInv`: the head is a slot, the count is within the capacity, and the
  slots from the head on, modulo the capacity, hold entries. `RingIsSound` proves it,
  `RingImplementsRecentLog` the refinement: under `recent <- Entries` a push is an
  append that drops the oldest of a full log (`PushAppends`, `PushReplaces`), a clear
  empties it. The arithmetic is in one lemma, `Wraps`: an index behind the head
  wraps at most once.

Only model-checked is every liveness property (`OpEnds`, `UnloadEnds`, `AllDequeued`,
`Terminates`, `StopReturns`, `CallsEnd`: fairness and ENABLED are out of the prover's reach).
All invariants and action properties of the passing runs are theorems; of the rack host's,
three are so under `Sheltered`, one under `Serial` and one for `Gaps = FALSE`, and of the leases'
two for `Overlap = FALSE`, all of which the runs that check them meet. The library's induction
theorems, which take an operator, can not be used; where an induction is needed it is over
a set of numbers (`Induction`), and a recursive function over a small domain is written
out.

## 6. What is not modelled, and why

* JSON checks, status names, type declarations, the SDK and the shape checks of
  arguments: no state, and unit tests of their own. An argument that is refused
  before anything changes is no action.
* Discovery of files, the loader's memo and module shapes: an import succeeds or
  fails.
* What a plugin does with its services after its `destroy()`: `services.ts`
  does not close all of them. It takes a composition of `RackHost` with
  `EventBus` and `CapWatch`.
* A watcher's sink that is called outside of callbacks and unloads through the
  rack itself (it must hold the embedder's object).
* The diagnostics ring and status snapshots: nothing reads them back.
* HTTP framing, headers, status texts and the formats of bodies: they are passed on
  or printed. `url.normalize`, the PKCE and authorize URL of std.oauth and the argument
  syntax and tables of rack-cli compute from their argument alone.
* Of `CrudReachesItsMethod`: more than one sibling. Beside the resource there is another
  one under the same prefix, `/api/items`. A resource mounted at the prefix itself, as
  `/api`, has a route `GET /api/:id` that matches `GET /api/users`, and takes it if it was
  mounted first.
* What std.rest-client does with a lease it kept over a rollback of std.http-server
  (`RestFollows` is about the flag `usable`, not about calls that are then refused
  as `stale`), and which of several errors rack-cli tells (`CliTidiesUp` has the exit code).
* The decoding of a batch by the client of std.rpc (section 4 says what of it
  matters), and the filters of the log's `query` and `stats`, which read only.
* The network itself: a reply comes, fails or does not come.
* The demos and example plugins: they use what is modelled and keep nothing.
* The C++ rack, its interfaces and its CLI host: a second implementation of the
  core's protocols. It would repeat `LeaseGateway`, `RackHost` and `EventBus`
  with status codes in place of exceptions and with a retry of revoking instances.

## 7. Plan

In the order of importance:

1. A composition of `RackHost` with the subscriptions and watchers of `EventBus`
   and `CapWatch`: what is left of a plugin that was destroyed or discarded.
2. `OneShot` and `RouteTable`, the two racks cut down to what the standard plugins
   see of them, related to `Rack` as `LeaseGateway` is. `OneShot` borrows and calls
   in one step, as the code does in one turn: two steps of `Rack`, so the mapping
   takes an auxiliary variable that counts them.
3. `CppHost` with the C++ lease table: retry of a `revoking` instance, the drain
   inside teardown, status codes in place of exceptions.
4. The client of std.rpc with batches, against a remote that answers out of order.

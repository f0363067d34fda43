# TLA+ models of the oracle-suite RPC splitter and its supporting code

This directory holds TLA+ specifications of the concurrent parts of the
repository, the TLC configurations that check them, and `PROJECT.json`. That
file lists every component, run, mutant, finding and hazard, and maps each
definition to the source lines it models.

## The system

The source tree under `src/` is a slice of oracle-suite:

| part | files | what it is |
|---|---|---|
| RPC splitter | `spec.md`; `src/pkg/rpcsplitter/mock_test.go` | A JSON-RPC server that fans each request out to N upstream *callers* under one deadline. A join barrier waits for all of them or the deadline, and a *resolver* turns the result set into one answer or a classified failure (spec 4-5). Only the test double of a caller is in the tree: `mockClient.CallContext`. |
| go-anymapper | `src/vendor/.../go-anymapper/mapper.go` | The reflection mapper. `Map` asks `mapperFor` for a `typeMapper` per (src, dst) type pair, caching it under `cacheMu`. |
| teleport publisher | `src/pkg/event/publisher/teleportevm/` | `Signer.Sign`, which signs an event's hash and stores the signature under the `ethereum` key. Also the tests of its log fetching. `signer.go` also holds, from line 76, tests of an `httpserver` package. |
| CLI, p2p setup | `src/unnamed/part_00[0-2]` | Fragments of the price sign/verify and run commands and of the p2p node setup. |
| go-eth | `src/vendor/.../go-eth/` | RPC transport constructor and revert decoding. |
| tests, CI | `exchange/`, `pkg/util/maputil/`, `.github/` | Table tests and the CI workflow. |

Only two parts interact: the splitter's dispatcher calls the callers
concurrently and collects their results at the join barrier.

## Modules

| module | models | source |
|---|---|---|
| `Resolver` | The three strategies and the method table, as pure operators. Each has a declarative reference definition (`ExactSpecOutcome`, `NumericSpecOutcome`, `FirstSpecOutcome`) written from the clauses of spec 4.3. | spec 4.3 (spec-modelled) |
| `SplitterAbstract` | What the splitter promises per request: callers deliver outcomes while the request is open, the request closes (pending callers count as cancelled), and it is answered once with an outcome the reference definitions allow. | spec 4.2, 4.3, 5 |
| `Splitter` | The per-request state machine (received, dispatching, resolving, responding) with one `CallContext` goroutine per caller. Each of those starts its own result goroutine. | spec 4.2, 4.5 (spec-modelled); `mock_test.go` 64-143 |
| `MCSplitter` | Model values, method table and symmetry sets for TLC. | |
| `ReflectTypes` | `isSimpleType`, with reflect types as records (kind, name, element and key types), and `DocSimple`, what its doc comment says. | `mapper.go` 441-486 |
| `TypeMapper` | Goroutines calling `Map` concurrently, `cacheMu`, the cache lookup and deferred store, and the selection order of `mapperFor`. It also covers the user changing `m.Mappers` and providers or the hook panicking. | `mapper.go` 15-26, 113-235, 262-344, 489-505, 526-534 |
| `MapperValues` | `srcValue`, `dstValue` and `initValue` as recursive operators over a chain of reflect values (pointer and interface layers, each nil or not, settable or not), with the value hooks. | `mapper.go` 346-422 |
| `MCMapperValues` | Every chain of up to four layers over int, string, map, slice, a `Big` struct and `any`, and independently every type of up to two levels of slice, array and map nesting (1,692 types); each input pair is an initial state. | |
| `TeleportSigner` | `Signer` and `NewSigner` as records of a key and its types. `Sign` is the whole of `Signer.Sign`, split into its three outcomes: rejected, key error, stored. An environment calls it on any event in any order. | `signer.go` 26-75 |
| `MCTeleportSigner` | Two keys with overlapping types, one of which may fail, and two events. | |
| `HTTPServerTest` | The two `httpserver` tests in `signer.go`: their handler, their two middlewares, and the `New`, `Use` and `ServeHTTP` calls, for any sequence of those middlewares. `Server` is not in the tree, so both orders in which it could compose middlewares are allowed. | `signer.go` 106-108, 111, 115-137; `Server` (not in the tree) |
| `MapperAbstract` | What `Map` promises with a fixed configuration: each call gets, in one atomic step, the MapFunc `mapperFor` selects for its pair (`Select`), may map once more into the type an interface holds (`Nest`), and returns (`Finish`). The cache and the lock are not in it. | the `mapperFor` and `Mappers` comments |
| `MCTypeMapper` | Six type pairs and two providers: one for a `Time` struct, one for `string`. A hook handles one pair. | |

### Splitter

`Splitter.tla` has the following state:
- `phase`, `ctxDone`, `results`, `order` and `response` per request;
- `caller`, `inner` (the result goroutine), `sent`, `callIdx` and `slot` per request and caller;
- `currCall` and `mocked` per mock client, shared by all requests.

The actions:
- **Server and dispatcher** (spec-modelled, since that code is not in the tree): `Reject`, `Dispatch`, `ContextDone` (timeout or client cancellation), `Join` and `Resolve`.
- **`CallContext`**: `CallUnexpected` (the `require.Fail` path, which ends the goroutine through `Goexit` before the deferred increment is registered), `CallChecked` (the script check at line 84 passed and the deferred increment is registered), `CallRead` (line 90 reads `c.calls[c.currCall]` again and starts the result goroutine; if another call returned in between, the index is out of range and the goroutine panics, which ends the process: `Crashed` disables `Next`), `InnerResult` (`call.result()` returns), and `SelectResult` / `SelectCancelled` (the two arms of the select). Both arms end in `Return`, which covers the deferred `currCall++`, the returned value and the arrival order.

`ImplementsAbstract` checks `Splitter` against `SplitterAbstract` through a refinement mapping:
- a request is open while it is received or dispatching;
- the delivered results are the callers' returns until the barrier and the barrier's snapshot after it.

The first-success strategy (spec 4.3.3) answers with the first value in arrival order, so two requests with equal result sets may get different answers; `FirstSpecOutcome` states that order dependence rather than the determinism of spec 5, which only the other two strategies have.

### TeleportSigner

The state is `event`, the `messages.Event` each event identity points to, and `ret`, what the last `Sign` call returned. An event is its type, its data (nil, without `hash`, or a hash), whether its signature map is nil, and the map. A signature is the key that made it and the hash it signs. `Sign(l, e)` is one disjunct per outcome:
- `SignRejected`: lines 53-62;
- `SignKeyError`: `SignMessage` fails, lines 63-66;
- `SignStored`: lines 63-74, with `Store` for the lazy allocation and the write under `SignatureKey`.

### TypeMapper

`ImplementsMapper` checks, under `FixedSpec`, that `TypeMapper` implements
`MapperAbstract` through `Abstract == INSTANCE MapperAbstract WITH state <-
AbstractState, apair <- pair, result <- tm`. A goroutine waiting for `cacheMu` or
in `compute` is busy; one in `map` is done. A cache hit and `Compute` are
both `Select`, so each cache hit must give exactly the fresh selection. A
`LockLookup` miss is a stutter step, `ApplyAny` is `Nest` and `Apply` is
`Finish`. The weak fairness of `Select` and `Finish` in the abstract
specification follows from the concrete fairness: strong for `LockLookup`,
weak for `Compute` and `Apply`. With `m.Mappers` changing the refinement
cannot hold, which is what `mapper_cache_coherent` shows.

`TypeMapper.tla` has the following state:
- `mappers` (`m.Mappers`), `cacheMap` and `lockHolder` (`cacheMu`);
- per goroutine: `pc`, `pair`, `tm`, `disable` (the `DisableCache` of the ctx `mapperFor` runs under) and `callDisable` (that of the ctx `Map` was called with).

The actions:
- `Call`: `MapReflContext` entering `mapperFor`;
- `LockLookup` (lines 263-268): a hit unlocks and returns the cached entry; a miss keeps the lock;
- `Compute`: the whole selection of lines 275-343, plus the deferred store and unlock;
- `ComputePanics`: a hook or provider panics, and the deferred function still runs;
- `Apply`: `typeMapper.mapRefl`;
- `ApplyAny`: `mapAny` with a non-nil interface dst, which maps into a new value of the held type through `m.MapRefl`: a nested `mapperFor` call under `m.Context`;
- `SetMapper`: the user writes `m.Mappers`.

`MapperFor` is the selection order translated line by line:
1. the hook;
2. `mapDirect` for equal simple types;
3. the src provider, then the dst provider, neither looked up for simple types;
4. `mapAny`;
5. the built-in mappers.

Three specifications differ only in what the environment may do:
- `FixedSpec`: providers are registered before use and never panic;
- `PanicSpec`: providers and the hook may panic;
- `Spec`: providers and the hook may panic, and `m.Mappers` may change.

### HTTPServerTest

A handler is the sequence of chunks it writes to the recorder. `BeforeMiddleware`
and `AfterMiddleware` are the two `MiddlewareFunc`s of the test: each maps the
chunks of the handler it wraps to the chunks it writes around them. `Chain`
wraps the handler, `ms[1]` outermost; `Served` applies `Chain` to the
middlewares in the order given or reversed, the variable `order` picking which.
`Use` appends one or more middlewares; `ServeHTTP` serves one request into the
fresh recorder. The run ends when the request has been served.

### MapperValues

A reflect value is a sequence of layers, outermost first; layer i+1 is what
`Elem()` gives for layer i. A layer records its type, whether it is nil and
whether it is settable (`CanSet`): the pointee of a pointer is, the content of
an interface is not. `SrcLoop` and `DstLoop` are the two `for` loops, each
arm of their CASE one `if` or early return of the loop body, and
`InitValue` is `initValue` including its comparison of `reflect.Kind` numbers.
`DstValue` keeps the hook and the fast path for a settable direct value
(lines 375-381) ahead of the loop.

## Runs

| run | checks | result |
|---|---|---|
| `splitter` | `ImplementsAbstract`, `CancellationReachesCallers`; 3 callers, MinResponses = MinAgreeing = 2, one request of each method | pass |
| `splitter_curr_call` | `ScriptedCallsServedOnce`; two requests of a batch share the mocks | violation |
| `splitter_script_overrun` | `ScriptIndexInBounds`; two requests of a batch share the mocks | violation |
| `splitter_leak` | `ResultGoroutinesExit`; result goroutines fairly scheduled | violation |
| `mapper` | `TypeOK`, `CacheWritesUnderLock`, `MappingCompletes`; reconfiguration and panics | pass |
| `mapper_fixed` | `NeverWaitsOnOwnLock`, `ImplementsMapper`; fixed configuration, `mapAny` included | pass |
| `mapper_cache_coherent` | `CacheCoherent` with reconfiguration and panics | violation |
| `signer` | `TypeOK`, `SignatureMatchesEvent`, `FailedSignLeavesEvent`, `OtherSignaturesKept`; 2 keys, 2 events | pass |
| `mapper_nested_ctx` | `DisabledCacheUntouched`; mapAny into a held `[]int` | violation |
| `mapper_values` | `Initialises` on 116 value chains | pass |
| `mapper_simple_doc` | `IsSimpleTypeAsDocumented` on 1,692 types | violation |
| `server_middlewares` | `TypeOK`; up to 4 middlewares, both composition orders | pass |

What the violations show (details in `PROJECT.json` "findings"):

- **`splitter_curr_call`.** `mockClient` is not safe for the concurrent use that spec 5 and 6 require of a caller. Two requests read the same `c.calls[c.currCall]`, and `currCall++` races. The tests send one request at a time, so they never see it.
- **`splitter_script_overrun`.** The script check (line 84) and the read `c.calls[c.currCall]` (line 90) are separate reads of `currCall`. In the trace, one request's caller passes the check, the other request's caller on the same mock reads, returns and runs its deferred `currCall++`, and the first caller's read at line 90 is then past the script: an index-out-of-range panic instead of the "unexpected call" failure.
- **`splitter_leak`.** When `ctx.Done` wins the select, the goroutine computing `call.result()` blocks forever on its unbuffered send. The trace ends with that goroutine in `sending` after its caller has returned "context cancelled".
- **`mapper_nested_ctx`.** `mapAny` (line 496) calls `m.MapRefl`, which uses `m.Context` instead of the ctx it was given. A call made with `DisableCache` still takes `cacheMu` and caches the nested pair; the trace is `Call` with the cache disabled, `Compute`, then `ApplyAny` reaching `lock`. `StrictTypes` and `Tag` are dropped the same way.
- **`mapper_cache_coherent`.** Nothing invalidates the `typeMapper` cache. This run shows two findings, and TLC reports the shorter trace, the second:
  - the cache is not refreshed when `m.Mappers` changes, although the `Default` comment invites modifying the mapper. The trace is `Call`, `LockLookup`, `Compute`, `SetMapper`.
  - when a provider or hook panics, the deferred store caches a `typeMapper` whose `MapFunc` is nil. Once the panic is recovered, that pair can never be mapped again.
- **`mapper_simple_doc`.** The `isSimpleType` doc comment calls a slice, array or map composed of built-in types simple. The code also requires its `String()` to start with `[` or `map[`, so a named `type X []int` is not simple. `DocSimple` states the comment; TLC's counterexample is a named slice of `int`.

Three comment divergences in go-anymapper are recorded here without a run of their own:
- the `srcValue` comment (346-347) says unpacking stops at a type with a custom mapper, but the loop never looks at `m.Mappers`. A provider for `*Big` sees `*Big` destinations but never `*Big` sources;
- a provider registered for a simple type (`string`, `int`, `[]byte`) is never consulted, contrary to the `Mappers` comment (113-120);
- the `dstValue` comment (366-370) says unpacking stops at a map, slice or array. The loop (383-406) stops only at a non-nil map, so a non-settable slice held in an interface is passed over, and the last settable layer is returned instead.

The first two are visible to a unit test that registers such a provider.

Every property of a passing run has a mutant in `PROJECT.json`: a plausible bug in the definition it is about, which TLC must catch. The mutants are:
- the join counting late answers;
- a select that waits for the result before checking `ctx`;
- a cache lookup that ignores `ok`;
- a store without the lock;
- a hit that keeps the lock;
- `initValue`'s kind range starting after `Map`;
- `Sign` storing the signature before checking `SignMessage`'s error (this breaks both `TypeOK` and `FailedSignLeavesEvent`);
- `Sign` replacing the signature map instead of adding to it;
- `mapperFor` keeping `cacheMu` until the MapFunc has run, which makes `mapAny`'s nested mapping wait on its own lock;
- the after-middleware writing its name instead of `-after`;
- `Sign` without the loop over `l.types`, signing events of any type;
- for `ImplementsMapper`, the cache lookup that ignores `ok`.

## Bounds

- **Splitter.** Values {1, 2}, 3 callers, and one request (two for the batch runs). Each mock scripts 0..|Requests| calls, so scripts run out, hit exactly, and have calls to spare. Three callers with quorum 2 give too few responses, no quorum and a unique winner. With one request no two calls share a mock, so the script races need the two-request runs; there one mock scripting one call is the smallest case of the overrun.
- **TeleportSigner.** Two keys are the least that show one signer overwriting another's `ethereum` signature, and one of them has a fallible key. Two events cover every initial state:
  - data that is nil, has no hash, or has one;
  - a signature map that is nil, empty, or holds another signer's signature.

  That gives 324 initial states and 2,580 reachable states.
- **TypeMapper.** Two goroutines are the least that can race on the lock or the cache. The pairs cover every arm of `mapperFor`: hook, direct, src provider, dst provider, a provider returning nil, `mapAny` and built-in. The full-environment run uses the three pairs that involve a hook or a provider, to keep liveness checking under a minute.

- **HTTPServerTest.** The two middlewares of the test, up to four of them in one or several `Use` calls, and both composition orders: 124 states. Four middlewares give every interleaving of befores and afters up to two of each.

## Fairness

- **Splitter.** The timer always fires (`ContextDone`), the server's goroutines run (`Reject`, `Dispatch`, `Join`, `Resolve`), and a caller blocked in the select takes `ctx.Done` once it is ready (`SelectCancelled`). `call.result()` gets no fairness, because an upstream may hang forever (spec 8, Isolation). `MockSpec` adds it for the mock, whose `call.result()` always returns after its delay.
- **TypeMapper.** `sync.Mutex` switches to starvation mode and hands the lock to a waiter that has waited more than 1 ms, so `LockLookup` is strongly fair. The steps inside the locked region are weakly fair. Nobody is obliged to call `Map`.

## Not modelled

- **go-eth transport and revert decoding, exchange and maputil tests, CI.** These have no concurrent or stateful behaviour.
- **JSON encoding and HTTP** in the splitter. Values are abstracted to small integers, since the JSON round trip in `CallContext` preserves them.
- **The value conversions** of the MapFuncs, `Copy`, the `Context` helpers and `parseTag`.
- **`httpserver.Server`** itself is not in the tree. `HTTPServerTest` models the tests, leaving the composition order open. The tests' assertions follow from the model's definitions for every order, so its run checks only the type of the recorded body.
- **A provider or hook calling back into its Mapper.** This would deadlock on `cacheMu`, which is not reentrant. Providers are user code, so the model has none that calls back; `NeverWaitsOnOwnLock` covers the nested call the package makes itself, in `mapAny`.
- **The publisher that calls `Sign`** is not in the tree. The model lets an environment call any signer on any event.
- **The teleport log-fetch tests** (`teleport_test.go`). They script a mock client for `EventProvider`, whose fetch and prefetch routines are not in the tree; the spec puts the event listener out of scope. A model of the block ranges could only be read back from the asserted numbers, so it would check a guess rather than the code.
- **The CLI commands and p2p node setup** (`src/unnamed`). These wire cobra commands to config loading and service start-up, and dial a fixed peer list once. The code is sequential glue with nothing for a model checker to explore, and the spec puts it out of scope.

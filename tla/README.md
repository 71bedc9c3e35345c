# TLA+ models of the query engine's operators, vector cache and service

This directory holds TLA+ models of parts of the repository, and the TLC
configurations that check them. `PROJECT.json` lists the components, the
runs, the mutants, the map from definitions to source lines, the findings
and the hazards.

## The system

The sources under `src/` are pieces of a columnar query engine:

| Part | Source | What it does |
|---|---|---|
| `aggregate.Aggregator` | `src/unnamed/part_000` | Group-by hash table. It holds key bytes plus a type-vector id, spills sorted runs when the table holds `limit` rows, and merges the runs. On sorted input it emits completed groups early. |
| `aggregate.Op` | `src/unnamed/part_000` | The operator driver. A `run` goroutine pulls upstream and feeds the Aggregator. The downstream's `Pull(done)` meets it on the unbuffered `resultCh` / `doneCh` and on `rctx.Done()`. |
| `meta.Lister` | `src/unnamed/part_001` (first file) | Lists the data objects of a snapshot, stably sorted by pool key, with pruning. |
| `meta.Slicer` | `src/runtime/sam/op/meta/slicer.go` | Pulls objects from the Lister and groups overlapping ones into non-overlapping partitions. It does this under a mutex, for several trunks. |
| vector `conditional` / `BoolMask` | `src/unnamed/part_001` (second file) | Vectorised `?:`. |
| vam `Over` / `Scope` / `ScopeExit` | `src/unnamed/part_002` | Unnests values. A scope's stream is delimited by EOS. |
| vcache `union` / `array` / `float` / `Object` | `src/unnamed/part_003`, `src/runtime/vcache/*.go` | Lazy, mutex-guarded loading of CSUP vectors. |
| `join.Op` | `src/runtime/sam/op/join/join.go` | Merge join of two sorted inputs. |
| `service.Core` | `src/service/core.go` | HTTP service: `NewCore`'s checks and routers, `ServeHTTP`'s dispatch, event publishing and the query-status registry. |

The parts interact as follows:
- **Upstream to Aggregator to downstream.** `Op.run` is the only goroutine that touches the Aggregator. The downstream goroutine only calls `Op.Pull`.
- **Lister to Slicer to trunks.** Only the Slicer calls the Lister, and it does so under `s.mu`.
- **`service.Core`'s front and handlers.** `ServeHTTP` hands a request to `routerAux` or, failing a match there, to `routerAPI`, whose routes `authhandle` put behind the authenticator. `handleEvents` subscribes and `handleQuery` registers a status. Handlers publish events and register query statuses concurrently. The two pieces of state share no lock, so `ServiceCore` interleaves them.
- **Join: puller, Peeker and splicer.** Pull reads the left input through a puller and the right input through a Peeker, and builds output records with the `RecordSplicer`.
- **vcache: `Object` and shadows.** `Fetch` builds a shadow tree and has its nodes load themselves.

## Modules

### `Aggregator.tla`: the Aggregator as pure operators

The Aggregator's state is one record `[keyTypes, table, maxTableKey, maxSpillKey, spiller]`. Each method is an operator that returns the new record and its result.

**Data abstraction.**
- A grouping key is `<<primary, secondary>>`.
- The primary is an integer. It is the first key, the one a sorted input is ordered by.
- The secondary is a typed value `[t, b]`. The MC model has two secondaries with the same bytes `"1"` and different types (int and string). This is exactly the case the type-id suffix of the table key exists for.
- The aggregate is `count()`.
- A spilled run is a set of `[key, cnt]` records. The merge reads the smallest key across the runs and sums its partials.

**Operators and the code they model.**
- `Consume` follows the code's order:
  1. The primary raises `maxTableKey` first.
  2. A quiet secondary returns.
  3. The type vector is interned.
  4. A full table is spilled before a new row is inserted.
- `SpillTable` drains the table. A failing `Spill` drains the table too, then returns the error.
- `SpillTable` raises `maxSpillKey` from `keyExprs[0]` of the largest spilled record.
- `ReadTable` returns rows below `maxTableKey`, or every row on flush.
- `ReadSpills` stops at `BatchLen` records. Before EOF on sorted input, it also stops at a key `>= maxSpillKey`.
- `NextResult` chooses among the table, the spills, and spill-then-merge.
- Go map iteration order is unspecified. `NextResult` therefore returns the set of possible orders.

`KeyRenamed` models a key expression that is not the bare output field (`by k:=x`). For such a key, `keyExprs[0]` evaluated on an output record is an error.

### `AggregateOp.tla`: the operator driver

`pc` is the position of the run goroutine. `dpc` is the downstream. The actions are the steps between two meeting points:

| Action | Code |
|---|---|
| `ParentError`, `ParentEOS`, `ParentBatch` | The three outcomes of `o.parent.Pull(false)`. The first batch of a substream is `Ref`'d and becomes `o.batch`. |
| `ConsumeValue` | One `o.agg.Consume`. It may fail when a spill fails. |
| `EarlyEmit` | The sorted-input loop `nextResult(false)`, then `SortStableFunc`, then `sendResult`. |
| `Drain` | `sendResults`: `nextResult(true)` until nil. |
| `Deliver`, `DoneRecv`, `CtxRecv` | The three cases of `sendResult`'s select. `DoneRecv` includes `o.reset()` and `parent.Pull(true)`. |
| `DoneErrSend` | The inner select that hands an error to the next Pull. |
| `Exit`, `Cleanup` | The two deferred functions of `run`, in the order Go runs them. |
| `PullResult`, `PullClosed`, `PullDone`, `PullDoneCtx` | `Op.Pull`. |
| `StopPulling`, `Cancel`, `Terminated` | The environment. `Terminated` is the final stutter. |

`Resume` is what each call site of `sendResult` does with `(done, ok)`.

The upstream is the environment:
- It sends up to `MaxStreams` EOS-delimited substreams.
- Each substream has up to `MaxValues` values, in batches of up to `MaxBatchSize`.
- On sorted input (`InputDir = 1`) the primaries are non-decreasing within a substream.

The reference count of every upstream batch is a variable, `refs`.

### `ObjectScan.tla`: Lister and Slicer

A Slicer.Pull holds `s.mu` for its whole loop, so one Pull's steps never interleave with another's. `spc` is the step of the one running Pull:
- `SlicerPull` takes the lock.
- `ListerPull` returns the sticky error, or builds the sorted list lazily.
- `ListerNext` is one turn of the Lister's loop:
  - A `Marshal` error is stored.
  - A pruned object is skipped.
  - Otherwise the Slicer unmarshals the object (which may fail) and `stash`es it.
- `ListerEnd` handles the Lister's nil: it returns `nextPartition()`.

`nextPartition`'s `Marshal` may fail (`pfails`, at most `MaxPartitionFailures`). The code empties `s.objects` before it looks at the error (slicer.go:100). So in `ListerEnd` the stash is lost and the error returned. In `Stash`'s split the error returns at slicer.go:117: `o` is not appended and `s.min`/`s.max` keep the lost stash's span.

`Init` chooses the pool's order from `Dirs`, the snapshot's spans and the pruned set. `SortObjects` is `sort.SliceStable` with `lessFunc`. It is stated as its contract: the permutation that is sorted by `lessFunc` and keeps the snapshot order among objects neither is less than. `SlicerReceive` is the Slicer's side of one object: the unmarshal, which may fail, and `stash`.

### `MergeJoin.tla` and `JoinSpec.tla`: the merge join

`MergeJoin` is one `Pull` of `join.Op`. An input is a sequence of keys: an integer, `NULL` or `MISSING`. `Init` chooses the direction `o` and whether keys may be null from the constant `Orders`. It ranges over every input that `New`'s added sort could produce (direction `o`, nulls last), and over the inner, left and anti joins. `Compare` is `o.compare`, built with `o.NullsMax(true)`. `pc` is where Pull is:

| Action | Code |
|---|---|
| `ReadLeft` | `o.left.Read()` in Pull's loop. A missing key is dropped, a cached key (`Cached`) reuses `o.joinSet`, any other key calls `getJoinSet`. |
| `PeekRight` | One turn of `getJoinSet`'s loop: the end of input, a missing key, an equal, a smaller or a greater right key. |
| `ReadJoinSet` | One turn of `readJoinSet`'s loop. `SetEnds` is its two ways of returning `recs`. |
| `LeftEOS` | Pull returns at the end of the left input. |

`Emit` is the tail of a loop turn: the unmatched left row for an outer join, nothing for an anti join, one spliced row per match otherwise. A row is the pair of a left and a right record index.

`JoinSpec` is the reference join: for each left record in order, the rows of a nested loop over the whole right input. `MergeJoin` instantiates it with `done <- li - 1`, the left records Pull has finished, and checks `JoinRefinement == Abstract!Spec`. So after every step `out` must equal the reference rows of the finished left records, and every step must be a stutter or one `JoinNext` of the reference.

### `JoinSplice.tla`: the record splicer

`RecordSplicer` builds a joined record's type: the left fields, then the right fields, with a right name the left record has renamed `name_2`, `name_3`, and so on. A field name is a sequence, so `a_2` is `<<"a", 2>>`. `FreshName` is `buildType`'s inner loop, written as a recursive operator. `LookupTypeRecord` (of `super.Context`, not in this source) refuses a repeated name. `Splice` is one call: `combinedType`'s cache hit, or `buildType` and `enterType`.

### `ServiceEvents.tla`: event publishing

`publishEvent` starts one goroutine per event. The goroutine holds `subscriptionsMu.RLock` while it sends on every subscriber's unbuffered channel (`Publish`, `PubRLock`, `PubSend`, `PubUnlock`). A subscriber is an `/events` request (`handleEvents`, not in this source). It takes the `Lock` to join or to leave (`SubJoin` or `SubLeave`, then `SubUpdate`), and it does not receive while it waits. `RLock` blocks while a writer waits, as `sync.RWMutex` does. `LeaveMidSend` says whether a request may end while an event is being sent to it.

### `CoreFront.tla`: NewCore, the routers and ServeHTTP

| Definition | Code |
|---|---|
| `NewCoreError` | `NewCore`'s early returns in code order: format (after the `""` default), `NewAuthenticator` when `Auth.Enabled`, nil root, scheme other than file or s3, `lake.CreateOrOpen`. The two calls' results are nondeterministic. |
| `NewCore` | The whole of `NewCore`: the checks, then `routerAPI` built by `addAPIServerRoutes` with `c.auth # nil`. |
| `RouterAux`, `AuxMatch` | `routerAux`: `/`, the pprof routes and the `/debug/pprof/` prefix, `/metrics`, `/status`, `/version`. |
| `AddAPIServerRoutes`, `Authhandle`, `Handle` | The API routes in registration order. `/auth/method` alone is registered without `authhandle`. |
| `Handler` | `c.handler(f)`: `newRequest`'s result, then the `Middleware` that `authhandle` wrapped around `f`. |
| `ServeHTTP` | `routerAux.Match` first, then `routerAPI`. |

A path is a sequence of segments, and `"{}"` is a mux variable such as `{pool}`. Matching follows gorilla/mux, which is not in this repository: the first route whose path and method match serves; a path matched only with other methods is 405; no match is 404. Logging, metrics, the index page and the version string are left out.

### `ServiceCore.tla`: the composition

`ServiceCore` instances `CoreFront`, `ServiceEvents` and `QueryRegistry`. Nothing but `NewCore` steps before `NewCore` returns a Core; a failed `NewCore` ends in `Exited`. `EventsRequest` is a request that `ServeHTTP` dispatches to `handleEvents`, together with the subscriber's `SubJoin`. `QueryRequest` is a request dispatched to `handleQuery`, together with `NewQueryStatus`. `reqCred` records whether the request served in a step had a valid token. Every other step is a step of one piece that leaves the other's variables unchanged, because each handler runs on its own goroutine. Its fairness is that of `ServiceEvents`.

### `QueryRegistry.tla`: the query-status registry

`NewQueryStatus` registers a query's status under its request id. `Done` marks the query done and starts `remove`. `Remove` is `remove` after its ten-second sleep: it deletes the map entry for the id, whatever query that entry now holds. `UniqueIds` says whether request ids can repeat; `requestIDMiddleware` is not in this source.

### `VCache.tla`: concurrent Fetch on one Object

`Fetch` makes a new shadow tree (`FetchStart`), stores it in `o.root` without a lock, then reads `o.root` again to unmarshal (`Unmarshal`) and again to load (`Load`). A shadow is the number of the `newShadow` call that made it. The root is an array of floats or a float, chosen in `Init`:
- `FloatProject` and `FloatLoad` are `float.project` and `float.load`.
- `ArrayProject` is `array.project`. It reads `a.values` without the lock and panics on a shadow nobody unmarshaled.
- `LoadOffsets` is `array.load`.

`FetchUnorderedStart` is `FetchUnordered`: on a root that is not dynamic it takes the same steps on `o.root`.

Each lazy load, done under the node's mutex, is one step. `Concurrent` says whether Fetch calls may overlap.

### `ScopeOver.tla`: Over, Scope and ScopeExit

An `over` in the vector runtime is a pipeline of three operators around the operators of its scope: `Over` pulls batches from its parent and returns, one per row, the flattened values of its expressions; `Scope` hands each of those to the scope's operators as a one-vector stream (the vector, then EOS); `ScopeExit` pulls the scope's operators and turns their per-row EOS back into the outer stream, returning EOS at the second EOS in a row. All of it runs as nested `Pull` calls on the consumer's goroutine, so the model has one `pc` naming the frame that runs next and `ret` carrying a return value one frame up.

| Action | Code |
|---|---|
| `PullExit`, `PullExitDone` | `ScopeExit.Pull(false)` entering its loop; `ScopeExit.Pull(true)`, which reaches `Scope.Pull(true)` (clearing `sendEOS`, returning nil) and returns that nil |
| `ScopePull`, `ScopeRet` | `Scope.Pull(false)`: nil after a vector, else `over.Pull(false)` and `sendEOS = vec != nil` |
| `OverRefill` | `Over.Pull`'s loop head when `o.vecs` is used up (`Exhausted`): pull the parent, nil ends the call, a batch restarts `o.idx` at 0 |
| `OverEmit` | the rest of the loop body: `Flatten` the slot, `o.idx++`, return unless nil; with several expressions a nil slot panics (`Panics`) |
| `InnerRet` | the scope's operators (not in this source): a pass-through, or a filter that may drop a vector and pull again |
| `ExitRet` | `ScopeExit`'s loop after the inner pull: return a vector, return nil on `firstEOS`, else set `firstEOS` |

A parent item is EOS or a batch; a batch is a sequence of rows; a row gives each expression the number of values its slot flattens to, 0 standing for an empty array or set, a null, or a record with no fields. A vector is named by the item and slot it came from, and `received` is what the consumer got, with the stream ends. The input and the inner pipeline are chosen in `Init`.

## Runs

`PROJECT.json` lists twelve runs: seven that must pass and five that must find a violation.

### Passing runs

| Run | Properties | What it shows |
|---|---|---|
| `agg_unsorted` | `TypeOK`, `ExactlyOnceGroups`, `EOSComplete`, `RefsBalanced` | Two substreams, spilling at every row, an upstream error, `Pull(true)` and cancellation. Groups are never split or merged across table and spills. EOS comes after all groups. References balance at the top of the loop. |
| `agg_sorted` | `ExactlyOnceGroups`, `EOSComplete`, `RefsBalanced`, `OutputSorted` | Sorted input with three primaries and `Limit = 3`, so both early emission from the table and from spills happen. The output is in primary order across batches. (`SpillKeySet` is checked under `AggregateOp_spill_key.cfg`: with one substream and no failing spill it could not fail here.) |
| `agg_live` | `EOSComplete`, `RefsBalanced`, `PullAnswered` | One substream, with an upstream error and a failing `Spill` (in `Consume` or at EOS). The invariants hold. Under fairness of `run` (`FairSpec`), every `Pull(false)` is answered: by a result, the upstream's end, an error or a cancellation. |
| `scan` | `TypeOK`, `PartitionsOrdered`, `ObjectsOnce`, `AllObjectsListed` | Both pool orders, every snapshot of 4 objects over keys 1..3, every pruned subset, one Marshal and one Unmarshal error of the Slicer's loop, and one Marshal error of `nextPartition`. Partitions stay ordered and objects unique also when a trunk pulls again after an error, with the stash lost and `stash` having kept a stale `s.min`/`s.max` (slicer.go:117). `AllObjectsListed` is claimed only when no error was returned: an Unmarshal error loses its object, and a `nextPartition` error loses the whole stash. |
| `join` | `TypeOK`, `JoinRefinement`, `Terminates` | Ascending joins with null keys and descending joins without them refine the reference join. This holds for every sorted input of up to 3 records over keys 1 and 2 (plus missing), and for every join kind. Pull always returns. |
| `scope` | `TypeOK`, `RowsInOrder`, `AllRowsDelivered`, `PullReturns` | `ScopeOver` with one expression, every parent of up to 3 items (EOS or batches of 1 or 2 rows, empty or not), a pass-through or filtering scope and one `Pull(true)`. The consumer gets slots with values, in the parent's order, none twice; with a pass-through and no `Pull(true)` it gets all of them; every `ScopeExit.Pull` returns. |
| `service` | `AuthenticatedAccess` | `ServiceCore`: 2 subscribers that may leave while an event is being sent to them, 3 events, and 2 queries that may share a request id. The Core starts with an authenticator, or one of `NewCore`'s errors occurs. There are 12 requests: to `/events` and `/query` with and without a token and with wrong methods, and to other API, aux and unknown paths. Deadlock is not checked: a subscriber leaving mid-send really blocks the publisher (see `ServiceEvents_leave.cfg`). Only a request with a valid token subscribes or registers a query. |

### Violation runs: the findings

| Run | Property | What TLC shows |
|---|---|---|
| `agg_stale_max` | `ExactlyOnceGroups` | `maxSpillKey` from substream 1 lets substream 2 emit a group before its last value. |
| `agg_done_blocks` | `PullDoneAnswered` | `Pull(true)` as the first call blocks for ever. So does `Pull(true)` while `run` waits to hand over an error (`doneErr`). |
| `splice_rename` | `SpliceNeverFails` | Left `{a}` and right `{a, a_2}` give the fields `a, a_2, a_2`, and Splice fails. |
| `vcache_race` | `FetchNeverPanics` | f1 creates and unmarshals shadow 1, then f2 replaces `o.root` with shadow 2. f1 loads shadow 2, whose `a.values` is nil. |
| `scope_done` | `StreamsAligned` | The consumer calls `ScopeExit.Pull(true)` on parent `<<batch, EOS>>`, abandoning stream 0, and its next `Pull(false)` returns stream 0's row: `ScopeExit` calls `over.Pull(true)` only when the scope's operators return a vector on done, which they never do, so Over's parent is never told. |

### Further configurations

These configurations are kept for reproduction (`tlc -config X.cfg MC_M`). They are not among the runs `PROJECT.json` lists.

| Configuration | Property | Result |
|---|---|---|
| `AggregateOp_renamed_key.cfg` | `ExactlyOnceGroups` | Violated. `keyExprs[0]` on spilled records is an error, so spilled partial groups are emitted early. |
| `AggregateOp_spill_failure.cfg` | `ExactlyOnceGroups` | Violated. After a spill error at EOS, the old spiller leaks groups into the next substream. |
| `AggregateOp_released.cfg` | `ReleasedOnExit` | Violated. `run` returns on cancellation or a `Consume` error without unreferencing `o.batch`. |
| `AggregateOp_cleanup_order.cfg` | `CleanedUpBeforeClose` | Violated. `close(resultCh)` runs before `spiller.Cleanup`. |
| `QueryRegistry_reused.cfg` | `StatusAvailable` | Violated. Two queries share one id, and the first query's `remove` deletes the second's running status. |
| `VCache_concurrent.cfg` | `LoadedOncePerShadow` | Holds. With three concurrent Fetch calls, no shadow reads its values or offsets from storage twice. |
| `MergeJoin_desc_nulls.cfg` | `JoinRefinement` | Violated. Descending, with nulls: left `<<null>>`, right `<<1, null>>`, left join. `o.compare` puts the null first and the sort put it last, so the null left key meets 1, compares less, and is emitted unmatched. This rests on the order package's `NullsMax`/`NullsLast`, which is not in this source. |
| `ServiceEvents_leave.cfg` (`MC_ServiceEvents`) | `PublishCompletes` | Violated. A subscriber asks for the Lock to leave while an event is being sent to it. The publisher holds the RLock and waits for a receive that never comes: `publishEvent` sends under `subscriptionsMu.RLock` (core.go:235). |
| `AggregateOp_spill_key.cfg` | `SpillKeySet` | Holds. Sorted input over two substreams with one failing `Spill` (977k states). |
| `ScopeOver_filter.cfg` | `StreamsAligned` | Violated. A filter in the scope drops the vectors of two rows in a row; its two EOS reach `ScopeExit` back to back and it ends the outer stream before the stream's remaining rows. |
| `ScopeOver_empty_first.cfg` | `StreamsAligned` | Violated. Parent `<<EOS, batch>>`: `firstEOS` starts false, so the empty first stream's EOS is taken for a row's EOS and its stream merges with the next. |
| `ScopeOver_panic.cfg` | `NeverPanics` | Violated. With two expressions, a row whose first expression is an empty array: `flatten` returns nil and `vec.Len()` on it panics (part_002:54). |
| `VCache_refetch.cfg` | `CachedAcrossFetches` | Violated. Two Fetch calls, one after the other, read the values from storage twice, against the caching promise in `Fetch`'s comment. |

Every property of a passing run has a mutant in `PROJECT.json`: a plausible bug in a mapped definition that TLC must catch.

- A type id missing from the key.
- No final spill before the merge.
- A missing `Ref`.
- A missing stable sort.
- An inclusive overlap test.
- A stash that is not emptied.
- An object dropped on a split.
- A span accumulated from zero.
- A join set reused without comparing keys.
- A record index taken after the Peeker moved on.
- A Pull that only returns with rows.
- A `run` that exits without closing `resultCh`.
- A batch read from the slot where the last one ended.
- `o.idx` advanced only past a nil slot.
- A first nil that `ScopeExit` does not remember.
- A CORS preflight (`OPTIONS`) that passes the authentication `Middleware` without a token.

## Bounds and why they are enough

- **`Limit = 1` (unsorted).** Every new key spills. So runs, merges across runs, and a non-empty table at EOS all occur with three values.
- **`Limit = 3` with 3 primaries (sorted).** A batch of three values leaves two completed groups in the table, so the early batch's sort matters. A fourth value makes the table spill, so `maxSpillKey` and `readSpills`' early stop are reached.
- **Two substreams.** The second substream is what exposes state kept from the first.
- **`MaxBatches = 3`, `BatchLen = 2`.** These are enough for a substream to span batches and for a merge to need two `readSpills` calls.
- **Four objects over three keys, every span.** This covers touching, nested, disjoint and equal spans, and stable-sort ties.
- **Merge join: up to 3 records per input, keys 1 and 2, null and missing.** Three right records allow a run of equal keys followed by a larger key, and a discarded smaller key in front. Three left records allow two equal left keys, which use the cached join set, followed by a different key. Every sorted input and every join kind is an initial state.
- **Splice: names `a` and `b` plus `a_2` and `b_2`, records of up to 2 fields.** This is the smallest alphabet in which a renamed field can clash.
- **Service: 2 subscribers and 3 events.** Two events can hold the RLock at once while a subscriber waits for the Lock.
- **Service front: one Config that starts a Core, three that `NewCore` rejects, 12 requests.** Every early return of `NewCore` is reached. The requests reach every outcome of `ServeHTTP`: an aux handler, 404, 405, 400, 401 and an API handler. A Core without an authenticator behaves like one where every request has a token, so it is left out; it would double the states.
- **Registry: 2 queries over 2 ids.** With unique ids, this gives every interleaving of one query's `remove` with the other's registration and `Done`. The reused-id configuration needs 2 queries and 1 id.
- **VCache: 2 Fetch calls.** Two calls are enough for one call to load the shadow the other made. `VCache_concurrent.cfg` uses three calls.
- **Scope: up to 3 parent items, batches of 1 or 2 rows, 0 or 1 values per slot, one `Pull(true)`.** Two rows in a batch are needed for `o.idx` to matter and for a filter to drop two rows in a row; three items give a batch after an EOS, a second batch in one stream, and an empty stream.
- **Liveness of `Pull`: 2 values per substream, batches of 1.** This is still enough for spills, errors and `Pull(true)`, and it keeps the fair run under two minutes.

## Fairness

Each checked liveness property rests on fairness that the code's scheduling gives. Nothing obliges the environment to act.

- **`AggregateOp` (`FairSpec`).** There is weak fairness of the `run` goroutine's steps, taken as one process. There is also weak fairness of a blocked `Pull` returning on a closed `resultCh` or a cancelled context. The Go scheduler runs a runnable goroutine. The upstream's answers are part of `run`'s steps. The downstream's calls and `Cancel` are not fair: nobody has to call `Pull` or cancel.
- **`MergeJoin`.** There is weak fairness of `Next`. Pull is one goroutine, and its inputs are all available.
- **`ScopeOver`.** There is weak fairness of the steps of a `Pull` already called: they run on the consumer's goroutine, one after another. The consumer's calls are not fair.
- **`ServiceEvents`.** There is weak fairness of each publisher step and of a subscriber taking the Lock it asked for. A client's request to join or leave is not fair.

## Not modelled, and why

- **Aggregator details.**
  - Partials mode (`partialsIn`, `partialsOut`) is not modelled.
  - The `Resetter` is not modelled.
  - Output record building and `lookupRecordType` are not modelled. Their types are formatting of the result.
- **Object scan.**
  - `done` in the Lister and Slicer is not modelled. The Lister ignores it.
  - The multi-valued-batch error is not modelled. It is unreachable, because the Lister sends one value per batch.
  - The `Partition` formatting functions are not modelled.
- **Merge join.** Errors from the inputs are not modelled. They end Pull without changing the Op. The two pullers only forward their upstream, so they are folded into the inputs. The `done` argument is ignored by the code (issue #3437).
- **Service.** The handlers (`handleEvents`, `handleQuery` and the rest), `newRequest`, the middlewares and the authenticator are not in this source. Only their effect on the two maps is modelled: subscribing and registering. `queryStatus.setError` is not an action, because its reader `handleQueryStatus` is not in this source. Event payloads and marshaling errors are left out. The aux routes (`/metrics`, `/debug/pprof/...`) serve without authentication even when an authenticator is configured. This is by construction of `ServeHTTP` and a unit test shows it, so no run is spent on it.
- **VCache.** `FetchUnordered` on a root that is not dynamic is `FetchUnorderedStart`, which takes the same `o.root` steps as `Fetch`. `union`, the dynamic shadow with `projectUnordered`, and the nulls loader are not modelled. `Object.Close` is not modelled: its callers are not in this source.
- **Scope.** Errors from the parent or the scope's operators are not modelled; each is returned at once. `Over.Pull(true)` is not an action, because `ScopeExit`, its only caller, never reaches it (the finding of `scope_done`). `flatten`'s cases per vector type are abstracted to whether a slot has values; a `vector.Map` panics as unimplemented and is left out.
- **Vector `conditional` / `BoolMask`.** They are stateless evaluation: index sets and a `Dynamic` computed from a predicate vector. What they compute is defined by the `vector`, `bitvec` and `roaring` packages (tag maps, `Pick`, `Flip`), which are not in this repository, and they change no state that could interleave.

## Plan

Order of importance:

1. **Scope.** Errors from the parent; several expressions over inputs without empty slots, with `Dynamic` tags.
2. **VCache.** `union` and the dynamic shadow's `projectUnordered`.
3. **Aggregate.** An abstract group-by that `AggregateOp` refines, under the bounds where the findings do not bite.
4. **ObjectScan.** `done` handling, and stale `s.min` / `s.max` across streams.
5. **Service.** `queryStatus.setError` and its reader, once `handleQueryStatus` is in the source.

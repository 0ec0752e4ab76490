# TLA+ models of the Eth1 API client and the block processor

This directory holds TLA+ models of two crates of this repository. Each model has
TLC configurations that check it on small instances, and TLAPS proofs that hold
for every value of the constants.

- `src/eth1_api/src/eth1_api.rs`: `Eth1Api`, the execution-layer JSON-RPC client.
  - An ordered list of endpoint URLs shares one cursor between all callers
    (`Mutex<IntoIter<Url>>`).
  - Every call goes through `request_with_fallback`, which walks down the list
    on failure and resets the cursor once it runs out.
  - Above it sit the Engine API methods (`forkchoice_updated`, `get_payload`,
    `new_payload`) and the chain queries (head number, blocks, deposit logs).
- `src/fork_choice_control/src/block_processor.rs`: `BlockProcessor`.
  - Six operations wrap the state transition: four "with report" variants,
    `perform_state_transition` and `validate_block`. Each goes through the
    state cache's `get_or_insert_with`, keyed by `(root, slot, full_transition)`.
  - `validate_block_for_gossip` does not use the cache.
  - `validate_block` checks merge-transition blocks before the transition.
  - Every operation records its duration in a per-method `TimingMetrics`.

## How the parts interact

Tasks of the beacon node call `Eth1Api` concurrently: the proposer's Engine API
calls, deposit and block polling, and head queries. Their only shared mutable
state is the endpoint cursor. Each of its four operations (`current_endpoint`,
`peek_next_endpoint`, `next_endpoint`, `reset_endpoints`) takes the async lock
once and releases it before the HTTP call. The tasks' steps therefore interleave
between cursor operations.

Worker threads of fork choice call `BlockProcessor` concurrently. They share the
state cache, which is an external facade not under `src/`, and the metrics map
behind a `std::sync::Mutex`.

## Modules

| Module | Models | State and actions |
|---|---|---|
| `Eth1Fallback` | `Eth1Api::new`, `request_with_fallback`, the four cursor operations | See below. |
| `EngineApi` | `forkchoice_updated`, `get_payload`, `new_payload`, `execute`, composed with `Eth1Fallback` by `INSTANCE` | See below. |
| `TimingMetrics` | `TimingMetrics::new`, `update`, `min`/`max`/`average`/`median`/`count`/`last` | See below. |
| `TimingWindow` | the abstract contract of `TimingMetrics` (spec section 3) | `window`; `Record(d)` keeps the last `MaxSize` durations. |
| `BlockProcessor` | the seven operations, `update_metrics`, and the facade's `get_or_insert_with` | See below. |
| `ChainQueries` | `get_blocks`, `get_deposit_events`, `get_block_by_number`, composed with `Eth1Fallback` by `INSTANCE` | See below. |

**Eth1Fallback**
- State:
  - `cursor` is the number of URLs the `IntoIter` has yielded.
  - Per task: `pc`, the `url` position read, and the `result` of its last call.
  - `conn` is the last `Eth1ConnectionData` sent.
  - Ghosts: `tried` and `resetSince`.
- One action per lock acquisition and per outcome of the HTTP call:
  `Start`, `CurrentEndpoint`, `AuthFails`, `CallSucceeds`, `CallFails`,
  `PeekNextEndpoint`, `NextEndpoint`, `ResetEndpoints`.

**EngineApi**
- State:
  - `stage`: which call the proposer makes next.
  - `phase`: the phase of the payload attributes.
  - `payloadId`: the tag, and the endpoint of the node that issued the id.
  - Ghost `versions`: the method versions used in this slot.
- The dispatch `match`es are the operators `ForkchoiceUpdatedVersion`,
  `PayloadIdTag`, `GetPayloadVersion` and `NewPayloadVersion`.
- An execution node answers `get_payload` only for an id it issued.
- Tasks other than `Proposer` stand for the chain queries that share the cursor.

**ChainQueries**
- State:
  - `qpc`: where the reader's `get_blocks` is (idle, logs, blocks, done).
  - `next`: the `block_number` of the `for` loop.
  - `depositData`: the `BTreeMap` built from the logs (height → events).
  - `blocks`: the `Vec<Eth1Block>` built so far; `qresult`: how it ended.
  - Ghost `answered`: the endpoints that answered this `get_blocks`.
- The endpoints need not see one chain: the constant `View[p][n]` is the
  block (its fork) that the node at position `p` has at height `n`, or none.
  A block's deposit events are counted by `DepositCount`.
- Actions: `GetBlocks` (first call, the logs), `GetBlockByNumber` (one call per
  height), `ReaderSucceeds` (build the map; `None => continue`; too many
  events fails the whole call; else push the block and remove its entry),
  `ReaderGivesUp` (`?` on an exhausted or auth-failed call),
  `GetBlocksReturns`, `ReaderLoop`, and `OtherCaller` for every other task.

**TimingMetrics**
- State: `times` (the `VecDeque`) and `total`.
- `update(d)` is the one action: pop the front when `len >= max_size`, then
  push `d`.
- `TotalIsSum` compares `total` with `SeqSum(times)`. That is the number of
  pairs `<<i, k>>` with `k` in `1..times[i]`, which is the sum of the
  durations. A count of a finite set, unlike a fold, can be reasoned about by
  the provers without induction over the sequence.

**BlockProcessor**
- State:
  - `cache`: key → entry of kind block/full and verification level.
  - Per worker: `pc`, `op`, `blk`, the level it asked for (`want`), the state
    returned (`out`) and `result`.
  - Ghost `accepted`: `validate_merge_block` answered Accept in this call.
- Actions: `Call`, `Lookup` (cache hit or miss), `Compute` (the closure:
  error, or hand the state to the facade's insertion `Inserted`), `Gossip`, `MergeGate`,
  `RecordInner` and `Record` (each `update_metrics`).

### What the model abstracts

- A URL, a block or a payload is a model value. A state is abstracted to what
  produced it and how far it was verified.
- Every HTTP call, transition function and Store callback is abstracted to the
  outcomes the code distinguishes. For an HTTP call these are success, failure
  and auth error.
- Logging, Prometheus counters, JSON encoding and formatting are left out.
- The facade `StateCacheProcessor::get_or_insert_with` is modelled from spec
  sections 4.7 and 5 (marked `spec_modelled` in `PROJECT.json`), because its
  code is not under `src/`. A hit returns the entry, an error inserts nothing,
  and the first of two concurrent insertions wins (`Lookup` and `Inserted`).
  No property of the project is about this rule alone: what the facade does
  with a key is its own contract, and a property that only restates it would
  say nothing of the code under `src/`.

## Runs

| Run | Config | Expect | What it shows |
|---|---|---|---|
| `fallback_concurrent` | `MCEth1Fallback.cfg` | pass | `TypeOK`, `NoRetryWithinEpoch` and `ReturnsOrReset` hold. |
| `exhausted_not_per_call` | `MCEth1FallbackExhausted.cfg` | violation | `EndpointsExhausted` is returned after trying only part of the list. |
| `fallback_starvation` | `MCEth1FallbackStarve.cfg` | violation | One call can loop forever while another task resets the cursor under it. |
| `timing_window` | `MCTimingMetrics.cfg` | pass | `total` is always the sum of `times` (so `self.total -= old` never underflows), and `update` refines `TimingWindow`. |
| `timing_window_zero` | `MCTimingMetricsZero.cfg` | violation | `TimingMetrics::new(0)` holds one duration, more than its capacity. |
| `blockproc_concurrent` | `MCBlockProcessor.cfg` | pass | `ResultKind` and `MergeGateHolds` hold. |
| `blockproc_trust` | `MCBlockProcessorTrust.cfg` | violation | A state computed with `skip_randao_verification` is served from the cache to a caller that asked for full verification. |
| `engine_versions` | `MCEngineApi.cfg` | pass | get_payload and new_payload use the version of the forkchoice_updated that opened the slot. |
| `engine_payload_affinity` | `MCEngineApiBuilder.cfg` | violation | After a failure, get_payload is sent to a node that never issued the payload id. |
| `chain_agreement` | `MCChainQueries.cfg` | pass | When every call of a `get_blocks` was answered by nodes on one chain, its `Ok` holds exactly that chain's blocks with their own deposits. |
| `chain_mixed_views` | `MCChainQueriesMix.cfg` | violation | A failover between the logs call and a block call gives a block another fork's deposit events. |

Details of the passing runs:
- `fallback_concurrent`: two tasks and three endpoints that may all fail (`Up = {}`).
  - `NoRetryWithinEpoch`: between resets, no task calls an endpoint twice in one call.
  - `ReturnsOrReset`: every call returns, or the cursor is reset under it.
- `blockproc_concurrent`: two workers, a pre-Capella merge block and an ordinary
  block, five of the seven operations.
  - `ResultKind`: a cached state never crosses between the block-processing and
    full-transition contracts.
  - `MergeGateHolds`: no post-state of a merge block is returned unless it was
    accepted in that call.
- `engine_versions`: every phase, two failing endpoints and one other caller.
- `chain_agreement`: heights 1..2, two endpoints on two forks, one other
  caller, deposit counts 0, 1 and 2 with `MaxDepositEvents = 1`, so that the
  empty, the one-event and the overflowing block all occur.

Each violation run is a finding, listed in `PROJECT.json` with the source line
and what the spec says.

**Bounds.**
- Failover: two tasks and three endpoints. This is the smallest instance in
  which one task's stale advance can skip a live endpoint and a reset can
  interleave with another task's walk.
- Engine API: two endpoints, because the id affinity needs only a primary and
  one fallback.
- Block processor: two workers, two blocks, and one block that is both
  pre-Capella and a merge block.
  - The two operations left out of its run, `trusted` and `untrusted_blinded`,
    share the keys and code paths of the ones included.
  - All seven operations keep the state space at millions of states.
- Chain queries: two endpoints on different forks are the least that makes
  failover change the answer; two heights let the logs and the block of one
  height come from different nodes, and leave a second height after the
  switch. `Up = {}` lets every call fail.
- Timing window: capacity 4 and durations {1,2,3}. This covers the full, the
  not-full and the popping cases.

**Fairness.** `Eth1Fallback`'s `Spec` has weak fairness on each task's steps
while it is inside `request_with_fallback`. The tokio runtime polls every
runnable task, and no step waits on anything but the lock, which each holder
releases at once. Nothing else assumes fairness: callers need not call, and
block-processor workers may stop.

**Mutants.** Each property of a passing run is broken by a plausible bug in the
definition it is about. For example:
- `NextEndpoint` not moving the iterator;
- `update` using `>` for `>=`;
- `perform_state_transition` passing `full_transition = false`;
- the merge gate dropped;
- a Deneb payload id tagged Capella;
- the `get_blocks` loop over `Lo..Hi` taken as half-open.

The full list is in `PROJECT.json`.

## What is proved (TLAPS)

### `Eth1FallbackProofs`

The constants are assumed to satisfy `Original \in Seq(Urls)` and
`Up \subseteq 1..Len(Original)`. From these, for any number of tasks and any
endpoint list:
- `TypeCorrect`: `Spec => []TypeOK`.
- `NoRetry`: `Spec => []NoRetryWithinEpoch`.

Both follow from the inductive invariant `IInv`. `TypeOK` alone is not
inductive, for two reasons:
- a task that calls, peeks or advances must hold a real position (`UrlRead`);
- the no-retry property needs the ordering fact `EpochOrder`.

`EpochOrder` says that, until the cursor is reset, every position a task has
tried lies at or behind the shared cursor, or strictly before the position it
is about to call. This holds because the cursor only grows between resets, and
a reset marks every task. TLC checked `IInv` as an invariant before it was
proved. The proof has one step per action, then `PTL`.

### `BlockProcessorProofs`

The constants are assumed to satisfy `Blocks # {}`, `PreCapella` and
`MergeBlocks` being subsets of `Blocks`, and `Ops \subseteq AllOps`. For any
workers and blocks:
- `TypeCorrect`: the cache stays a function from `(block, full_transition)`
  keys to entries.
- `MergeGateSafe`: `Spec => []MergeGateHolds`.

`MergeGateHolds` becomes inductive once it is strengthened by `GateInv`. A
`validate_block` call on a pre-Capella merge block that is looking up or
computing already carries the acceptance. This holds because `Call` sends
every validate call to the gate first, and only the accepting branch of
`MergeGate` leads to the lookup. A cache hit therefore cannot bypass the gate,
whatever other workers inserted.

`ResultKindSafe`: `Spec => []ResultKind`. It rests on two more conjuncts of
the inductive invariant. `CacheKinds`: every cache entry has the kind its
key's `full_transition` flag names, since each closure computes what its
flag says. `OutKinds`: a worker past the cache holds a state of the kind its
operation produces, whether it computed it or read the entry under its own
key. So a hit on another worker's insertion cannot cross contracts.

### `EngineApiProofs`

The assumptions are `Proposer \in Requests` and `EndpointsAssumption`
(`Original \in Seq(Urls)`, `Up` a set of positions). The second is the
assumption of `Eth1Fallback`, stated for the constants of the composition.
For any endpoint list and any other callers:
- `VersionsAgreeSafe`: `Spec => []VersionsAgree`.
- `FailoverRefinement`: `Spec => F!Init /\ [][F!Next]_(F!vars)`. `EngineApi`
  implements the safety specification of `Eth1Fallback` under the identity
  mapping.

Two lemmas state that the dispatch tables agree: for every post-Bellatrix
phase, `GetPayloadVersion(PayloadIdTag(p))` is the forkchoice_updated
version, and `NewPayloadVersion` is that version or 0 (bail).
`VersionsAgree` speaks only of a slot past forkchoice_updated, so the
inductive invariant `VInv` adds what holds while that call is in flight (its
version is fixed by the phase) and that a new slot starts with no
get_payload or new_payload version. A step of another caller's failover
leaves the proposer's `pc` alone (`OtherKeepsProposer`), so failover under
contention cannot disturb it.

The refinement is proved action by action (`OwnFailoverStep`). Each proposer
action is either an `F!Step(Proposer)` conjoined with changes to the Engine
API state, or it leaves the failover variables unchanged (the
`PhasePreBellatrix` and `InvalidParameters` arms). `OtherCaller` is an
`F!Step` of another task. `SameStep` identifies the steps of this module's
instance `F` with those of the instance `FP` of `Eth1FallbackProofs`.
With the refinement, every invariant proved in `Eth1FallbackProofs` (`NoRetry`
among them) holds of the failover that the proposer and the other callers
drive together, so it is not restated here.

### `TimingMetricsProofs`

The only assumptions are `MaxSize \in Nat` and `Durations \subseteq Nat`.
- `TypeCorrect`: `Spec => []TypeOK`. The deque holds durations and `total`
  is a natural number, so `self.total -= old` (block_processor.rs:64)
  never underflows and panics. This holds for every capacity, 0 included.
- `TotalSafe`: `Spec => []TotalIsSum`.
- `WindowRefinement`: for `MaxSize > 0`, `Spec => WindowSpec`. The only
  caller, `update_metrics`, passes 100; capacity 0 is the finding of run
  `timing_window_zero`.

The first two share the inductive invariant `SumInv == TypeOK /\ TotalIsSum`.
Neither conjunct is inductive alone:
- `total \in Nat` after a subtraction needs `total` to be the sum;
- the sum equation after an eviction needs `total - Head(times)` to be a
  natural.

Four lemmas about `SeqSum` carry the step:
- `SumEmpty`: the empty sequence sums to 0;
- `SumAppend`: `Append` adds its element;
- `SumTail`: a non-empty sequence is `Head` plus the sum of its `Tail`;
- `UnitsFinite`: the sum is a natural.

They are proved from `FiniteSetTheorems` (`FS_Union`, `FS_Product`,
`FS_Bijection`). `SumTail` needs a bijection that shifts the units of `Tail(s)`
one index up. The refinement uses the mapping `window <- times`, with
`LenInv` (the deque holds at most `MaxSize` durations). At capacity,
`Append(Tail(times), d)` is the last `MaxSize` elements of
`Append(times, d)`; below capacity the appended sequence is already short
enough.

### `ChainQueriesProofs`

The assumptions are those of `ChainQueries` and `EndpointsAssumption`
(`Original \in Seq(Urls)`, `Up` a set of positions), so that the failover
proofs apply to the `INSTANCE` of `Eth1Fallback`.
- `CompleteSafe`: `Spec => []CompleteUnderAgreement`, for every height range,
  endpoint list and set of other callers.

The inductive invariant is `FP!IInv /\ ChainInv`:
- `FP!IInv` is the failover invariant of `Eth1FallbackProofs`. Every step of
  `ChainQueries` is a step of `Eth1Fallback` (`FailoverStep`), so it is reused
  as proved.
- `ChainInv` ties the loop to the answers. While `get_blocks` walks the heights
  and every answering node shares one view:
  - the deposit map still holds that view's events for every height not yet
    reached;
  - `blocks` is exactly that view's blocks below `next`.

  When the call returns `Ok`, `blocks` is the whole chain of the view. The
  lemmas `ChainBelowSkip` and `ChainBelowPush` show that the `None => continue`
  branch and the push branch both extend the prefix by one height.
- `FailoverRefinement` is stated and proved as in `EngineApiProofs`. `GetBlocksReturns` is the one action that leaves the
  failover variables alone; the reader's other actions are
  `F!Step(Reader)`.

### Checked by TLC only

- Liveness (`ReturnsOrReset`): TLAPS does not handle fairness and `ENABLED`
  here.
- The violation runs. They are findings: the property is false for the code.

## Not modelled

- The single-call chain queries (`current_head_number`, `get_first_deposit_contract_block_number`, ...):
  each is one failover call, a generic caller in `Eth1Fallback`.
- The ABI decoding of deposit logs: `ChainQueries` takes a block's events as
  a count.
- HTTP transport, auth header creation and the serde schemas (pure I/O and
  encoding).
- `TimingMetrics`' `Display`, and `calculate_block_rewards` (pure formatting
  and sums).

## Plan

1. Done: `Eth1Fallback`, `TimingMetrics` with its `TimingWindow` refinement,
   `BlockProcessor`, `EngineApi`, `ChainQueries`.
2. Done: proofs of every safety invariant of every passing run
   (`TypeOK`, `NoRetryWithinEpoch`, `MergeGateHolds`, `ResultKind`,
   `VersionsAgree`, `TotalIsSum`, `CompleteUnderAgreement`), of the
   `TimingWindow` refinement, and of the refinement of `Eth1Fallback`'s safety
   specification by both compositions.
3. Next: a model of the cache facade's trust level if its code is brought
   under `src/`.

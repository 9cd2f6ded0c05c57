# TLA+ models of the loongcollector core

This directory holds TLA+ models of the collection-pipeline runtime and its helper
components: what the code under `src/` does, and what the spec (`spec.md`) promises.
TLC checks every model. `PROJECT.json` lists the components, the runs and their
properties. It also gives the mutants that show each property can fail, the map from
every definition to the source lines it models, the findings, and the hazards.

## 1. The system and what this repository contains of it

The agent ingests events through Input plugins and transforms them through Processor
plugins. It then hands them through bounded, priority-aware queues to Flushers. The
parts the source and the spec name are listed below.

| Part | Code under `src/` | State | Operations | Interacts with |
|---|---|---|---|---|
| ExactlyOnceQueueManager (spec 4.3) | header only: `collection_pipeline/queue/ExactlyOnceQueueManager.h` | process queues per QueueKey in priority tiers, sender queues, range checkpoints (Unsent/Sending/Acked), GC deletion-time map | CreateOrUpdateQueue, DeleteQueue, Push/Pop process queue, Disable/EnablePop, PushSenderQueue, GetAvailableSenderQueueItems, RemoveSenderQueueItem, ClearTimeoutQueues | Input (pushes), processor workers (pop, forward), sender loop, flusher callbacks, pipeline manager (reload), GC thread |
| TimeoutFlushManager (C8) | unit test `unittest/batch/TimeoutFlushManagerUnittest.cpp` | timeout records per (config, flusher index, key), deferred-deletion flusher list | UpdateRecord, FlushTimeoutBatch, UnregisterFlushers | batchers (refresh), flush thread, pipeline stop/reload |
| ContainerDiscoveryOptions | `container_manager/ContainerDiscoveryOptions.{h,cpp}` (full code) | ContainerFilterConfig, ContainerFilters (K8s regexes, six include/exclude field filters), external tag maps | ContainerFilterConfig::Init, SplitRegexFromMap, ContainerFilters::Init, ContainerDiscoveryOptions::Init, GetCustomExternalTags | input plugins that discover containers |
| MetricManager (observability surface) | unit test `unittest/monitor/MetricManagerUnittest.cpp` | WriteMetrics record list, counters, ReadMetrics snapshot | CreateMetricsRecordRef, CommitMetricsRecordRef, ADD_COUNTER, ~MetricsRecordRef, UpdateMetrics | every plugin instance (owns a ref), the metrics export thread |
| ProcessorParseRegexNative + ProcessorInstance | unit test `unittest/processor/ProcessorParseRegexNativeUnittest.cpp` | event group, processor and instance counters | Init, Process / ProcessEvent | the pipeline's processor chain |
| PluginRegistry (C2) | header only: `plugin/PluginRegistry.h` | catalog (category, name) -> creator + singleton flag | Register*, Create*, IsValid*, IsGlobalSingleton | pipeline builder |
| ProcessEntityCollector | header only (`EnumProcessStat`, declarations) | previous per-pid stats | ParseProcessStat, GetSortedProcess | host-monitor input |
| Other processors (SplitMultiline, Tag, PromRelabel) | declarations only | - | - | processor chain |

The hard behaviours are these:
- Several threads act on the same queues: the Input, a processor worker pool, the sender loop, flusher callbacks, the reload thread and the GC.
- A check made at one step is used later, such as the hash-key check at push time.
- Sends can be retried or fail permanently.
- A queue is deleted and re-created inside a grace window.
- Flushers are called with the manager's mutex released while a reload drops them.
- Metric records are linked concurrently and collected while snapshots run.
- Unordered-map iteration order is unspecified in the container-filter code.

## 2. Modules

Each model is a module `X.tla`. An `MCX.tla` module gives its constants small values
for TLC, and `MCX*.cfg` files hold the run configurations.

### ExactlyOnceQueueManager.tla
This module models one exactly-once pipeline's queue pair, with these variables:
- `queues`, `priority`, `popEnabled` and `processQueue`: `mProcessQueues` and `mProcessPriorityQueue`.
- `senderQueue` and `sending`: the ExactlyOnceSenderQueue and the items the flusher holds.
- `checkpoint`: the persistent RangeCheckpoints, which survive queue deletion.
- `deletion`: `mQueueDeletionTimeMap`.

Each manager method is an action, and so are a worker's pop, the sender loop's pick and
the flusher callback (`OnSendDone`: ok, retry or permanent fail). `GraceWindowElapses`
is the passage of time the GC measures. The `.cpp` is not in the repository, so the
actions follow the header's declarations, their comments ("0 success, 1 full, 2 not
found") and spec 4.3. The map marks them spec-modelled.

`PushSenderQueue` makes the range's checkpoint `Sending` with no check of its hash key.
Its declaration has only the statuses 0, 1 and 2, and spec 4.6 turns `Unsent` into
`Sending` on every push. Spec 4.6 places its one refusal of a hash key with a `Sending`
checkpoint at the Input ("the Input must wait"). The model therefore has that check,
`HashSending`, only in `PushProcessQueue`. The sender loop's re-send of a retried item
also makes the checkpoint `Sending` again without a check.

The Input's `PushProcessQueue` is guarded by `IsValidToPushProcessQueue` (the queue
exists and is not full). The Input asks before it reads a range. Between the question
and the push, only pops (which keep the answer true) or the reaping of a deleted queue
(after which the push returns 2 and nothing is read) can intervene. So the model takes
the question and the push as one step.

`Crash` is a process restart, bounded by `MaxCrashes`:
- The checkpoints (`checkpoint`) and the Input's read position (`nextSeq`) are persisted. Everything else is volatile: queues, priority tiers, workers' items, the sender queue, the in-flight sends and the deletion map.
- A send in flight may already have reached the backend with an ok that the callback never reports. `\E okDone \in SUBSET sending` chooses those sends.
- After the restart, `CreateOrUpdateQueue` for a new queue rebuilds one sender item for each checkpoint left `Sending` (`RebuiltItems`, spec S4).
- `okCount` is a history variable: how many sends of each range the backend answered ok.

`RangeDeliveryRefined` checks that the module implements `RangeDelivery`.
`RangeState(r)` maps each range to its abstract state:
- unread: beyond the Input's read position.
- read: its checkpoint is Unsent.
- inflight: its checkpoint is Sending and its item is in the sender queue.
- parked: its checkpoint is Sending and its item is gone, after a permanent fail.
- acked: its checkpoint is Acked, or the checkpoint has been reused for a later range.

A send that completed before a crash is acked in the abstraction (`delivered`), even
though its checkpoint is still Sending.

### RangeDelivery.tla
This is the abstract specification of spec 4.6, one range at a time. A range goes
from unread to read to inflight. From inflight it is acked, retried back to read, or
parked. A range is read only while no other range of its hash key is inflight or
parked. A read range is sent with no further check. Acked is final, which is the spec's "no ack regression".

`Crash` parks every inflight range, and some of them may already be delivered.
`Resend(k)` makes every parked range of key k inflight again, as the rebuild after a
restart does.

### PluginRegistry.tla
The header declares the registry without bodies, so the module follows its declarations and spec 4.1. `dict` is `mPluginDict`, from a
PluginKey (category, name) to the creator and its singleton flag.
- `RegisterCreator` inserts a key only when it is absent (spec 4.1: a duplicate registration fails; the call returns void, so silently). The header has no body, so no property is stated about which registration wins.
- `LoadPlugins` folds `RegisterCreator` over the static registrations, then over the processors of the auxiliary module. Any of those may fail to load (`LoadProcessorPlugin` returns nullptr) and is then skipped.
- `UnloadPlugins` empties the catalog.
- `Create` returns an instance, or `Null` for an unknown key. `IsGlobalSingleton` and `IsGlobalSingletonInputPlugin` are the header's two queries. `IsValidNativePlugin` stands for `IsValidNative{Input,Processor,Flusher}Plugin`: the catalog holds the key.

The pipeline builder is not in the repository. `ApplyConfig` and `RemoveConfig` model it
from spec 4.1. A config is refused when a plugin is unknown, or when a singleton Input
appears twice or is used by another applied config. On a refusal the config keeps its
previous pipeline. Every plugin name is checked with `IsValidNativePlugin` before any instance is created.

### TimeoutFlushManager.tla
- Records are `(config, key) -> {age, timeout, flusher}`. Time is relative: `age` is `now - updateTime`, in seconds.
- A flusher is `<<config, generation>>`, because every re-apply builds a new flusher object.
- `lifetime` tracks a flusher object: owned by its pipeline, then deferred in `mDeletedFlushers`, then destroyed.
- `FlushTimeoutBatch` is split where the code releases its mutex:
  - `FlushTimeoutBatchScan` takes the due records under the lock.
  - `CallFlusher` flushes each one with the lock released.
  - `ClearDeletedFlushers` ends the call.
- `mMutex` is held only within one step of the model: an `UpdateRecord`, the scan, an `UnregisterFlushers` or the final clear.
- `stopping` is the set of configs whose reload thread has begun stopping the pipeline. It holds the lock that each flusher's `FlushBatch` takes (spec 5). `StopPipeline` takes that lock. `UnregisterFlushers` then needs `mMutex`, and releases the lock. `CallFlusher` cannot run for a stopping config's flusher.
- `Tick` is the flush thread's one-second sleep, and every record ages by one second. Ages stop at one second past the latest a batch may wait. The state space is therefore finite without a clock bound, which lets liveness be checked, and a late flush stays visible.

### ContainerDiscoveryOptions.tla
This module translates the full `.cpp`:
- A config string is a tuple of characters, so the `^`/`$`/non-empty test is modelled by what it does.
- `boost::regex` construction becomes `Compiles`: an unbalanced `(` throws.
- `SplitLoop` is the loop of `SplitRegexFromMap`. It walks a map's keys in any order, because `unordered_map` order is unspecified.
- `InitSteps` is the list of nine statements of `ContainerFilters::Init` in code order. `RunInitSteps` runs it with the code's early returns.
- `ContainerDiscoveryOptionsInit` wraps it with the not-an-object warning path. `GetCustomExternalTags` appends env tags, then label tags.
- The state machine has two steps: the plugin's `Init`, then tagging one discovered container.

### MetricManager.tla
- `ref[r]` follows a MetricsRecordRef through none, created, committing, live, dropped and freed.
- `writeList` is the WriteMetrics linked list, head first.
- Commit is split into reading and writing the list head. The WriteMetrics mutex makes the two atomic, and the split lets the model check that it does.
- `UpdateMetrics` does the following in one step:
  - copies live records into the new read list;
  - resets their counters;
  - unlinks and frees deleted records.

  The unit test shows each of these effects.
- `added` and `exported` are history variables.

### ProcessorParseRegexNative.tla
ProcessorInstance counts the events in (`ProcessorInstanceBegin`). The processor handles
each event: `SkipEventWithoutSourceKey`, `ParseEvent` or `HandleParseFailure`. The
instance then counts the events left (`ProcessorInstanceEnd`). The regex is abstracted
to the groups it captures. The precedence of parsed keys over the kept source copy
(`ParsedContents`) comes from the test's expected JSON (cases Raw and Content).

### ProcessEntityCollector.tla
`ParseProcessStat`'s body is not under `src/`. The module translates what the header
fixes and spec 6 states:
- `EnumProcessStat` gives the field positions, and `EnumMinus` is the header's `operator-`.
- The name is the text between the first `(` and the last `)`.
- The rest of the line, after `) `, is split at spaces (`SplitWords`, RECURSIVE).
- Words are indexed by field minus the offset of `state`.
- The line is refused when it has fewer than `processor - state + 1` words.

A character is a one-character string. A field's value is one token, the decimal
string of its field number. `StatLine` is the reference: the line the kernel writes.
One step, `ReadNewProcessStat`, reads and parses it.

## 3. Runs

| Run | Config | Expect | What it checks |
|---|---|---|---|
| eoqm_safety | `MCExactlyOnceQueueManager.cfg` | pass | The refinement `RangeDeliveryRefined`, plus four invariants: type and capacity (`TypeOK`); every in-flight item's range persisted as Sending (`DurableBeforeSend`); an applied pipeline's queue never reaped, even after delete and re-apply in the grace window (`AppliedQueueNotReaped`); an item in a send always has its queue (`InFlightItemHasQueue`). |
| eoqm_crash | `MCExactlyOnceQueueManager_crash.cfg` | pass | Up to two restarts, at any point, with sends in flight that may or may not have completed. `RangeDeliveryRefined` still holds: the rebuild after a restart resends only ranges whose checkpoint is Sending, and never regresses an acked one. `DurableBeforeSend` holds across restarts. |
| eoqm_sending | `MCExactlyOnceQueueManager_sending.cfg` | violation | `AtMostOneSendingPerHash`: spec 4.6's "at-most-one in-flight per hashKey". The Input reads two ranges of one hash key while neither is Sending. Two workers' `PushSenderQueue` calls then make both Sending (finding 4). |
| eoqm_dup | `MCExactlyOnceQueueManager_dup.cfg` | violation | `AtMostOneOkSendPerRange`: spec invariant 6, that the backend accepts each range at most once. A send completes at the backend, the process restarts before the callback, and the rebuilt item is sent and accepted again (finding 3). |
| pr_catalog | `MCPluginRegistry.cfg` | pass | `TypeOK`, which includes that no applied pipeline holds a nullptr plugin. It holds across loads in which any optional processor fails, unloads, and three configs applied, reloaded and removed in any order. |
| eoqm_order | `MCExactlyOnceQueueManager_order.cfg` | violation | `DeliveredInOrderPerHash`: the spec's "strict FIFO per destination". Two workers forwarding two ranges of one hash key break it (finding 1). |
| tfm_safety | `MCTimeoutFlushManager.cfg` | pass | `NoFlushOfDestroyedFlusher`: unregistering during a scan's flusher calls never frees a flusher still to be called. `BatchFlushedInTime`: a batch waits at most `timeoutSecs`, and a 0 timeout waits until the next scan. `DeferredFlusherDestroyed` (liveness): every unregistered flusher is eventually destroyed. This includes flushers whose pipeline a reload thread is stopping. A scan that kept `mMutex` across the flusher calls would deadlock with that reload thread (spec 5), and the run's deadlock check would report it. |
| cdo_init | `MCContainerDiscoveryOptions.cfg` | pass | `InitResultAsSpecified`: Init fails exactly when a pattern does not compile, whatever the iteration order. `FiltersAsSpecified`: each slot gets its own field, split by the ^...$ rule. `TagsAsConfigured`: the caller's tags are kept, then env tags, then label tags. `TypeOK` includes that a regex pointer only holds a compiled pattern. |
| mm_safety | `MCMetricManager.cfg` | pass | `CommittedRecordListed`: concurrent commits and snapshots never lose a record. `NoFreedRecordListed`: a freed record is never relinked. `LiveCountsConserved`: exported + current = added for a live record. |
| mm_grace | `MCMetricManager_grace.cfg` | violation | `FinalValueExposed`: spec invariant 8. The code, as its unit test pins it down, frees a dropped record at the next snapshot without exporting its last increments (finding 2). |
| pec_parse | `MCProcessEntityCollector.cfg` | pass | `StatFieldsParsed`: for every task name, the parser returns the whole name and each field's own value, and refuses the line exactly when it stops before field 38. `TypeOK` includes that every parsed field is a non-empty word. |
| prn_contract | `MCProcessorParseRegexNative.cfg` | pass | `EventsAccounted`: in = out + discarded. `ParsedKeysWin`: parsed keys beat the source copy and the source key. `ParseFailureHandled`: keep or discard on failure, and the failed and keyNotFound counters. |

Each property of a passing run has a mutant in `PROJECT.json`. A mutant is a plausible
bug in the mapped code: a dropped guard, a missing reset, a swapped order, an off-by-one
or a dropped lock. TLC finds each property violated under its mutant.

### Bounds and why they suffice
- **ExactlyOnceQueueManager**:
  - One QueueKey, two checkpoints, two hash keys, two priority tiers, process-queue capacity 1 and two ranges per hash key: 52,016 states.
  - Two checkpoints on one hash key are the least for two ranges of one hash key to be Sending at once (`eoqm_sending`). Two checkpoints on different hash keys let a checkpoint be reused under another hash.
  - Capacity 1 makes the full-queue refusal reachable.
  - `eoqm_crash` has one hash key, two checkpoints, two ranges and two restarts: 28,968 states. Two hash keys with one restart take more than 200,000 states and minutes, with no new kind of step, so the run keeps one. Two restarts reach a crash during the resend of a rebuilt item. Two checkpoints on one hash key let the rebuild meet a second, Unsent range of the same hash key.
  - `eoqm_dup` needs a single checkpoint, one range and one restart for its 10-step trace.
  - Two QueueKeys are not checked. With two checkpoints and two hash keys each, they take more than 9 million states and 7 minutes, and with restarts and the refinement longer still. Keys share only the priority tiers, the sender loop and the GC, and each of these acts on one key per step.
- **TimeoutFlushManager**: two configs, two batch keys with the test's timeouts 0 and 3, and 2 generations per config: 67,478 states. That reaches a reload stopping a pipeline while its flushers are due, unregister during a scan, re-apply with a second flusher, both timeout edges, and a record that is due but not yet scanned.
- **ContainerDiscoveryOptions**: every combination of three regex values (compiling, throwing, wrong type) and three map values over two field names. The map values are: empty; an anchored regex beside a `^`-only exact value; and a throwing anchored value beside a non-compiling exact value. Both iteration orders, both external-tag maps present or absent, and container envs and labels present or absent: 165,704 states.
- **MetricManager**: three refs with two adds each. Three is the least for two concurrent commits beside a snapshot that frees a third: 264,868 states.
- **ProcessEntityCollector**: every task name up to three characters over `a`, space, `(` and `)` (85 names). Each is combined with three line lengths: 36 fields after the name (one short of `processor`), 37 (exactly up to it) and 50 (a current kernel's full line). That is 510 states. Three characters already give a name ending in `) ` and names with stray parentheses.
- **PluginRegistry**: six creators, two of them registered under the same name (one static, one in the auxiliary module), a singleton Input and a plain one; three configs; four plugin lists, with the singleton Input once or twice and the optional processor or not: 162 states. Three configs are enough for two to compete for the singleton while a third is reapplied.
- **ProcessorParseRegexNative**: the test's five Keys lists, all flag combinations, whole-line mode, and a two-event group of matching, non-matching or key-less events: 1,296 states.

### Fairness
Fairness is stated only where a thread of the code loops for the agent's lifetime:
- `TimeoutFlushManager!FairSpec` puts weak fairness on each flush-thread step (scan, flusher calls, clearing `mDeletedFlushers`) and on `Tick`. The thread scans once a second, forever.
- It also puts weak fairness on each `UnregisterFlushers(c)`: a reload thread that has begun stopping a pipeline goes on to unregister it.
- Inputs, batchers, plugins and the reload thread get no fairness: they may stop at any time.
- The exactly-once, metric-manager and plugin-registry runs check safety and refinement only. Their `Spec` has no fairness.

## 4. Findings
1. **FIFO per destination is not guaranteed (spec gap).**
   - Nothing orders the sends of one hash key once the Input has read them (see finding 4).
   - Two processor workers may call `PushSenderQueue` (`ExactlyOnceQueueManager.h:67`) in either order.
   - TLC's trace: push seq 1 and seq 2, two pops, seq 2 forwarded, sent and acked first.
2. **Dropped metrics lose their final value (spec vs code).**
   - Spec invariant 8 promises one more `updateMetrics()` after a drop.
   - The unit test (`MetricManagerUnittest.cpp:117-136`) expects dropped records to be gone after the very next `UpdateMetrics`, although their counters were incremented since the last snapshot.
3. **A restart can deliver a range twice (spec gap).**
   - Spec S4 rebuilds and resends an item whose checkpoint is Sending after a restart.
   - Spec invariant 6 says the backend accepts each range at most once.
   - The checkpoint cannot tell a send that never left from one the backend accepted just before the crash (`ExactlyOnceQueueManager.h:56`). Without deduplication at the backend, which the spec does not state, S4 breaks invariant 6.
4. **At most one in-flight range per hash key is not guaranteed (spec gap).**
   - Spec 4.6 refuses a new item only at the Input, while its hash key has a `Sending` checkpoint.
   - The checkpoint becomes `Sending` later, in `PushSenderQueue` (`ExactlyOnceQueueManager.h:67`), whose statuses 0, 1 and 2 include no such refusal.
   - TLC's trace: read seq 1 and seq 2 of one hash key, two pops, two `PushSenderQueue` calls. Both checkpoints are then `Sending`.

## 5. Plan: what comes next, most important first
Done so far:
- the refinement of the exactly-once queue;
- liveness of flusher collection;
- ProcessEntityCollector stat parsing;
- crash and restart of the exactly-once queue;
- PluginRegistry.

What remains:
1. **ProcessQueueManager / SenderQueueManager** (spec 4.4, 4.5): round-robin within a tier, strict priority across tiers, retry and backoff with a cap, and concurrency caps. This would be spec-modelled, since only ExactlyOnceQueueManager's header is under `src/`.
2. **CollectionPipeline lifecycle** (spec 4.8, S6): compose the exactly-once and timeout-flush modules so that stop drains within the grace deadline and reload keeps in-flight items.
3. **Two pipelines of the exactly-once queue**: a symmetric or smaller instance that fits in the time budget.

## 6. Not modelled, and why
- `WriteMetrics::DoSnapshot`'s walk of the list: it has no body under `src/`. The model unlinks deleted records with one filter, so it states no property about the walk (such as a deleted record at the list head being collected).
- Queries whose callers are not in the repository: `IsAllProcessQueueEmpty`, `IsAllSenderQueueEmpty` and `IsValidGoPlugin` (Go plugins run outside this code).
- `CreateOrUpdateQueue` with a priority above `sMaxPriority`: the check would be in the `.cpp`, which is not in the repository. Listed as a hazard.
- `SetPipelineForSenderItems`: a pointer refresh.
- `GenerateContainerMetaFetchingGoPipeline`: its code is not under `src/`.
- `CollectingContainersMeta`: a flag.
- Log messages, JSON layout, labels and byte sizes: no property is about them.
- The three other processors: declarations only.
- `ProviderUnittest`: checks that singletons exist.
- After a restart, the Input re-reads ranges whose checkpoint is Unsent. That replay belongs to the file input, which is not in this repository. The model rebuilds only Sending checkpoints, as S4 says, and the Input resumes at its persisted read position.
- PluginRegistry's singleton flag for flushers: `RegisterFlusherCreator` stores it, but the only public singleton query is `IsGlobalSingletonInputPlugin`. Whether the builder, which is not in the repository, enforces it is unknown, so no property claims either way. It is listed as a hazard.
- `PluginRegistry::LoadPlugins`'s file-system scan and `dlopen`: modelled only as a success or failure per optional processor.
- ProcessEntityCollector's `Collect`, `GetSortedProcess`, `GetProcessStat` (the previous-stat cache and CPU percent) and `WalkAllProcess`: no bodies under `src/` and no semantics in the spec.

# TLA+ models of the BlazingSQL aggregation pipeline

This project models the distributed `GROUP BY` / aggregate pipeline of
`src/engine/include/engine/initialize.h`:

```
upstream -> ComputeAggregate -> DistributeAggregate -> MergeAggregate -> downstream
```

The pipeline runs on every node of the cluster. It is checked with TLC.

## 1. Inventory

### Components, their state and their operations

| Component | Where | State | Operations |
|---|---|---|---|
| CacheMachine | not in `src/` (spec 4.1) | queue of batches, count of accepted batches, finished flag | `addToCache` (drops an empty table once something was added, unless `always_add`), `pullCacheData`, `finish`, `wait_until_finished`, `wait_for_next`, `wait_for_count` |
| TaskExecutor | not in `src/` (spec 4.2) | pending tasks | `add_task`; a worker runs `do_process` and removes the task from the kernel's set |
| Kernel base | lines 58-101, 196-249, 335-391 | `tasks`, `kernel_mutex`, `kernel_cv` | pull loop -> `add_task`; wait until `tasks` is empty; the graph then finishes the output cache |
| DistributingKernel | not in `src/` (spec 4.5, 6) | `node_count[peer]`, count messages received | `scatter`, `send_message`, `increment_node_count`, `send_total_partition_counts`, `get_total_partition_counts` |
| ComputeAggregateKernel | lines 31-123 | parsed operator descriptor | `do_process` (one partial aggregate per batch), `run`, `get_estimated_output_num_rows` |
| DistributeAggregateKernel | lines 125-251 | `set_empty_part_for_non_master_node`, `columns_to_hash`, counters | `do_process`: a grouped path (hash-partition and scatter) and a scalar path (funnel to the master); `run`: barrier, exchange counts, `wait_for_count` |
| MergeAggregateKernel | lines 253-393 | none beyond the base | `run`: wait until the input is finished, drain it, submit one task; `do_process`: concatenate, rewrite the operators, aggregate again |
| initialize / finalize / allocator | lines 8-21 | - | declarations only |
| CatalogTableImpl (Java) | lines 398-595 | name, rowcount, `tableColumns` map, database | constructors (build a map keyed by column name), getters and setters, `getColumns` (sorted) |

### Interactions

- **Kernel to kernel**: each kernel's output cache is the next kernel's input cache.
- **Kernel to executor**: every pulled batch becomes a task. Tasks run concurrently with each other and with the kernel's own thread. The kernel waits on `kernel_cv` until its task set is empty.
- **Node to node**: Distribute sends data partitions and partition-count reports.
  - A receiver thread adds incoming partitions to the destination node's Distribute output cache.
  - Count reports are consumed by `get_total_partition_counts`.
- **Distribute to Merge**: Distribute releases Merge by finishing its output cache. It does that only after `wait_for_count(total)`.

### What is hard

- Tasks of one kernel run in parallel. The scalar path reads and writes `set_empty_part_for_non_master_node` without a lock (lines 151-155).
- Count reports and data partitions travel independently, so a report can overtake the data it counts.
- `addToCache` silently drops empty tables, so "counted" and "added" can disagree.
- Merge is a barrier. It must start only after every partition destined to its node has arrived, and anything arriving later is lost.
- Termination rests on the count exchange, which has no timeout.
- The empty-input edge case: Merge with zero batches (line 294).

### What makes each component correct

- **CacheMachine / Distribute**: partition-count reconciliation (spec 8.5). A count report must be final, and no partition may arrive at a finished cache.
- **Compute + Distribute + Merge**: row conservation and group-key closure (spec 8.2, 8.3). Each node merges exactly the keys that hash to it, with the cluster-wide counts. For scalar aggregates, only the master emits the total (spec 8.4).
- **All kernels**: every `run()` returns (spec 8.8).
- **Merge rewrite**: it is idempotent (spec 8.7), and merging partials equals aggregating the input.

## 2. Modules

| Module | Models | Source |
|---|---|---|
| `CacheMachine.tla` | the cache contract, as operators on a record `[items, added, finished]` | spec 4.1 (spec_modelled) |
| `AggregationPipeline.tla` | the three kernels on every node, the executor tasks, the count exchange, the network, and the faults (a task that throws, possibly part-way through its scatter, and a lost message) | lines 38-391, with spec 4.2/4.5/7 for the code outside `src/` |
| `AggregateQuery.tla` | the abstract specification: each node's output goes from nothing to the aggregate of the whole input for its keys, in one step | spec 8.2-8.4 |
| `MCAggregationPipeline.tla` | model values and definitions for TLC | - |
| `OutputEstimate.tla` | `get_estimated_output_num_rows` called while Compute runs, from before `run()` parses the expression: upstream input additions, `do_process` tasks, and the estimate's two counter reads and double arithmetic | lines 38-62, 104-121 |
| `MCOutputEstimate.tla` | TLC wrapper; an ASSUME checks its double rounding against the nearest representable value | - |
| `MergeRewrite.tla` | the two-phase aggregate of one column: Compute's per-batch partial, the rewrite `modGroupByParametersForMerge` picks (spec 4.6), Merge's aggregate of the partials | lines 44-53, 292-294, 310-313, spec 4.6 |
| `CatalogTable.tla` | the Java `CatalogTableImpl`: one table object, its four constructors, its setters, `getColumns`, and the column fields it writes | lines 398-595 |

### How AggregationPipeline corresponds to the code

- **State**
  - The four caches: `upCache`, `aggCache`, `distCache`, `outCache`.
  - `pc[n][kernel]`: the point that each kernel's `run()` has reached.
  - `tasks[n][kernel]`: the kernel's `tasks` set.
  - `nodeCount[n][m]`: `node_count`.
  - `emptyPartSet[n]`: the Distribute flag.
  - `total[n]`: the argument of `wait_for_count`.
  - `net`: messages in flight.
  - `lost`: partitions that reached a finished cache (a ClosedCache error).
  - `failed[n][kernel]`: a task of that kernel threw.
- **Data**
  - An input batch is a set of rows. Each row is a model value with a key.
  - After Compute, every table is a bag of rows `<<key, count>>`, so that concatenation keeps duplicate rows.
  - The query is `COUNT_ALL`, either grouped by the key or scalar, or a `GROUP BY` with no aggregation (`Distinct`, the `aggregation_types.size() == 0` branch of both `do_process`es). A distinct row is shown as `<<k, 1>>`.
- **Actions**
  - `ComputePull`/`DistributePull` are one iteration of the pull loop; `*PullEnd` is the null pull that ends it.
  - `ComputeDoProcess`, `DistributeGrouped` and `DistributeScalarMaster` each model a whole `do_process`.
  - The scalar non-master `do_process` is split at its unsynchronised flag read: `DistributeScalarCheck` reads the flag, `DistributeScalarSend` does the rest.
  - `DistributeBarrier` waits for the tasks, then sends the counts; `DistributeTotalCount` is `get_total_partition_counts`; `DistributeWaitForCount` is `wait_for_count`, followed by the graph finishing the output cache.
  - `ReceivePartition` is the receiver thread.
  - `MergeCollect`: `wait_until_finished`, the drain loop and the single `add_task`. `MergeDoProcess`: a null concatenation ends the process (`pc = "crashed"`). `MergeBarrier`: the task barrier.
  - Faults, enabled by the constants `TaskMayFail` and `Lossy`: `TaskFails` removes a running task from its kernel's set without its effect. That is faithful for Compute and Merge, whose cache add is the last statement of `do_process`. `ScatterFails` is a grouped Distribute task throwing inside `scatter()`: the partitions handled before the throw are added or sent and counted (`ScatterTo` with a proper subset of the destinations), the rest are not. `LoseMessage` drops a message in flight.
- **Refinement.** `Query == INSTANCE AggregateQuery WITH emitted <- ...` maps a node's emitted output to its `outCache` once Merge is done, and to nothing before. `AggregateQueryRefinement == Query!Spec` is checked as a PROPERTY, liveness included. `AggregateQuerySafety` is its safety half while no task has failed, for the faults run, where the query may stall.

### How OutputEstimate corresponds to the code

- `inRows` and `outRows` are `input_.total_rows_added()` and `output_.total_rows_added()`. `AddInput` is the upstream kernel adding a batch; `ComputeDoProcess` is a task adding the rows of its branch (one per key, or one for a scalar aggregate).
- `parsed` says whether `run()` has assigned `aggregation_types` and `group_column_indices` (lines 61-62, `ComputeRunParse`); tasks only run after it. `ParsedAsScalar` is the test at line 105 as the estimating thread sees those members: before the parse they are empty, and a scalar aggregate takes the general branch.
- `EstimateStart` is the call up to the read of `out_so_far` (lines 104-110): the scalar answer `(true, 1)`, the unknown upstream `(false, 0)`, or the first read. `EstimateFinish` is the read of `in_so_far`, the zero guard and the arithmetic (lines 111-116). Tasks and additions interleave between the two.
- Numbers are scaled down: `uint64_t` has `W` bits, a `double` is a rational rounded to `P` significant bits with ties to even (`Round`), which is what IEEE 754 does with `W = 64`, `P = 53`. A `(uint64_t)` conversion of a value out of range is undefined behaviour and yields any `W`-bit value.

### How MergeRewrite corresponds to the code

- `kind` is the query's aggregate; `batches` are the input batches added so far. `Partial` is what Compute's `do_process` emits per batch (MEAN as its SUM and COUNT_VALID, spec S4); `ModKind` is the rewrite table of spec 4.6; `MergePartials` applies it to the concatenated partials. `Aggregate` is the cudf aggregate, with SQL null semantics.
- `MergeEqualsAggregate` compares the merge with the aggregate of all rows after every batch, so every split of up to three batches is checked.

### How CatalogTable corresponds to the code

- `status` is `none` before a constructor, `built` after, `threw` if `columnTypes.get(i)` threw (line 488). Before the throw the loop has completed the columns that have a type and created one more, as the code does; the object is never returned.
- `name`, `rowcount`, `database`, `id` and `tableColumns` are the fields; `tableColumns` is a function from names to column objects, and `Put` is `HashMap.put` (a later put with the same key replaces).
- Column objects are model values: `Existing` ones are built by the caller, `Fresh` ones are created by the four-argument constructor. `colTable`, `colName`, `colType` and `colOrder` are the fields the constructors set.
- `CatalogTableImpl0..3` are the four constructors, each as one step; `Set*` are the setters. `SetTableColumns` takes the maps Hibernate builds (`HibernateMaps`: columns whose table is this one, keyed by their name).
- `GetColumns` is the set of map values; the sort by `CatalogColumnImpl.compareTo` (not in `src/`) only orders it.

## 3. Runs

| Run | cfg | Bounds | Checks |
|---|---|---|---|
| `grouped` | `MCGrouped.cfg` | 2 nodes, keys k1->n1 and k2->n2, 1-2 batches per node, each batch either empty or `{r1,r2,r3}` (two rows of k1, one of k2) | TypeOK, PartitionCountReconciliation, CountReportIsFinal, AggregateQueryRefinement: pass |
| `scalar` | `MCScalar.cfg` | same bounds, no GROUP BY | PartitionCountReconciliation, AggregateQueryRefinement: pass |
| `scalar_idle_peer` | `MCScalarIdlePeer.cfg` | scalar, 0-1 batches per node | MergeTaskHasInput: **violated** |
| `empty_input` | `MCEmptyInput.cfg` | no input batches (spec S5) | AllKernelsFinish: **violated** |
| `faults` | `MCFaults.cfg` | GROUP BY without aggregation (the distinct path), 0-1 batches per node, tasks may throw (Distribute part-way through its scatter), messages may be lost | PartitionCountReconciliation, AggregateQuerySafety: pass |
| `task_failure_silent` | `MCTaskFailureSilent.cfg` | same | FailedTaskNotSilent: **violated** |
| `output_estimate` | `MCOutputEstimate.cfg` | all three branches, up to 3 batches of up to 2 rows, upstream estimates {0, 5, 15, 123, 126}, W = 7, P = 5 | EstimateWithinUpstream: pass |
| `estimate_before_parse` | `MCEstimateBeforeParse.cfg` | scalar aggregate, up to 2 batches, upstream estimates {0, 5} | ScalarEstimateIsOne: **violated** |
| `merge_rewrite` | `MCMergeRewrite.cfg` | SUM, SUM0, COUNT_VALID, COUNT_ALL, MIN, MAX, MEAN; values {1, 2} and null; up to 3 batches of up to 2 rows | MergeEqualsAggregate: pass |
| `catalog_table` | `MCCatalogTable.cfg` | 2 caller columns, 2 fresh ones, 2 names, lists of length at most 2 | TypeOK: pass |
| `catalog_columns_added` | `MCCatalogColumnsAdded.cfg` | same | ColumnsAllAdded: **violated** |
| `catalog_rowcount` | `MCCatalogRowCount.cfg` | same | NamedTableHasRowCount: **violated** |

Why these bounds are enough:

- Two nodes give every node both a local partition and a remote one.
- Two batches give two concurrent tasks per kernel. That is what the flag race and unordered partial outputs need.
- Two rows with the same key make a mistaken merge rewrite (COUNT instead of SUM) visible.
- Empty batches exercise the cache's drop-empty rule.
- The faults run keeps 0-1 batches per node with every fault enabled (about 34,000 states): with two batches and partial scatters the state space passes 8 million and the run its time budget. One batch per node still lets a scatter throw after sending to the peer and before adding locally, or the other way round, and lets a loss or a throw leave a node nothing to merge. It takes the distinct path, whose merge deduplicates keys that arrive from several batches and nodes; the grouped run checks the counting path with its liveness, and the distinct path differs from it only in data.
- For the estimate, three batches let a task and an input addition both land between the two reads; upstream estimates below 2^(P-1) are the regime real counts live in (below 2^52), and 123 and 126 need more than `P` bits: 123 rounds up to 124, and 126 to 2^W, where the conversion is undefined. The property bounds the estimate by the upstream estimate as a double, so it holds across the whole range and still fails if the two counters are read in the other order.
- Two names for two caller columns give both distinct and duplicate names; lists of length 2 let the type list be shorter than the name list.

`CHECK_DEADLOCK FALSE` is set because the query terminates and every kernel stops, and because a constructed table only has setters left. The refinement's liveness, or `AllKernelsFinish`, is what tells a finished pipeline from a stuck one.

**Fairness.** Each node's steps are weakly fair, and so is delivery: kernel threads and executor workers are never starved forever, and the transport (TCP/UCX in the code) delivers every message it does not lose. The fault actions are not fair: a failure may happen, never must. No other fairness is assumed.

**Findings.**

- `empty_input`: spec S5 says that with empty input Merge emits nothing and every kernel proceeds. `MergeAggregateKernel::run` always submits one task; line 280 treats the null from `concatTables` as possible, but line 294 calls `concatenated->names()` on it. The query never completes. The same crash follows whenever a node's Merge collects no batch at all, as on the scalar path (`scalar_idle_peer`) or when failed tasks and lost messages leave a node nothing to merge.
- `task_failure_silent`: spec 7 says a failed task is surfaced when the barrier releases and the kernel re-raises. Every `run()` only waits for `tasks` to be empty and returns `kstatus::proceed`.
- `estimate_before_parse`: spec 4.4 says a scalar aggregate's output estimate is 1. The code decides that from `aggregation_types` and `group_column_indices`, which `run()` assigns at lines 61-62 with no synchronisation with the thread that asks for the estimate. Asked before the parse, after a batch was added, a scalar aggregate answers `(true, 0)`.
- `scalar_idle_peer`: spec 4.5 says the scalar path keeps at least one batch in every node's Merge. The empty schema batch is deposited by a non-master's `do_process` on its first batch (lines 151-155), so a non-master with no input batch never gets one; its Merge crashes at line 294 while the master answers.
- `catalog_columns_added`: the constructors' Javadoc says the columns are added; two with the same name leave one out of the map and out of `getColumns()`.
- `catalog_rowcount`: `rowcount` is `nullable = false`, but two constructors never set it.

The faults run shows the other side of the missing timeout (spec 4, 9): a lost count report stalls the query, as the spec documents, and never makes it return a wrong result.

## 4. Not modelled (yet) and why

- Cache capacity and backpressure: they do not affect the properties above.
- The executor pool size: a task may run any time, which over-approximates it.
- Retry (the `TODO add retry` at line 372): there is none in the code.
- COUNT_DISTINCT and NTH_ELEMENT in the merge rewrite: spec 4.6 says only "on re-grouped keys" and "etc.", and `modGroupByParametersForMerge` is not in `src/`. Idempotence of the rewrite (spec 8.7) is not a property: it holds of the table by construction.
- Upstream estimates past a double's significand (2^53) in `get_estimated_output_num_rows` make the estimate exceed the upstream estimate itself, by the rounding of `(double)total_in.second` alone (`EstimateWithinUpstream` shows the rest of the arithmetic adds nothing). No realistic estimate gets there, so no run checks the unrounded bound.
- `input_.total_rows_added()` counts rows added to the input cache, not rows consumed as spec 4.4 says; the estimate only lags because of it, and no property is about its accuracy.
- `CatalogColumnImpl` beyond the four fields `CatalogTableImpl` writes, and Hibernate's persistence itself.
- Renaming a column after it was put in the map: `setColumnName` belongs to `CatalogColumnImpl`, outside `src/`, and no line here calls it afterwards, so no property is stated about a stale map key.
- A scalar non-master Distribute task throwing in `send_message` after its empty deposit: the scalar runs keep faults off to stay within the time budget, so this partial failure is not checked.
- `initialize`/`finalize`/`blazingSetAllocator` (lines 8-21): declarations only.
- Logging, timers and event records: they have no effect on control.

## 5. Further work

1. MIN/MAX/SUM in `AggregationPipeline` through a constant for the aggregate kind (the rewrite itself is checked in `MergeRewrite`).

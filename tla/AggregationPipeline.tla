------------------------- MODULE AggregationPipeline -------------------------
(***************************************************************************)
(* The Compute -> Distribute -> Merge aggregation pipeline of             *)
(* src/engine/include/engine/initialize.h, run on every node of a cluster. *)
(*                                                                         *)
(* Each node runs the three kernels, each on its own thread, plus the     *)
(* executor's worker threads that run the kernels' do_process tasks and   *)
(* the receiver thread that puts partitions arriving from peers into the  *)
(* Distribute output cache.  The query is COUNT_ALL, either grouped by one *)
(* key column (GroupBy) or a scalar aggregate (no GROUP BY), or a GROUP   *)
(* BY with no aggregation at all (Distinct).                              *)
(*                                                                         *)
(* Data is abstracted to what the properties tell apart: an input batch   *)
(* is a set of rows (model values, each with a key); every table after    *)
(* Compute is a bag of rows <<key, count>> (Bags), so that concatenation  *)
(* keeps duplicate rows.                                                  *)
(***************************************************************************)
EXTENDS Naturals, Sequences, FiniteSets, Bags, Functions, FiniteSetsExt,
        SequencesExt, CacheMachine

CONSTANTS
    Nodes,          \* the nodes of the cluster (context->getAllNodes())
    Master,         \* context->getMasterNode()
    Rows,           \* the rows input batches are made of
    Keys,           \* values of the group-by column
    KeyOf,          \* KeyOf[r]: the group-by column of row r
    Hash,           \* Hash[k]: the node cudf::hash_partition sends key k to
    NoKey,          \* the key of the single row of a scalar aggregate
    GroupBy,        \* TRUE: COUNT_ALL GROUP BY key; FALSE: scalar COUNT_ALL
    Distinct,       \* TRUE: GROUP BY key with no aggregation (needs GroupBy)
    InputBatches,   \* the batches the upstream kernel may produce
    MinBatches, MaxBatches, \* bounds on the batches per node
    TaskMayFail,    \* whether a do_process may throw (a ComputeError)
    Lossy           \* whether the transport may lose a message

ASSUME /\ Master \in Nodes
       /\ KeyOf \in [Rows -> Keys]
       /\ Hash \in [Keys -> Nodes]
       /\ NoKey \notin Keys
       /\ GroupBy \in BOOLEAN /\ Distinct \in BOOLEAN /\ (Distinct => GroupBy)
       /\ InputBatches \subseteq SUBSET Rows
       /\ MinBatches \in Nat /\ MaxBatches \in Nat /\ MinBatches <= MaxBatches
       /\ TaskMayFail \in BOOLEAN /\ Lossy \in BOOLEAN

VARIABLES
    input,        \* the batches the upstream kernel produced on each node
    upCache,      \* Compute's input cache
    aggCache,     \* Compute's output cache = Distribute's input cache
    distCache,    \* Distribute's output cache = Merge's input cache
    outCache,     \* Merge's output cache
    pc,           \* pc[n][k]: where run() of kernel k on node n is
    tasks,        \* tasks[n][k]: the kernel's outstanding executor tasks
    nodeCount,    \* nodeCount[n][m]: partitions Distribute on n routed to m
    emptyPartSet, \* set_empty_part_for_non_master_node of Distribute on n
    total,        \* the count Distribute on n passes to wait_for_count
    net,          \* messages in flight between nodes
    lost,         \* partitions that reached a cache after its finish()
    failed        \* failed[n][k]: a task of kernel k on n threw

vars == <<input, upCache, aggCache, distCache, outCache, pc, tasks,
          nodeCount, emptyPartSet, total, net, lost, failed>>

Kernels == {"compute", "distribute", "merge"}
InputSeqs == UNION {[1..l -> InputBatches] : l \in MinBatches..MaxBatches}

-----------------------------------------------------------------------------
(* Tables *)

IsEmptyTable(b) == b = EmptyBag

\* A task of the executor: its id, its input batches and, for the one
\* do_process path split in two steps, the flag value it read.
NewTask(id, ins) == [id |-> id, inputs |-> ins, phase |-> "run", sawSet |-> FALSE]

DataMsg(from, to, id, b) == [kind |-> "data", from |-> from, to |-> to, id |-> id, batch |-> b]
CountMsg(from, to, c) == [kind |-> "count", from |-> from, to |-> to, count |-> c]

\* The three branches of do_process: compute_groupby_without_aggregations
\* (one row per key; a distinct row carries only its key, shown as <<k, 1>>),
\* compute_aggregations_with_groupby / _without_groupby for COUNT_ALL.
ComputePartial(rows) ==
    IF Distinct THEN SetToBag({<<KeyOf[r], 1>> : r \in rows})
    ELSE IF GroupBy
    THEN SetToBag({<<k, Cardinality({r \in rows : KeyOf[r] = k})>> :
                   k \in {KeyOf[r] : r \in rows}})
    ELSE SetToBag({<<NoKey, Cardinality(rows)>>})

\* cudf::hash_partition + cudf::split: the rows whose key hashes to node m;
\* an empty batch yields an empty view for every node.
Partition(b, m) == Restrict(b, {r \in BagToSet(b) : Hash[r[1]] = m})

\* concatTables returns null when it is given no table at all.
ConcatIsNull(s) == s = <<>>
Concat(s) == FoldLeft(LAMBDA a, b : a (+) b, EmptyBag, s)

\* Fault variant: the merge re-applies COUNT_ALL instead of its SUM rewrite.
CountMerge(c, k) == MapThenSumSet(LAMBDA r : c[r], {r \in BagToSet(c) : r[1] = k})

\* The merge rewrite of COUNT_ALL is SUM: add up the partial counts of k.
SumMerge(c, k) == MapThenSumSet(LAMBDA r : r[2] * c[r], {r \in BagToSet(c) : r[1] = k})

\* The keys present in a table.
KeysOf(c) == {r[1] : r \in BagToSet(c)}

\* Fault variant: the merge of a GROUP BY without aggregations passes the
\* concatenation through, keeping a key once per partial it appeared in.
MergeResultNoDedup(n, c) ==
    IF Distinct THEN c
    ELSE IF GroupBy
    THEN SetToBag({<<k, SumMerge(c, k)>> : k \in KeysOf(c)})
    ELSE IF n = Master THEN SetToBag({<<NoKey, SumMerge(c, NoKey)>>})
         ELSE c

\* Fault variant: scalar aggregates merged on every node, not only the master.
MergeResultAllNodes(n, c) ==
    IF Distinct THEN SetToBag({<<k, 1>> : k \in KeysOf(c)})
    ELSE IF GroupBy
    THEN SetToBag({<<k, SumMerge(c, k)>> : k \in KeysOf(c)})
    ELSE SetToBag({<<NoKey, SumMerge(c, NoKey)>>})

\* What Merge's do_process emits on node n for the concatenated table c.
MergeResult(n, c) ==
    IF Distinct THEN SetToBag({<<k, 1>> : k \in KeysOf(c)})
    ELSE IF GroupBy
    THEN SetToBag({<<k, SumMerge(c, k)>> : k \in KeysOf(c)})
    ELSE IF n = Master THEN SetToBag({<<NoKey, SumMerge(c, NoKey)>>})
         ELSE c   \* non-master: output the empty schema batch as it is

\* get_total_partition_counts(): own count plus the counts reported by peers.
TotalPartitionCount(n, reports) ==
    nodeCount[n][n] + MapThenSumSet(LAMBDA msg : msg.count, reports)

-----------------------------------------------------------------------------
Init ==
    /\ input \in [Nodes -> InputSeqs]
    /\ upCache = [n \in Nodes |-> FinishedCacheOf(input[n])]
    /\ aggCache = [n \in Nodes |-> EmptyCache]
    /\ distCache = [n \in Nodes |-> EmptyCache]
    /\ outCache = [n \in Nodes |-> EmptyCache]
    /\ pc = [n \in Nodes |-> [compute |-> "pull", distribute |-> "pull", merge |-> "wait"]]
    /\ tasks = [n \in Nodes |-> [k \in Kernels |-> {}]]
    /\ nodeCount = [n \in Nodes |-> [m \in Nodes |-> 0]]
    /\ emptyPartSet = [n \in Nodes |-> FALSE]
    /\ total = [n \in Nodes |-> 0]
    /\ net = {}
    /\ lost = {}
    /\ failed = [n \in Nodes |-> [k \in Kernels |-> FALSE]]

-----------------------------------------------------------------------------
(* The run() pull loop shared by Compute and Distribute: every batch      *)
(* pulled becomes one executor task; a null pull ends the loop.           *)

PullTask(n, k, cache) ==
    /\ pc[n][k] = "pull"
    /\ CanPull(cache[n])
    /\ cache' = [cache EXCEPT ![n] = Pull(@)]
    /\ tasks' = [tasks EXCEPT ![n][k] =
                    @ \cup {NewTask(Pulled(cache[n]) + 1, <<Head(cache[n].items)>>)}]

PullEnd(n, k, cache) ==
    /\ pc[n][k] = "pull"
    /\ PullsNull(cache[n])
    /\ pc' = [pc EXCEPT ![n][k] = "barrier"]

ComputePull(n) ==
    /\ PullTask(n, "compute", upCache)
    /\ UNCHANGED <<input, aggCache, distCache, outCache, pc, nodeCount, emptyPartSet, total, net, lost>>

ComputePullEnd(n) ==
    /\ PullEnd(n, "compute", upCache)
    /\ UNCHANGED <<input, upCache, aggCache, distCache, outCache, tasks, nodeCount, emptyPartSet, total, net, lost>>

\* ComputeAggregateKernel::do_process: one partial aggregate per batch.
ComputeDoProcess(n, t) ==
    /\ t \in tasks[n].compute
    /\ LET p == ComputePartial(t.inputs[1])
       IN aggCache' = [aggCache EXCEPT ![n] = AddToCache(@, p, IsEmptyTable(p), FALSE)]
    /\ tasks' = [tasks EXCEPT ![n].compute = @ \ {t}]
    /\ UNCHANGED <<input, upCache, distCache, outCache, pc, nodeCount, emptyPartSet, total, net, lost>>

\* kernel_cv.wait until tasks is empty; then the graph finishes the output.
ComputeBarrier(n) ==
    /\ pc[n].compute = "barrier"
    /\ tasks[n].compute = {}
    /\ pc' = [pc EXCEPT ![n].compute = "done"]
    /\ aggCache' = [aggCache EXCEPT ![n] = Finish(@)]
    /\ UNCHANGED <<input, upCache, distCache, outCache, tasks, nodeCount, emptyPartSet, total, net, lost>>

-----------------------------------------------------------------------------
(* DistributeAggregateKernel *)

DistributePull(n) ==
    /\ PullTask(n, "distribute", aggCache)
    /\ UNCHANGED <<input, upCache, distCache, outCache, pc, nodeCount, emptyPartSet, total, net, lost>>

DistributePullEnd(n) ==
    /\ PullEnd(n, "distribute", aggCache)
    /\ UNCHANGED <<input, upCache, aggCache, distCache, outCache, tasks, nodeCount, emptyPartSet, total, net, lost>>

\* Fault variant: the local partition is also sent over the network.
ScatterToAll(n, id, parts) ==
    LET local == Accepts(distCache[n], IsEmptyTable(parts[n]), TRUE)
    IN /\ distCache' = [distCache EXCEPT ![n] = AddToCache(@, parts[n], IsEmptyTable(parts[n]), TRUE)]
       /\ net' = net \cup {DataMsg(n, m, id, parts[m]) : m \in Nodes}
       /\ nodeCount' = [nodeCount EXCEPT ![n] =
             [m \in Nodes |-> IF m # n \/ local THEN @[m] + 1 ELSE @[m]]]

\* Fault variant: the counts are raised once the loop is over, so a throw
\* part-way leaves the partitions already sent uncounted.
ScatterToCountedAfterLoop(n, id, parts, dests) ==
    LET local == n \in dests /\ Accepts(distCache[n], IsEmptyTable(parts[n]), TRUE)
    IN /\ distCache' = [distCache EXCEPT ![n] =
             IF n \in dests THEN AddToCache(@, parts[n], IsEmptyTable(parts[n]), TRUE) ELSE @]
       /\ net' = net \cup {DataMsg(n, m, id, parts[m]) : m \in dests \ {n}}
       /\ nodeCount' = IF dests # Nodes THEN nodeCount ELSE [nodeCount EXCEPT ![n] =
             [m \in Nodes |-> IF m # n \/ local THEN @[m] + 1 ELSE @[m]]]

\* The scatter loop over the partitions of the destinations dests: node
\* n's own partition stays local (always_add) and is counted when added;
\* every other one is sent to its node and counted.
ScatterTo(n, id, parts, dests) ==
    LET local == n \in dests /\ Accepts(distCache[n], IsEmptyTable(parts[n]), TRUE)
    IN /\ distCache' = [distCache EXCEPT ![n] =
             IF n \in dests THEN AddToCache(@, parts[n], IsEmptyTable(parts[n]), TRUE) ELSE @]
       /\ net' = net \cup {DataMsg(n, m, id, parts[m]) : m \in dests \ {n}}
       /\ nodeCount' = [nodeCount EXCEPT ![n] =
             [m \in Nodes |-> IF (m # n /\ m \in dests) \/ (m = n /\ local) THEN @[m] + 1 ELSE @[m]]]

\* scatter(): every partition.
Scatter(n, id, parts) == ScatterTo(n, id, parts, Nodes)

\* do_process, grouped path: hash-partition the batch into one partition
\* per node and scatter the partitions.
DistributeGrouped(n, t) ==
    /\ GroupBy
    /\ t \in tasks[n].distribute
    /\ Scatter(n, t.id, [m \in Nodes |-> Partition(t.inputs[1], m)])
    /\ tasks' = [tasks EXCEPT ![n].distribute = @ \ {t}]
    /\ UNCHANGED <<input, upCache, aggCache, outCache, pc, emptyPartSet, total, lost>>

\* do_process, scalar path on the master: keep the batch (not always_add),
\* count it only if the cache accepted it.
DistributeScalarMaster(n, t) ==
    /\ ~GroupBy
    /\ n = Master
    /\ t \in tasks[n].distribute
    /\ LET b == t.inputs[1]
           added == Accepts(distCache[n], IsEmptyTable(b), FALSE)
       IN /\ distCache' = [distCache EXCEPT ![n] = AddToCache(@, b, IsEmptyTable(b), FALSE)]
          /\ nodeCount' = [nodeCount EXCEPT ![n][n] = IF added THEN @ + 1 ELSE @]
    /\ tasks' = [tasks EXCEPT ![n].distribute = @ \ {t}]
    /\ UNCHANGED <<input, upCache, aggCache, outCache, pc, emptyPartSet, total, net, lost>>

\* do_process, scalar path on a non-master, first half: the task reads
\* set_empty_part_for_non_master_node.  Tasks run concurrently on the
\* executor's workers and the flag is a plain member, so another task may
\* read it before this one sets it.
DistributeScalarCheck(n, t) ==
    /\ ~GroupBy
    /\ n # Master
    /\ t \in tasks[n].distribute
    /\ t.phase = "run"
    /\ tasks' = [tasks EXCEPT ![n].distribute =
                    (@ \ {t}) \cup {[t EXCEPT !.phase = "send", !.sawSet = emptyPartSet[n]]}]
    /\ UNCHANGED <<input, upCache, aggCache, distCache, outCache, pc, nodeCount, emptyPartSet, total, net, lost>>

\* Fault variant: the message sent to the master is not counted.
DistributeScalarSendUncounted(n, t) ==
    /\ ~GroupBy
    /\ n # Master
    /\ t \in tasks[n].distribute
    /\ t.phase = "send"
    /\ LET deposit == ~t.sawSet
           added == deposit /\ Accepts(distCache[n], TRUE, TRUE)
       IN /\ distCache' = [distCache EXCEPT ![n] =
                              IF deposit THEN AddToCache(@, EmptyBag, TRUE, TRUE) ELSE @]
          /\ emptyPartSet' = [emptyPartSet EXCEPT ![n] = @ \/ deposit]
          /\ nodeCount' = [nodeCount EXCEPT ![n] =
                [m \in Nodes |-> @[m] + (IF m = n /\ added THEN 1 ELSE 0)]]
    /\ net' = net \cup {DataMsg(n, Master, t.id, t.inputs[1])}
    /\ tasks' = [tasks EXCEPT ![n].distribute = @ \ {t}]
    /\ UNCHANGED <<input, upCache, aggCache, outCache, pc, total, lost>>

\* Second half: if the flag read was unset, deposit an empty batch of the
\* schema locally (always_add) and count it; then send the batch to the
\* master, which counts it for the master.
DistributeScalarSend(n, t) ==
    /\ ~GroupBy
    /\ n # Master
    /\ t \in tasks[n].distribute
    /\ t.phase = "send"
    /\ LET deposit == ~t.sawSet
           added == deposit /\ Accepts(distCache[n], TRUE, TRUE)
       IN /\ distCache' = [distCache EXCEPT ![n] =
                              IF deposit THEN AddToCache(@, EmptyBag, TRUE, TRUE) ELSE @]
          /\ emptyPartSet' = [emptyPartSet EXCEPT ![n] = @ \/ deposit]
          /\ nodeCount' = [nodeCount EXCEPT ![n] =
                [m \in Nodes |-> @[m] + (IF m = n /\ added THEN 1 ELSE 0)
                                      + (IF m = Master THEN 1 ELSE 0)]]
    /\ net' = net \cup {DataMsg(n, Master, t.id, t.inputs[1])}
    /\ tasks' = [tasks EXCEPT ![n].distribute = @ \ {t}]
    /\ UNCHANGED <<input, upCache, aggCache, outCache, pc, total, lost>>

\* Fault variant: the counts are sent without waiting for the tasks.
DistributeBarrierNoWait(n) ==
    /\ pc[n].distribute = "barrier"
    /\ net' = net \cup {CountMsg(n, m, nodeCount[n][m]) : m \in Nodes \ {n}}
    /\ pc' = [pc EXCEPT ![n].distribute = "counts"]
    /\ UNCHANGED <<input, upCache, aggCache, distCache, outCache, tasks, nodeCount, emptyPartSet, total, lost>>

\* After the barrier, send_total_partition_counts(): report to every peer
\* the partitions routed to it.
DistributeBarrier(n) ==
    /\ pc[n].distribute = "barrier"
    /\ tasks[n].distribute = {}
    /\ net' = net \cup {CountMsg(n, m, nodeCount[n][m]) : m \in Nodes \ {n}}
    /\ pc' = [pc EXCEPT ![n].distribute = "counts"]
    /\ UNCHANGED <<input, upCache, aggCache, distCache, outCache, tasks, nodeCount, emptyPartSet, total, lost>>

\* get_total_partition_counts() blocks until every peer's report is in.
DistributeTotalCount(n) ==
    /\ pc[n].distribute = "counts"
    /\ LET reports == {msg \in net : msg.kind = "count" /\ msg.to = n}
       IN /\ {msg.from : msg \in reports} = Nodes \ {n}
          /\ total' = [total EXCEPT ![n] = TotalPartitionCount(n, reports)]
          /\ net' = net \ reports
    /\ pc' = [pc EXCEPT ![n].distribute = "wait"]
    /\ UNCHANGED <<input, upCache, aggCache, distCache, outCache, tasks, nodeCount, emptyPartSet, lost>>

\* Fault variant: run() returns without wait_for_count.
DistributeWaitForCountSkipped(n) ==
    /\ pc[n].distribute = "wait"
    /\ pc' = [pc EXCEPT ![n].distribute = "done"]
    /\ distCache' = [distCache EXCEPT ![n] = Finish(@)]
    /\ UNCHANGED <<input, upCache, aggCache, outCache, tasks, nodeCount, emptyPartSet, total, net, lost>>

\* wait_for_count(total_count); then run() returns and the graph finishes
\* the output cache, which releases Merge.
DistributeWaitForCount(n) ==
    /\ pc[n].distribute = "wait"
    /\ CountReached(distCache[n], total[n])
    /\ pc' = [pc EXCEPT ![n].distribute = "done"]
    /\ distCache' = [distCache EXCEPT ![n] = Finish(@)]
    /\ UNCHANGED <<input, upCache, aggCache, outCache, tasks, nodeCount, emptyPartSet, total, net, lost>>

\* The receiving side puts a partition into the Distribute output cache of
\* its destination; one arriving after finish() is a ClosedCache error and
\* the partition is lost.
ReceivePartition(msg) ==
    /\ msg \in net
    /\ msg.kind = "data"
    /\ net' = net \ {msg}
    /\ IF distCache[msg.to].finished
       THEN /\ lost' = lost \cup {msg}
            /\ UNCHANGED distCache
       ELSE /\ distCache' = [distCache EXCEPT ![msg.to] =
                 AddToCache(@, msg.batch, IsEmptyTable(msg.batch), TRUE)]
            /\ UNCHANGED lost
    /\ UNCHANGED <<input, upCache, aggCache, outCache, pc, tasks, nodeCount, emptyPartSet, total>>

-----------------------------------------------------------------------------
(* MergeAggregateKernel *)

\* run(): wait_until_finished, drain every batch with wait_for_next and
\* pullCacheData, and submit them all as one task.
MergeCollect(n) ==
    /\ pc[n].merge = "wait"
    /\ distCache[n].finished
    /\ tasks' = [tasks EXCEPT ![n].merge = {NewTask(1, distCache[n].items)}]
    /\ distCache' = [distCache EXCEPT ![n].items = <<>>]
    /\ pc' = [pc EXCEPT ![n].merge = "barrier"]
    /\ UNCHANGED <<input, upCache, aggCache, outCache, nodeCount, emptyPartSet, total, net, lost>>

\* do_process: concatenate, rewrite the operators for merging, aggregate
\* again.  concatenated->names() is read even when concatTables returned
\* null, which ends the process.
MergeDoProcess(n, t) ==
    /\ t \in tasks[n].merge
    /\ pc[n].merge = "barrier"
    /\ IF ConcatIsNull(t.inputs)
       THEN /\ pc' = [pc EXCEPT ![n].merge = "crashed"]
            /\ UNCHANGED <<outCache, tasks>>
       ELSE LET res == MergeResult(n, Concat(t.inputs))
            IN /\ outCache' = [outCache EXCEPT ![n] = AddToCache(@, res, IsEmptyTable(res), FALSE)]
               /\ tasks' = [tasks EXCEPT ![n].merge = @ \ {t}]
               /\ UNCHANGED pc
    /\ UNCHANGED <<input, upCache, aggCache, distCache, nodeCount, emptyPartSet, total, net, lost>>

MergeBarrier(n) ==
    /\ pc[n].merge = "barrier"
    /\ tasks[n].merge = {}
    /\ pc' = [pc EXCEPT ![n].merge = "done"]
    /\ outCache' = [outCache EXCEPT ![n] = Finish(@)]
    /\ UNCHANGED <<input, upCache, aggCache, distCache, tasks, nodeCount, emptyPartSet, total, net, lost>>

-----------------------------------------------------------------------------
(* Faults *)

\* A do_process throws (device OOM, arithmetic) before it has any effect:
\* in Compute and Merge the cache add is its last statement.
\* The executor still removes the task, so the kernel's barrier releases,
\* and attaches the error to the kernel (spec 4.2, 7).
TaskFails(n, k, t) ==
    /\ TaskMayFail
    /\ t \in tasks[n][k]
    /\ t.phase = "run"
    /\ tasks' = [tasks EXCEPT ![n][k] = @ \ {t}]
    /\ failed' = [failed EXCEPT ![n][k] = TRUE]
    /\ UNCHANGED <<input, upCache, aggCache, distCache, outCache, pc, nodeCount, emptyPartSet, total, net, lost>>

\* A grouped do_process throws inside scatter(), from a send or a cache
\* add: the partitions handled before it (done, a proper subset of the
\* destinations; their order is not modelled) are added or sent and
\* counted, the rest never are.  The task is removed as a failed one.
ScatterFails(n, t, done) ==
    /\ TaskMayFail /\ GroupBy
    /\ t \in tasks[n].distribute
    /\ ScatterTo(n, t.id, [m \in Nodes |-> Partition(t.inputs[1], m)], done)
    /\ tasks' = [tasks EXCEPT ![n].distribute = @ \ {t}]
    /\ failed' = [failed EXCEPT ![n].distribute = TRUE]
    /\ UNCHANGED <<input, upCache, aggCache, outCache, pc, emptyPartSet, total, lost>>

\* The transport loses a message (a peer crashes or the link drops).
LoseMessage(msg) ==
    /\ Lossy
    /\ msg \in net
    /\ net' = net \ {msg}
    /\ UNCHANGED <<input, upCache, aggCache, distCache, outCache, pc, tasks, nodeCount, emptyPartSet, total, lost, failed>>

Fault ==
    \/ \E n \in Nodes : \E k \in Kernels : \E t \in tasks[n][k] : TaskFails(n, k, t)
    \/ \E n \in Nodes : \E t \in tasks[n].distribute : \E done \in (SUBSET Nodes) \ {Nodes} :
          ScatterFails(n, t, done)
    \/ \E msg \in net : LoseMessage(msg)

-----------------------------------------------------------------------------
\* The kernel threads and executor workers of node n.
NodeStep(n) ==
    /\ \/ ComputePull(n) \/ ComputePullEnd(n) \/ ComputeBarrier(n)
       \/ \E t \in tasks[n].compute : ComputeDoProcess(n, t)
       \/ DistributePull(n) \/ DistributePullEnd(n)
       \/ \E t \in tasks[n].distribute :
             \/ DistributeGrouped(n, t) \/ DistributeScalarMaster(n, t)
             \/ DistributeScalarCheck(n, t) \/ DistributeScalarSend(n, t)
       \/ DistributeBarrier(n) \/ DistributeTotalCount(n) \/ DistributeWaitForCount(n)
       \/ MergeCollect(n) \/ MergeBarrier(n)
       \/ \E t \in tasks[n].merge : MergeDoProcess(n, t)
    /\ UNCHANGED failed

Receive == (\E msg \in net : ReceivePartition(msg)) /\ UNCHANGED failed

Next == (\E n \in Nodes : NodeStep(n)) \/ Receive \/ Fault

\* Kernel threads and executor workers are never starved for good, and the
\* transport delivers every partition.
Fairness == (\A n \in Nodes : WF_vars(NodeStep(n))) /\ WF_vars(Receive)

Spec == Init /\ [][Next]_vars /\ Fairness

-----------------------------------------------------------------------------
(* Properties *)

TypeOK ==
    /\ input \in [Nodes -> InputSeqs]
    /\ pc \in [Nodes -> [compute : {"pull", "barrier", "done"},
                         distribute : {"pull", "barrier", "counts", "wait", "done"},
                         merge : {"wait", "barrier", "done", "crashed"}]]
    /\ \A n \in Nodes : \A k \in Kernels : \A t \in tasks[n][k] :
          t.phase \in {"run", "send"} /\ t.sawSet \in BOOLEAN
    /\ nodeCount \in [Nodes -> [Nodes -> Nat]]
    /\ emptyPartSet \in [Nodes -> BOOLEAN]
    /\ total \in [Nodes -> Nat]
    /\ \A msg \in net : msg.kind \in {"data", "count"} /\ msg.from # msg.to
    /\ lost \subseteq {msg \in net \cup lost : msg.kind = "data"}
    /\ failed \in [Nodes -> [Kernels -> BOOLEAN]]

\* Partition-count reconciliation (spec 8.5): when Distribute on n passes
\* wait_for_count and finishes its output, every partition routed to n has
\* been added to that cache -- none is still in flight, none arrives after
\* finish(), and the count of accepted batches equals the reported total.
PartitionCountReconciliation ==
    /\ lost = {}
    /\ \A n \in Nodes : pc[n].distribute = "done" =>
          /\ distCache[n].added = total[n]
          /\ ~\E msg \in net : msg.kind = "data" /\ msg.to = n

\* A partition count a node reports to a peer is final: Distribute never
\* routes another partition to that peer after send_total_partition_counts.
CountReportIsFinal ==
    \A msg \in net : msg.kind = "count" => msg.count = nodeCount[msg.from][msg.to]

\* The pipeline implements AggregateQuery (spec 8.2-8.4, row conservation,
\* group-key closure, scalar uniqueness): a node has answered once its
\* MergeAggregateKernel::run() returned, and what it answered is what Merge
\* added to its output cache -- exactly one batch, the aggregate of the
\* cluster's rows that belong to the node -- and every node answers.
Query == INSTANCE AggregateQuery WITH
    emitted <- [n \in Nodes |-> IF pc[n].merge = "done" THEN outCache[n].items ELSE <<>>]

AggregateQueryRefinement == Query!Spec

AnyTaskFailed == \E n \in Nodes : \E k \in Kernels : failed[n][k]

\* The safety half of the refinement, while no task has failed: whatever
\* the transport loses, a node that answers answers correctly -- a lost
\* message can stall the query, never make it return a wrong or partial
\* result.  (After a failed task the answer is partial: FailedTaskNotSilent.)
AggregateQuerySafety ==
    Query!Init /\ [][~AnyTaskFailed' => [Query!Next]_Query!avars]_vars

\* Spec 7: a kernel whose task failed does not return proceed -- its run()
\* surfaces the error instead of completing as if the task had succeeded.
FailedTaskNotSilent ==
    \A n \in Nodes : \A k \in Kernels : failed[n][k] => pc[n][k] # "done"

\* Spec 4.5: the scalar path's first-batch empty deposit "preserves the
\* invariant that every node's Merge stage has at least one batch with the
\* correct schema" -- once the cluster has any input, no Merge task is
\* handed zero batches.
MergeTaskHasInput ==
    (\E m \in Nodes : input[m] # <<>>) =>
        \A n \in Nodes : \A t \in tasks[n].merge : t.inputs # <<>>

\* No deadlock (spec 8.8): every kernel's run() on every node returns.
AllKernelsFinish ==
    <>(\A n \in Nodes : pc[n] = [compute |-> "done", distribute |-> "done", merge |-> "done"])
=============================================================================

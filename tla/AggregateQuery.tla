---------------------------- MODULE AggregateQuery ----------------------------
(***************************************************************************)
(* What the aggregation pipeline promises, with no kernels, caches or     *)
(* messages: each node eventually returns, in one step, one batch that is *)
(* the aggregate of the rows of the whole cluster that belong to it       *)
(* (spec 8.2-8.4).  AggregationPipeline is checked to implement this.     *)
(***************************************************************************)
EXTENDS Naturals, Sequences, FiniteSets, Bags, Functions, FiniteSetsExt

CONSTANTS Nodes, Master, Rows, Keys, KeyOf, Hash, NoKey, GroupBy, Distinct,
          InputBatches, MinBatches, MaxBatches

VARIABLES
    input,    \* the batches the upstream kernel produces on each node
    emitted   \* emitted[n]: the batches the query returned on n; <<>> until then

avars == <<input, emitted>>

InputSeqs == UNION {[1..l -> InputBatches] : l \in MinBatches..MaxBatches}

\* The (node, batch index) pairs of the whole input.
Slots == {<<n, i>> \in Nodes \X (1..MaxBatches) : i \in DOMAIN input[n]}

\* Rows with key k over the whole input of the cluster.
InputCount(k) ==
    MapThenSumSet(LAMBDA p : Cardinality({r \in input[p[1]][p[2]] : KeyOf[r] = k}), Slots)

AllRows == MapThenSumSet(LAMBDA p : Cardinality(input[p[1]][p[2]]), Slots)

InputKeys == {KeyOf[r] : r \in UNION UNION {Range(input[n]) : n \in Nodes}}

\* Distinct: every key that hashes to n, once.  Grouped: the count of
\* every key that hashes to n.  Scalar: the total on the master, an empty
\* batch of the schema elsewhere.
ExpectedResult(n) ==
    IF Distinct THEN SetToBag({<<k, 1>> : k \in {k \in InputKeys : Hash[k] = n}})
    ELSE IF GroupBy
    THEN SetToBag({<<k, InputCount(k)>> : k \in {k \in InputKeys : Hash[k] = n}})
    ELSE IF n = Master THEN SetToBag({<<NoKey, AllRows>>}) ELSE EmptyBag

Init ==
    /\ input \in [Nodes -> InputSeqs]
    /\ emitted = [n \in Nodes |-> <<>>]

Answer(n) ==
    /\ emitted[n] = <<>>
    /\ emitted' = [emitted EXCEPT ![n] = <<ExpectedResult(n)>>]
    /\ UNCHANGED input

Next == \E n \in Nodes : Answer(n)

Spec == Init /\ [][Next]_avars /\ \A n \in Nodes : WF_avars(Answer(n))
=============================================================================

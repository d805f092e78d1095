CONSTANTS
    n1 = n1  n2 = n2  r1 = r1  r2 = r2  r3 = r3  k1 = k1  k2 = k2
    Nodes = {n1, n2}
    Master = n1
    Rows = {r1, r2, r3}
    Keys = {k1, k2}
    NoKey = NoKey
    KeyOf <- MCKeyOf
    Hash <- MCHash
    InputBatches <- MCInputBatches
    GroupBy = TRUE
    Distinct = FALSE
    MinBatches = 1
    MaxBatches = 2
    TaskMayFail = FALSE
    Lossy = FALSE
SPECIFICATION Spec
\* The query ends: every kernel stops; the refinement tells a finished
\* pipeline from a stuck one, since it requires every node to answer.
CHECK_DEADLOCK FALSE
INVARIANTS TypeOK PartitionCountReconciliation CountReportIsFinal
PROPERTIES AggregateQueryRefinement

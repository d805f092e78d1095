CONSTANTS
    n1 = n1  n2 = n2  r1 = r1  r2 = r2  r3 = r3  k1 = k1  k2 = k2
    Nodes = {n1, n2}
    Master = n1
    Rows = {r1, r2, r3}
    Keys = {k1, k2}
    NoKey = NoKey
    KeyOf <- MCKeyOf
    Hash <- MCHash
    InputBatches <- MCInputBatches
    GroupBy = TRUE
    Distinct = TRUE
    MinBatches = 0
    MaxBatches = 1
    TaskMayFail = TRUE
    Lossy = TRUE
SPECIFICATION Spec
\* The query ends and every kernel stops, or it stalls on a lost count
\* report (spec 4, 9: no timeout), or Merge crashes on a node that lost
\* all its batches (see MCEmptyInput); this run checks safety only.
CHECK_DEADLOCK FALSE
INVARIANTS PartitionCountReconciliation
PROPERTIES AggregateQuerySafety

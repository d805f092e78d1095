CONSTANTS
    n1 = n1  n2 = n2  r1 = r1  r2 = r2  r3 = r3  k1 = k1  k2 = k2
    Nodes = {n1, n2}
    Master = n1
    Rows = {r1, r2, r3}
    Keys = {k1, k2}
    NoKey = NoKey
    KeyOf <- MCKeyOf
    Hash <- MCHash
    InputBatches <- MCInputBatches
    GroupBy = FALSE
    Distinct = FALSE
    MinBatches = 0
    MaxBatches = 1
    TaskMayFail = FALSE
    Lossy = FALSE
SPECIFICATION Spec
\* A node may have no input batch at all.  The query ends and every
\* kernel stops, or Merge crashes (see MCEmptyInput).
CHECK_DEADLOCK FALSE
INVARIANTS MergeTaskHasInput

CONSTANTS
    n1 = n1  n2 = n2  r1 = r1  r2 = r2  r3 = r3  k1 = k1  k2 = k2
    Nodes = {n1, n2}
    Master = n1
    Rows = {r1, r2, r3}
    Keys = {k1, k2}
    NoKey = NoKey
    KeyOf <- MCKeyOf
    Hash <- MCHash
    InputBatches <- MCInputBatches
    GroupBy = TRUE
    Distinct = FALSE
    MinBatches = 1
    MaxBatches = 1
    TaskMayFail = TRUE
    Lossy = FALSE
SPECIFICATION Spec
\* Spec section 7: a do_process that throws is re-raised by run().  The
\* run() barrier only waits for the task set to empty, so a node can
\* report its kernel done after one of its tasks failed.
CHECK_DEADLOCK FALSE
INVARIANTS FailedTaskNotSilent

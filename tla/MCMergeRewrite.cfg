CONSTANTS
    Null = Null
    Values = {1, 2}
    MaxRows = 2
    MaxBatches = 3
SPECIFICATION Spec
\* The upstream kernel stops after MaxBatches batches.
CHECK_DEADLOCK FALSE
INVARIANT MergeEqualsAggregate

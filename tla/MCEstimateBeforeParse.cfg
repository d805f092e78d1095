CONSTANTS
    Kinds = {"scalar"}
    MaxRows = 2
    MaxBatches = 2
    UpstreamEstimates = {0, 5}
    W = 7
    P = 5
\* A scalar aggregate whose upstream has added a batch before run() parsed
\* the expression.
SPECIFICATION Spec
INVARIANT ScalarEstimateIsOne

CONSTANTS
    Kinds = {"grouped", "distinct", "scalar"}
    MaxRows = 2
    MaxBatches = 3
    UpstreamEstimates = {0, 5, 15, 123, 126}
    W = 7
    P = 5
\* Upstream estimates below 2^(P-1), which a double holds exactly, as every
\* realistic count is with P = 53, and 123 and 126, which need more than P
\* bits: 123 rounds up to 124 and 126 to 2^W.
SPECIFICATION Spec
INVARIANT EstimateWithinUpstream

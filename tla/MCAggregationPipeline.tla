------------------------ MODULE MCAggregationPipeline ------------------------
EXTENDS AggregationPipeline

CONSTANTS n1, n2, r1, r2, r3, k1, k2

\* r1 and r2 share key k1; k1 hashes to n1, k2 to n2.
MCKeyOf == (r1 :> k1) @@ (r2 :> k1) @@ (r3 :> k2)
MCHash == (k1 :> n1) @@ (k2 :> n2)
\* An empty batch and a batch with two rows of k1 and one of k2.
MCInputBatches == {{}, {r1, r2, r3}}
=============================================================================

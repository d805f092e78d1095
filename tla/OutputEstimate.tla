---------------------------- MODULE OutputEstimate ----------------------------
(***************************************************************************)
(* ComputeAggregateKernel::get_estimated_output_num_rows (initialize.h,   *)
(* lines 104-121) called by the query graph while the kernel runs: the    *)
(* upstream kernel keeps adding batches to the input cache, executor      *)
(* tasks run do_process (lines 38-56) and add their output, and the       *)
(* estimate reads the output counter, then the input counter, then        *)
(* computes in double and converts to uint64_t.  The estimate may be      *)
(* called before run() has parsed the expression (lines 61-62), when the  *)
(* kernel's aggregation_types and group_column_indices are still empty.   *)
(*                                                                         *)
(* Integers are uint64_t scaled down to W bits; a double is a rational    *)
(* rounded to nearest (ties to even) with P significant bits, as IEEE 754 *)
(* does with W = 64 and P = 53.  The exponent range of a double is wide   *)
(* enough here never to matter.                                            *)
(***************************************************************************)
EXTENDS Integers, Bags

CONSTANTS
    Kinds,        \* subset of {"grouped", "distinct", "scalar"}
    MaxRows,      \* rows in one input batch
    MaxBatches,   \* batches the upstream kernel adds
    UpstreamEstimates, \* values get_estimated_input_rows_to_kernel may return
    W,            \* width of uint64_t, scaled
    P             \* significand bits of a double, scaled

ASSUME Kinds \subseteq {"grouped", "distinct", "scalar"}
ASSUME UpstreamEstimates \subseteq 0..(2^W - 1) /\ P >= 2 /\ W >= P

VARIABLES
    kind,      \* which do_process branch the parsed expression selects
    parsed,    \* run() has assigned aggregation_types and group_column_indices
    inRows,    \* input_.total_rows_added()
    outRows,   \* output_.total_rows_added()
    added,     \* batches added by the upstream kernel so far
    pending,   \* bag of the output sizes of batches whose task has not run
    epc,       \* the estimating thread: "idle", or "read" between its two reads
    upstream,  \* total_in of the current call
    seen,      \* seen["out"], seen["in"]: out_so_far and in_so_far as read
    result     \* the pair the last call returned, with the total_in it used

vars == <<kind, parsed, inRows, outRows, added, pending, epc, upstream, seen, result>>

-----------------------------------------------------------------------------
(* Doubles as records [num, den] of naturals.                             *)

Dbl(n, d) == [num |-> n, den |-> d]

\* The exponent e with 2^(P-1) <= n/d / 2^e < 2^P.
Exponent(n, d) ==
    CHOOSE e \in -(2 * W + P)..(2 * W) :
        IF e >= 0 THEN 2^(P-1) * d * 2^e <= n /\ n < 2^P * d * 2^e
                  ELSE 2^(P-1) * d <= n * 2^(-e) /\ n * 2^(-e) < 2^P * d

\* n/d rounded to the nearest double, ties to the even significand.
Round(n, d) ==
    IF n = 0 THEN Dbl(0, 1)
    ELSE LET e == Exponent(n, d)
             N == IF e >= 0 THEN n ELSE n * 2^(-e)
             D == IF e >= 0 THEN d * 2^e ELSE d
             q == N \div D
             r == N % D
             m == IF 2 * r > D \/ (2 * r = D /\ q % 2 = 1) THEN q + 1 ELSE q
         IN IF e >= 0 THEN Dbl(m * 2^e, 1) ELSE Dbl(m, 2^(-e))

ToDouble(x) == Round(x, 1)
Times(a, b) == Round(a.num * b.num, a.den * b.den)
Divide(a, b) == Round(a.num * b.den, a.den * b.num)

\* (uint64_t) truncates; a value past the largest uint64_t is undefined
\* behaviour, and the build may return any 64-bit pattern.
ToUint64(a) ==
    LET q == a.num \div a.den
    IN IF q < 2^W THEN {q} ELSE 0..(2^W - 1)

-----------------------------------------------------------------------------
\* One input batch of the upstream kernel: its rows and its distinct keys.
Batches == {b \in [rows : 0..MaxRows, groups : 0..MaxRows] :
               b.groups <= b.rows /\ (b.rows > 0 => b.groups > 0)}

\* Rows do_process adds to the output for a batch: one per group for the
\* grouped and distinct branches, a single row for a scalar aggregate.
OutputRows(k, b) == IF k = "scalar" THEN 1 ELSE b.groups

Init ==
    /\ kind \in Kinds /\ parsed = FALSE
    /\ inRows = 0 /\ outRows = 0 /\ added = 0
    /\ pending = EmptyBag
    /\ epc = "idle" /\ upstream = 0 /\ seen = [c \in {"out", "in"} |-> Dbl(0, 1)]
    /\ result = [known |-> FALSE, rows |-> 0, total |-> 0]

\* The upstream kernel adds a batch to this kernel's input cache.
AddInput(b) ==
    /\ added < MaxBatches
    /\ added' = added + 1
    /\ inRows' = inRows + b.rows
    /\ pending' = pending (+) SetToBag({OutputRows(kind, b)})
    /\ UNCHANGED <<kind, parsed, outRows, epc, upstream, seen, result>>

\* run() starts by parsing the expression into the kernel's members; only
\* then does it pull batches and add tasks.
ComputeRunParse ==
    /\ ~parsed
    /\ parsed' = TRUE
    /\ UNCHANGED <<kind, inRows, outRows, added, pending, epc, upstream, seen, result>>

\* A task runs do_process: the branch's output is added to the output cache.
ComputeDoProcess(o) ==
    /\ parsed
    /\ BagIn(o, pending)
    /\ pending' = pending (-) SetToBag({o})
    /\ outRows' = outRows + o
    /\ UNCHANGED <<kind, parsed, inRows, added, epc, upstream, seen, result>>

\* The counter behind each of the two reads.
Counter(c) == IF c = "out" THEN outRows ELSE inRows

\* Fault variant: in_so_far read before out_so_far.
ReadOrderSwapped == <<"in", "out">>

\* Lines 110-111: out_so_far is read first, then in_so_far.
ReadOrder == <<"out", "in">>

\* Line 105: aggregation_types.size() > 0 && group_column_indices.size() == 0,
\* as the estimating thread sees the members: empty until run() parses.
ParsedAsScalar == parsed /\ kind = "scalar"

\* get_estimated_output_num_rows up to its first counter read.  A scalar
\* aggregate answers (true, 1); an unknown upstream estimate answers
\* (false, 0).
EstimateStart(known, total) ==
    /\ epc = "idle"
    /\ upstream' = total
    /\ \/ /\ ParsedAsScalar
          /\ result' = [known |-> TRUE, rows |-> 1, total |-> total]
          /\ UNCHANGED <<epc, seen>>
       \/ /\ ~ParsedAsScalar /\ ~known
          /\ result' = [known |-> FALSE, rows |-> 0, total |-> total]
          /\ UNCHANGED <<epc, seen>>
       \/ /\ ~ParsedAsScalar /\ known
          /\ seen' = [seen EXCEPT ![ReadOrder[1]] = ToDouble(Counter(ReadOrder[1]))]
          /\ epc' = "read"
          /\ UNCHANGED result
    /\ UNCHANGED <<kind, parsed, inRows, outRows, added, pending>>

\* The rest of the call: the second read, the zero guard, the arithmetic
\* total_in * out_so_far / in_so_far in double, and the conversion.
EstimateFinish ==
    LET s == [seen EXCEPT ![ReadOrder[2]] = ToDouble(Counter(ReadOrder[2]))]
    IN /\ epc = "read"
       /\ epc' = "idle"
       /\ seen' = s
       /\ IF s["in"].num = 0
          THEN result' = [known |-> FALSE, rows |-> 0, total |-> upstream]
          ELSE \E v \in ToUint64(Divide(Times(ToDouble(upstream), s["out"]), s["in"])) :
                  result' = [known |-> TRUE, rows |-> v, total |-> upstream]
       /\ UNCHANGED <<kind, parsed, inRows, outRows, added, pending, upstream>>

Next ==
    \/ \E b \in Batches : AddInput(b)
    \/ ComputeRunParse
    \/ \E o \in BagToSet(pending) : ComputeDoProcess(o)
    \/ \E known \in BOOLEAN, total \in UpstreamEstimates : EstimateStart(known, total)
    \/ EstimateFinish

Spec == Init /\ [][Next]_vars

-----------------------------------------------------------------------------
\* Spec 4.4: the estimate is upstream * emitted / consumed.  Every batch
\* emits at most as many rows as it has, so an estimate that is not a
\* scalar aggregate's never exceeds the upstream estimate it scales, as
\* (double)total_in.second holds it at line 115 -- whatever tasks and
\* upstream additions run between the two counter reads, and whatever the
\* two roundings of the multiplication and the division do.  Past 2^P the
\* double is the upstream estimate rounded, possibly up; where it rounds
\* to 2^W the conversion is undefined and any 64-bit value is below it.
EstimateWithinUpstream ==
    (result.known /\ kind # "scalar") =>
        result.rows * ToDouble(result.total).den <= ToDouble(result.total).num

\* Spec 4.4: "for scalar aggregates, 1" -- every estimate a scalar
\* aggregate's kernel returns as known is one row.
ScalarEstimateIsOne ==
    (result.known /\ kind = "scalar") => result.rows = 1
====

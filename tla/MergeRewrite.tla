----------------------------- MODULE MergeRewrite -----------------------------
(***************************************************************************)
(* The two-phase aggregate: ComputeAggregate applies the query's          *)
(* aggregate to each batch (initialize.h lines 44-53), Merge concatenates *)
(* the partial results and applies the rewritten aggregate that           *)
(* modGroupByParametersForMerge picks for it (lines 283-314).  The        *)
(* rewrite table and the aggregates themselves are outside src/ and are   *)
(* taken from spec 4.6; one aggregate column of one group is modelled,    *)
(* its values drawn from a small set, with SQL nulls.                     *)
(*                                                                         *)
(* The upstream kernel adds batches one at a time; after each, the        *)
(* merge of the partials must equal the aggregate of all the rows.        *)
(***************************************************************************)
EXTENDS Integers, Sequences, SequencesExt, FiniteSetsExt

CONSTANTS
    Values,       \* the non-null values a row may hold
    Null,         \* SQL null
    MaxRows,      \* rows in one batch
    MaxBatches    \* batches the upstream kernel adds

Kinds == {"SUM", "SUM0", "COUNT_VALID", "COUNT_ALL", "MIN", "MAX", "MEAN"}

ASSUME Values \subseteq Nat /\ Null \notin Values

VARIABLES kind, batches

vars == <<kind, batches>>

Batches == BoundedSeq(Values \cup {Null}, MaxRows)

-----------------------------------------------------------------------------
NonNull(s) == SelectSeq(s, LAMBDA v : v # Null)
Total(s) == FoldSeq(LAMBDA v, acc : v + acc, 0, s)

\* The aggregate of kind k over the column s, as cudf computes it: SUM,
\* MIN and MAX of no valid value are null, SUM0 of none is 0; MEAN is the
\* fraction <<sum, count>>, null when there is no valid value.
Aggregate(k, s) ==
    LET nn == NonNull(s) IN
    CASE k = "COUNT_ALL"   -> Len(s)
      [] k = "COUNT_VALID" -> Len(nn)
      [] k = "SUM0"        -> Total(nn)
      [] Len(nn) = 0       -> Null
      [] k = "SUM"         -> Total(nn)
      [] k = "MIN"         -> Min(Range(nn))
      [] k = "MAX"         -> Max(Range(nn))
      [] k = "MEAN"        -> <<Total(nn), Len(nn)>>

\* What Compute emits for one batch: the aggregate itself, except for MEAN,
\* which is emitted as its two parts SUM and COUNT_VALID (spec S4).
Partial(k, b) ==
    IF k = "MEAN" THEN <<Aggregate("SUM", b), Aggregate("COUNT_VALID", b)>>
    ELSE Aggregate(k, b)

\* Fault variant: counts merged by counting the partial rows again.
ModKindRecount(k) ==
    CASE k \in {"COUNT_VALID", "COUNT_ALL"} -> "COUNT_VALID"
      [] k = "MEAN" -> <<"SUM", "SUM0">>
      [] OTHER -> k

\* modGroupByParametersForMerge (spec 4.6): the merging counterpart of each
\* aggregate; MEAN merges its two parts with SUM and SUM0, then divides.
ModKind(k) ==
    CASE k \in {"COUNT_VALID", "COUNT_ALL"} -> "SUM"
      [] k = "MEAN" -> <<"SUM", "SUM0">>
      [] OTHER -> k

\* Merge's do_process on the concatenated partials ps.
MergePartials(k, ps) ==
    IF k = "MEAN"
    THEN LET s == Aggregate(ModKind(k)[1], [i \in DOMAIN ps |-> ps[i][1]])
             c == Aggregate(ModKind(k)[2], [i \in DOMAIN ps |-> ps[i][2]])
         IN IF c = 0 THEN Null ELSE <<s, c>>
    ELSE Aggregate(ModKind(k), ps)

-----------------------------------------------------------------------------
Init ==
    /\ kind \in Kinds
    /\ batches = <<>>

\* The upstream kernel adds a batch; Compute turns it into a partial.
AddBatch(b) ==
    /\ Len(batches) < MaxBatches
    /\ batches' = Append(batches, b)
    /\ UNCHANGED kind

Next == \E b \in Batches : AddBatch(b)

Spec == Init /\ [][Next]_vars

-----------------------------------------------------------------------------
\* Two aggregate results are the same value (MEAN fractions by ratio).
SameResult(x, y) ==
    IF x = Null \/ y = Null THEN x = y
    ELSE IF kind = "MEAN" THEN x[1] * y[2] = y[1] * x[2]
    ELSE x = y

\* Spec 4.6 and S4: merging the per-batch partials with the rewritten
\* aggregate gives the aggregate of all the rows, for every kind, with
\* nulls and empty batches, however the rows were split into batches.
MergeEqualsAggregate ==
    batches # <<>> =>
        SameResult(MergePartials(kind, [i \in DOMAIN batches |-> Partial(kind, batches[i])]),
                   Aggregate(kind, FlattenSeq(batches)))
====

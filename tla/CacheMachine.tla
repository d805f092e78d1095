---------------------------- MODULE CacheMachine ----------------------------
(***************************************************************************)
(* The contract of ral::cache::CacheMachine that the aggregation kernels  *)
(* rely on (spec section 4.1).  Its code is not part of src/, so these    *)
(* operators are written from the specification.  A cache is a record:    *)
(*   items    - the batches not yet pulled, in insertion order;           *)
(*   added    - the monotonic count of accepted batches (wait_for_count   *)
(*              compares against additions, not against what is left);   *)
(*   finished - the finalization flag set by finish().                    *)
(***************************************************************************)
EXTENDS Naturals, Sequences

EmptyCache == [items |-> <<>>, added |-> 0, finished |-> FALSE]

\* A cache whose producer has already added the batches of s and finished.
FinishedCacheOf(s) == [items |-> s, added |-> Len(s), finished |-> TRUE]

\* addToCache(table, id, always_add): an empty table is dropped once
\* something has been added, unless always_add is set.
Accepts(c, isEmpty, alwaysAdd) == c.added = 0 \/ ~isEmpty \/ alwaysAdd

AddToCache(c, b, isEmpty, alwaysAdd) ==
    IF Accepts(c, isEmpty, alwaysAdd)
    THEN [c EXCEPT !.items = Append(@, b), !.added = @ + 1]
    ELSE c

\* pullCacheData() returns the head when there is one ...
CanPull(c) == c.items # <<>>
Pull(c) == [c EXCEPT !.items = Tail(@)]
\* ... and null once the cache is finished and drained.
PullsNull(c) == c.finished /\ c.items = <<>>

\* Number of batches pulled so far (every add appends, every pull removes).
Pulled(c) == c.added - Len(c.items)

Finish(c) == [c EXCEPT !.finished = TRUE]

\* wait_for_count(n) unblocks once n batches have been accepted in total.
CountReached(c, n) == c.added >= n
=============================================================================

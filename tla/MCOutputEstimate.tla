--------------------------- MODULE MCOutputEstimate ---------------------------
(***************************************************************************)
(* OutputEstimate for TLC, with a check of its double model: Round agrees *)
(* with the nearest P-bit significand times a power of two (ties to the   *)
(* even significand) on a bounded range of quotients n/d.                 *)
(***************************************************************************)
EXTENDS OutputEstimate

\* Representable non-zero doubles in the range the check covers.
Representable == {[m |-> m, e |-> e] : m \in 2^(P-1)..(2^P - 1), e \in -(W + P)..W}
AsFraction(r) == IF r.e >= 0 THEN <<r.m * 2^r.e, 1>> ELSE <<r.m, 2^(-r.e)>>

\* |r - n/d| scaled to a common denominator.
Distance(r, n, d) ==
    LET f == AsFraction(r)
        x == f[1] * d
        y == n * f[2]
    IN (IF x >= y THEN x - y ELSE y - x) * (2^(W + P) \div f[2])

NearestDouble(n, d) ==
    IF n = 0 THEN <<0, 1>>
    ELSE AsFraction(CHOOSE r \in Representable :
            \A s \in Representable :
                \/ Distance(r, n, d) < Distance(s, n, d)
                \/ Distance(r, n, d) = Distance(s, n, d) /\ (r.m % 2 = 0 \/ AsFraction(r) = AsFraction(s)))

\* The double model rounds as IEEE 754 does.
ASSUME \A n \in 0..(2^W \div 2), d \in 1..7 :
          LET x == Round(n, d) IN x.num * NearestDouble(n, d)[2] = NearestDouble(n, d)[1] * x.den
=============================================================================

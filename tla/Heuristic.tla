--------------------------------- MODULE Heuristic ---------------------------------
(***************************************************************************)
(* cmd/ml-analyzer: the arithmetic of buildRecommendations for one service.*)
(* Latencies are in tens of milliseconds, request and error rates in       *)
(* halves of a request per second (the thresholds are at 1), and the       *)
(* weights in thousandths, since round3 leaves three digits.  Scores are   *)
(* exact fractions where the code has float64: the two may differ by one   *)
(* thousandth when a quotient falls on a rounding boundary.                *)
(***************************************************************************)
EXTENDS Integers

CONSTANT NoData \* a zone without a series in the answer of a query

ASSUME NoDataAssumption == NoData \notin Int

Zones == {"zone1", "zone2"}

\* An answer reshaped: the values of one service by zone.
NoAnswer == [z \in Zones |-> NoData]

OrZero(v) == IF v = NoData THEN 0 ELSE v

Lesser(a, b) == IF a < b THEN a ELSE b
Greater(a, b) == IF a > b THEN a ELSE b

AnyData(m) == \E z \in Zones : m.p99[z] # NoData \/ OrZero(m.rps[z]) > 0

\* Mutant: the error rate is a factor of the score, not its complement.
ScoreByErrorRate(m, z) ==
    LET r == OrZero(m.rps[z])
        e == IF m.errs[z] # NoData /\ r > 0 THEN Lesser(m.errs[z], r) ELSE 0
    IN  [num |-> 10 * (IF r > 0 THEN e ELSE 1),
         den |-> (10 + OrZero(m.p99[z])) * (IF r > 0 THEN r ELSE 1)]

\* Mutant: a zone without latency is not scored.
ScoreIfMeasured(m, z) ==
    LET r == OrZero(m.rps[z])
        e == IF m.errs[z] # NoData /\ r > 0 THEN Lesser(m.errs[z], r) ELSE 0
    IN  [num |-> IF m.p99[z] = NoData THEN 0 ELSE 10 * (IF r > 0 THEN r - e ELSE 1),
         den |-> (10 + OrZero(m.p99[z])) * (IF r > 0 THEN r ELSE 1)]

\* 1 / (1 + p99_ms/100) * (1 - error_rate); error_rate needs traffic, and is
\* at most 1.
Score(m, z) ==
    LET r == OrZero(m.rps[z])
        e == IF m.errs[z] # NoData /\ r > 0 THEN Lesser(m.errs[z], r) ELSE 0
    IN  [num |-> 10 * (IF r > 0 THEN r - e ELSE 1),
         den |-> (10 + OrZero(m.p99[z])) * (IF r > 0 THEN r ELSE 1)]

\* The quotient a / b in thousandths, rounded half up as math.Round does.
round3(a, b) == (2000 * a + b) \div (2 * b)

\* Normalised scores, rounded, with what rounding left over given to zone2.
WeightsOf(m) ==
    LET s1 == Score(m, "zone1")
        s2 == Score(m, "zone2")
        a == s1.num * s2.den
        b == s2.num * s1.den
        w1 == round3(a, a + b)
        w2 == round3(b, a + b)
    IN  IF ~AnyData(m) \/ a + b = 0 THEN [zone1 |-> 500, zone2 |-> 500]
        ELSE [zone1 |-> w1, zone2 |-> w2 + (1000 - (w1 + w2))]

\* 1.5 times the rate of the busier zone in whole requests; 100 below one
\* request per second.
RateLimit(m) ==
    LET sample == Greater(OrZero(m.rps["zone1"]), OrZero(m.rps["zone2"]))
    IN  IF sample < 2 THEN 100 ELSE (3 * sample + 2) \div 4

buildRecommendations(m) == [weights |-> WeightsOf(m), rps |-> RateLimit(m)]
=============================================================================

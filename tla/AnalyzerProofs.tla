------------------------------- MODULE AnalyzerProofs -------------------------------
(***************************************************************************)
(* For every catalogue of services, all metrics and all answers of the     *)
(* model: what the analyzer publishes is well formed, is there once        *)
(* /healthz says so, and is the heuristic of what Prometheus answered.     *)
(***************************************************************************)
EXTENDS Analyzer, PollHealth, TLAPS

Reading == [Queries -> [Zones -> Nat \cup {NoData}]]

---------------------------------------------------------------------------
(* The heuristic. *)

LEMMA Product == ASSUME NEW a \in Nat, NEW b \in Nat PROVE a * b \in Nat
OBVIOUS

LEMMA PositiveProduct ==
    ASSUME NEW a \in Nat \ {0}, NEW b \in Nat \ {0} PROVE a * b \in Nat \ {0}
OBVIOUS

LEMMA OrZeroNat == ASSUME NEW v \in Nat \cup {NoData} PROVE OrZero(v) \in Nat
BY NoDataAssumption DEF OrZero

LEMMA ReadingFacts ==
    ASSUME NEW m \in Reading, NEW z \in Zones
    PROVE  /\ m.p99[z] \in Nat \cup {NoData}
           /\ m.rps[z] \in Nat \cup {NoData}
           /\ m.errs[z] \in Nat \cup {NoData}
BY DEF Reading, Queries, Zones

\* A score is a fraction of naturals.
LEMMA ScoreTyped ==
    ASSUME NEW m \in Reading, NEW z \in Zones
    PROVE  Score(m, z).num \in Nat /\ Score(m, z).den \in Nat \ {0}
<1> DEFINE r == OrZero(m.rps[z])
           e == IF m.errs[z] # NoData /\ r > 0 THEN Lesser(m.errs[z], r) ELSE 0
<1>1. r \in Nat /\ OrZero(m.p99[z]) \in Nat
  BY OrZeroNat, ReadingFacts
<1>2. e \in Nat /\ e <= r
  BY <1>1, ReadingFacts, NoDataAssumption DEF Lesser
<1>3. 10 * (IF r > 0 THEN r - e ELSE 1) \in Nat
  BY <1>1, <1>2
<1>4. (10 + OrZero(m.p99[z])) * (IF r > 0 THEN r ELSE 1) \in Nat \ {0}
  <2>1. 10 + OrZero(m.p99[z]) \in Nat \ {0} /\ (IF r > 0 THEN r ELSE 1) \in Nat \ {0}
    BY <1>1
  <2>2. QED
    BY <2>1, PositiveProduct
<1>5. Score(m, z) = [num |-> 10 * (IF r > 0 THEN r - e ELSE 1),
                     den |-> (10 + OrZero(m.p99[z])) * (IF r > 0 THEN r ELSE 1)]
  BY DEF Score
<1>6. QED
  BY <1>3, <1>4, <1>5

\* What round3 answers for a share of the whole.
Thousandths == 0..1000

LEMMA Rounded ==
    ASSUME NEW a \in Nat, NEW d \in Nat \ {0}, a <= d
    PROVE  round3(a, d) \in Thousandths
<1>1. 2 * d \in Nat \ {0} /\ 2000 * a + d \in Nat /\ 2000 * a + d < 1001 * (2 * d)
  OBVIOUS
<1>2. ASSUME NEW x \in Nat, NEW y \in Nat \ {0}, x < 1001 * y PROVE x \div y \in 0..1000
  BY <1>2, Z3T(30)
<1>3. QED
  BY <1>1, <1>2 DEF round3, Thousandths

\* The same, quantified.
LEMMA RoundedAll == \A x \in Nat, y \in Nat \ {0} : x <= y => round3(x, y) \in Thousandths
BY Rounded

\* buildRecommendations: whatever was measured, the two weights sum to 1.0.
THEOREM WeightsSumToOne ==
    ASSUME NEW m \in Reading
    PROVE  /\ WeightsOf(m) \in [Zones -> 0..1000]
           /\ WeightsOf(m).zone1 + WeightsOf(m).zone2 = 1000
<1> DEFINE s1 == Score(m, "zone1")
           s2 == Score(m, "zone2")
           a == s1.num * s2.den
           b == s2.num * s1.den
           w1 == round3(a, a + b)
           w2 == round3(b, a + b)
<1>1. a \in Nat /\ b \in Nat
  BY ScoreTyped, Product DEF Zones
<1>2. WeightsOf(m) =
        IF ~AnyData(m) \/ a + b = 0 THEN [zone1 |-> 500, zone2 |-> 500]
        ELSE [zone1 |-> w1, zone2 |-> w2 + (1000 - (w1 + w2))]
  BY DEF WeightsOf
<1> HIDE DEF a, b
<1>3. ASSUME a + b # 0 PROVE w1 \in Thousandths /\ w2 \in Thousandths
  <2> DEFINE d == a + b
  <2>1. d \in Nat \ {0} /\ a <= d /\ b <= d
    BY <1>1, <1>3
  <2> HIDE DEF d
  <2>2. round3(a, d) \in Thousandths
    BY <1>1, <2>1, RoundedAll, Zenon
  <2>3. round3(b, d) \in Thousandths
    BY <1>1, <2>1, RoundedAll, Zenon
  <2>4. QED
    BY <2>2, <2>3 DEF d
<1> HIDE DEF w1, w2
<1>4. CASE ~AnyData(m) \/ a + b = 0
  BY <1>2, <1>4 DEF Zones
<1>5. CASE ~(~AnyData(m) \/ a + b = 0)
  <2>1. w1 \in 0..1000 /\ w2 \in 0..1000
    BY <1>3, <1>5 DEF Thousandths
  <2>2. w2 + (1000 - (w1 + w2)) = 1000 - w1
    BY <2>1
  <2>3. WeightsOf(m) = [zone1 |-> w1, zone2 |-> 1000 - w1]
    BY <1>2, <1>5, <2>2
  <2>4. QED
    BY <2>1, <2>3 DEF Zones
<1>6. QED
  BY <1>4, <1>5

LEMMA RateLimitNat ==
    ASSUME NEW m \in Reading PROVE RateLimit(m) \in Nat
<1> DEFINE sample == Greater(OrZero(m.rps["zone1"]), OrZero(m.rps["zone2"]))
<1>1. sample \in Nat
  <2>1. OrZero(m.rps["zone1"]) \in Nat /\ OrZero(m.rps["zone2"]) \in Nat
    BY OrZeroNat, ReadingFacts DEF Zones
  <2>2. QED
    BY <2>1 DEF Greater
<1>2. ASSUME NEW x \in Nat PROVE x \div 4 \in Nat
  BY <1>2, Z3T(20)
<1>3. 3 * sample + 2 \in Nat
  BY <1>1
<1>4. QED
  BY <1>2, <1>3 DEF RateLimit

LEMMA Recommends ==
    ASSUME NEW m \in Reading PROVE buildRecommendations(m) \in Recommendation
<1>1. WeightsOf(m) \in [Zones -> 0..1001]
  BY WeightsSumToOne DEF Zones
<1>2. QED
  BY <1>1, RateLimitNat DEF buildRecommendations, Recommendation

\* A recommendation is a record of integers, so it is not None.
LEMMA Numeric == \A r \in Recommendation : r \in [weights : [Zones -> Int], rps : Int]
<1>1. \A w \in [Zones -> 0..1001] : w \in [Zones -> Int]
  OBVIOUS
<1>2. SUFFICES ASSUME NEW r \in Recommendation
               PROVE  r \in [weights : [Zones -> Int], rps : Int]
  OBVIOUS
<1>3. /\ r = [weights |-> r.weights, rps |-> r.rps]
      /\ r.weights \in [Zones -> 0..1001]
      /\ r.rps \in Nat
  BY DEF Recommendation
<1>4. r.weights \in [Zones -> Int] /\ r.rps \in Int
  BY <1>1, <1>3
<1>5. QED
  BY <1>3, <1>4

\* The split the model answers, rounded zone by zone.
LEMMA ModelWeights ==
    ASSUME NEW p \in Predictions
    PROVE  [zone1 |-> round3(p, 10000), zone2 |-> round3(10000 - p, 10000)] \in [Zones -> 0..1001]
<1> DEFINE whole == 10000
           rest == whole - p
<1>1. whole \in Nat \ {0} /\ p \in Nat /\ rest \in Nat /\ p <= whole /\ rest <= whole
  <2>1. Predictions \subseteq 0..10000
    BY AnalyzerAssumption
  <2>2. p \in 0..10000
    BY <2>1
  <2>3. QED
    BY <2>2
<1> HIDE DEF whole, rest
<1>2. round3(p, whole) \in Thousandths
  BY <1>1, RoundedAll, Zenon
<1>3. round3(rest, whole) \in Thousandths
  BY <1>1, RoundedAll, Zenon
<1>4. QED
  BY <1>2, <1>3 DEF Zones, Thousandths, whole, rest

---------------------------------------------------------------------------
(* Which zone gets more. *)

LEMMA HalfDown ==
    ASSUME NEW x \in Nat, NEW y \in Nat \ {0}, 2 * x <= y PROVE round3(x, y) <= 500
<1>1. 2000 * x + y < 501 * (2 * y) /\ 2 * y \in Nat \ {0} /\ 2000 * x + y \in Nat
  OBVIOUS
<1>2. ASSUME NEW n \in Nat, NEW d \in Nat \ {0}, n < 501 * d PROVE n \div d <= 500
  BY <1>2, Z3T(30)
<1>3. QED
  BY <1>1, <1>2 DEF round3

LEMMA HalfUp ==
    ASSUME NEW x \in Nat, NEW y \in Nat \ {0}, 2 * x >= y PROVE round3(x, y) >= 500
<1>1. 2000 * x + y >= 500 * (2 * y) /\ 2 * y \in Nat \ {0} /\ 2000 * x + y \in Nat
  OBVIOUS
<1>2. ASSUME NEW n \in Nat, NEW d \in Nat \ {0}, n >= 500 * d PROVE n \div d >= 500
  BY <1>2, Z3T(30)
<1>3. QED
  BY <1>1, <1>2 DEF round3

LEMMA NoneOfIt == ASSUME NEW y \in Nat \ {0} PROVE round3(0, y) = 0
<1>1. 2000 * 0 + y = y /\ 2 * y \in Nat \ {0} /\ y < 2 * y
  OBVIOUS
<1>2. ASSUME NEW n \in Nat, NEW d \in Nat \ {0}, n < d PROVE n \div d = 0
  BY <1>2, Z3T(30)
<1>3. QED
  BY <1>1, <1>2 DEF round3

LEMMA AllOfIt == ASSUME NEW y \in Nat \ {0} PROVE round3(y, y) = 1000
<1>1. 2000 * y + y >= 1000 * (2 * y) /\ 2000 * y + y < 1001 * (2 * y)
      /\ 2 * y \in Nat \ {0} /\ 2000 * y + y \in Nat
  OBVIOUS
<1>2. ASSUME NEW n \in Nat, NEW d \in Nat \ {0}, n >= 1000 * d, n < 1001 * d
      PROVE  n \div d = 1000
  BY <1>2, Z3T(30)
<1>3. QED
  BY <1>1, <1>2 DEF round3

\* A zone's score times the other's denominator: what the weights compare.
Pull(m, z, y) == Score(m, z).num * Score(m, y).den

LEMMA PullNat ==
    ASSUME NEW m \in Reading, NEW z \in Zones, NEW y \in Zones PROVE Pull(m, z, y) \in Nat
BY ScoreTyped, Product DEF Pull

\* The zone with the smaller score never gets the larger weight, and a score of
\* nought against a positive one gets nothing.
LEMMA Share ==
    ASSUME NEW m \in Reading, NEW z \in Zones, NEW y \in Zones \ {z}
    PROVE  /\ Pull(m, z, y) <= Pull(m, y, z) => WeightsOf(m)[z] <= 500 /\ WeightsOf(m)[y] >= 500
           /\ AnyData(m) /\ Pull(m, z, y) = 0 /\ Pull(m, y, z) > 0 => WeightsOf(m)[z] = 0
<1> DEFINE a == Pull(m, "zone1", "zone2")
           b == Pull(m, "zone2", "zone1")
           all == a + b
           w1 == round3(a, all)
           w2 == round3(b, all)
<1>1. a \in Nat /\ b \in Nat
  BY PullNat DEF Zones
<1>2. WeightsOf(m) =
        IF ~AnyData(m) \/ all = 0 THEN [zone1 |-> 500, zone2 |-> 500]
        ELSE [zone1 |-> w1, zone2 |-> w2 + (1000 - (w1 + w2))]
  BY DEF WeightsOf, Pull
<1>3. \/ z = "zone1" /\ y = "zone2" /\ Pull(m, z, y) = a /\ Pull(m, y, z) = b
      \/ z = "zone2" /\ y = "zone1" /\ Pull(m, z, y) = b /\ Pull(m, y, z) = a
  BY DEF Zones
<1> HIDE DEF a, b
<1>4. CASE ~AnyData(m) \/ all = 0
  <2>1. WeightsOf(m)[z] = 500 /\ WeightsOf(m)[y] = 500
    BY <1>2, <1>3, <1>4
  <2>2. AnyData(m) => a = 0 /\ b = 0
    BY <1>1, <1>4
  <2>3. QED
    BY <1>3, <2>1, <2>2
<1>5. CASE AnyData(m) /\ all # 0
  <2>1. all \in Nat \ {0}
    BY <1>1, <1>5
  <2>2. /\ a <= b => 2 * a <= all
        /\ b <= a => 2 * a >= all
        /\ b = 0 => a = all
    BY <1>1
  <2> HIDE DEF all
  <2>3. w1 \in Int /\ w2 \in Int
    <3>1. a <= all /\ b <= all
      BY <1>1 DEF all
    <3>2. round3(a, all) \in Thousandths
      BY <1>1, <2>1, <3>1, RoundedAll, Zenon
    <3>3. round3(b, all) \in Thousandths
      BY <1>1, <2>1, <3>1, RoundedAll, Zenon
    <3>4. QED
      BY <3>2, <3>3 DEF Thousandths
  <2>4. /\ 2 * a <= all => w1 <= 500
        /\ 2 * a >= all => w1 >= 500
        /\ a = 0 => w1 = 0
        /\ a = all => w1 = 1000
    <3>1. 2 * a <= all => round3(a, all) <= 500
      BY <1>1, <2>1, HalfDown
    <3>2. 2 * a >= all => round3(a, all) >= 500
      BY <1>1, <2>1, HalfUp
    <3>3. a = 0 => round3(a, all) = 0
      BY <2>1, NoneOfIt
    <3>4. a = all => round3(a, all) = 1000
      BY <2>1, AllOfIt
    <3>5. QED
      BY <3>1, <3>2, <3>3, <3>4
  <2> HIDE DEF w1, w2
  <2>5. WeightsOf(m) = [zone1 |-> w1, zone2 |-> 1000 - w1]
    <3>1. w2 + (1000 - (w1 + w2)) = 1000 - w1
      BY <2>3
    <3>2. QED
      BY <1>2, <1>5, <3>1
  <2>6. CASE z = "zone1"
    <3>1. WeightsOf(m)[z] = w1 /\ WeightsOf(m)[y] = 1000 - w1
      BY <1>3, <2>5, <2>6
    <3>2. QED
      BY <1>1, <1>3, <2>2, <2>3, <2>4, <2>6, <3>1
  <2>7. CASE z = "zone2"
    <3>1. WeightsOf(m)[z] = 1000 - w1 /\ WeightsOf(m)[y] = w1
      BY <1>3, <2>5, <2>7
    <3>2. QED
      BY <1>1, <1>3, <2>2, <2>3, <2>4, <2>7, <3>1
  <2>8. QED
    BY <2>6, <2>7 DEF Zones
<1>6. QED
  BY <1>4, <1>5

\* Latency and traffic of a zone, with traffic and without.
LEMMA ScoreIs ==
    ASSUME NEW m \in Reading, NEW z \in Zones
    PROVE  /\ OrZero(m.rps[z]) \in Nat /\ OrZero(m.p99[z]) \in Nat
           /\ Errors(m, z) \in Nat /\ Errors(m, z) <= OrZero(m.rps[z])
           /\ OrZero(m.rps[z]) > 0 =>
                /\ m.rps[z] = OrZero(m.rps[z])
                /\ Score(m, z).num = 10 * (m.rps[z] - Errors(m, z))
                /\ Score(m, z).den = (10 + OrZero(m.p99[z])) * m.rps[z]
           /\ OrZero(m.rps[z]) = 0 =>
                /\ Score(m, z).num = 10
                /\ Score(m, z).den = 10 + OrZero(m.p99[z])
<1> DEFINE r == OrZero(m.rps[z])
           e == IF m.errs[z] # NoData /\ r > 0 THEN Lesser(m.errs[z], r) ELSE 0
           l == OrZero(m.p99[z])
<1>1. r \in Nat /\ l \in Nat /\ OrZero(m.errs[z]) \in Nat
  BY OrZeroNat, ReadingFacts
<1>2. Errors(m, z) \in Nat /\ Errors(m, z) <= r
  BY <1>1 DEF Errors, Lesser
<1>3. Score(m, z) = [num |-> 10 * (IF r > 0 THEN r - e ELSE 1),
                     den |-> (10 + l) * (IF r > 0 THEN r ELSE 1)]
  BY DEF Score
<1>4. ASSUME r > 0 PROVE m.rps[z] = r /\ e = Errors(m, z)
  <2>1. m.rps[z] = r
    BY <1>4, ReadingFacts, NoDataAssumption DEF OrZero
  <2>2. CASE m.errs[z] = NoData
    BY <1>1, <1>4, <2>2 DEF Errors, Lesser, OrZero
  <2>3. CASE m.errs[z] # NoData
    BY <1>1, <1>4, <2>3 DEF Errors, OrZero
  <2>4. QED
    BY <2>1, <2>2, <2>3
<1> HIDE DEF r, e, l
<1>5. r > 0 => /\ m.rps[z] = r
               /\ Score(m, z).num = 10 * (r - Errors(m, z))
               /\ Score(m, z).den = (10 + l) * r
  BY <1>3, <1>4
<1>6. r = 0 => Score(m, z).num = 10 * 1 /\ Score(m, z).den = (10 + l) * 1
  BY <1>3
<1>7. QED
  BY <1>1, <1>2, <1>5, <1>6 DEF r, l

LEMMA ReadingsTyped == Readings \subseteq Reading
<1> SUFFICES ASSUME NEW m \in Readings PROVE m \in Reading
  OBVIOUS
<1>1. /\ m = [p99 |-> m.p99, rps |-> m.rps, errs |-> m.errs]
      /\ m.p99 \in Of(Latencies) /\ m.rps \in Of(Rates) /\ m.errs \in Of(Rates)
  BY DEF Readings
<1>2. /\ m.p99 \in [Zones -> Nat \cup {NoData}]
      /\ m.rps \in [Zones -> Nat \cup {NoData}]
      /\ m.errs \in [Zones -> Nat \cup {NoData}]
  BY <1>1, ReadingsAssumption DEF Of
<1> DEFINE V == [Zones -> Nat \cup {NoData}]
           p == m.p99
           r == m.rps
           e == m.errs
<1>3. p \in V /\ r \in V /\ e \in V /\ m = [p99 |-> p, rps |-> r, errs |-> e]
  BY <1>1, <1>2
<1> HIDE DEF V, p, r, e
<1>4. m \in [Queries -> V]
  BY <1>3 DEF Queries
<1>5. QED
  BY <1>4 DEF V, Reading

\* Products of ordered factors are ordered.
LEMMA ProductsOrdered ==
    \A u \in Nat, v \in Nat, p \in Nat, q \in Nat : u <= v /\ p <= q => u * p <= v * q
<1> SUFFICES ASSUME NEW u \in Nat, NEW v \in Nat, NEW p \in Nat, NEW q \in Nat, u <= v, p <= q
             PROVE  u * p <= v * q
  OBVIOUS
<1>1. (v - u) * p >= 0 /\ v * (q - p) >= 0
  OBVIOUS
<1>2. (v - u) * p = v * p - u * p /\ v * (q - p) = v * q - v * p
  OBVIOUS
<1>3. QED
  BY <1>1, <1>2

\* r, e and l are traffic, errors and latency of a zone, s, f and k those of a
\* faster one that fails a smaller share.
LEMMA WorsePulls ==
    ASSUME NEW r \in Nat, NEW e \in Nat, NEW l \in Nat, NEW s \in Nat, NEW f \in Nat, NEW k \in Nat,
           e <= r, f <= s, k <= l, f * r <= e * s
    PROVE  (10 * (r - e)) * ((10 + k) * s) <= (10 * (s - f)) * ((10 + l) * r)
<1> DEFINE u == (r - e) * s
           v == (s - f) * r
           p == 10 * (10 + k)
           q == 10 * (10 + l)
<1>1. u = r * s - e * s /\ v = r * s - f * r
  OBVIOUS
<1>2. u <= v
  BY <1>1
<1>3. u \in Nat /\ v \in Nat /\ p \in Nat /\ q \in Nat /\ p <= q
  OBVIOUS
<1>4. /\ (10 * (r - e)) * ((10 + k) * s) = u * p
      /\ (10 * (s - f)) * ((10 + l) * r) = v * q
  OBVIOUS
<1> HIDE DEF u, v, p, q
<1>5. u * p <= v * q
  BY <1>2, <1>3, ProductsOrdered, Zenon
<1>6. QED
  BY <1>4, <1>5

\* Of two zones with latency and traffic, the slower one that fails a larger
\* share never gets more than half; one that fails every request gets nothing
\* while the other answers some: for every latency, rate and share there is.
THEOREM WorseNeverMore ==
    ASSUME NEW m \in Reading, NEW z \in Zones, NEW y \in Zones \ {z}
    PROVE  /\ Worse(m, z, y) => WeightsOf(m)[z] <= 500
           /\ AllFail(m, z) /\ ~AllFail(m, y) => WeightsOf(m)[z] = 0
<1>1. ASSUME Worse(m, z, y) PROVE WeightsOf(m)[z] <= 500
  <2> DEFINE r == m.rps[z]
             e == Errors(m, z)
             l == m.p99[z]
             s == m.rps[y]
             f == Errors(m, y)
             k == m.p99[y]
  <2>1. /\ r \in Nat /\ e \in Nat /\ l \in Nat /\ s \in Nat /\ f \in Nat /\ k \in Nat
        /\ e <= r /\ f <= s /\ k <= l /\ f * r <= e * s
    <3>1. OrZero(m.rps[z]) > 0 /\ OrZero(m.rps[y]) > 0
          /\ m.p99[z] # NoData /\ m.p99[y] # NoData /\ k <= l /\ f * r <= e * s
      BY <1>1 DEF Worse, Measured
    <3>2. m.p99[z] \in Nat /\ m.p99[y] \in Nat
      BY <3>1, ReadingFacts
    <3>3. r = OrZero(m.rps[z]) /\ s = OrZero(m.rps[y])
      BY <3>1, ScoreIs
    <3>4. QED
      BY <3>1, <3>2, <3>3, ScoreIs
  <2>2. /\ Pull(m, z, y) = (10 * (r - e)) * ((10 + k) * s)
        /\ Pull(m, y, z) = (10 * (s - f)) * ((10 + l) * r)
    <3>1. OrZero(m.rps[z]) > 0 /\ OrZero(m.rps[y]) > 0
          /\ OrZero(m.p99[z]) = l /\ OrZero(m.p99[y]) = k
      BY <1>1 DEF Worse, Measured, OrZero
    <3>2. QED
      BY <3>1, ScoreIs DEF Pull
  <2> HIDE DEF r, e, l, s, f, k
  <2>3. Pull(m, z, y) <= Pull(m, y, z)
    BY <2>1, <2>2, WorsePulls
  <2>4. QED
    BY <2>3, Share
<1>2. ASSUME AllFail(m, z), ~AllFail(m, y) PROVE WeightsOf(m)[z] = 0
  <2>1. Score(m, z).num = 0 /\ AnyData(m)
    BY <1>2, ScoreIs DEF AllFail, AnyData
  <2>2. Score(m, y).num \in Nat \ {0}
    BY <1>2, ScoreIs DEF AllFail
  <2>3. Score(m, z).den \in Nat \ {0} /\ Score(m, y).den \in Nat \ {0}
    BY ScoreTyped
  <2>4. Pull(m, z, y) = 0
    BY <2>1, <2>3 DEF Pull
  <2>5. Pull(m, y, z) \in Nat \ {0}
    BY <2>2, <2>3, PositiveProduct DEF Pull
  <2>6. QED
    BY <2>1, <2>4, <2>5, Share
<1>3. QED
  BY <1>1, <1>2

\* A zone without latency and traffic gets at least half, whatever the other
\* zone answers.
THEOREM SilentAtLeastHalf ==
    ASSUME NEW m \in Reading, NEW z \in Zones, m.p99[z] = NoData, OrZero(m.rps[z]) = 0
    PROVE  WeightsOf(m)[z] >= 500
<1> PICK y \in Zones \ {z} : TRUE
  BY DEF Zones
<1>1. Score(m, z).num = 10 /\ Score(m, z).den = 10
  BY ScoreIs DEF OrZero
<1>2. Score(m, y).num <= Score(m, y).den /\ Score(m, y).num \in Nat /\ Score(m, y).den \in Nat
  <2> DEFINE r == OrZero(m.rps[y])
             e == Errors(m, y)
             l == OrZero(m.p99[y])
  <2>1. r \in Nat /\ e \in Nat /\ l \in Nat /\ e <= r
    BY ScoreIs
  <2>2. CASE r = 0
    BY <2>1, <2>2, ScoreIs
  <2>3. CASE r > 0
    <3>1. Score(m, y).num = 10 * (r - e) /\ Score(m, y).den = (10 + l) * r
      BY <2>3, ScoreIs
    <3> HIDE DEF r, e, l
    <3>2. 10 * (r - e) <= 10 * r /\ (10 + l) * r = 10 * r + l * r /\ l * r >= 0
      BY <2>1
    <3>3. QED
      BY <2>1, <3>1, <3>2, ScoreTyped
  <2>4. QED
    BY <2>1, <2>2, <2>3
<1>3. Pull(m, y, z) <= Pull(m, z, y)
  BY <1>1, <1>2 DEF Pull
<1>4. z \in Zones \ {y}
  OBVIOUS
<1>5. QED
  BY <1>3, <1>4, Share

\* Rounding keeps the order of fractions.
LEMMA DivMonotone ==
    ASSUME NEW n \in Nat, NEW k \in Nat, NEW d \in Nat \ {0}, NEW e \in Nat \ {0}, n * e <= k * d
    PROVE  n \div d <= k \div e
<1> DEFINE q == n \div d
           p == k \div e
<1>1. q \in Nat /\ p \in Nat /\ q * d <= n /\ k < (p + 1) * e
  <2>1. ASSUME NEW x \in Nat, NEW y \in Nat \ {0}
        PROVE  x \div y \in Nat /\ (x \div y) * y <= x /\ x < (x \div y + 1) * y
    BY <2>1, Z3T(30)
  <2>2. QED
    BY <2>1
<1> HIDE DEF q, p
<1>2. SUFFICES ASSUME q >= p + 1 PROVE FALSE
  BY <1>1 DEF q, p
<1>3. (q * d) * e <= n * e /\ k * d < ((p + 1) * e) * d
  <2>1. ASSUME NEW u \in Nat, NEW v \in Nat, NEW w \in Nat \ {0}
        PROVE  (u <= v => u * w <= v * w) /\ (u < v => u * w < v * w)
    <3>1. u <= v => (v - u) * w >= 0
      BY <2>1
    <3>2. u < v => (v - u) * w > 0
      BY <2>1
    <3>3. (v - u) * w = v * w - u * w
      BY <2>1
    <3>4. QED
      BY <2>1, <3>1, <3>2, <3>3
  <2>2. q * d \in Nat /\ (p + 1) * e \in Nat
    BY <1>1
  <2>3. QED
    BY <1>1, <2>1, <2>2
<1>4. (q * d) * e = q * (d * e) /\ ((p + 1) * e) * d = (p + 1) * (d * e) /\ d * e \in Nat
  BY <1>1
<1>5. (q - (p + 1)) * (d * e) >= 0 /\ (q - (p + 1)) * (d * e) = q * (d * e) - (p + 1) * (d * e)
  BY <1>1, <1>2
<1>6. n * e \in Nat /\ k * d \in Nat /\ q * (d * e) \in Int /\ (p + 1) * (d * e) \in Int
  BY <1>1
<1>7. QED
  BY <1>3, <1>4, <1>5, <1>6

LEMMA RoundMonotone ==
    ASSUME NEW x \in Nat, NEW u \in Nat, NEW y \in Nat \ {0}, NEW v \in Nat \ {0}, x * v <= u * y
    PROVE  round3(x, y) <= round3(u, v)
<1> DEFINE n == 2000 * x + y
           k == 2000 * u + v
           d == 2 * y
           e == 2 * v
<1>1. n \in Nat /\ k \in Nat /\ d \in Nat \ {0} /\ e \in Nat \ {0}
  OBVIOUS
<1>2. n * e = 4000 * (x * v) + 2 * (y * v) /\ k * d = 4000 * (u * y) + 2 * (y * v)
  OBVIOUS
<1>3. x * v \in Nat /\ u * y \in Nat /\ y * v \in Nat
  OBVIOUS
<1>4. n * e <= k * d
  BY <1>2, <1>3
<1> HIDE DEF n, k, d, e
<1>5. n \div d <= k \div e
  BY <1>1, <1>4, DivMonotone
<1>6. QED
  BY <1>5 DEF n, k, d, e, round3

\* n is what m is, except that zone z has become better or stayed as it is:
\* no slower, and failing no larger share of its requests.
Improved(m, n, z) ==
    /\ Measured(m, z) /\ Measured(n, z)
    /\ n.p99[z] <= m.p99[z]
    /\ Errors(n, z) * m.rps[z] <= Errors(m, z) * n.rps[z]
    /\ \A y \in Zones \ {z} : \A q \in Queries : n[q][y] = m[q][y]

\* A zone's weight in terms of what pulls at it and away from it.
LEMMA WeightIs ==
    ASSUME NEW m \in Reading, NEW z \in Zones, NEW y \in Zones \ {z}, AnyData(m)
    PROVE  LET own == Pull(m, z, y)
               all == own + Pull(m, y, z)
           IN  WeightsOf(m)[z] = IF all = 0 THEN 500
                                 ELSE IF z = "zone1" THEN round3(own, all)
                                 ELSE 1000 - round3(Pull(m, y, z), all)
<1> DEFINE a == Pull(m, "zone1", "zone2")
           b == Pull(m, "zone2", "zone1")
           all == a + b
           w1 == round3(a, all)
           w2 == round3(b, all)
<1>1. a \in Nat /\ b \in Nat
  BY PullNat DEF Zones
<1>2. WeightsOf(m) = IF all = 0 THEN [zone1 |-> 500, zone2 |-> 500]
                     ELSE [zone1 |-> w1, zone2 |-> w2 + (1000 - (w1 + w2))]
  BY DEF WeightsOf, Pull
<1>3. all # 0 => w2 + (1000 - (w1 + w2)) = 1000 - w1
  <2>1. SUFFICES ASSUME all # 0 PROVE w1 \in Int /\ w2 \in Int
    OBVIOUS
  <2>2. all \in Nat \ {0} /\ a <= all /\ b <= all
    BY <1>1, <2>1
  <2> HIDE DEF all, a, b
  <2>3. w1 \in Thousandths /\ w2 \in Thousandths
    BY <1>1, <2>2, RoundedAll
  <2>4. QED
    BY <2>3 DEF Thousandths
<1> HIDE DEF w1, w2
<1>4. CASE z = "zone1"
  <2>1. y = "zone2"
    BY <1>4 DEF Zones
  <2>2. WeightsOf(m)[z] = IF all = 0 THEN 500 ELSE w1
    BY <1>2, <1>4
  <2>3. QED
    BY <1>4, <2>1, <2>2 DEF w1
<1>5. CASE z = "zone2"
  <2>1. y = "zone1"
    BY <1>5 DEF Zones
  <2>2. WeightsOf(m)[z] = IF all = 0 THEN 500 ELSE 1000 - w1
    BY <1>2, <1>3, <1>5
  <2>3. b + a = all
    BY <1>1
  <2>4. QED
    BY <1>5, <2>1, <2>2, <2>3 DEF w1
<1>6. QED
  BY <1>4, <1>5 DEF Zones

\* Whoever's score does not fall does not lose weight, the other's being what
\* it was.
LEMMA ShareMonotone ==
    ASSUME NEW m \in Reading, NEW n \in Reading, NEW z \in Zones, NEW y \in Zones \ {z},
           AnyData(m), AnyData(n), Score(n, y) = Score(m, y),
           Score(m, z).num * Score(n, z).den <= Score(n, z).num * Score(m, z).den
    PROVE  WeightsOf(m)[z] <= WeightsOf(n)[z]
<1> DEFINE c == Score(m, y).num
           d == Score(m, y).den
           a1 == Score(m, z).num
           b1 == Score(m, z).den
           a2 == Score(n, z).num
           b2 == Score(n, z).den
           own1 == a1 * d
           oth1 == c * b1
           own2 == a2 * d
           oth2 == c * b2
           all1 == own1 + oth1
           all2 == own2 + oth2
<1>1. /\ c \in Nat /\ a1 \in Nat /\ a2 \in Nat
      /\ d \in Nat \ {0} /\ b1 \in Nat \ {0} /\ b2 \in Nat \ {0}
      /\ a1 * b2 <= a2 * b1
  BY ScoreTyped
<1>2. /\ Pull(m, z, y) = own1 /\ Pull(m, y, z) = oth1
      /\ Pull(n, z, y) = own2 /\ Pull(n, y, z) = oth2
  BY DEF Pull
<1>3. WeightsOf(m)[z] = IF all1 = 0 THEN 500 ELSE IF z = "zone1" THEN round3(own1, all1)
                        ELSE 1000 - round3(oth1, all1)
  BY <1>2, WeightIs
<1>4. WeightsOf(n)[z] = IF all2 = 0 THEN 500 ELSE IF z = "zone1" THEN round3(own2, all2)
                        ELSE 1000 - round3(oth2, all2)
  BY <1>2, WeightIs
<1> HIDE DEF c, d, a1, b1, a2, b2
<1>5. own1 \in Nat /\ oth1 \in Nat /\ own2 \in Nat /\ oth2 \in Nat
  BY <1>1, Product
<1>6. own1 * oth2 <= own2 * oth1
  <2>1. own1 * oth2 = (a1 * b2) * (c * d) /\ own2 * oth1 = (a2 * b1) * (c * d)
    BY <1>1
  <2> DEFINE u == a1 * b2
             v == a2 * b1
             k == c * d
  <2>2. u \in Nat /\ v \in Nat /\ k \in Nat /\ u <= v
    BY <1>1, Product
  <2> HIDE DEF u, v, k
  <2>3. u * k <= v * k
    BY <2>2, ProductsOrdered
  <2>4. QED
    BY <2>1, <2>3 DEF u, v, k
\* What is nought on one side stays so on the other.
<1>7. oth1 = 0 <=> oth2 = 0
  <2>1. c = 0 => oth1 = 0 /\ oth2 = 0
    BY <1>1
  <2>2. c # 0 => oth1 # 0 /\ oth2 # 0
    BY <1>1, PositiveProduct
  <2>3. QED
    BY <2>1, <2>2
<1>8. own2 = 0 => own1 = 0
  <2>1. own2 = 0 => a2 = 0
    BY <1>1, PositiveProduct
  <2>2. a2 = 0 => a1 * b2 = 0
    BY <1>1
  <2>3. a1 * b2 = 0 => a1 = 0
    BY <1>1, PositiveProduct
  <2>4. a1 = 0 => own1 = 0
    BY <1>1
  <2>5. QED
    BY <2>1, <2>2, <2>3, <2>4
<1> HIDE DEF own1, oth1, own2, oth2
<1>9. CASE all1 = 0
  <2>1. own1 = 0 /\ oth1 = 0 /\ oth2 = 0
    BY <1>5, <1>7, <1>9
  <2>2. all2 # 0 => own2 = all2 /\ all2 \in Nat \ {0}
    BY <1>5, <2>1
  <2>3. all2 # 0 => round3(own2, all2) = 1000 /\ round3(oth2, all2) = 0
    BY <2>1, <2>2, AllOfIt, NoneOfIt
  <2>4. QED
    BY <1>3, <1>4, <1>9, <2>3
<1>10. CASE all1 # 0
  <2>1. all2 # 0 /\ all1 \in Nat \ {0} /\ all2 \in Nat \ {0}
    BY <1>5, <1>7, <1>8, <1>10
  <2>2. own1 * all2 <= own2 * all1 /\ oth2 * all1 <= oth1 * all2
    <3>1. /\ own1 * all2 = own1 * own2 + own1 * oth2
          /\ own2 * all1 = own1 * own2 + own2 * oth1
          /\ oth2 * all1 = own1 * oth2 + oth1 * oth2
          /\ oth1 * all2 = own2 * oth1 + oth1 * oth2
      BY <1>5
    <3>2. /\ own1 * own2 \in Nat /\ oth1 * oth2 \in Nat
          /\ own1 * oth2 \in Nat /\ own2 * oth1 \in Nat
      BY <1>5, Product
    <3>3. QED
      BY <1>6, <3>1, <3>2
  <2>3. own1 <= all1 /\ own2 <= all2 /\ oth1 <= all1 /\ oth2 <= all2
    BY <1>5
  <2> HIDE DEF all1, all2
  <2>4. round3(own1, all1) <= round3(own2, all2)
    BY <1>5, <2>1, <2>2, RoundMonotone
  <2>5. round3(oth2, all2) <= round3(oth1, all1)
    BY <1>5, <2>1, <2>2, RoundMonotone
  <2>6. round3(oth1, all1) \in Thousandths /\ round3(oth2, all2) \in Thousandths
    BY <1>5, <2>1, <2>3, RoundedAll
  <2> DEFINE w1 == round3(own1, all1)
             w2 == round3(own2, all2)
             v1 == round3(oth1, all1)
             v2 == round3(oth2, all2)
  <2>7. /\ WeightsOf(m)[z] = IF z = "zone1" THEN w1 ELSE 1000 - v1
        /\ WeightsOf(n)[z] = IF z = "zone1" THEN w2 ELSE 1000 - v2
    BY <1>3, <1>4, <1>10, <2>1
  <2>8. v1 \in Int /\ v2 \in Int /\ w1 <= w2 /\ v2 <= v1
    BY <2>4, <2>5, <2>6 DEF Thousandths
  <2> HIDE DEF w1, w2, v1, v2
  <2>9. CASE z = "zone1"
    BY <2>7, <2>8, <2>9
  <2>10. CASE z # "zone1"
    <3>1. WeightsOf(m)[z] = 1000 - v1 /\ WeightsOf(n)[z] = 1000 - v2
      BY <2>7, <2>10
    <3>2. QED
      BY <2>8, <3>1
  <2>11. QED
    BY <2>9, <2>10
<1>11. QED
  BY <1>9, <1>10

\* A zone that becomes faster, or fails a smaller share of its requests, never
\* loses weight by it while the other zone is as it was: buildRecommendations
\* never punishes a recovery, whatever the rounding does.
THEOREM ImprovementNeverPunished ==
    ASSUME NEW m \in Reading, NEW n \in Reading, NEW z \in Zones, Improved(m, n, z)
    PROVE  WeightsOf(m)[z] <= WeightsOf(n)[z]
<1> PICK y \in Zones \ {z} : TRUE
  BY DEF Zones
<1>1. OrZero(m.rps[z]) > 0 /\ OrZero(n.rps[z]) > 0 /\ m.p99[z] # NoData /\ n.p99[z] # NoData
  BY DEF Improved, Measured
<1>2. AnyData(m) /\ AnyData(n)
  BY <1>1 DEF AnyData
<1>3. Score(n, y) = Score(m, y)
  <2>1. n.p99[y] = m.p99[y] /\ n.rps[y] = m.rps[y] /\ n.errs[y] = m.errs[y]
    BY DEF Improved, Queries
  <2>2. QED
    BY <2>1 DEF Score
<1>4. Score(m, z).num * Score(n, z).den <= Score(n, z).num * Score(m, z).den
  <2> DEFINE r == m.rps[z]
             e == Errors(m, z)
             l == m.p99[z]
             s == n.rps[z]
             f == Errors(n, z)
             k == n.p99[z]
  <2>1. /\ r \in Nat /\ e \in Nat /\ l \in Nat /\ s \in Nat /\ f \in Nat /\ k \in Nat
        /\ e <= r /\ f <= s /\ k <= l /\ f * r <= e * s
    <3>1. l \in Nat /\ k \in Nat
      BY <1>1, ReadingFacts
    <3>2. k <= l /\ f * r <= e * s
      BY DEF Improved
    <3>3. r = OrZero(m.rps[z]) /\ s = OrZero(n.rps[z])
      BY <1>1, ScoreIs
    <3>4. QED
      BY <3>1, <3>2, <3>3, ScoreIs
  <2>2. /\ Score(m, z).num = 10 * (r - e) /\ Score(m, z).den = (10 + l) * r
        /\ Score(n, z).num = 10 * (s - f) /\ Score(n, z).den = (10 + k) * s
    <3>1. OrZero(m.p99[z]) = l /\ OrZero(n.p99[z]) = k
      BY <1>1 DEF OrZero
    <3>2. QED
      BY <1>1, <3>1, ScoreIs
  <2> HIDE DEF r, e, l, s, f, k
  <2>3. QED
    BY <2>1, <2>2, WorsePulls
<1>5. QED
  BY <1>2, <1>3, <1>4, ShareMonotone

\* The limit leaves room for all the traffic the busier zone carries; rates are
\* in halves of a request.
LEMMA LimitCoversTraffic ==
    ASSUME NEW m \in Reading, NEW z \in Zones
    PROVE  OrZero(m.rps[z]) <= 2 * RateLimit(m)
<1> DEFINE a == OrZero(m.rps["zone1"])
           b == OrZero(m.rps["zone2"])
           sample == Greater(a, b)
<1>1. a \in Nat /\ b \in Nat
  BY OrZeroNat, ReadingFacts DEF Zones
<1>2. OrZero(m.rps[z]) \in {a, b}
  BY DEF Zones
<1>3. RateLimit(m) = IF sample < 2 THEN 100 ELSE (3 * sample + 2) \div 4
  BY DEF RateLimit
<1> HIDE DEF a, b
<1>4. sample \in Nat /\ a <= sample /\ b <= sample
  BY <1>1 DEF Greater
<1> HIDE DEF sample
<1>5. ASSUME NEW x \in Nat, x >= 2 PROVE x <= 2 * ((3 * x + 2) \div 4)
  BY <1>5, Z3T(30)
<1>6. sample <= 2 * RateLimit(m)
  <2>1. CASE sample < 2
    BY <1>3, <1>4, <2>1
  <2>2. CASE sample >= 2
    BY <1>3, <1>4, <1>5, <2>2
  <2>3. QED
    BY <1>4, <2>1, <2>2
<1>7. RateLimit(m) \in Nat
  BY RateLimitNat
<1>8. QED
  BY <1>1, <1>2, <1>4, <1>6, <1>7

\* What the heuristic promises of one reading: it splits the whole traffic,
\* gives nothing to a zone that fails all its requests while the other does
\* not, no more than half to the worse one, at least half to one without
\* series, and limits nobody below the traffic there is.
Sound(m, r) ==
    /\ r.weights["zone1"] + r.weights["zone2"] = 1000
    /\ \A z \in Zones : \A y \in Zones \ {z} :
         /\ AllFail(m, z) /\ ~AllFail(m, y) => r.weights[z] = 0 /\ r.weights[y] = 1000
         /\ Worse(m, z, y) => r.weights[z] <= r.weights[y]
         /\ m.p99[z] = NoData /\ OrZero(m.rps[z]) = 0 => r.weights[y] <= r.weights[z]
    /\ \A z \in Zones : OrZero(m.rps[z]) <= 2 * r.rps

LEMMA RecommendsSoundly ==
    ASSUME NEW m \in Reading, NEW r, r.weights = WeightsOf(m), r.rps = RateLimit(m)
    PROVE  Sound(m, r)
<1> DEFINE w == WeightsOf(m)
<1>1. \E u, v \in Int : u + v = 1000 /\ w["zone1"] = u /\ w["zone2"] = v
  <2>1. w \in [Zones -> Thousandths] /\ w["zone1"] + w["zone2"] = 1000
    BY WeightsSumToOne DEF Thousandths
  <2> HIDE DEF w
  <2>2. \A x \in Thousandths : x \in Int
    BY DEF Thousandths
  <2>3. w["zone1"] \in Int /\ w["zone2"] \in Int
    BY <2>1, <2>2 DEF Zones
  <2>4. QED
    BY <2>1, <2>3
<1>2. ASSUME NEW z \in Zones, NEW y \in Zones \ {z}
      PROVE  w[z] \in Int /\ w[y] \in Int /\ w[z] + w[y] = 1000
  <2>1. (z = "zone1" /\ y = "zone2") \/ (z = "zone2" /\ y = "zone1")
    BY DEF Zones
  <2>2. PICK u \in Int, v \in Int : u + v = 1000 /\ w["zone1"] = u /\ w["zone2"] = v
    BY <1>1
  <2>3. (w[z] = u /\ w[y] = v) \/ (w[z] = v /\ w[y] = u)
    BY <2>1, <2>2
  <2> HIDE DEF w
  <2>4. QED
    BY <2>2, <2>3
<1>3. ASSUME NEW z \in Zones, NEW y \in Zones \ {z}
      PROVE  /\ AllFail(m, z) /\ ~AllFail(m, y) => w[z] = 0
             /\ Worse(m, z, y) => w[z] <= 500
             /\ m.p99[z] = NoData /\ OrZero(m.rps[z]) = 0 => w[z] >= 500
  <2>1. m.p99[z] = NoData /\ OrZero(m.rps[z]) = 0 => w[z] >= 500
    BY SilentAtLeastHalf
  <2>2. QED
    BY <2>1, WorseNeverMore
<1> HIDE DEF w
<1>4. ASSUME NEW z \in Zones, NEW y \in Zones \ {z}
      PROVE  /\ AllFail(m, z) /\ ~AllFail(m, y) => w[z] = 0 /\ w[y] = 1000
             /\ Worse(m, z, y) => w[z] <= w[y]
             /\ m.p99[z] = NoData /\ OrZero(m.rps[z]) = 0 => w[y] <= w[z]
  <2>1. AllFail(m, z) /\ ~AllFail(m, y) => w[z] = 0 /\ w[y] = 1000
    BY <1>2, <1>3
  <2>2. Worse(m, z, y) => w[z] <= w[y]
    BY <1>2, <1>3
  <2>3. m.p99[z] = NoData /\ OrZero(m.rps[z]) = 0 => w[y] <= w[z]
    BY <1>2, <1>3
  <2>4. QED
    BY <2>1, <2>2, <2>3
<1>5. \A z \in Zones : OrZero(m.rps[z]) <= 2 * r.rps
  BY LimitCoversTraffic
<1>6. r.weights = w
  BY DEF w
<1>7. QED
  BY <1>1, <1>4, <1>5, <1>6 DEF Sound

---------------------------------------------------------------------------
(* The cycle. *)

\* What is set, in the order publish sets it.
Serving ==
    /\ pc \in {"stamp", "count"} => current # None
    /\ pc = "count" => recorded
    /\ HealthyMeansServing

\* The queries already asked.
Asked == CASE pc = "rps" -> {"p99"}
           [] pc = "errs" -> {"p99", "rps"}
           [] pc \in {"build", "infer", "publish"} -> Queries
           [] OTHER -> {}

\* The answers of a cycle nothing disturbed are still those of Prometheus.
Fresh ==
    ~torn => \A s \in Services, q \in Asked \ failed : got[s][q] = prom[s][q]

\* The recommendations in the making are those of the answers.
Made ==
    /\ pc \in {"infer", "publish"} => \A s \in Services :
         /\ rec[s].rps = RateLimit(got[s])
         /\ ~byModel => rec[s].weights = WeightsOf(got[s])
    /\ pc \in {"p99", "rps", "errs", "build", "infer"} => ~byModel

Inv == TypeOK /\ Serving /\ Fresh /\ Made /\ ExactWhenQuiet

LEMMA NoMetricsTyped == \A s \in Services : NoMetrics[s] \in Reading
BY DEF NoMetrics, NoAnswer, Reading

LEMMA NoRecTyped == NoRec \in [Services -> Recommendation]
BY NoMetricsTyped, Recommends DEF NoRec

LEMMA InvInit == Init => Inv
<1> SUFFICES ASSUME Init PROVE Inv
  OBVIOUS
<1>1. TypeOK
  <2>1. \A s \in Services : got[s] \in [Queries -> [Zones -> Nat \cup {NoData}]]
    BY NoMetricsTyped DEF Init, Reading
  <2>2. rec \in [Services -> Recommendation]
    BY NoRecTyped DEF Init
  <2>3. QED
    BY <2>1, <2>2 DEF Init, TypeOK
<1>2. Serving /\ Made /\ ExactWhenQuiet
  BY DEF Init, Serving, HealthyMeansServing, Made, ExactWhenQuiet
<1>3. Fresh
  BY DEF Init, Fresh, Asked
<1>4. QED
  BY <1>1, <1>2, <1>3 DEF Inv

LEMMA MetricsChangeStep ==
    ASSUME Inv, NEW s \in Services, NEW m \in Metrics, MetricsChange(s, m) PROVE Inv'
<1> USE DEF MetricsChange, cycle, published
<1>1. TypeOK'
  BY DEF Inv, TypeOK
<1>2. Serving' /\ Made' /\ ExactWhenQuiet'
  BY DEF Inv, Serving, HealthyMeansServing, Made, ExactWhenQuiet
<1>3. Fresh'
  BY DEF Inv, TypeOK, Fresh, Asked
<1>4. QED
  BY <1>1, <1>2, <1>3 DEF Inv

LEMMA StartCycleStep == ASSUME Inv, StartCycle PROVE Inv'
<1> USE DEF StartCycle, cycle, published
<1>1. TypeOK'
  <2>1. (\A s \in Services : got[s] \in [Queries -> [Zones -> Nat \cup {NoData}]])'
    BY NoMetricsTyped DEF Reading
  <2>2. rec' \in [Services -> Recommendation]
    BY NoRecTyped
  <2>3. QED
    BY <2>1, <2>2 DEF Inv, TypeOK
<1>2. Serving' /\ Made' /\ ExactWhenQuiet'
  BY DEF Inv, Serving, HealthyMeansServing, Made, ExactWhenQuiet
<1>3. Fresh'
  BY DEF Fresh, Asked
<1>4. QED
  BY <1>1, <1>2, <1>3 DEF Inv

LEMMA QueryAnsweredStep ==
    ASSUME Inv, NEW q \in Queries, QueryAnswered(q) PROVE Inv'
<1> USE DEF QueryAnswered, cycle, published
<1>1. TypeOK'
  <2>1. (\A s \in Services : got[s] \in [Queries -> [Zones -> Nat \cup {NoData}]])'
    <3> SUFFICES ASSUME NEW s \in Services
                 PROVE  got'[s] \in [Queries -> [Zones -> Nat \cup {NoData}]]
      BY Zenon
    <3>1. got[s] \in [Queries -> [Zones -> Nat \cup {NoData}]]
      BY DEF Inv, TypeOK
    <3>2. prom[s] \in [Queries -> [Zones -> Nat \cup {NoData}]]
      BY AnalyzerAssumption DEF Inv, TypeOK
    <3>3. got'[s] = [got[s] EXCEPT ![q] = prom[s][q]]
      OBVIOUS
    <3>4. QED
      BY <3>1, <3>2, <3>3
  <2>2. pc' \in {"rps", "errs", "build"}
    BY DEF After, Queries
  <2>3. QED
    BY <2>1, <2>2 DEF Inv, TypeOK
<1>2. Serving'
  BY DEF Inv, Serving, HealthyMeansServing, After, Queries
<1>3. Made' /\ ExactWhenQuiet'
  BY DEF Inv, Made, ExactWhenQuiet, After, Queries
<1>4. Fresh'
  <2> SUFFICES ASSUME ~torn, NEW s \in Services, NEW r \in Asked', r \notin failed
               PROVE  got'[s][r] = prom[s][r]
    BY DEF Fresh
  <2>1. got'[s] = [got[s] EXCEPT ![q] = prom[s][q]]
    OBVIOUS
  <2>2. r \in Queries /\ (r = q \/ r \in Asked)
    BY DEF Asked, After, Queries
  <2>3. r # q => got[s][r] = prom[s][r]
    BY <2>2 DEF Inv, Fresh
  <2>4. got[s] \in [Queries -> [Zones -> Nat \cup {NoData}]]
    BY DEF Inv, TypeOK
  <2>5. QED
    BY <2>1, <2>2, <2>3, <2>4
<1>5. QED
  BY <1>1, <1>2, <1>3, <1>4 DEF Inv

LEMMA QueryFailsStep ==
    ASSUME Inv, NEW q \in Queries, QueryFails(q) PROVE Inv'
<1> USE DEF QueryFails, cycle, published
<1>1. TypeOK'
  BY DEF Inv, TypeOK, After, Queries
<1>2. Serving'
  BY DEF Inv, Serving, HealthyMeansServing, After, Queries
<1>3. Made' /\ ExactWhenQuiet'
  BY DEF Inv, Made, ExactWhenQuiet, After, Queries
<1>4. Fresh'
  <2>1. \A r \in Asked' \ failed' : r \in Asked \ failed
    BY DEF Asked, After, Queries
  <2>2. QED
    BY <2>1 DEF Inv, Fresh
<1>5. QED
  BY <1>1, <1>2, <1>3, <1>4 DEF Inv

LEMMA BuildStep == ASSUME Inv, Build PROVE Inv'
<1> USE DEF Build, cycle, published
<1>1. \A s \in Services : got[s] \in Reading
  BY DEF Inv, TypeOK, Reading
<1>2. TypeOK'
  <2>1. rec' \in [Services -> Recommendation]
    BY <1>1, Recommends
  <2>2. QED
    BY <2>1 DEF Inv, TypeOK
<1>3. Serving' /\ Fresh' /\ ExactWhenQuiet'
  BY DEF Inv, Serving, HealthyMeansServing, Fresh, Asked, ExactWhenQuiet
<1>4. Made'
  BY DEF Inv, Made, buildRecommendations
<1>5. QED
  BY <1>2, <1>3, <1>4 DEF Inv

LEMMA InferStep ==
    ASSUME Inv, NEW p \in Predictions, Infer(p) PROVE Inv'
<1> USE DEF Infer, published
<1> DEFINE split == [zone1 |-> round3(p, 10000), zone2 |-> round3(10000 - p, 10000)]
<1>1. split \in [Zones -> 0..1001]
  BY ModelWeights
<1>2. \A s \in Services : rec'[s] = [rec[s] EXCEPT !.weights = split]
  OBVIOUS
<1>3. rec' = [s \in Services |-> [rec[s] EXCEPT !.weights = split]]
  OBVIOUS
<1> HIDE DEF split
<1>4. \A s \in Services : /\ rec[s] \in Recommendation
                          /\ rec'[s] \in Recommendation
                          /\ rec'[s].rps = rec[s].rps
  <2> SUFFICES ASSUME NEW s \in Services
               PROVE  rec[s] \in Recommendation /\ rec'[s] \in Recommendation
                        /\ rec'[s].rps = rec[s].rps
    OBVIOUS
  <2> HIDE DEF Infer
  <2>1. rec[s] \in Recommendation
    BY DEF Inv, TypeOK
  <2>2. rec'[s] = [rec[s] EXCEPT !.weights = split]
    BY <1>2
  <2>3. rec'[s] \in Recommendation
    <3>1. \A r \in Recommendation : [r EXCEPT !.weights = split] \in Recommendation
      BY <1>1 DEF Recommendation
    <3>2. QED
      BY <2>1, <2>2, <3>1
  <2>4. rec'[s].rps = rec[s].rps
    <3>1. \A r \in Recommendation : [r EXCEPT !.weights = split].rps = r.rps
      BY DEF Recommendation
    <3>2. QED
      BY <2>1, <2>2, <3>1
  <2>5. QED
    BY <2>1, <2>3, <2>4
<1>5. TypeOK'
  <2>1. rec' \in [Services -> Recommendation]
    BY <1>3, <1>4
  <2>2. QED
    BY <2>1 DEF Inv, TypeOK
<1>6. Serving' /\ Fresh' /\ ExactWhenQuiet'
  BY DEF Inv, Serving, HealthyMeansServing, Fresh, Asked, ExactWhenQuiet
<1>7. Made'
  <2>1. pc = "infer" /\ byModel' = TRUE /\ pc' = "publish" /\ got' = got
    OBVIOUS
  <2> HIDE DEF Infer
  <2>2. \A s \in Services : rec'[s].rps = RateLimit(got[s])
    BY <1>4, <2>1 DEF Inv, Made
  <2>3. QED
    BY <2>1, <2>2 DEF Made
<1>8. QED
  BY <1>5, <1>6, <1>7 DEF Inv

LEMMA PublishStep == ASSUME Inv, Publish PROVE Inv'
<1> USE DEF Publish, cycle, published
<1>1. current' \in [Services -> Recommendation] /\ current' # None
  <2>1. rec \in [Services -> Recommendation]
    BY DEF Inv, TypeOK
  <2>2. rec \in [Services -> [weights : [Zones -> Int], rps : Int]]
    BY <2>1, Numeric
  <2>3. QED
    BY <2>1, <2>2, AnalyzerAssumption
<1>2. TypeOK'
  BY <1>1 DEF Inv, TypeOK, Origin
<1>3. Serving'
  BY <1>1 DEF Inv, Serving, HealthyMeansServing
<1>4. Fresh' /\ Made'
  BY DEF Inv, Fresh, Asked, Made
<1>5. ExactWhenQuiet'
  <2>1. CASE torn \/ failed # {}
    BY <2>1 DEF ExactWhenQuiet
  <2>2. CASE ~torn /\ failed = {}
    <3>1. origin'.prom = prom /\ origin'.model = byModel
      BY <2>2
    <3>2. \A s \in Services : got[s] = prom[s]
      <4> SUFFICES ASSUME NEW s \in Services PROVE got[s] = prom[s]
        OBVIOUS
      <4>1. got[s] \in [Queries -> [Zones -> Nat \cup {NoData}]]
        BY DEF Inv, TypeOK
      <4>2. prom[s] \in [Queries -> [Zones -> Nat \cup {NoData}]]
        BY AnalyzerAssumption DEF Inv, TypeOK
      <4>3. \A q \in Queries : got[s][q] = prom[s][q]
        BY <2>2 DEF Inv, Fresh, Asked
      <4>4. QED
        BY <4>1, <4>2, <4>3
    <3>3. \A s \in Services : /\ rec[s].rps = RateLimit(got[s])
                              /\ ~byModel => rec[s].weights = WeightsOf(got[s])
      BY DEF Inv, Made
    <3>4. QED
      BY <3>1, <3>2, <3>3 DEF ExactWhenQuiet
  <2>3. QED
    BY <2>1, <2>2
<1>6. QED
  BY <1>2, <1>3, <1>4, <1>5 DEF Inv

LEMMA OtherSteps ==
    ASSUME Inv,
           Signal \/ Abandon \/ InferFails \/ Stamp \/ Count \/ Return \/ UNCHANGED vars
    PROVE  Inv'
<1> USE DEF Inv, TypeOK, Serving, HealthyMeansServing, Fresh, Asked, Made, ExactWhenQuiet,
            cycle, published
<1>1. CASE Signal
  BY <1>1 DEF Signal
<1>2. CASE Abandon
  BY <1>2 DEF Abandon
<1>3. CASE InferFails
  BY <1>3 DEF InferFails
<1>4. CASE Stamp
  BY <1>4 DEF Stamp
<1>5. CASE Count
  BY <1>5 DEF Count
<1>6. CASE Return
  BY <1>6 DEF Return
<1>7. CASE UNCHANGED vars
  BY <1>7 DEF vars
<1>8. QED
  BY <1>1, <1>2, <1>3, <1>4, <1>5, <1>6, <1>7

\* Every step of the poller, of Prometheus and of the signal keeps Inv: what
\* is published is there before it is announced, and undisturbed cycles are exact.
THEOREM Invariance == Spec => []Inv
<1>1. Inv /\ [Next]_vars => Inv'
  BY MetricsChangeStep, StartCycleStep, QueryAnsweredStep, QueryFailsStep, BuildStep,
     InferStep, PublishStep, OtherSteps DEF Next, PollerStep
<1>2. QED
  BY InvInit, <1>1, PTL DEF Spec

\* Weights stay between 0 and 1.001, limits are whole requests, and nothing
\* else of the analyzer's state leaves its range, whatever Prometheus and the
\* model answer.
THEOREM TypeCorrect == Spec => []TypeOK
<1>1. Inv => TypeOK
  BY DEF Inv
<1>2. QED
  BY <1>1, Invariance, PTL

\* Once /healthz has answered 200, /recommendations always has a snapshot.
THEOREM HealthyServes == Spec => []HealthyMeansServing
<1>1. Inv => HealthyMeansServing
  BY DEF Inv, Serving
<1>2. QED
  BY <1>1, Invariance, PTL

\* Recommendations of an undisturbed cycle are the heuristic of what
\* Prometheus holds, service by service.
THEOREM QuietExact == Spec => []ExactWhenQuiet
<1>1. Inv => ExactWhenQuiet
  BY DEF Inv
<1>2. QED
  BY <1>1, Invariance, PTL

\* The heuristic's properties as the runs check them, for any latencies and
\* rates: a worse zone is never preferred.
THEOREM WorseGetsLess == Spec => []WorseZoneGetsLess
<1>1. WorseZoneGetsLess
  BY ReadingsTyped, WorseNeverMore DEF WorseZoneGetsLess
<1>2. QED
  BY <1>1, PTL

\* No zone stays drained once its series have left the window.
THEOREM SilentTriedAgain == Spec => []SilentZoneIsTriedAgain
<1>1. SilentZoneIsTriedAgain
  BY ReadingsTyped, SilentAtLeastHalf DEF SilentZoneIsTriedAgain
<1>2. QED
  BY <1>1, PTL

\* What /recommendations answers after an undisturbed cycle the model had no
\* say in is sound for what Prometheus held: a zone that fails everything is
\* drained, the worse one not preferred, one without series tried again, and the
\* traffic there is admitted.
PublishedSoundly ==
    origin # None /\ ~origin.model =>
        \A s \in Services : Sound(origin.prom[s], current[s])

\* Exactness carries what is proved of the heuristic over to what is served.
THEOREM PublishesSoundly == Spec => []PublishedSoundly
<1>1. TypeOK /\ ExactWhenQuiet => PublishedSoundly
  <2> SUFFICES ASSUME TypeOK, ExactWhenQuiet, origin # None, ~origin.model, NEW s \in Services
               PROVE  Sound(origin.prom[s], current[s])
    BY DEF PublishedSoundly
  <2>1. origin.prom[s] \in Reading
    <3>1. origin.prom \in [Services -> Metrics]
      BY DEF TypeOK, Origin
    <3>2. QED
      BY <3>1, AnalyzerAssumption DEF Reading
  <2>2. /\ current[s].weights = WeightsOf(origin.prom[s])
        /\ current[s].rps = RateLimit(origin.prom[s])
    BY DEF ExactWhenQuiet
  <2>3. QED
    BY <2>1, <2>2, RecommendsSoundly
<1>2. QED
  BY <1>1, TypeCorrect, QuietExact, PTL

\* The model's split, rounded zone by zone, loses nothing; it may exceed the
\* whole by one thousandth.
LEMMA ModelWhole ==
    ASSUME NEW p \in Predictions
    PROVE  round3(p, 10000) + round3(10000 - p, 10000) \in {1000, 1001}
<1>1. p \in 0..10000
  <2>1. Predictions \subseteq 0..10000
    BY AnalyzerAssumption
  <2>2. QED
    BY <2>1
<1>2. ASSUME NEW x \in 0..10000
      PROVE  (2000 * x + 10000) \div (2 * 10000) + (2000 * (10000 - x) + 10000) \div (2 * 10000)
               \in {1000, 1001}
  BY <1>2, Z3T(30)
<1>3. QED
  BY <1>1, <1>2 DEF round3

\* A split of the whole traffic, or one thousandth more.
Whole(w) == w["zone1"] + w["zone2"] \in {1000, 1001}

\* Whatever Prometheus and the model answered, and whatever failed: no service
\* ever loses a share of its traffic to the weights in the making or published.
Conserving ==
    /\ \A s \in Services : Whole(rec[s].weights)
    /\ current # None => \A s \in Services : Whole(current[s].weights)

LEMMA BuildWhole ==
    ASSUME NEW m \in Reading PROVE Whole(buildRecommendations(m).weights)
BY WeightsSumToOne DEF buildRecommendations, Whole

\* No cycle, complete or not, with the model or without, drops a share of a
\* service's traffic from the weights it makes or publishes.
THEOREM NoTrafficLost == Spec => []Conserving
<1>1. \A s \in Services : Whole(NoRec[s].weights)
  BY NoMetricsTyped, BuildWhole DEF NoRec
<1>2. Init => Conserving
  BY <1>1 DEF Init, Conserving
<1>3. TypeOK /\ Conserving /\ [Next]_vars => Conserving'
  <2> SUFFICES ASSUME TypeOK, Conserving, [Next]_vars PROVE Conserving'
    OBVIOUS
  <2>1. CASE StartCycle
    BY <1>1, <2>1 DEF StartCycle, Conserving, published
  <2>2. CASE Build
    <3>1. \A s \in Services : got[s] \in Reading
      BY DEF TypeOK, Reading
    <3>2. \A s \in Services : Whole(rec'[s].weights)
      BY <2>2, <3>1, BuildWhole DEF Build
    <3>3. QED
      BY <2>2, <3>2 DEF Build, Conserving, published
  <2>3. ASSUME NEW p \in Predictions, Infer(p) PROVE Conserving'
    <3> DEFINE split == [zone1 |-> round3(p, 10000), zone2 |-> round3(10000 - p, 10000)]
    <3>1. Whole(split)
      BY ModelWhole DEF Whole
    <3>2. rec' = [s \in Services |-> [rec[s] EXCEPT !.weights = split]]
      BY <2>3 DEF Infer
    <3> HIDE DEF split
    <3>3. \A r \in Recommendation : [r EXCEPT !.weights = split].weights = split
      BY DEF Recommendation
    <3>4. \A s \in Services : rec'[s].weights = split
      BY <3>2, <3>3 DEF TypeOK
    <3>5. \A s \in Services : Whole(rec'[s].weights)
      BY <3>1, <3>4
    <3>6. current' = current
      BY <2>3 DEF Infer, published
    <3>7. QED
      BY <3>5, <3>6 DEF Conserving
  <2>4. CASE Publish
    BY <2>4 DEF Publish, Conserving, cycle
  <2>5. ASSUME UNCHANGED <<rec, current>> PROVE Conserving'
    BY <2>5 DEF Conserving
  <2>6. QED
    BY <2>1, <2>2, <2>3, <2>4, <2>5 DEF Next, PollerStep, vars, cycle, published, MetricsChange,
       Signal, QueryAnswered, QueryFails, Abandon, InferFails, Stamp, Count, Return
<1>4. QED
  BY <1>2, <1>3, TypeCorrect, PTL DEF Spec

---------------------------------------------------------------------------
(* GET /healthz against real time: which intervals, timeouts and thresholds  *)
(* forgive failed polls, and which report an outage.                         *)

\* A poll and its broadcast are over before the next tick.
NoOverrun == CallTimeout + WorkTimeout < Interval

\* Tolerated failures and one more slow poll fit into MaxAge.
Forgiving == (Tolerated + 1) * Interval + CallTimeout <= MaxAge

\* Detected failures do not, even if each of them is quick.
Strict == Detected * Interval - CallTimeout > MaxAge

---------------------------------------------------------------------------
\* The ticker and the loop keep step: every tick is received when it fires.
InStep ==
    /\ ~ticking => place \in {"polling", "working"} /\ phase = 0 /\ ~due
                   /\ (succeeded => place = "working" /\ failures = 0 /\ early /\ age <= elapsed)
    /\ ticking /\ place = "polling" => phase = elapsed /\ ~due
    /\ ticking /\ place = "working" => phase <= CallTimeout + elapsed /\ ~due
    /\ due => phase = 0
    /\ place = "working" => succeeded /\ failures = 0

\* Ticks since the last success.
ticks == IF due \/ (place = "polling" /\ ticking) THEN failures + 1 ELSE failures

\* The age of the last success is, up to the length of a poll or a broadcast,
\* the ticks since then; MaxAge + 1 and Detected stand for anything above.
AgeIsTicks ==
    succeeded /\ ticking =>
        /\ failures = Detected \/ age <= ticks * Interval + phase + (IF early THEN WorkTimeout ELSE 0)
        /\ age > MaxAge \/ age >= ticks * Interval + phase - CallTimeout

HealthInv == HealthTypeOK /\ InStep /\ AgeIsTicks

---------------------------------------------------------------------------
LEMMA TimesMonotone ==
    ASSUME NEW m \in Int, NEW n \in Int, NEW k \in Nat, m <= n
    PROVE  m * k <= n * k
<1>1. (n - m) * k >= 0
  OBVIOUS
<1>2. QED
  BY <1>1

LEMMA TimesSucc ==
    ASSUME NEW m \in Int, NEW k \in Int
    PROVE  m * k \in Int /\ (m + 1) * k = m * k + k
OBVIOUS

LEMMA ModSmall == ASSUME NEW n \in Nat, NEW k \in Nat \ {0}, n < k PROVE n % k = n
BY Z3T(20)

LEMMA ModSelf == ASSUME NEW k \in Nat \ {0} PROVE k % k = 0
BY Z3T(20)

LEMMA PhaseFacts ==
    ASSUME HealthTypeOK
    PROVE  /\ phase \in Int /\ 0 <= phase /\ phase < Interval
           /\ (phase + 1) % Interval = IF phase + 1 = Interval THEN 0 ELSE phase + 1
<1>1. phase \in Int /\ 0 <= phase /\ phase < Interval /\ Interval \in Nat \ {0}
  BY HealthAssumption DEF HealthTypeOK
<1>2. CASE phase + 1 = Interval
  BY <1>1, <1>2, ModSelf
<1>3. CASE phase + 1 # Interval
  BY <1>1, <1>3, ModSmall
<1>4. QED
  BY <1>1, <1>2, <1>3

LEMMA LimitFacts ==
    Limit["polling"] = CallTimeout /\ Limit["working"] = WorkTimeout /\ Limit["idle"] = 0
BY DEF Limit

LEMMA HealthInitTypes == HealthInit => HealthTypeOK
<1> SUFFICES ASSUME HealthInit PROVE HealthTypeOK
  OBVIOUS
<1>1. ticking \in BOOLEAN /\ due \in BOOLEAN /\ succeeded \in BOOLEAN /\ early \in BOOLEAN
  BY DEF HealthInit
<1>2. phase \in 0..(Interval - 1) /\ age \in 0..(MaxAge + 1) /\ failures \in 0..Detected
  BY HealthAssumption DEF HealthInit
<1>3. place \in {"polling", "working", "idle"} /\ elapsed \in 0..Limit[place]
  BY HealthAssumption, LimitFacts DEF HealthInit
<1>4. QED
  BY <1>1, <1>2, <1>3 DEF HealthTypeOK

---------------------------------------------------------------------------
(* Clocks and counters stay in their ranges.                                *)
THEOREM HealthTypeCorrect == HealthSpec => []HealthTypeOK
<1> USE HealthAssumption
<1>1. HealthInit => HealthTypeOK
  BY HealthInitTypes
<1>2. HealthTypeOK /\ [HealthNext]_healthVars => HealthTypeOK'
  <2> SUFFICES ASSUME HealthTypeOK, [HealthNext]_healthVars PROVE HealthTypeOK'
    OBVIOUS
  <2> USE LimitFacts
  <2>1. CASE Second
    <3>1. UNCHANGED <<place, ticking, succeeded, early, failures>>
      BY <2>1 DEF Second
    <3>2. due' \in BOOLEAN
      BY <2>1 DEF Second, TickerRuns, HealthTypeOK
    <3>3. phase' \in 0..(Interval - 1)
      BY <2>1, PhaseFacts DEF Second, TickerRuns
    <3>4. elapsed' \in 0..Limit[place]
      BY <2>1 DEF Second, HealthTypeOK
    <3>5. age' \in 0..(MaxAge + 1)
      BY <2>1 DEF Second, HealthTypeOK
    <3>6. QED
      BY <3>1, <3>2, <3>3, <3>4, <3>5 DEF HealthTypeOK
  <2>2. CASE Receive
    <3>1. due' \in BOOLEAN
      BY <2>2 DEF Receive
    <3>2. elapsed' \in 0..Limit[place'] /\ place' \in {"polling", "working", "idle"}
      BY <2>2 DEF Receive
    <3>3. UNCHANGED <<ticking, phase, succeeded, age, early, failures>>
      BY <2>2 DEF Receive
    <3>4. QED
      BY <3>1, <3>2, <3>3 DEF HealthTypeOK
  <2>3. CASE Succeed
    BY <2>3 DEF Succeed, HealthTypeOK
  <2>4. CASE Finish
    BY <2>4 DEF Finish, BackToLoop, HealthTypeOK
  <2>5. CASE Fail
    BY <2>5 DEF Fail, BackToLoop, HealthTypeOK
  <2>6. CASE UNCHANGED healthVars
    BY <2>6 DEF healthVars, HealthTypeOK
  <2>7. QED
    BY <2>1, <2>2, <2>3, <2>4, <2>5, <2>6 DEF HealthNext
<1>3. QED
  BY <1>1, <1>2, PTL DEF HealthSpec

(* If polls do not overrun, the age of the last success is known from the   *)
(* ticks since then, to within a poll or a broadcast.                       *)
THEOREM HealthInductive == ASSUME NoOverrun PROVE HealthSpec => []HealthInv
<1> USE HealthAssumption
<1>1. HealthInit => HealthInv
  BY HealthInitTypes DEF HealthInit, HealthInv, InStep, AgeIsTicks
<1>2. HealthInv /\ HealthTypeOK' /\ [HealthNext]_healthVars => HealthInv'
  <2> SUFFICES ASSUME HealthInv, HealthTypeOK', [HealthNext]_healthVars PROVE InStep' /\ AgeIsTicks'
    BY DEF HealthInv
  <2> USE DEF HealthInv
  <2> DEFINE base == failures * Interval
  <2>0. /\ base \in Int /\ (failures + 1) * Interval = base + Interval
        /\ 0 * Interval = 0 /\ 1 * Interval = Interval
        /\ phase \in Int /\ elapsed \in Int /\ age \in Int /\ failures \in Int
        /\ Interval \in Int /\ CallTimeout \in Int /\ WorkTimeout \in Int /\ MaxAge \in Int
        /\ 0 <= phase /\ phase < Interval /\ 0 <= elapsed /\ 0 <= age
        /\ failures <= Detected /\ Detected \in Int
        /\ CallTimeout >= 0 /\ WorkTimeout >= 0
        /\ place = "polling" => elapsed <= CallTimeout
        /\ place = "working" => elapsed <= WorkTimeout
        /\ place = "idle" => elapsed = 0
        /\ place \in {"polling", "working", "idle"}
    <3>1. /\ phase \in Int /\ age \in Int /\ failures \in Int /\ 0 <= age
          /\ failures <= Detected /\ place \in {"polling", "working", "idle"}
          /\ elapsed \in 0..Limit[place]
      BY DEF HealthTypeOK
    <3>2. 0 * Interval = 0 /\ 1 * Interval = Interval
      OBVIOUS
    <3>3. QED
      BY <3>1, <3>2, TimesSucc, PhaseFacts, LimitFacts
  <2>1. CASE Second
    <3>1. /\ UNCHANGED <<place, ticking, succeeded, early, failures>>
          /\ place = "idle" => ~due
          /\ elapsed' = IF place = "idle" THEN 0 ELSE elapsed + 1
          /\ age' = IF succeeded /\ age <= MaxAge THEN age + 1 ELSE age
          /\ place = "polling" => elapsed < CallTimeout
          /\ place = "working" => elapsed < WorkTimeout
      BY <2>1 DEF Second, Limit, HealthTypeOK
    <3>2. /\ ticking => phase' = (IF phase + 1 = Interval THEN 0 ELSE phase + 1)
          /\ ~ticking => phase' = phase
      BY <2>1, PhaseFacts DEF Second, TickerRuns
    <3>3. /\ ticking => (due' <=> (due \/ phase + 1 = Interval))
          /\ ~ticking => (due' <=> due)
      BY <2>1 DEF Second, TickerRuns
    <3>4. place # "idle" /\ ticking => phase + 1 < Interval
      BY <2>0, <3>1, NoOverrun DEF InStep, NoOverrun
    <3>5. InStep'
      BY <2>0, <3>1, <3>2, <3>3, <3>4 DEF InStep
    <3>6. ticking => ticks' * Interval + phase' = ticks * Interval + phase + 1
      <4>1. CASE ticking /\ phase + 1 = Interval
        <5>1. place = "idle" /\ ~due /\ due' /\ phase' = 0
          BY <2>0, <3>1, <3>2, <3>3, <3>4, <4>1
        <5>2. ticks = failures /\ ticks' = failures + 1
          BY <5>1, <3>1 DEF ticks
        <5>3. QED
          BY <2>0, <4>1, <5>1, <5>2
      <4>2. CASE ticking /\ phase + 1 # Interval
        <5>1. phase' = phase + 1 /\ ticks' = ticks
          BY <3>1, <3>2, <3>3, <4>2 DEF ticks
        <5>2. ticks * Interval \in Int
          BY <2>0 DEF ticks
        <5>3. QED
          BY <2>0, <5>1, <5>2
      <4>3. QED
        BY <4>1, <4>2
    <3>7. ticks * Interval \in Int /\ (ticking => ticks' * Interval \in Int)
      BY <2>0, <3>1 DEF ticks
    <3>8. AgeIsTicks'
      BY <2>0, <3>1, <3>2, <3>6, <3>7 DEF AgeIsTicks
    <3>9. QED
      BY <3>5, <3>8
  <2>2. CASE Receive
    <3>1. InStep'
      BY <2>0, <2>2 DEF Receive, InStep
    <3>2. ticking => ticks' = ticks
      BY <2>2 DEF Receive, ticks
    <3>3. AgeIsTicks'
      BY <2>2, <3>2 DEF Receive, AgeIsTicks
    <3>4. QED
      BY <3>1, <3>3
  <2>3. CASE Succeed
    <3>1. /\ place = "polling" /\ place' = "working" /\ (succeeded' <=> TRUE) /\ age' = 0 /\ failures' = 0
          /\ elapsed' = 0 /\ (early' <=> ~ticking) /\ UNCHANGED <<ticking, phase, due>>
      BY <2>3 DEF Succeed
    <3>2. InStep'
      BY <2>0, <3>1 DEF InStep
    <3>3. ticking => ticks' = 0 /\ phase <= CallTimeout
      BY <2>0, <3>1 DEF ticks, InStep
    <3>4. AgeIsTicks'
      BY <2>0, <3>1, <3>3 DEF AgeIsTicks
    <3>5. QED
      BY <3>2, <3>4
  <2>4. CASE Finish
    <3>1. /\ place = "working" /\ place' = "idle" /\ (ticking' <=> TRUE) /\ elapsed' = 0
          /\ succeeded /\ failures = 0 /\ ~due
          /\ UNCHANGED <<phase, due, succeeded, early, age, failures>>
      BY <2>4 DEF Finish, BackToLoop, InStep
    <3>2. InStep'
      BY <2>0, <3>1 DEF InStep
    <3>3. ticks = 0 /\ ticks' = 0
      BY <3>1 DEF ticks
    <3>4. AgeIsTicks'
      BY <2>0, <3>1, <3>3 DEF AgeIsTicks, InStep
    <3>5. QED
      BY <3>2, <3>4
  <2>5. CASE Fail
    <3>1. /\ place = "polling" /\ place' = "idle" /\ (ticking' <=> TRUE) /\ elapsed' = 0
          /\ failures' = (IF failures < Detected THEN failures + 1 ELSE failures)
          /\ UNCHANGED <<phase, due, succeeded, early, age>>
      BY <2>5 DEF Fail, BackToLoop
    <3>2. ~due /\ (~ticking => ~succeeded)
      BY <3>1 DEF InStep
    <3>3. InStep'
      BY <2>0, <3>1, <3>2 DEF InStep
    <3>4. ticking => ticks = failures + 1
      BY <3>1 DEF ticks
    <3>5. ticks' = failures'
      BY <3>1, <3>2 DEF ticks
    <3>6. AgeIsTicks'
      BY <2>0, <3>1, <3>2, <3>4, <3>5 DEF AgeIsTicks
    <3>7. QED
      BY <3>3, <3>6
  <2>6. CASE UNCHANGED healthVars
    BY <2>6 DEF healthVars, InStep, AgeIsTicks, ticks
  <2>7. QED
    BY <2>1, <2>2, <2>3, <2>4, <2>5, <2>6 DEF HealthNext
<1>3. QED
  BY <1>1, <1>2, HealthTypeCorrect, PTL DEF HealthSpec

---------------------------------------------------------------------------
(* A poller that has worked never answers 503 for Tolerated failed polls,   *)
(* whatever its interval, if they and one more slow poll fit into MaxAge.   *)
THEOREM FailuresTolerated ==
    ASSUME NoOverrun, Forgiving PROVE HealthSpec => []TransientFailuresTolerated
<1> USE HealthAssumption
<1>1. HealthInv => TransientFailuresTolerated
  <2> SUFFICES ASSUME HealthInv, succeeded,
                      failures + (IF early /\ WorkTimeout > 0 THEN 1 ELSE 0) <= Tolerated
               PROVE  age <= MaxAge
    BY DEF TransientFailuresTolerated, Healthy
  <2> USE DEF HealthInv
  <2> DEFINE late == IF early THEN WorkTimeout ELSE 0
             lost == IF late > 0 THEN 1 ELSE 0
  <2>1. /\ failures \in Int /\ age \in Int /\ phase \in Int /\ elapsed \in Int
        /\ 0 <= failures /\ phase < Interval /\ late \in Int /\ late < Interval
        /\ lost \in {0, 1} /\ failures + lost <= Tolerated /\ failures < Detected
        /\ failures * Interval \in Int /\ Tolerated * Interval \in Int
        /\ Tolerated * Interval + Interval + CallTimeout <= MaxAge
        /\ late <= lost * Interval /\ lost * Interval \in Int
    BY TimesSucc DEF HealthTypeOK, NoOverrun, Forgiving
  <2>2. (failures + lost) * Interval <= Tolerated * Interval
    BY <2>1, TimesMonotone
  <2>3. failures * Interval + late <= Tolerated * Interval
    BY <2>1, <2>2
  <2>4. CASE ~ticking
    BY <2>1, <2>3, <2>4 DEF InStep, HealthTypeOK, Limit, NoOverrun
  <2>5. CASE ticking
    <3>1. \/ ticks = failures
          \/ ticks = failures + 1 /\ phase <= CallTimeout
      BY <2>1, <2>5 DEF ticks, InStep, HealthTypeOK, Limit
    <3>2. age <= ticks * Interval + phase + late
      BY <2>1, <2>5 DEF AgeIsTicks
    <3>3. ticks * Interval + phase <= failures * Interval + Interval + CallTimeout
      BY <2>1, <3>1, TimesSucc
    <3>4. ticks * Interval \in Int
      BY <2>1, <3>1
    <3>5. QED
      BY <2>1, <2>3, <3>2, <3>3, <3>4
  <2>6. QED
    BY <2>4, <2>5
<1>2. QED
  BY <1>1, HealthInductive, PTL

(* A poller answers 503 after Detected failed polls in a row, however quick *)
(* they are, if their ticks alone exceed MaxAge.                            *)
THEOREM OutagesDetected ==
    ASSUME NoOverrun, Strict PROVE HealthSpec => []OutageDetected
<1> USE HealthAssumption
<1>1. HealthInv => OutageDetected
  <2> SUFFICES ASSUME HealthInv, failures = Detected, succeeded PROVE age > MaxAge
    BY DEF OutageDetected, Healthy, HealthInv, HealthTypeOK
  <2> USE DEF HealthInv
  <2>1. ticking
    BY DEF InStep, HealthTypeOK
  <2>2. ticks \in {Detected, Detected + 1}
    BY DEF ticks
  <2>3. ticks * Interval >= Detected * Interval /\ ticks * Interval \in Int /\ Detected * Interval \in Int
    BY <2>2, TimesMonotone
  <2>4. phase \in Int /\ phase >= 0 /\ age \in Int
    BY DEF HealthTypeOK
  <2>5. QED
    BY <2>1, <2>3, <2>4 DEF AgeIsTicks, Strict
<1>2. QED
  BY <1>1, HealthInductive, PTL
=============================================================================

--------------------------------- MODULE Analyzer ---------------------------------
(***************************************************************************)
(* cmd/ml-analyzer: one goroutine runs a cycle at start and on every tick. *)
(* A cycle asks Prometheus three questions one after another, each of      *)
(* which may fail; builds the recommendations from what it got; lets the   *)
(* inference service, if configured and reachable, replace every weight;   *)
(* and publishes them field by field, while HTTP handlers read.  The       *)
(* metrics Prometheus serves change at any time.                           *)
(***************************************************************************)
EXTENDS Heuristic, FiniteSets

CONSTANTS
    Services,    \* the locked service catalogue
    Metrics,     \* what Prometheus may know of one service
    Predictions, \* splits for zone1 ml-inference may answer, in 1/10000
    MLEnabled,   \* ML_INFERENCE_URL is set
    None,        \* nothing published yet
    Latencies,   \* what the properties of the heuristic range over: tens of
    Rates        \* milliseconds, and halves of a request or error per second

Queries == {"p99", "rps", "errs"}

ASSUME AnalyzerAssumption ==
    /\ Metrics \subseteq [Queries -> [Zones -> Nat \cup {NoData}]]
    /\ Predictions \subseteq 0..10000
    /\ MLEnabled \in BOOLEAN
    /\ None \notin [Services -> [weights : [Zones -> Int], rps : Int]]

ASSUME ReadingsAssumption == Latencies \subseteq Nat /\ Rates \subseteq Nat

VARIABLES
    prom,      \* what Prometheus would answer now
    ctxDone,   \* SIGTERM, or the HTTP server failed
    pc,        \* where the poller is
    got,       \* the answers of this cycle's queries
    failed,    \* the queries of this cycle that failed
    rec,       \* the recommendations being made
    byModel,   \* ml-inference decided rec's weights
    current,   \* a.current
    recorded,  \* a.lastSuccessRecorded
    generated, \* recommendationsGenerated > 0
    torn,      \* history: the metrics changed during this cycle
    origin     \* history: the metrics `current` was made of, if it was made
               \* from one state of Prometheus, and whether the model had a say

cycle == <<got, failed, rec, byModel>>
published == <<current, recorded, generated, origin>>
vars == <<prom, ctxDone, pc, cycle, published, torn>>

Recommendation == [weights : [Zones -> 0..1001], rps : Nat]

Origin == [prom : [Services -> Metrics], model : BOOLEAN]

TypeOK ==
    /\ prom \in [Services -> Metrics]
    /\ ctxDone \in BOOLEAN
    /\ pc \in {"idle", "p99", "rps", "errs", "build", "infer", "publish", "stamp", "count",
               "done"}
    /\ \A s \in Services : got[s] \in [Queries -> [Zones -> Nat \cup {NoData}]]
    /\ failed \subseteq Queries
    /\ rec \in [Services -> Recommendation]
    /\ byModel \in BOOLEAN
    /\ current = None \/ current \in [Services -> Recommendation]
    /\ recorded \in BOOLEAN /\ generated \in BOOLEAN
    /\ torn \in BOOLEAN
    /\ origin = None \/ origin \in Origin

NoMetrics == [s \in Services |-> [q \in Queries |-> NoAnswer]]

NoRec == [s \in Services |-> buildRecommendations(NoMetrics[s])]

\* The first cycle runs at once.
Init ==
    /\ prom \in [Services -> Metrics]
    /\ ctxDone = FALSE
    /\ pc = "p99"
    /\ got = NoMetrics
    /\ failed = {}
    /\ rec = NoRec /\ byModel = FALSE
    /\ current = None /\ recorded = FALSE /\ generated = FALSE
    /\ torn = FALSE
    /\ origin = None

---------------------------------------------------------------------------
(* The environment *)

MetricsChange(s, m) ==
    /\ m # prom[s]
    /\ prom' = [prom EXCEPT ![s] = m]
    /\ torn' = (pc \notin {"idle", "done"})
    /\ UNCHANGED <<ctxDone, pc, cycle, published>>

Signal ==
    /\ ~ctxDone
    /\ ctxDone' = TRUE
    /\ UNCHANGED <<prom, pc, cycle, published, torn>>

---------------------------------------------------------------------------
(* The poller *)

StartCycle ==
    /\ pc = "idle"
    /\ got' = NoMetrics /\ failed' = {}
    /\ rec' = NoRec /\ byModel' = FALSE
    /\ torn' = FALSE
    /\ pc' = "p99"
    /\ UNCHANGED <<prom, ctxDone, published>>

After(q) == CASE q = "p99" -> "rps" [] q = "rps" -> "errs" [] q = "errs" -> "build"

\* queryByCluster and reshape: the series of every service and zone.
QueryAnswered(q) ==
    /\ pc = q
    /\ ~ctxDone
    /\ got' = [s \in Services |-> [got[s] EXCEPT ![q] = prom[s][q]]]
    /\ pc' = After(q)
    /\ UNCHANGED <<prom, ctxDone, failed, rec, byModel, published, torn>>

\* Unreachable, non-200, undecodable, too slow, or cancelled: a nil map.
QueryFails(q) ==
    /\ pc = q
    /\ failed' = failed \cup {q}
    /\ pc' = After(q)
    /\ UNCHANGED <<prom, ctxDone, got, rec, byModel, published, torn>>

\* Nothing was learned: the last known snapshot is kept.
Abandon ==
    /\ pc = "build"
    /\ failed = Queries
    /\ pc' = "idle"
    /\ UNCHANGED <<prom, ctxDone, cycle, published, torn>>

\* Mutant: the answers for requests and errors are swapped in the call.
BuildSwapped ==
    /\ pc = "build"
    /\ failed # Queries
    /\ rec' = [s \in Services |-> buildRecommendations(
                 [got[s] EXCEPT !.rps = got[s].errs, !.errs = got[s].rps])]
    /\ pc' = IF MLEnabled THEN "infer" ELSE "publish"
    /\ UNCHANGED <<prom, ctxDone, got, failed, byModel, published, torn>>

Build ==
    /\ pc = "build"
    /\ failed # Queries
    /\ rec' = [s \in Services |-> buildRecommendations(got[s])]
    /\ pc' = IF MLEnabled THEN "infer" ELSE "publish"
    /\ UNCHANGED <<prom, ctxDone, got, failed, byModel, published, torn>>

\* One split for all services; 1 - p and p are rounded each on its own.
Infer(p) ==
    /\ pc = "infer"
    /\ ~ctxDone
    /\ rec' = [s \in Services |-> [rec[s] EXCEPT !.weights =
                 [zone1 |-> round3(p, 10000), zone2 |-> round3(10000 - p, 10000)]]]
    /\ byModel' = TRUE
    /\ pc' = "publish"
    /\ UNCHANGED <<prom, ctxDone, got, failed, published, torn>>

InferFails ==
    /\ pc = "infer"
    /\ pc' = "publish"
    /\ UNCHANGED <<prom, ctxDone, cycle, published, torn>>

\* Mutant: success is recorded before the snapshot is set.
PublishStamped ==
    /\ pc = "publish"
    /\ recorded' = TRUE
    /\ origin' = IF torn \/ failed # {} THEN None ELSE [prom |-> prom, model |-> byModel]
    /\ pc' = "stamp"
    /\ UNCHANGED <<prom, ctxDone, cycle, current, generated, torn>>

Publish ==
    /\ pc = "publish"
    /\ current' = rec
    /\ origin' = IF torn \/ failed # {} THEN None ELSE [prom |-> prom, model |-> byModel]
    /\ pc' = "stamp"
    /\ UNCHANGED <<prom, ctxDone, cycle, recorded, generated, torn>>

\* lastSuccessUnix and lastSuccessRecorded: /healthz answers 200 from here on.
Stamp ==
    /\ pc = "stamp"
    /\ recorded' = TRUE
    /\ pc' = "count"
    /\ UNCHANGED <<prom, ctxDone, cycle, current, generated, origin, torn>>

Count ==
    /\ pc = "count"
    /\ generated' = TRUE
    /\ pc' = "idle"
    /\ UNCHANGED <<prom, ctxDone, cycle, current, recorded, origin, torn>>

Return ==
    /\ pc = "idle"
    /\ ctxDone
    /\ pc' = "done"
    /\ UNCHANGED <<prom, ctxDone, cycle, published, torn>>

---------------------------------------------------------------------------
PollerStep ==
    \/ StartCycle
    \/ \E q \in Queries : QueryAnswered(q) \/ QueryFails(q)
    \/ Abandon \/ Build
    \/ \E p \in Predictions : Infer(p)
    \/ InferFails \/ Publish \/ Stamp \/ Count \/ Return

Next ==
    \/ \E s \in Services, m \in Metrics : MetricsChange(s, m)
    \/ Signal
    \/ PollerStep

Spec == Init /\ [][Next]_vars

---------------------------------------------------------------------------
(* Properties *)

\* A client that saw /healthz answer 200, or the counter move, is never
\* refused by /recommendations: the snapshot is set first and never unset.
HealthyMeansServing ==
    /\ recorded => current # None
    /\ generated => recorded

\* Recommendations from a Prometheus that did not change under the three
\* queries and answered them all are the heuristic of exactly those metrics,
\* for every service; the model, if it was asked, replaced weights only.
ExactWhenQuiet ==
    origin # None => \A s \in Services :
        /\ current[s].rps = RateLimit(origin.prom[s])
        /\ ~origin.model => current[s].weights = WeightsOf(origin.prom[s])

---------------------------------------------------------------------------
(* Properties of the heuristic, for any combination of measurements. *)

Of(S) == [Zones -> S \cup {NoData}]

Readings == [p99 : Of(Latencies), rps : Of(Rates), errs : Of(Rates)]

Measured(m, z) == m.p99[z] # NoData /\ OrZero(m.rps[z]) > 0

Errors(m, z) == Lesser(OrZero(m.errs[z]), OrZero(m.rps[z]))

\* z is slower than y and fails a larger share of its requests.
Worse(m, z, y) ==
    /\ Measured(m, z) /\ Measured(m, y)
    /\ m.p99[z] >= m.p99[y]
    /\ Errors(m, z) * m.rps[y] >= Errors(m, y) * m.rps[z]

AllFail(m, z) == OrZero(m.rps[z]) > 0 /\ Errors(m, z) = m.rps[z]

\* Before the first cycle, whatever Prometheus is going to answer.
AtStart == pc = "p99" /\ current = None

\* Of two zones with latency and traffic, one that is slower and fails a
\* larger share of its requests never gets more weight; one that fails all of
\* them gets none, unless the other does as well.
WorseZoneGetsLess == AtStart =>
    \A m \in Readings : \A z \in Zones : \A y \in Zones \ {z} :
        /\ Worse(m, z, y) => WeightsOf(m)[z] <= 500
        /\ AllFail(m, z) /\ ~AllFail(m, y) => WeightsOf(m)[z] = 0

\* A zone of which nothing is known - the drained one, once its series are out
\* of the sample window - is scored as the best there is, and gets at least
\* half of the traffic again: no drain lasts for ever, however bad it was.
SilentZoneIsTriedAgain == AtStart =>
    \A m \in Readings : \A z \in Zones :
        m.p99[z] = NoData /\ OrZero(m.rps[z]) = 0 => WeightsOf(m)[z] >= 500
=============================================================================

-------------------------------- MODULE MCAnalyzer --------------------------------
(* Instances of Analyzer for TLC: two states of the metrics of a service. *)
EXTENDS Analyzer

CONSTANTS svcA, svcB

Zonewise(x, y) == [zone1 |-> x, zone2 |-> y]

\* zone2 answers slowly and fails half of its requests.
Degraded == [p99 |-> Zonewise(3, 50), rps |-> Zonewise(8, 4), errs |-> Zonewise(NoData, 2)]

\* Nothing comes from zone2 any more.
Silent == [p99 |-> Zonewise(5, NoData), rps |-> Zonewise(8, NoData), errs |-> NoAnswer]

MCMetrics == {Degraded, Silent}
=============================================================================

---------------------------------- MODULE MCDrill ----------------------------------
(* Instances of Drill for TLC. *)
EXTENDS Drill, TLC

CONSTANTS r1, r2

Symmetry == Permutations({r1, r2})

\* zone1-partial and zone1-pause: between them both verbs, half and all of a zone.
MCScenarios ==
    {[zone |-> "zone1", partial |-> TRUE, verb |-> "stopped"],
     [zone |-> "zone1", partial |-> FALSE, verb |-> "paused"]}

\* The probes ask for the service that zone1-partial stops, the load for the other.
MCPath == [base |-> 1, fail |-> 1, gen |-> 2]

MCMaxSent == [base |-> 1, fail |-> 1, gen |-> 1]
=============================================================================

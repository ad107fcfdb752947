----------------------------------- MODULE Drill -----------------------------------
(***************************************************************************)
(* A failure drill: cmd/failure-runner takes containers of one zone away   *)
(* and gives them back while its probes, and the load of cmd/traffic-gen,  *)
(* go through the gateway.  Both tools launch a goroutine per request,     *)
(* which adds its result to the sdk/stats Recorder of its closure;         *)
(* failure-runner takes a Snapshot at its deadline, traffic-gen waits for  *)
(* its goroutines first.  The deadline of a loop and Ctrl+C both just end  *)
(* it, and the timeout of a request and Ctrl+C both just cut it off, so    *)
(* neither needs a clock or a flag.                                        *)
(***************************************************************************)
EXTENDS Gateway

CONSTANTS
    Scenarios, \* of the runner: zone, whether half of it, and the verb
    PerZone,   \* containers of a zone, one for each service
    Path,      \* the service each tool asks for: -probe-url, and -path
    MaxSent    \* bound: requests for each recorder

Recorders == {"base", "fail", "gen"}

ASSUME DrillAssumption ==
    /\ Scenarios \subseteq [zone : Zones, partial : BOOLEAN, verb : {"stopped", "paused"}]
    /\ PerZone \in Nat \ {0} /\ Services = 1..PerZone
    /\ IsFiniteSet(Requests)
    /\ Path \in [Recorders -> Services] /\ Path["base"] = Path["fail"]
    /\ MaxSent \in [Recorders -> Nat]

VARIABLES
    sc,       \* the scenario
    phase,    \* where failure-runner's main is
    genPhase, \* where traffic-gen's is
    status,   \* of every container
    warned,   \* restore failed, and only a warning was printed
    owner,    \* the recorder each request's goroutine adds to
    rec,      \* the recorders, up to the last Snapshot of each
    launched  \* history: the requests launched for each recorder

runner == <<sc, phase, status, warned>>
results == <<owner, rec, launched>>
vars == <<gwVars, runner, genPhase, results>>

Containers == Zones \X Services

\* total and errors of stats.Recorder; cut counts, as history, the errors that
\* were timeouts or Ctrl+C of the tool itself.
Record == [total : Nat, errors : Nat, cut : Nat]

TypeOK ==
    /\ RoutingTypeOK
    /\ sc \in Scenarios
    /\ phase \in {"stats", "baseline", "inject", "probe", "restore", "post", "done", "exit1"}
    /\ genPhase \in {"load", "drain", "report"}
    /\ status \in [Containers -> {"up", "stopped", "paused"}]
    /\ warned \in BOOLEAN
    /\ owner \in [Requests -> Recorders]
    /\ rec \in [Recorders -> Record]
    /\ launched \in [Recorders -> Nat]

Init ==
    /\ GatewayInit
    /\ sc \in Scenarios
    /\ phase = "stats" /\ genPhase = "load"
    /\ status = [c \in Containers |-> "up"]
    /\ warned = FALSE
    /\ owner = [r \in Requests |-> "gen"]
    /\ rec = [o \in Recorders |-> [total |-> 0, errors |-> 0, cut |-> 0]]
    /\ launched = [o \in Recorders |-> 0]

---------------------------------------------------------------------------
(* The requests of both tools *)

\* A tick: one more goroutine and its client.Do.  The filter pins the request,
\* or its script fails; traffic-gen's -zone pins it at the client.
Launch(r, c, o) ==
    /\ launched[o] < MaxSent[o]
    /\ Arrive(r, c, Path[o])
    /\ owner' = [owner EXCEPT ![r] = o]
    /\ launched' = [launched EXCEPT ![o] = @ + 1]
    /\ UNCHANGED <<runner, genPhase, rec>>

\* Mutant: the baseline is read when the summary is printed.
TakenLate(o) == o = "base" /\ phase \in {"done", "exit1"}

\* main has taken the last Snapshot of the recorder.
Taken(o) ==
    \/ o = "base" /\ phase \notin {"stats", "baseline"}
    \/ o = "fail" /\ phase \in {"restore", "post", "done"}
    \/ o = "gen" /\ genPhase = "report"

\* Recorder.Add: an error is a failed or cut request, or a status from 500 on.
\* What comes after the Snapshot nobody reads.
AddResult(r) ==
    /\ Release(r)
    /\ rec' = IF Taken(owner[r]) THEN rec
              ELSE [rec EXCEPT ![owner[r]] =
                      [total |-> @.total + 1,
                       errors |-> IF pc[r] = "ok" THEN @.errors ELSE @.errors + 1,
                       cut |-> IF pc[r] = "gone" THEN @.cut + 1 ELSE @.cut]]
    /\ owner' = [owner EXCEPT ![r] = "gen"]
    /\ UNCHANGED <<runner, genPhase, launched>>

GatewayWorks ==
    /\ \E r \in Requests : RouterStep(r) \/ Abandon(r)
    /\ UNCHANGED <<runner, genPhase, results>>

---------------------------------------------------------------------------
\* What a zone's proxy reaches follows the containers, with a delay: drain and
\* deregistration, DNS and health checks.
Serves(z, s) == status[<<z, s>>] = "up"

ZonesFollow ==
    /\ \E z \in Zones :
         \/ \E s \in Services : \/ ~Serves(z, s) /\ Dies(z, s)
                                \/ Serves(z, s) /\ Recovers(z, s)
         \/ Readmit(z)
    /\ UNCHANGED <<runner, genPhase, results>>

---------------------------------------------------------------------------
(* failure-runner *)

Goto(from, to) ==
    /\ phase = from
    /\ phase' = to
    /\ UNCHANGED <<gwVars, sc, genPhase, results>>

\* collectGatewayStats only prints, but its queries have no timeout.
BaselineStats == Goto("stats", "baseline") /\ UNCHANGED <<status, warned>>

SendProbe(r, c) ==
    \/ phase = "baseline" /\ Launch(r, c, "base")
    \/ phase = "probe" /\ Launch(r, c, "fail")

\* probeFor returns at its deadline, or at Ctrl+C, and the Snapshot is taken
\* (Taken): requests in flight go on.
BaselineOver == Goto("baseline", "inject") /\ UNCHANGED <<status, warned>>

\* Mutant: the scenario's zone is not looked at.
AllTargets == Containers

targetContainers ==
    {c \in Containers :
        /\ c[1] = sc.zone
        /\ sc.partial /\ PerZone > 1 => c[2] <= PerZone \div 2}

Set(S, st) == status' = [c \in Containers |-> IF c \in S THEN st ELSE status[c]]

InjectFailure ==
    /\ Goto("inject", "probe")
    /\ Set(targetContainers, sc.verb)
    /\ UNCHANGED warned

\* The runtime's command fails after some of its containers: os.Exit(1).
InjectFails ==
    /\ Goto("inject", "exit1")
    /\ \E S \in SUBSET targetContainers : Set(S, sc.verb)
    /\ UNCHANGED warned

FailureOver == Goto("probe", "restore") /\ UNCHANGED <<status, warned>>

\* Mutant: paused containers are started, too.
RestoreByStart ==
    /\ Goto("restore", "post")
    /\ Set({c \in targetContainers : status[c] = "stopped"}, "up")
    /\ UNCHANGED warned

\* start or unpause, as the scenario's verb wants.
RestoreContainers ==
    /\ Goto("restore", "post")
    /\ Set({c \in targetContainers : status[c] = sc.verb}, "up")
    /\ UNCHANGED warned

RestoreFails ==
    /\ Goto("restore", "post")
    /\ \E S \in SUBSET targetContainers : Set(S, "up")
    /\ warned' = TRUE

\* The gateway's stats once more, and the verdict on the failure Snapshot.
Summary == Goto("post", "done") /\ UNCHANGED <<status, warned>>

RunnerStep ==
    \/ BaselineStats \/ BaselineOver \/ InjectFailure \/ InjectFails
    \/ FailureOver \/ RestoreContainers \/ RestoreFails \/ Summary

---------------------------------------------------------------------------
(* traffic-gen *)

SendLoad(r, c) == genPhase = "load" /\ Launch(r, c, "gen")

LoadOver ==
    /\ genPhase = "load"
    /\ genPhase' = "drain"
    /\ UNCHANGED <<gwVars, runner, results>>

\* Mutant: no wg.Wait.
ReportAtOnce ==
    /\ genPhase = "drain"
    /\ genPhase' = "report"
    /\ UNCHANGED <<gwVars, runner, results>>

Pending(o) == {r \in Requests : owner[r] = o /\ pc[r] # "idle"}

\* wg.Wait, then the final Snapshot.
FinalReport ==
    /\ genPhase = "drain"
    /\ Pending("gen") = {}
    /\ genPhase' = "report"
    /\ UNCHANGED <<gwVars, runner, results>>

---------------------------------------------------------------------------
Next ==
    \/ \E r \in Requests, c \in Zones \cup {Geo} : SendProbe(r, c) \/ SendLoad(r, c)
    \/ \E r \in Requests : AddResult(r)
    \/ GatewayWorks \/ ZonesFollow \/ RunnerStep \/ LoadOver \/ FinalReport

Spec == Init /\ [][Next]_vars

---------------------------------------------------------------------------
(* Properties *)

\* In a drill of one zone, whatever it does to the zone and however the two
\* loads interleave: nothing fails before the containers go, nothing pinned to
\* the other zone fails at all, and a balanced request runs out of tries only if
\* a service that still answered in the drill's zone cleared the strikes which it
\* had given that zone; any other is at most refused a retry, or given up by the
\* tool that sent it.
FailuresAreExplained ==
    \A r \in Requests : pc[r] \in {"error", "overflow"} =>
        /\ phase \notin {"stats", "baseline", "inject"}
        /\ route[r] \in {Geo, sc.zone}
        /\ route[r] = Geo /\ pc[r] = "error" => r \in cleared

\* The baseline never shows the drill's own failure, although its last probes
\* may still be in flight when the containers go: what it counts as errors are
\* probes the runner itself cut off.
BaselineIsClean == rec["base"].errors = rec["base"].cut

\* traffic-gen's final report has a result for every request it launched, no
\* more and no less, however its goroutines, the runner's and Ctrl+C interleave.
FinalReportIsComplete == genPhase = "report" => rec["gen"].total = launched["gen"]

Intact == \A c \in Containers : status[c] = "up"

\* main does not get past the restoring, to where only Prometheus is asked and
\* the verdict printed, with a container of the drill still gone - unless the
\* runtime failed and a warning said so.
NothingLeftBehind == phase \in {"post", "done"} => Intact \/ warned
=============================================================================

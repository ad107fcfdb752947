---------------------------------- MODULE Gateway ----------------------------------
(***************************************************************************)
(* envoy/global-envoy.yaml: what becomes of a request after the Lua filter.*)
(* A request with a zone in x-geo goes to the cluster of that zone, one    *)
(* host, one try.  A request without - the filter's script failed - goes   *)
(* to geo_cluster, whatever its service.  That cluster holds both zones,   *)
(* ejects a host after EjectAfter consecutive failures, and retries up to  *)
(* Retries times, but no more than MaxRetries requests at once: it sets no *)
(* circuit_breakers, so Envoy's own limit applies.  A zone's own proxy is  *)
(* seen through its answers: which services it reaches, its retries        *)
(* included.  A try is decided when it ends, and an ejection takes effect  *)
(* before the next try.                                                    *)
(***************************************************************************)
EXTENDS Integers, FiniteSets

CONSTANTS
    Requests,   \* requests in flight at a time
    Services,   \* told apart by their paths, and served by the same two hosts
    Retries,    \* num_retries of the geo_cluster routes
    MaxRetries, \* Envoy's default max_retries of a cluster, 3: those in progress
    EjectAfter, \* consecutive_5xx
    Geo         \* geo_cluster, beside the two pinned clusters

Zones == {"zone1", "zone2"}

ASSUME GatewayAssumption ==
    /\ EjectAfter \in Nat \ {0}
    /\ Retries \in Nat /\ Retries >= EjectAfter
    /\ MaxRetries \in Nat
    /\ Services # {}
    /\ Geo \notin Zones

VARIABLES
    alive,    \* <<zone, service>>: the zone's proxy gets answers from the service
    ejected,  \* hosts outlier detection took out of geo_cluster
    strikes,  \* consecutive failures of each host, of whatever service
    present,  \* history: the requests in flight when a host was ejected
    pc,       \* where each request is - the zone, during a try - or how it ended
    route,    \* the cluster its route names
    service,  \* the service of its path
    failures, \* its failed tries
    steady,   \* history: zones that have not changed for its service since it
              \* came - it neither died nor recovered there - and which, if they
              \* serve it, were never ejected
    cleared   \* history: retried requests that saw another service's success
              \* clear the strikes of a host which does not serve theirs

hosts == <<ejected, strikes, present>>
reqs == <<pc, route, service, failures, steady, cleared>>
gwVars == <<alive, hosts, reqs>>

\* "overflow": a try failed, and the limit on retries refused the next one; the
\* client gets the failure, as in an "error".  "gone": it did not wait for it.
Ended == {"ok", "error", "overflow", "gone"}

RoutingTypeOK ==
    /\ alive \subseteq Zones \X Services
    /\ ejected \subseteq Zones
    /\ strikes \in [Zones -> 0..(EjectAfter - 1)]
    /\ present \in [Zones -> SUBSET Requests]
    /\ pc \in [Requests -> {"idle", "routed"} \cup Zones \cup Ended]
    /\ route \in [Requests -> Zones \cup {Geo}]
    /\ service \in [Requests -> Services]
    /\ failures \in [Requests -> 0..(Retries + 1)]
    /\ steady \in [Requests -> SUBSET Zones]
    /\ cleared \subseteq Requests

\* Of a request that is not there.
NoService == CHOOSE s \in Services : TRUE

GatewayInit ==
    /\ alive = Zones \X Services
    /\ ejected = {}
    /\ strikes = [z \in Zones |-> 0]
    /\ present = [z \in Zones |-> {}]
    /\ pc = [r \in Requests |-> "idle"]
    /\ route = [r \in Requests |-> Geo]
    /\ service = [r \in Requests |-> NoService]
    /\ failures = [r \in Requests |-> 0]
    /\ steady = [r \in Requests |-> {}]
    /\ cleared = {}

---------------------------------------------------------------------------
InFlight == {r \in Requests : pc[r] \in {"routed"} \cup Zones}

\* The zone's proxy reaches the request's service.
Serving(z, r) == <<z, service[r]>> \in alive

\* A request leaves the Lua filter and is matched to a route.
Arrive(r, c, s) ==
    /\ pc[r] = "idle"
    /\ pc' = [pc EXCEPT ![r] = "routed"]
    /\ route' = [route EXCEPT ![r] = c]
    /\ service' = [service EXCEPT ![r] = s]
    /\ failures' = [failures EXCEPT ![r] = 0]
    /\ steady' = [steady EXCEPT ![r] = {z \in Zones : z \notin ejected \/ <<z, s>> \notin alive}]
    /\ UNCHANGED <<alive, hosts, cleared>>

\* Mutant: ejected hosts stay in rotation.
AllHosts(r) == IF route[r] # Geo THEN {route[r]} ELSE Zones

\* With every host ejected Envoy panics and takes any.
Hosts(r) ==
    IF route[r] # Geo THEN {route[r]}
    ELSE IF ejected = Zones THEN Zones ELSE Zones \ ejected

Try(r, z) ==
    /\ pc[r] = "routed"
    /\ z \in Hosts(r)
    /\ pc' = [pc EXCEPT ![r] = z]
    /\ UNCHANGED <<alive, hosts, route, service, failures, steady, cleared>>

\* Requests whose retry is waiting for a host or for its answer.
Retrying == {r \in InFlight : failures[r] > 0}

\* A host's failures in a row are over, whichever of its services answered.
Succeed(r, z) ==
    /\ pc[r] = z
    /\ Serving(z, r)
    /\ pc' = [pc EXCEPT ![r] = "ok"]
    /\ IF route[r] = Geo /\ strikes[z] > 0
       THEN /\ strikes' = [strikes EXCEPT ![z] = 0]
            /\ cleared' = cleared \cup {q \in Retrying : ~Serving(z, q)}
       ELSE UNCHANGED <<strikes, cleared>>
    /\ UNCHANGED <<alive, ejected, present, route, service, failures, steady>>

\* A 5xx, a refused connection, a reset, or no answer within the try.  A retry
\* needs a try left, and room among the retries in progress.
FailedTry(r, z) ==
    /\ pc[r] = z
    /\ ~Serving(z, r)
    /\ failures' = [failures EXCEPT ![r] = @ + 1]
    /\ pc' = [pc EXCEPT ![r] =
               IF route[r] # Geo \/ failures[r] >= Retries THEN "error"
               ELSE IF Cardinality(Retrying \ {r}) >= MaxRetries THEN "overflow"
               ELSE "routed"]
    /\ UNCHANGED <<alive, route, service, cleared>>

\* The pinned clusters have no outlier detection, and an ejected host's
\* failures count no more.
FailUncounted(r, z) ==
    /\ FailedTry(r, z)
    /\ route[r] # Geo \/ z \in ejected
    /\ UNCHANGED <<hosts, steady>>

\* Mutant: the threshold is never reached.
FailNeverEjecting(r, z) ==
    /\ FailedTry(r, z)
    /\ route[r] = Geo /\ z \notin ejected
    /\ strikes' = [strikes EXCEPT ![z] = @ + 1]
    /\ UNCHANGED <<ejected, present, steady>>

FailCounted(r, z) ==
    /\ FailedTry(r, z)
    /\ route[r] = Geo /\ z \notin ejected
    /\ strikes[z] + 1 < EjectAfter
    /\ strikes' = [strikes EXCEPT ![z] = @ + 1]
    /\ UNCHANGED <<ejected, present, steady>>

FailEjecting(r, z) ==
    /\ FailedTry(r, z)
    /\ route[r] = Geo /\ z \notin ejected
    /\ strikes[z] + 1 = EjectAfter
    /\ strikes' = [strikes EXCEPT ![z] = 0]
    /\ ejected' = ejected \cup {z}
    /\ present' = [present EXCEPT ![z] = InFlight]
    /\ steady' = [q \in Requests |-> IF Serving(z, q) THEN steady[q] \ {z} ELSE steady[q]]

\* Its client no longer waits - 4s in failure-runner, 5s in traffic-gen, so two
\* tries without an answer are enough: the try in flight is reset and judged by
\* nobody.
Abandon(r) ==
    /\ r \in InFlight
    /\ pc' = [pc EXCEPT ![r] = "gone"]
    /\ UNCHANGED <<alive, hosts, route, service, failures, steady, cleared>>

\* base_ejection_time (60s) is over: longer than any request's four tries of
\* at most per_try_timeout (2s), so those in flight at the ejection have ended.
Readmit(z) ==
    /\ z \in ejected
    /\ present[z] \cap InFlight = {}
    /\ ejected' = ejected \ {z}
    /\ UNCHANGED <<alive, strikes, present, reqs>>

Unsteady(z, s) ==
    steady' = [r \in Requests |-> IF service[r] = s THEN steady[r] \ {z} ELSE steady[r]]

\* A service dies in a zone, or the zone's proxy no longer reaches it.
Dies(z, s) ==
    /\ <<z, s>> \in alive
    /\ alive' = alive \ {<<z, s>>}
    /\ Unsteady(z, s)
    /\ UNCHANGED <<hosts, pc, route, service, failures, cleared>>

Recovers(z, s) ==
    /\ <<z, s>> \notin alive
    /\ alive' = alive \cup {<<z, s>>}
    /\ Unsteady(z, s)
    /\ UNCHANGED <<hosts, pc, route, service, failures, cleared>>

\* The request's client takes the answer, and the request is forgotten.
Release(r) ==
    /\ pc[r] \in Ended
    /\ pc' = [pc EXCEPT ![r] = "idle"]
    /\ route' = [route EXCEPT ![r] = Geo]
    /\ service' = [service EXCEPT ![r] = NoService]
    /\ failures' = [failures EXCEPT ![r] = 0]
    /\ steady' = [steady EXCEPT ![r] = {}]
    /\ cleared' = cleared \ {r}
    /\ present' = [z \in Zones |-> present[z] \ {r}]
    /\ UNCHANGED <<alive, ejected, strikes>>

---------------------------------------------------------------------------
RouterStep(r) ==
    \E z \in Zones :
        \/ Try(r, z)
        \/ Succeed(r, z) \/ FailUncounted(r, z) \/ FailCounted(r, z) \/ FailEjecting(r, z)

GatewayNext ==
    \/ \E r \in Requests, c \in Zones \cup {Geo}, s \in Services : Arrive(r, c, s)
    \/ \E r \in Requests : RouterStep(r) \/ Abandon(r) \/ Release(r)
    \/ \E z \in Zones : Readmit(z) \/ \E s \in Services : Dies(z, s) \/ Recovers(z, s)

GatewaySpec == GatewayInit /\ [][GatewayNext]_gwVars

---------------------------------------------------------------------------
(* Properties *)

\* For the whole time of the request one zone did not serve it, and the other did
\* and was in rotation.
OneZoneDown(r) == \E z, y \in steady[r] : Serving(z, r) /\ ~Serving(y, r)

\* How far global-envoy.yaml:117-120 is right: a request that geo_cluster
\* balances does not run out of tries while one zone cannot serve it - its own
\* retries and the ejection leave it none to lose - unless a success of another
\* service clears the strikes it gave the failed zone.  It may still be refused a
\* retry ("overflow"), or its client may stop waiting ("gone").
FailoverIsSeamless ==
    \A r \in Requests :
        route[r] = Geo /\ OneZoneDown(r) /\ r \notin cleared => pc[r] # "error"

\* What global-envoy.yaml:117-120 says of the gateway's requests, and
\* docs/Architecture.md even of one the filter sent to the failed zone: the
\* outage of a zone costs none of them.
EveryFailoverIsSeamless ==
    \A r \in Requests : OneZoneDown(r) => pc[r] \notin {"error", "overflow"}
=============================================================================

-------------------------------- MODULE DrillProofs --------------------------------
(***************************************************************************)
(* For every number of requests, of services, of retries and of probes: a  *)
(* request balanced by geo_cluster does not run out of tries while one     *)
(* zone fails it, unless another service's success cleared the strikes it  *)
(* gave; what else may fail in a drill; and what the tools report of it.   *)
(***************************************************************************)
EXTENDS Drill, FiniteSetTheorems, TLAPS

(* Part 1: the gateway, whenever zones die and recover. *)

\* A request under way has tries left.
TriesLeft ==
    \A r \in InFlight : failures[r] <= IF route[r] = Geo THEN Retries ELSE 0

\* An ejection remembers no request but those of its time.
Forgotten == \A r \in Requests, z \in Zones : pc[r] = "idle" => r \notin present[z]

\* r is balanced, and since it came y did not serve it and kept its strikes, and
\* z did and stayed in rotation.
Between(r, y, z) ==
    /\ r \in InFlight /\ route[r] = Geo /\ r \notin cleared
    /\ y \in steady[r] /\ ~Serving(y, r)
    /\ z \in steady[r] /\ Serving(z, r)

\* z stays in rotation.
InRotation == \A r \in Requests : \A y, z \in Zones : Between(r, y, z) => z \notin ejected

\* Every try r lost, it lost to y, and counted against y: y is ejected before
\* r runs out of tries.
Counted ==
    \A r \in Requests : \A y, z \in Zones :
        Between(r, y, z) /\ y \notin ejected => failures[r] <= strikes[y]

\* After the ejection r loses no more than the try it is at.
Lost(r, y) == IF pc[r] = y THEN failures[r] + 1 ELSE failures[r]

Bounded ==
    \A r \in Requests : \A y, z \in Zones :
        Between(r, y, z) /\ y \in ejected =>
            IF r \in present[y] THEN Lost(r, y) <= EjectAfter
                                ELSE failures[r] = 0 /\ pc[r] # y

GatewayInv ==
    /\ RoutingTypeOK
    /\ TriesLeft /\ Forgotten
    /\ InRotation /\ Counted /\ Bounded
    /\ FailoverIsSeamless

Rest ==
    /\ TriesLeft /\ Forgotten
    /\ InRotation /\ Counted /\ Bounded
    /\ FailoverIsSeamless

---------------------------------------------------------------------------
USE GatewayAssumption DEF gwVars, hosts, reqs, Ended, Zones

LEMMA Facts ==
    ASSUME RoutingTypeOK
    PROVE  /\ EjectAfter \in Int /\ Retries \in Int /\ 0 < EjectAfter /\ EjectAfter <= Retries
           /\ \A r \in Requests : failures[r] \in Int /\ 0 <= failures[r] /\ failures[r] <= Retries + 1
           /\ \A z \in Zones : strikes[z] \in Int /\ 0 <= strikes[z] /\ strikes[z] < EjectAfter
BY DEF RoutingTypeOK

LEMMA NoServiceTyped == NoService \in Services
<1>1. \E s \in Services : TRUE
  OBVIOUS
<1>2. QED
  BY <1>1 DEF NoService

LEMMA GatewayStarts == GatewayInit => GatewayInv
<1>1. GatewayInit => RoutingTypeOK
  BY NoServiceTyped DEF GatewayInit, RoutingTypeOK
<1>2. GatewayInit => Rest
  BY DEF GatewayInit, Rest, TriesLeft, Forgotten, InRotation, Counted, Bounded,
         FailoverIsSeamless, InFlight, Between, OneZoneDown
<1>3. QED
  BY <1>1, <1>2 DEF GatewayInv, Rest

\* A failed try leaves the count within its bounds.
LEMMA FailedTryTyped ==
    ASSUME RoutingTypeOK, TriesLeft, NEW r \in Requests, NEW z \in Zones, FailedTry(r, z)
    PROVE  /\ failures' \in [Requests -> 0..(Retries + 1)]
           /\ pc' \in [Requests -> {"idle", "routed"} \cup Zones \cup Ended]
           /\ UNCHANGED <<alive, route, service, cleared>>
<1>1. failures[r] <= Retries /\ failures[r] \in Nat
  BY Facts DEF FailedTry, TriesLeft, InFlight, RoutingTypeOK
<1>2. failures[r] + 1 \in 0..(Retries + 1)
  BY <1>1
<1>3. failures' \in [Requests -> 0..(Retries + 1)]
  BY <1>2 DEF FailedTry, RoutingTypeOK
<1>4. PICK v \in {"routed", "error", "overflow"} : pc' = [pc EXCEPT ![r] = v]
  BY DEF FailedTry
<1>5. QED
  BY <1>3, <1>4 DEF FailedTry, RoutingTypeOK

LEMMA TypeStep ==
    ASSUME RoutingTypeOK, TriesLeft, GatewayNext
    PROVE  RoutingTypeOK'
<1>1. ASSUME NEW r \in Requests, NEW c \in Zones \cup {Geo}, NEW s \in Services, Arrive(r, c, s)
      PROVE  RoutingTypeOK'
  <2>1. {z \in Zones : z \notin ejected \/ <<z, s>> \notin alive} \in SUBSET Zones
    OBVIOUS
  <2>2. steady' \in [Requests -> SUBSET Zones]
    BY <1>1, <2>1 DEF Arrive, RoutingTypeOK
  <2>3. QED
    BY <1>1, <2>2 DEF Arrive, RoutingTypeOK
<1>2. ASSUME NEW r \in Requests, NEW z \in Zones, Try(r, z) PROVE RoutingTypeOK'
  BY <1>2 DEF Try, RoutingTypeOK
<1>3. ASSUME NEW r \in Requests, NEW z \in Zones, Succeed(r, z) PROVE RoutingTypeOK'
  <2>1. /\ pc' = [pc EXCEPT ![r] = "ok"]
        /\ UNCHANGED <<alive, ejected, present, route, service, failures, steady>>
    BY <1>3 DEF Succeed
  <2>2. strikes' \in [Zones -> 0..(EjectAfter - 1)] /\ cleared' \subseteq Requests
    BY <1>3 DEF Succeed, RoutingTypeOK, Retrying, InFlight
  <2>3. QED
    BY <2>1, <2>2 DEF RoutingTypeOK
<1>4. ASSUME NEW r \in Requests, NEW z \in Zones, FailUncounted(r, z) PROVE RoutingTypeOK'
  BY <1>4, FailedTryTyped DEF FailUncounted, RoutingTypeOK
<1>5. ASSUME NEW r \in Requests, NEW z \in Zones, FailCounted(r, z) PROVE RoutingTypeOK'
  <2>1. /\ FailedTry(r, z) /\ strikes' = [strikes EXCEPT ![z] = @ + 1]
        /\ UNCHANGED <<ejected, present, steady>>
    BY <1>5 DEF FailCounted
  <2>2. strikes[z] + 1 \in 0..(EjectAfter - 1)
    BY <1>5, Facts DEF FailCounted
  <2>3. strikes' \in [Zones -> 0..(EjectAfter - 1)]
    BY <2>1, <2>2 DEF RoutingTypeOK
  <2>4. QED
    BY <2>1, <2>3, FailedTryTyped DEF RoutingTypeOK
<1>6. ASSUME NEW r \in Requests, NEW z \in Zones, FailEjecting(r, z) PROVE RoutingTypeOK'
  <2>1. /\ FailedTry(r, z)
        /\ strikes' = [strikes EXCEPT ![z] = 0]
        /\ ejected' = ejected \cup {z}
        /\ present' = [present EXCEPT ![z] = InFlight]
        /\ steady' = [q \in Requests |-> IF Serving(z, q) THEN steady[q] \ {z} ELSE steady[q]]
    BY <1>6 DEF FailEjecting
  <2>2. InFlight \in SUBSET Requests
    BY DEF InFlight
  <2>3. /\ strikes' \in [Zones -> 0..(EjectAfter - 1)]
        /\ ejected' \subseteq Zones
        /\ present' \in [Zones -> SUBSET Requests]
    BY <2>1, <2>2 DEF RoutingTypeOK
  <2>4. steady' \in [Requests -> SUBSET Zones]
    BY <2>1 DEF RoutingTypeOK
  <2>5. /\ failures' \in [Requests -> 0..(Retries + 1)]
        /\ pc' \in [Requests -> {"idle", "routed"} \cup Zones \cup Ended]
        /\ UNCHANGED <<alive, route, service, cleared>>
    BY <2>1, FailedTryTyped
  <2>6. QED
    BY <2>3, <2>4, <2>5 DEF RoutingTypeOK
<1>7. ASSUME NEW r \in Requests, Abandon(r) PROVE RoutingTypeOK'
  BY <1>7 DEF Abandon, RoutingTypeOK
<1>8. ASSUME NEW r \in Requests, Release(r) PROVE RoutingTypeOK'
  BY <1>8, NoServiceTyped DEF Release, RoutingTypeOK
<1>9. ASSUME NEW z \in Zones, Readmit(z) PROVE RoutingTypeOK'
  BY <1>9 DEF Readmit, RoutingTypeOK
<1>10. ASSUME NEW z \in Zones, NEW s \in Services, Dies(z, s) \/ Recovers(z, s)
       PROVE  RoutingTypeOK'
  <2>1. /\ steady' = [r \in Requests |-> IF service[r] = s THEN steady[r] \ {z} ELSE steady[r]]
        /\ alive' \subseteq Zones \X Services
        /\ UNCHANGED <<hosts, pc, route, service, failures, cleared>>
    BY <1>10 DEF Dies, Recovers, Unsteady, RoutingTypeOK
  <2>2. steady' \in [Requests -> SUBSET Zones]
    BY <2>1 DEF RoutingTypeOK
  <2>3. QED
    BY <2>1, <2>2 DEF RoutingTypeOK
<1>11. QED
  BY <1>1, <1>2, <1>3, <1>4, <1>5, <1>6, <1>7, <1>8, <1>9, <1>10 DEF GatewayNext, RouterStep

---------------------------------------------------------------------------
\* The requests other than r that are under way are so after a step of r.
LEMMA ArriveStep ==
    ASSUME GatewayInv, NEW r \in Requests, NEW c \in Zones \cup {Geo}, NEW s \in Services,
           Arrive(r, c, s)
    PROVE  Rest'
<1> USE DEF GatewayInv, RoutingTypeOK
<1>1. /\ UNCHANGED <<alive, hosts, cleared>>
      /\ \A q \in Requests : pc'[q] = IF q = r THEN "routed" ELSE pc[q]
      /\ \A q \in Requests : failures'[q] = IF q = r THEN 0 ELSE failures[q]
      /\ \A q \in Requests \ {r} : steady'[q] = steady[q] /\ service'[q] = service[q]
      /\ \A z \in steady'[r] : z \notin ejected \/ ~Serving(z, r)'
      /\ \A q \in Requests \ {r} : route'[q] = route[q]
      /\ \A z \in Zones : r \notin present[z]
  BY DEF Forgotten, Arrive, Serving
<1>2. \A q \in Requests \ {r}, y, z \in Zones : Between(q, y, z)' <=> Between(q, y, z)
  BY <1>1 DEF Between, InFlight, Serving
<1>3. TriesLeft' /\ Forgotten'
  BY <1>1, Facts DEF TriesLeft, Forgotten, InFlight
<1>4. InRotation'
  BY <1>1, <1>2 DEF InRotation, Between
<1>5. Counted' /\ Bounded'
  BY <1>1, <1>2, Facts DEF Counted, Bounded, Lost
<1>6. FailoverIsSeamless'
  BY <1>1 DEF FailoverIsSeamless, OneZoneDown, Serving
<1>7. QED
  BY <1>3, <1>4, <1>5, <1>6 DEF Rest

\* A step of r that takes no try away from it, in or out of rotation.
LEMMA QuietStep ==
    ASSUME GatewayInv, RoutingTypeOK', NEW r \in Requests,
           UNCHANGED <<alive, ejected, present, route, service, failures, steady>>,
           \A q \in Requests \ {r} : pc'[q] = pc[q],
           pc'[r] \in {"ok", "gone"},
           cleared \subseteq cleared',
           \A q \in Requests \ cleared', y \in Zones :
               strikes'[y] = strikes[y] \/ Serving(y, q) \/ failures[q] = 0 \/ q \notin InFlight
    PROVE  Rest'
<1> USE DEF GatewayInv, RoutingTypeOK
<1>1. \A q \in Requests, y, z \in Zones : Between(q, y, z)' => q # r /\ Between(q, y, z)
  BY DEF Between, InFlight, Serving
<1>2. TriesLeft' /\ Forgotten'
  BY DEF TriesLeft, Forgotten, InFlight
<1>3. InRotation'
  BY <1>1 DEF InRotation
<1>4. Counted'
  <2>1. ASSUME NEW q \in Requests, NEW y \in Zones, NEW z \in Zones,
               Between(q, y, z)', y \notin ejected'
        PROVE  failures'[q] <= strikes'[y]
    <3>1. Between(q, y, z) /\ failures[q] <= strikes[y]
      BY <1>1, <2>1 DEF Counted
    <3>2. strikes'[y] = strikes[y] \/ failures[q] = 0
      BY <2>1, <3>1 DEF Between
    <3>3. QED
      BY <3>1, <3>2, Facts
  <2>2. QED
    BY <2>1 DEF Counted
<1>5. Bounded'
  BY <1>1 DEF Bounded, Lost
<1>6. FailoverIsSeamless'
  BY DEF FailoverIsSeamless, OneZoneDown, Serving
<1>7. QED
  BY <1>2, <1>3, <1>4, <1>5, <1>6 DEF Rest

\* The strikes that a success takes away belong to requests it marks.
LEMMA SucceedFacts ==
    ASSUME GatewayInv, NEW r \in Requests, NEW z \in Zones, Succeed(r, z)
    PROVE  /\ UNCHANGED <<alive, ejected, present, route, service, failures, steady>>
           /\ \A q \in Requests \ {r} : pc'[q] = pc[q]
           /\ pc'[r] \in {"ok", "gone"}
           /\ cleared \subseteq cleared'
           /\ \A q \in Requests \ cleared', y \in Zones :
                  strikes'[y] = strikes[y] \/ Serving(y, q) \/ failures[q] = 0 \/ q \notin InFlight
<1>1. /\ UNCHANGED <<alive, ejected, present, route, service, failures, steady>>
      /\ \A q \in Requests \ {r} : pc'[q] = pc[q]
      /\ pc'[r] \in {"ok", "gone"}
      /\ cleared \subseteq cleared'
  BY DEF Succeed, GatewayInv, RoutingTypeOK
<1>2. ASSUME NEW q \in Requests \ cleared', NEW y \in Zones
      PROVE  strikes'[y] = strikes[y] \/ Serving(y, q) \/ failures[q] = 0 \/ q \notin InFlight
  <2>1. CASE strikes' = strikes
    BY <2>1
  <2>2. CASE /\ strikes' = [strikes EXCEPT ![z] = 0]
             /\ cleared' = cleared \cup {p \in Retrying : ~Serving(z, p)}
    <3>1. q \in Retrying => Serving(z, q)
      BY <2>2
    <3>2. q \in InFlight /\ failures[q] # 0 => q \in Retrying
      BY Facts DEF Retrying, GatewayInv
    <3>3. y # z => strikes'[y] = strikes[y]
      BY <2>2 DEF GatewayInv, RoutingTypeOK
    <3>4. QED
      BY <3>1, <3>2, <3>3
  <2>3. QED
    BY <2>1, <2>2 DEF Succeed
<1>3. QED
  BY <1>1, <1>2

LEMMA TryStep ==
    ASSUME GatewayInv, NEW r \in Requests, NEW x \in Zones, Try(r, x)
    PROVE  Rest'
<1> USE DEF GatewayInv, RoutingTypeOK
<1>1. /\ UNCHANGED <<alive, hosts, route, service, failures, steady, cleared>>
      /\ pc[r] = "routed" /\ x \in Hosts(r)
      /\ \A q \in Requests : pc'[q] = IF q = r THEN x ELSE pc[q]
  BY DEF Try
<1>2. \A q \in Requests, y, z \in Zones : Between(q, y, z)' <=> Between(q, y, z)
  BY <1>1 DEF Between, InFlight, Serving
<1>3. TriesLeft' /\ Forgotten'
  BY <1>1 DEF TriesLeft, Forgotten, InFlight
<1>4. InRotation' /\ Counted'
  BY <1>1, <1>2 DEF InRotation, Counted
<1>5. ASSUME NEW y \in Zones, NEW z \in Zones, Between(r, y, z), y \in ejected PROVE x # y
  BY <1>1, <1>5 DEF InRotation, Hosts, Between
<1>6. Bounded'
  BY <1>1, <1>2, <1>5, Facts DEF Bounded, Lost
<1>7. FailoverIsSeamless'
  BY <1>1 DEF FailoverIsSeamless, OneZoneDown, Serving
<1>8. QED
  BY <1>3, <1>4, <1>6, <1>7 DEF Rest

Fails(r, x) == FailUncounted(r, x) \/ FailCounted(r, x) \/ FailEjecting(r, x)

\* What every failed try does to the request itself and to the others.
LEMMA FailedTryFacts ==
    ASSUME GatewayInv, NEW r \in Requests, NEW x \in Zones, Fails(r, x)
    PROVE  /\ UNCHANGED <<alive, route, service, cleared>>
           /\ \A q \in Requests : steady'[q] \subseteq steady[q]
           /\ r \in InFlight /\ pc[r] = x /\ ~Serving(x, r)
           /\ \A q \in Requests \ {r} : pc'[q] = pc[q] /\ failures'[q] = failures[q]
           /\ failures'[r] = failures[r] + 1
           /\ pc'[r] \in {"routed", "error", "overflow"}
           /\ pc'[r] = "error" => route[r] # Geo \/ failures[r] >= Retries
           /\ pc'[r] # "error" => route[r] = Geo
           /\ \A q \in Requests, y, z \in Zones : Between(q, y, z)' => Between(q, y, z)
           /\ \A y, z \in Zones : Between(r, y, z) => x = y /\ failures[r] < EjectAfter
           /\ TriesLeft'
<1> USE DEF GatewayInv, RoutingTypeOK
<1>0. FailedTry(r, x) /\ \A q \in Requests : steady'[q] \subseteq steady[q]
  BY DEF Fails, FailUncounted, FailCounted, FailEjecting
<1>1. /\ UNCHANGED <<alive, route, service, cleared>>
      /\ r \in InFlight /\ pc[r] = x /\ ~Serving(x, r)
      /\ \A q \in Requests \ {r} : pc'[q] = pc[q] /\ failures'[q] = failures[q]
      /\ failures'[r] = failures[r] + 1
  BY <1>0 DEF FailedTry, InFlight
<1>2. /\ pc'[r] \in {"routed", "error", "overflow"}
      /\ pc'[r] = "error" => route[r] # Geo \/ failures[r] >= Retries
      /\ pc'[r] # "error" => route[r] = Geo /\ ~(failures[r] >= Retries)
  <2>1. pc'[r] = IF route[r] # Geo \/ failures[r] >= Retries THEN "error"
                 ELSE IF Cardinality(Retrying \ {r}) >= MaxRetries THEN "overflow"
                 ELSE "routed"
    BY <1>0 DEF FailedTry
  <2>2. QED
    BY <2>1
<1>3. \A q \in Requests, y, z \in Zones : Between(q, y, z)' => Between(q, y, z)
  <2>1. \A q \in Requests : q \in InFlight' => q \in InFlight
    BY <1>1 DEF InFlight
  <2>2. \A q \in Requests, y \in Zones : Serving(y, q)' <=> Serving(y, q)
    BY <1>1 DEF Serving
  <2>3. QED
    BY <1>0, <1>1, <2>1, <2>2 DEF Between
<1>4. ASSUME NEW y \in Zones, NEW z \in Zones, Between(r, y, z)
      PROVE  x = y /\ failures[r] < EjectAfter
  <2>1. x = y
    BY <1>1, <1>4 DEF Between
  <2>2. CASE y \in ejected
    BY <1>1, <1>4, <2>1, <2>2, Facts DEF Bounded, Lost
  <2>3. CASE y \notin ejected
    BY <1>4, <2>1, <2>3, Facts DEF Counted
  <2>4. QED
    BY <2>1, <2>2, <2>3
<1>5. TriesLeft'
  <2>1. \A q \in Requests : q \in InFlight' => q \in InFlight
    BY <1>1 DEF InFlight
  <2>2. r \in InFlight' => route[r] = Geo /\ ~(failures[r] >= Retries)
    BY <1>2 DEF InFlight
  <2>3. QED
    BY <1>1, <2>1, <2>2, Facts DEF TriesLeft, InFlight
<1>6. QED
  BY <1>0, <1>1, <1>2, <1>3, <1>4, <1>5

\* No failed try between a dead zone and a living one is the last.
LEMMA FailedTrySeamless ==
    ASSUME GatewayInv, NEW r \in Requests, NEW x \in Zones, Fails(r, x)
    PROVE  FailoverIsSeamless'
<1> USE DEF GatewayInv
<1>1. ASSUME NEW q \in Requests, route'[q] = Geo, OneZoneDown(q)', q \notin cleared',
             pc'[q] = "error"
      PROVE  FALSE
  <2>1. PICK z \in steady[q], y \in steady[q] : Serving(z, q) /\ ~Serving(y, q)
    BY <1>1, FailedTryFacts DEF OneZoneDown, Serving
  <2>2. CASE q = r
    <3>1. Between(r, y, z) /\ y \in Zones /\ z \in Zones
      BY <1>1, <2>1, <2>2, FailedTryFacts DEF Between, RoutingTypeOK
    <3>2. failures[r] < EjectAfter
      BY <3>1, FailedTryFacts
    <3>3. ~(failures[r] >= Retries)
      BY <3>2, Facts
    <3>4. QED
      BY <1>1, <2>2, <3>3, FailedTryFacts
  <2>3. CASE q # r
    BY <1>1, <2>1, <2>3, FailedTryFacts DEF FailoverIsSeamless, OneZoneDown
  <2>4. QED
    BY <2>2, <2>3
<1>2. QED
  BY <1>1 DEF FailoverIsSeamless

LEMMA FailUncountedStep ==
    ASSUME GatewayInv, NEW r \in Requests, NEW x \in Zones, FailUncounted(r, x)
    PROVE  Rest'
<1> USE DEF GatewayInv, RoutingTypeOK
<1>1. Fails(r, x) /\ UNCHANGED hosts /\ (route[r] # Geo \/ x \in ejected)
  BY DEF FailUncounted, Fails
<1>2. TriesLeft' /\ FailoverIsSeamless'
  BY <1>1, FailedTryFacts, FailedTrySeamless
<1>3. Forgotten'
  BY <1>1, FailedTryFacts DEF Forgotten
<1>4. InRotation'
  BY <1>1, FailedTryFacts DEF InRotation
<1>5. Counted'
  <2>1. ASSUME NEW q \in Requests, NEW y \in Zones, NEW z \in Zones,
               Between(q, y, z)', y \notin ejected'
        PROVE  failures'[q] <= strikes'[y]
    <3>1. Between(q, y, z) /\ y \notin ejected /\ q # r
      BY <1>1, <2>1, FailedTryFacts DEF Between
    <3>2. QED
      BY <1>1, <3>1, FailedTryFacts DEF Counted
  <2>2. QED
    BY <2>1 DEF Counted
<1>6. Bounded'
  <2>1. ASSUME NEW q \in Requests, NEW y \in Zones, NEW z \in Zones,
               Between(q, y, z)', y \in ejected'
        PROVE  IF q \in present'[y] THEN Lost(q, y)' <= EjectAfter
                                     ELSE failures'[q] = 0 /\ pc'[q] # y
    <3>1. Between(q, y, z) /\ y \in ejected
      BY <1>1, <2>1, FailedTryFacts
    <3>2. CASE q = r
      <4>1. x = y /\ r \in present[y] /\ failures[r] + 1 <= EjectAfter
        BY <1>1, <3>1, <3>2, FailedTryFacts DEF Bounded, Lost
      <4>2. QED
        BY <1>1, <3>2, <4>1, FailedTryFacts DEF Lost
    <3>3. CASE q # r
      BY <1>1, <3>1, <3>3, FailedTryFacts DEF Bounded, Lost
    <3>4. QED
      BY <3>2, <3>3
  <2>2. QED
    BY <2>1 DEF Bounded
<1>7. QED
  BY <1>2, <1>3, <1>4, <1>5, <1>6 DEF Rest

LEMMA FailCountedStep ==
    ASSUME GatewayInv, NEW r \in Requests, NEW x \in Zones, FailCounted(r, x)
    PROVE  Rest'
<1> USE DEF GatewayInv, RoutingTypeOK
<1>1. /\ Fails(r, x) /\ x \notin ejected /\ UNCHANGED <<ejected, present>>
      /\ \A z \in Zones : strikes'[z] = IF z = x THEN strikes[x] + 1 ELSE strikes[z]
  BY DEF FailCounted, Fails
<1>2. TriesLeft' /\ FailoverIsSeamless'
  BY <1>1, FailedTryFacts, FailedTrySeamless
<1>3. Forgotten'
  BY <1>1, FailedTryFacts DEF Forgotten
<1>4. InRotation'
  BY <1>1, FailedTryFacts DEF InRotation
<1>5. Counted'
  <2>1. ASSUME NEW q \in Requests, NEW y \in Zones, NEW z \in Zones,
               Between(q, y, z)', y \notin ejected'
        PROVE  failures'[q] <= strikes'[y]
    <3>1. Between(q, y, z) /\ failures[q] <= strikes[y]
      BY <1>1, <2>1, FailedTryFacts DEF Counted
    <3>2. CASE q = r
      BY <1>1, <3>1, <3>2, FailedTryFacts, Facts
    <3>3. CASE q # r
      BY <1>1, <3>1, <3>3, FailedTryFacts, Facts
    <3>4. QED
      BY <3>2, <3>3
  <2>2. QED
    BY <2>1 DEF Counted
<1>6. Bounded'
  <2>1. ASSUME NEW q \in Requests, NEW y \in Zones, NEW z \in Zones,
               Between(q, y, z)', y \in ejected'
        PROVE  IF q \in present'[y] THEN Lost(q, y)' <= EjectAfter
                                     ELSE failures'[q] = 0 /\ pc'[q] # y
    <3>1. Between(q, y, z) /\ y \in ejected /\ q # r
      BY <1>1, <2>1, FailedTryFacts
    <3>2. QED
      BY <1>1, <3>1, FailedTryFacts DEF Bounded, Lost
  <2>2. QED
    BY <2>1 DEF Bounded
<1>7. QED
  BY <1>2, <1>3, <1>4, <1>5, <1>6 DEF Rest

LEMMA FailEjectingStep ==
    ASSUME GatewayInv, NEW r \in Requests, NEW x \in Zones, FailEjecting(r, x)
    PROVE  Rest'
<1> USE DEF GatewayInv, RoutingTypeOK
<1>1. /\ Fails(r, x) /\ x \notin ejected
      /\ strikes[x] + 1 = EjectAfter
      /\ ejected' = ejected \cup {x}
      /\ \A z \in Zones : z # x => strikes'[z] = strikes[z] /\ present'[z] = present[z]
      /\ present'[x] = InFlight
      /\ \A q \in Requests : Serving(x, q) => x \notin steady'[q]
  BY DEF FailEjecting, Fails
<1>2. TriesLeft' /\ FailoverIsSeamless'
  BY <1>1, FailedTryFacts, FailedTrySeamless
<1>3. Forgotten'
  BY <1>1, FailedTryFacts DEF Forgotten, InFlight
<1>4. InRotation'
  <2>1. ASSUME NEW q \in Requests, NEW y \in Zones, NEW z \in Zones, Between(q, y, z)'
        PROVE  z \notin ejected'
    <3>1. Between(q, y, z) /\ z \in steady'[q]
      BY <1>1, <2>1, FailedTryFacts DEF Between
    <3>2. z # x
      BY <1>1, <3>1 DEF Between
    <3>3. QED
      BY <1>1, <3>1, <3>2 DEF InRotation
  <2>2. QED
    BY <2>1 DEF InRotation
<1>5. Counted'
  <2>1. ASSUME NEW q \in Requests, NEW y \in Zones, NEW z \in Zones,
               Between(q, y, z)', y \notin ejected'
        PROVE  failures'[q] <= strikes'[y]
    <3>1. Between(q, y, z) /\ y \notin ejected /\ y # x /\ q # r
      BY <1>1, <2>1, FailedTryFacts
    <3>2. QED
      BY <1>1, <3>1, FailedTryFacts DEF Counted
  <2>2. QED
    BY <2>1 DEF Counted
<1>6. Bounded'
  <2>1. ASSUME NEW q \in Requests, NEW y \in Zones, NEW z \in Zones,
               Between(q, y, z)', y \in ejected'
        PROVE  IF q \in present'[y] THEN Lost(q, y)' <= EjectAfter
                                     ELSE failures'[q] = 0 /\ pc'[q] # y
    <3>1. Between(q, y, z)
      BY <2>1, FailedTryFacts, <1>1
    <3>2. CASE y = x
      <4>1. failures[q] < EjectAfter /\ q \in present'[y]
        BY <1>1, <3>1, <3>2, Facts DEF Counted, Between
      <4>2. CASE q = r
        BY <1>1, <3>2, <4>1, <4>2, FailedTryFacts, Facts DEF Lost
      <4>3. CASE q # r
        BY <1>1, <3>2, <4>1, <4>3, FailedTryFacts, Facts DEF Lost
      <4>4. QED
        BY <4>2, <4>3
    <3>3. CASE y # x
      <4>1. y \in ejected /\ q # r
        BY <1>1, <2>1, <3>1, <3>3, FailedTryFacts
      <4>2. QED
        BY <1>1, <3>1, <3>3, <4>1, FailedTryFacts DEF Bounded, Lost
    <3>4. QED
      BY <3>2, <3>3
  <2>2. QED
    BY <2>1 DEF Bounded
<1>7. QED
  BY <1>2, <1>3, <1>4, <1>5, <1>6 DEF Rest

LEMMA ReleaseStep ==
    ASSUME GatewayInv, NEW r \in Requests, Release(r)
    PROVE  Rest'
<1> USE DEF GatewayInv, RoutingTypeOK
<1>1. /\ UNCHANGED <<alive, ejected, strikes>>
      /\ pc'[r] = "idle" /\ steady'[r] = {}
      /\ \A q \in Requests \ {r} : /\ pc'[q] = pc[q] /\ route'[q] = route[q]
                                   /\ service'[q] = service[q]
                                   /\ failures'[q] = failures[q] /\ steady'[q] = steady[q]
                                   /\ q \in cleared' <=> q \in cleared
      /\ \A z \in Zones : present'[z] = present[z] \ {r}
  BY DEF Release
<1>2. \A q \in Requests, y, z \in Zones : Between(q, y, z)' => q # r /\ Between(q, y, z)
  BY <1>1 DEF Between, InFlight, Serving
<1>3. TriesLeft' /\ Forgotten'
  BY <1>1 DEF TriesLeft, Forgotten, InFlight
<1>4. InRotation' /\ Counted'
  BY <1>1, <1>2 DEF InRotation, Counted
<1>5. Bounded'
  BY <1>1, <1>2, Facts DEF Bounded, Lost
<1>6. FailoverIsSeamless'
  BY <1>1 DEF FailoverIsSeamless, OneZoneDown, Serving
<1>7. QED
  BY <1>3, <1>4, <1>5, <1>6 DEF Rest

LEMMA ReadmitStep ==
    ASSUME GatewayInv, NEW x \in Zones, Readmit(x)
    PROVE  Rest'
<1> USE DEF GatewayInv, RoutingTypeOK
<1>1. /\ UNCHANGED <<alive, strikes, present, reqs>>
      /\ present[x] \cap InFlight = {}
      /\ x \in ejected /\ ejected' = ejected \ {x}
  BY DEF Readmit
<1>2. \A q \in Requests, y, z \in Zones : Between(q, y, z)' <=> Between(q, y, z)
  BY <1>1 DEF Between, InFlight, Serving
<1>3. TriesLeft' /\ Forgotten' /\ InRotation'
  BY <1>1, <1>2 DEF TriesLeft, Forgotten, InRotation, InFlight
<1>4. Counted'
  <2>1. ASSUME NEW q \in Requests, NEW y \in Zones, NEW z \in Zones,
               Between(q, y, z), y \notin ejected'
        PROVE  failures[q] <= strikes[y]
    <3>1. CASE y = x
      BY <1>1, <2>1, <3>1, Facts DEF Bounded, Between
    <3>2. CASE y # x
      BY <1>1, <2>1, <3>2 DEF Counted
    <3>3. QED
      BY <3>1, <3>2
  <2>2. QED
    BY <1>1, <1>2, <2>1 DEF Counted
<1>5. Bounded'
  BY <1>1, <1>2 DEF Bounded, Lost
<1>6. FailoverIsSeamless'
  BY <1>1 DEF FailoverIsSeamless, OneZoneDown, Serving
<1>7. QED
  BY <1>3, <1>4, <1>5, <1>6 DEF Rest

\* What becomes of a service in a zone changes nothing for the requests that
\* count on it, for they no longer do.
LEMMA ZoneStep ==
    ASSUME GatewayInv, NEW x \in Zones, NEW s \in Services, Dies(x, s) \/ Recovers(x, s)
    PROVE  Rest'
<1> USE DEF GatewayInv, RoutingTypeOK
<1>1. /\ UNCHANGED <<hosts, pc, route, service, failures, cleared>>
      /\ \A z \in Zones, t \in Services : z # x \/ t # s => (<<z, t>> \in alive' <=> <<z, t>> \in alive)
      /\ \A q \in Requests : steady'[q] = IF service[q] = s THEN steady[q] \ {x} ELSE steady[q]
  BY DEF Dies, Recovers, Unsteady
<1>2. ASSUME NEW q \in Requests, NEW z \in Zones, z \in steady'[q]
      PROVE  z \in steady[q] /\ (Serving(z, q)' <=> Serving(z, q))
  <2>1. z \in steady[q] /\ (z # x \/ service[q] # s)
    BY <1>1, <1>2
  <2>2. service[q] \in Services /\ service'[q] = service[q]
    BY <1>1
  <2>3. <<z, service[q]>> \in alive' <=> <<z, service[q]>> \in alive
    BY <1>1, <2>1, <2>2
  <2>4. QED
    BY <2>1, <2>2, <2>3 DEF Serving
<1>3. \A q \in Requests, y, z \in Zones : Between(q, y, z)' => Between(q, y, z)
  BY <1>1, <1>2 DEF Between, InFlight
<1>4. TriesLeft' /\ Forgotten' /\ InRotation' /\ Counted' /\ Bounded'
  <2>1. TriesLeft' /\ Forgotten'
    BY <1>1 DEF TriesLeft, Forgotten, InFlight
  <2>2. InRotation'
    BY <1>1, <1>3 DEF InRotation
  <2>3. Counted'
    BY <1>1, <1>3 DEF Counted
  <2>4. Bounded'
    BY <1>1, <1>3 DEF Bounded, Lost
  <2>5. QED
    BY <2>1, <2>2, <2>3, <2>4
<1>5. FailoverIsSeamless'
  <2>1. ASSUME NEW q \in Requests, OneZoneDown(q)' PROVE OneZoneDown(q)
    <3>1. PICK z \in steady'[q], y \in steady'[q] : Serving(z, q)' /\ ~Serving(y, q)'
      BY <2>1 DEF OneZoneDown
    <3>2. z \in Zones /\ y \in Zones
      BY <1>1
    <3>3. QED
      BY <1>2, <3>1, <3>2 DEF OneZoneDown
  <2>2. UNCHANGED <<pc, route, cleared>>
    BY <1>1
  <2>3. QED
    BY <2>1, <2>2 DEF FailoverIsSeamless
<1>6. QED
  BY <1>4, <1>5 DEF Rest

LEMMA GatewayStep == GatewayInv /\ [GatewayNext]_gwVars => GatewayInv'
<1>1. ASSUME GatewayInv, GatewayNext PROVE GatewayInv'
  <2>1. RoutingTypeOK'
    BY <1>1, TypeStep DEF GatewayInv
  <2> USE <1>1
  <2>2. ASSUME NEW r \in Requests, NEW c \in Zones \cup {Geo}, NEW s \in Services, Arrive(r, c, s)
        PROVE  Rest'
    BY <2>2, ArriveStep
  <2>3. ASSUME NEW r \in Requests, NEW z \in Zones, Try(r, z) PROVE Rest'
    BY <2>3, TryStep
  <2>4. ASSUME NEW r \in Requests, NEW z \in Zones, Succeed(r, z) PROVE Rest'
    BY <2>1, <2>4, SucceedFacts, QuietStep
  <2>5. ASSUME NEW r \in Requests, Abandon(r) PROVE Rest'
    <3>1. /\ UNCHANGED <<alive, ejected, strikes, present, route, service, failures, steady, cleared>>
          /\ \A q \in Requests \ {r} : pc'[q] = pc[q]
          /\ pc'[r] \in {"ok", "gone"}
      BY <2>5 DEF Abandon, GatewayInv, RoutingTypeOK
    <3>2. QED
      BY <2>1, <3>1, QuietStep
  <2>6. ASSUME NEW r \in Requests, NEW z \in Zones,
               FailUncounted(r, z) \/ FailCounted(r, z) \/ FailEjecting(r, z)
        PROVE  Rest'
    BY <2>6, FailUncountedStep, FailCountedStep, FailEjectingStep
  <2>7. ASSUME NEW r \in Requests, Release(r) PROVE Rest'
    BY <2>7, ReleaseStep
  <2>8. ASSUME NEW z \in Zones, Readmit(z) PROVE Rest'
    BY <2>8, ReadmitStep
  <2>9. ASSUME NEW z \in Zones, NEW s \in Services, Dies(z, s) \/ Recovers(z, s) PROVE Rest'
    BY <2>9, ZoneStep
  <2>10. Rest'
    BY <2>2, <2>3, <2>4, <2>5, <2>6, <2>7, <2>8, <2>9 DEF GatewayNext, RouterStep
  <2>11. QED
    BY <2>1, <2>10 DEF Rest, GatewayInv
<1>2. ASSUME GatewayInv, UNCHANGED gwVars PROVE GatewayInv'
  <2>1. RoutingTypeOK' /\ TriesLeft' /\ Forgotten'
    BY <1>2 DEF GatewayInv, RoutingTypeOK, TriesLeft, Forgotten, InFlight
  <2>2. InRotation' /\ Counted' /\ Bounded'
    BY <1>2 DEF GatewayInv, InRotation, Counted, Bounded, Between, Lost, InFlight, Serving
  <2>3. FailoverIsSeamless'
    BY <1>2 DEF GatewayInv, FailoverIsSeamless, OneZoneDown, Serving
  <2>4. QED
    BY <2>1, <2>2, <2>3 DEF GatewayInv
<1>3. QED
  BY <1>1, <1>2

\* Whenever services die and recover in the zones, and whatever the other
\* requests do - but for clearing the strikes it gave - a request that geo_cluster
\* balances does not run out of tries while one zone cannot serve it.
THEOREM GatewayFailover == GatewaySpec => []FailoverIsSeamless
<1>1. GatewaySpec => []GatewayInv
  BY GatewayStarts, GatewayStep, PTL DEF GatewaySpec
<1>2. GatewayInv => FailoverIsSeamless
  BY DEF GatewayInv
<1>3. QED
  BY <1>1, <1>2, PTL

---------------------------------------------------------------------------
(* Part 2: the drill. *)

\* Nothing has failed before the injection.
Before ==
    phase \in {"stats", "baseline", "inject"} =>
        /\ Intact /\ alive = Zones \X Services
        /\ \A r \in Requests : pc[r] \notin {"error", "overflow"}

\* Until the restoring, the targets are as the scenario's verb left them.
Injected ==
    phase \in {"probe", "restore"} =>
        \A c \in Containers : status[c] = IF c \in targetContainers THEN sc.verb ELSE "up"

\* What traffic-gen launched has a result, or is under way.
Accounted ==
    genPhase # "report" => launched["gen"] = rec["gen"].total + Cardinality(Pending("gen"))

DrillInv ==
    /\ TypeOK /\ GatewayInv
    /\ Before /\ Injected /\ Accounted
    /\ BaselineIsClean /\ FinalReportIsComplete /\ NothingLeftBehind

USE DrillAssumption DEF runner, results, vars

\* Every step of a drill is one of the gateway, or leaves it alone.
LEMMA StepOfGateway == [Next]_vars => [GatewayNext]_gwVars
<1>1. ASSUME NEW r \in Requests, NEW c \in Zones \cup {Geo}, NEW o \in Recorders, Launch(r, c, o)
      PROVE  GatewayNext
  <2>1. Path[o] \in Services /\ Arrive(r, c, Path[o])
    BY <1>1 DEF Launch
  <2>2. QED
    BY <2>1 DEF GatewayNext
<1>2. ASSUME NEW r \in Requests, AddResult(r) PROVE GatewayNext
  BY <1>2 DEF AddResult, GatewayNext
<1>3. GatewayWorks => GatewayNext
  BY DEF GatewayWorks, GatewayNext
<1>4. ZonesFollow => GatewayNext
  BY DEF ZonesFollow, GatewayNext
<1>5. RunnerStep \/ LoadOver \/ FinalReport \/ UNCHANGED vars => UNCHANGED gwVars
  BY DEF RunnerStep, BaselineStats, BaselineOver, InjectFailure, InjectFails, FailureOver,
         RestoreContainers, RestoreFails, Summary, Goto, LoadOver, FinalReport
<1>6. QED
  BY <1>1, <1>2, <1>3, <1>4, <1>5 DEF Next, SendProbe, SendLoad, Recorders

\* The services of the drill's zones die and recover as the gateway's do, so its
\* requests are served as the gateway promises.
THEOREM DrillUsesGateway == Spec => GatewaySpec
<1>1. Init => GatewayInit
  BY DEF Init
<1>2. QED
  BY <1>1, StepOfGateway, PTL DEF Spec, GatewaySpec

\* In a drill, too, a balanced request does not run out of tries while one zone
\* cannot serve it, unless another service cleared the strikes it gave.
THEOREM DrillFailover == Spec => []FailoverIsSeamless
BY DrillUsesGateway, GatewayFailover

---------------------------------------------------------------------------
LEMMA DrillStarts == Init => DrillInv
<1>1. Init => GatewayInv
  BY GatewayStarts DEF Init
<1>2. Init => TypeOK
  <2>1. [total |-> 0, errors |-> 0, cut |-> 0] \in Record
    BY DEF Record
  <2>2. Init => rec \in [Recorders -> Record] /\ owner \in [Requests -> Recorders]
    BY <2>1 DEF Init, Recorders
  <2>3. Init => status \in [Containers -> {"up", "stopped", "paused"}]
    BY DEF Init
  <2>4. Init => launched \in [Recorders -> Nat]
    BY DEF Init
  <2>5. QED
    BY <1>1, <2>2, <2>3, <2>4 DEF Init, TypeOK, GatewayInv
<1>3. Init => Before /\ Injected /\ BaselineIsClean /\ FinalReportIsComplete /\ NothingLeftBehind
  BY DEF Init, GatewayInit, Before, Intact, Injected, BaselineIsClean, FinalReportIsComplete,
         NothingLeftBehind, Recorders
<1>4. Init => Accounted
  <2>1. Init => Pending("gen") = {}
    BY DEF Init, GatewayInit, Pending
  <2>2. Init => Cardinality(Pending("gen")) = 0
    BY <2>1, FS_EmptySet
  <2>3. Init => launched["gen"] = 0 /\ rec["gen"].total = 0
    BY DEF Init, Recorders
  <2>4. QED
    BY <2>2, <2>3 DEF Accounted
<1>5. QED
  BY <1>1, <1>2, <1>3, <1>4 DEF DrillInv

\* The invariant but for the gateway's part.
DrillRest ==
    /\ TypeOK
    /\ Before /\ Injected /\ Accounted
    /\ BaselineIsClean /\ FinalReportIsComplete /\ NothingLeftBehind

LEMMA PendingFinite == IsFiniteSet(Pending("gen")) /\ Cardinality(Pending("gen")) \in Nat
<1>1. Pending("gen") \subseteq Requests
  BY DEF Pending
<1>2. QED
  BY <1>1, FS_Subset, FS_CardinalityType

\* The count of what is under way changes with Launch and AddResult only.
LEMMA PendingKept ==
    ASSUME UNCHANGED <<owner, rec, launched, genPhase>>,
           \A q \in Requests : pc'[q] = "idle" <=> pc[q] = "idle",
           Accounted, FinalReportIsComplete
    PROVE  Accounted' /\ FinalReportIsComplete'
<1>1. Pending("gen")' = Pending("gen")
  BY DEF Pending
<1>2. QED
  BY <1>1 DEF Accounted, FinalReportIsComplete

LEMMA LaunchStep ==
    ASSUME DrillInv, RoutingTypeOK', NEW r \in Requests, NEW c \in Zones \cup {Geo},
           SendProbe(r, c) \/ SendLoad(r, c)
    PROVE  DrillRest'
<1> USE DEF DrillInv
<1>1. PICK o \in Recorders : Launch(r, c, o) /\ (o = "gen" => genPhase = "load")
  BY DEF SendProbe, SendLoad, Recorders
<1>2. /\ UNCHANGED <<runner, genPhase, rec, alive>>
      /\ owner' = [owner EXCEPT ![r] = o]
      /\ launched' = [launched EXCEPT ![o] = @ + 1]
      /\ pc[r] = "idle" /\ pc' = [pc EXCEPT ![r] = "routed"]
  BY <1>1 DEF Launch, Arrive
<1>3. TypeOK'
  <2>1. launched' \in [Recorders -> Nat]
    BY <1>2 DEF TypeOK
  <2>2. QED
    BY <1>2, <2>1 DEF TypeOK, Containers
<1>4. Before' /\ Injected' /\ BaselineIsClean' /\ NothingLeftBehind'
  <2>1. \A q \in Requests : pc'[q] = IF q = r THEN "routed" ELSE pc[q]
    BY <1>2 DEF TypeOK, RoutingTypeOK
  <2>2. Before'
    BY <1>2, <2>1 DEF Before, Intact, Containers
  <2>3. QED
    BY <1>2, <2>2 DEF Injected, BaselineIsClean, NothingLeftBehind, Intact, Containers, targetContainers
<1>5. FinalReportIsComplete'
  BY <1>1, <1>2 DEF FinalReportIsComplete, TypeOK, Recorders
<1>6. Accounted'
  <2>1. CASE o = "gen"
    <3>1. r \notin Pending("gen") /\ Pending("gen")' = Pending("gen") \cup {r}
      <4>1. \A q \in Requests : pc'[q] = IF q = r THEN "routed" ELSE pc[q]
        BY <1>2 DEF TypeOK, RoutingTypeOK
      <4>2. \A q \in Requests : owner'[q] = IF q = r THEN "gen" ELSE owner[q]
        BY <1>2, <2>1 DEF TypeOK
      <4>3. \A q \in Requests : q \in Pending("gen")' <=> q \in Pending("gen") \/ q = r
        BY <4>1, <4>2 DEF Pending
      <4>4. QED
        BY <1>2, <4>3 DEF Pending
    <3>2. Cardinality(Pending("gen"))' = Cardinality(Pending("gen")) + 1
      BY <3>1, PendingFinite, FS_AddElement
    <3>3. launched'["gen"] = launched["gen"] + 1
      BY <1>2, <2>1 DEF TypeOK, Recorders
    <3>4. rec["gen"].total \in Int /\ launched["gen"] \in Int
      BY DEF TypeOK, Recorders, Record
    <3>5. launched["gen"] = rec["gen"].total + Cardinality(Pending("gen"))
      BY <1>1, <2>1 DEF Accounted
    <3>6. launched["gen"] + 1 = rec["gen"].total + (Cardinality(Pending("gen")) + 1)
      <4>1. \A n, m \in Int : (n + m) + 1 = n + (m + 1)
        OBVIOUS
      <4>2. Cardinality(Pending("gen")) \in Int
        BY PendingFinite
      <4>3. QED
        BY <3>4, <3>5, <4>1, <4>2
    <3>7. launched'["gen"] = rec'["gen"].total + Cardinality(Pending("gen"))'
      BY <1>2, <3>2, <3>3, <3>6
    <3>8. QED
      BY <3>7 DEF Accounted
  <2>2. CASE o # "gen"
    <3>1. Pending("gen")' = Pending("gen")
      BY <1>2, <2>2 DEF Pending, TypeOK, RoutingTypeOK
    <3>2. launched'["gen"] = launched["gen"]
      BY <1>2, <2>2 DEF TypeOK, Recorders
    <3>3. QED
      BY <1>2, <3>1, <3>2 DEF Accounted
  <2>3. QED
    BY <2>1, <2>2
<1>7. QED
  BY <1>3, <1>4, <1>5, <1>6 DEF DrillRest

LEMMA AddStep ==
    ASSUME DrillInv, RoutingTypeOK', NEW r \in Requests, AddResult(r)
    PROVE  DrillRest'
<1> USE DEF DrillInv
<1> DEFINE o == owner[r]
<1>1. /\ UNCHANGED <<runner, genPhase, launched, alive>>
      /\ owner' = [owner EXCEPT ![r] = "gen"]
      /\ pc' = [pc EXCEPT ![r] = "idle"]
      /\ pc[r] \in Ended
  BY DEF AddResult, Release
<1>2. o \in Recorders
  BY DEF TypeOK
<1>3. \/ rec' = rec
      \/ /\ ~Taken(o)
         /\ rec' = [rec EXCEPT ![o] = [total |-> @.total + 1,
                       errors |-> IF pc[r] = "ok" THEN @.errors ELSE @.errors + 1,
                       cut |-> IF pc[r] = "gone" THEN @.cut + 1 ELSE @.cut]]
  BY DEF AddResult
<1>4. rec' \in [Recorders -> Record]
  <2>1. rec[o].total \in Nat /\ rec[o].errors \in Nat /\ rec[o].cut \in Nat
    BY <1>2 DEF TypeOK, Record
  <2>2. \A t, e, c \in Nat : [total |-> t, errors |-> e, cut |-> c] \in Record
    BY DEF Record
  <2>3. /\ rec[o].total + 1 \in Nat
        /\ (IF pc[r] = "ok" THEN rec[o].errors ELSE rec[o].errors + 1) \in Nat
        /\ (IF pc[r] = "gone" THEN rec[o].cut + 1 ELSE rec[o].cut) \in Nat
    <3>1. \A n \in Nat : n + 1 \in Nat
      OBVIOUS
    <3>2. /\ rec[o].total + 1 \in Nat
          /\ rec[o].errors + 1 \in Nat
          /\ rec[o].cut + 1 \in Nat
      BY <2>1, <3>1
    <3>3. QED
      BY <2>1, <3>2
  <2>4. [total |-> rec[o].total + 1,
         errors |-> IF pc[r] = "ok" THEN rec[o].errors ELSE rec[o].errors + 1,
         cut |-> IF pc[r] = "gone" THEN rec[o].cut + 1 ELSE rec[o].cut] \in Record
    BY <2>2, <2>3
  <2>5. QED
    BY <1>2, <1>3, <2>4 DEF TypeOK
<1>5. BaselineIsClean'
  <2>1. CASE rec' = rec
    BY <2>1 DEF BaselineIsClean
  <2>2. CASE ~Taken(o) /\ rec' = [rec EXCEPT ![o] = [total |-> @.total + 1,
                       errors |-> IF pc[r] = "ok" THEN @.errors ELSE @.errors + 1,
                       cut |-> IF pc[r] = "gone" THEN @.cut + 1 ELSE @.cut]]
    <3>1. CASE o = "base"
      <4>1. phase \in {"stats", "baseline"}
        BY <2>2, <3>1 DEF Taken
      <4>2. pc[r] \in {"ok", "gone"}
        BY <1>1, <4>1 DEF Before
      <4>3. /\ rec'["base"].errors = IF pc[r] = "ok" THEN rec["base"].errors ELSE rec["base"].errors + 1
            /\ rec'["base"].cut = IF pc[r] = "gone" THEN rec["base"].cut + 1 ELSE rec["base"].cut
        BY <2>2, <3>1 DEF TypeOK, Recorders
      <4>4. QED
        BY <4>2, <4>3 DEF BaselineIsClean
    <3>2. CASE o # "base"
      BY <2>2, <3>2 DEF BaselineIsClean, TypeOK, Recorders
    <3>3. QED
      BY <3>1, <3>2
  <2>3. QED
    BY <1>3, <2>1, <2>2
<1>6. TypeOK'
  BY <1>1, <1>4 DEF TypeOK, Containers, Recorders
<1>7. Before' /\ Injected' /\ NothingLeftBehind'
  BY <1>1 DEF Before, Injected, NothingLeftBehind, Intact, Containers, targetContainers,
              TypeOK, RoutingTypeOK
<1>8. CASE o = "gen" /\ genPhase # "report"
  <2>1. r \in Pending("gen") /\ Pending("gen")' = Pending("gen") \ {r}
    <3>0. pc \in [Requests -> {"idle", "routed"} \cup Zones \cup Ended]
      BY DEF TypeOK, RoutingTypeOK
    <3>1. owner[r] = "gen" /\ pc[r] # "idle" /\ pc'[r] = "idle"
      BY <1>1, <1>8, <3>0
    <3>2. \A q \in Requests \ {r} : owner'[q] = owner[q] /\ pc'[q] = pc[q]
      BY <1>1 DEF TypeOK, RoutingTypeOK
    <3>3. QED
      BY <3>1, <3>2 DEF Pending
  <2>2. Cardinality(Pending("gen"))' = Cardinality(Pending("gen")) - 1
    BY <2>1, PendingFinite, FS_RemoveElement
  <2>3. rec'["gen"].total = rec["gen"].total + 1
    <3>1. ~Taken(o)
      BY <1>8 DEF Taken
    <3>2. rec' = [rec EXCEPT ![o] = [total |-> @.total + 1,
                       errors |-> IF pc[r] = "ok" THEN @.errors ELSE @.errors + 1,
                       cut |-> IF pc[r] = "gone" THEN @.cut + 1 ELSE @.cut]]
      BY <3>1 DEF AddResult
    <3>3. QED
      BY <1>8, <3>2 DEF TypeOK, Recorders
  <2>4. rec["gen"].total \in Int /\ launched["gen"] \in Int
    BY DEF TypeOK, Recorders, Record
  <2>5. Accounted' /\ FinalReportIsComplete'
    BY <1>1, <1>8, <2>2, <2>3, <2>4, PendingFinite DEF Accounted, FinalReportIsComplete
  <2>6. QED
    BY <1>5, <1>6, <1>7, <2>5 DEF DrillRest
<1>9. CASE o # "gen" \/ genPhase = "report"
  <2>1. rec'["gen"].total = rec["gen"].total
    BY <1>9, <1>2 DEF AddResult, Taken, TypeOK, Recorders
  <2>2. ASSUME genPhase # "report" PROVE Pending("gen")' = Pending("gen")
    <3>1. o # "gen" /\ owner'[r] = "gen" /\ pc'[r] = "idle"
      BY <1>1, <1>9, <2>2 DEF TypeOK, RoutingTypeOK
    <3>2. \A q \in Requests \ {r} : owner'[q] = owner[q] /\ pc'[q] = pc[q]
      BY <1>1 DEF TypeOK, RoutingTypeOK
    <3>3. QED
      BY <3>1, <3>2 DEF Pending
  <2>3. Accounted' /\ FinalReportIsComplete'
    BY <1>1, <2>1, <2>2 DEF Accounted, FinalReportIsComplete
  <2>4. QED
    BY <1>5, <1>6, <1>7, <2>3 DEF DrillRest
<1>10. QED
  BY <1>8, <1>9

LEMMA GatewayWorksStep ==
    ASSUME DrillInv, RoutingTypeOK', GatewayWorks
    PROVE  DrillRest'
<1> USE DEF DrillInv
<1>1. UNCHANGED <<runner, genPhase, owner, rec, launched>>
  BY DEF GatewayWorks
<1>2. PICK r \in Requests : RouterStep(r) \/ Abandon(r)
  BY DEF GatewayWorks
<1>3. /\ UNCHANGED alive
      /\ \A q \in Requests \ {r} : pc'[q] = pc[q]
      /\ pc[r] # "idle" /\ pc'[r] # "idle"
      /\ pc'[r] \in {"error", "overflow"} => \E z \in Zones : ~Serving(z, r)
  BY <1>2 DEF RouterStep, Try, Succeed, FailUncounted, FailCounted, FailEjecting, FailedTry,
              Abandon, InFlight, RoutingTypeOK
<1>4. TypeOK'
  BY <1>1 DEF TypeOK, Containers
<1>5. Before'
  <2>1. alive = Zones \X Services => \A z \in Zones : Serving(z, r)
    BY DEF Serving, TypeOK, RoutingTypeOK
  <2>2. QED
    BY <1>1, <1>3, <2>1 DEF Before, Intact, Containers
<1>6. Injected' /\ BaselineIsClean' /\ NothingLeftBehind'
  BY <1>1 DEF Injected, BaselineIsClean, NothingLeftBehind, Intact, Containers, targetContainers
<1>7. Accounted' /\ FinalReportIsComplete'
  BY <1>1, <1>3, PendingKept
<1>8. QED
  BY <1>4, <1>5, <1>6, <1>7 DEF DrillRest

LEMMA ZonesFollowStep ==
    ASSUME DrillInv, RoutingTypeOK', ZonesFollow
    PROVE  DrillRest'
<1> USE DEF DrillInv
<1>1. UNCHANGED <<runner, genPhase, owner, rec, launched, pc>>
  BY DEF ZonesFollow, Dies, Recovers, Readmit
<1>2. Before'
  <2>1. CASE phase \in {"stats", "baseline", "inject"}
    <3>1. Intact /\ alive = Zones \X Services
      BY <2>1 DEF Before
    <3>2. \A z \in Zones, s \in Services : Serves(z, s)
      BY <3>1 DEF Serves, Intact, Containers
    <3>3. alive' = alive
      BY <3>1, <3>2 DEF ZonesFollow, Recovers, Readmit
    <3>4. QED
      BY <1>1, <3>3 DEF Before, Intact, Containers
  <2>2. CASE phase \notin {"stats", "baseline", "inject"}
    BY <1>1, <2>2 DEF Before
  <2>3. QED
    BY <2>1, <2>2
<1>3. TypeOK'
  BY <1>1 DEF TypeOK, Containers
<1>4. Injected' /\ BaselineIsClean' /\ NothingLeftBehind'
  BY <1>1 DEF Injected, BaselineIsClean, NothingLeftBehind, Intact, Containers, targetContainers
<1>5. Accounted' /\ FinalReportIsComplete'
  BY <1>1, PendingKept
<1>6. QED
  BY <1>2, <1>3, <1>4, <1>5 DEF DrillRest

\* What an injection and a restoring write.
LEMMA SetFacts ==
    ASSUME TypeOK, NEW S \in SUBSET Containers, NEW st \in {"up", "stopped", "paused"}, Set(S, st)
    PROVE  /\ status' \in [Containers -> {"up", "stopped", "paused"}]
           /\ \A c \in Containers : status'[c] = IF c \in S THEN st ELSE status[c]
BY DEF Set, TypeOK

LEMMA RunnerStepped ==
    ASSUME DrillInv, RunnerStep
    PROVE  DrillRest'
<1> USE DEF DrillInv
<1>1. UNCHANGED <<gwVars, sc, genPhase, owner, rec, launched>>
  BY DEF RunnerStep, BaselineStats, BaselineOver, InjectFailure, InjectFails, FailureOver,
         RestoreContainers, RestoreFails, Summary, Goto
<1>2. targetContainers \subseteq Containers /\ sc.verb \in {"stopped", "paused"}
  BY DEF targetContainers, TypeOK
<1>3. BaselineIsClean' /\ Accounted' /\ FinalReportIsComplete'
  BY <1>1, PendingKept DEF BaselineIsClean
<1>4. CASE BaselineStats \/ BaselineOver \/ FailureOver \/ Summary
  <2>1. UNCHANGED <<status, warned>>
    BY <1>4 DEF BaselineStats, BaselineOver, FailureOver, Summary
  <2>2. \/ phase = "stats" /\ phase' = "baseline"
        \/ phase = "baseline" /\ phase' = "inject"
        \/ phase = "probe" /\ phase' = "restore"
        \/ phase = "post" /\ phase' = "done"
    BY <1>4 DEF BaselineStats, BaselineOver, FailureOver, Summary, Goto
  <2>3. TypeOK'
    BY <1>1, <2>1, <2>2 DEF TypeOK, RoutingTypeOK, Containers, Recorders
  <2>4. Before' /\ Injected' /\ NothingLeftBehind'
    BY <1>1, <2>1, <2>2 DEF Before, Injected, NothingLeftBehind, Intact, Containers, targetContainers
  <2>5. QED
    BY <1>3, <2>3, <2>4 DEF DrillRest
<1>5. CASE InjectFailure \/ InjectFails
  <2>1. /\ phase = "inject" /\ phase' \in {"probe", "exit1"} /\ UNCHANGED warned
        /\ phase' = "probe" => Set(targetContainers, sc.verb)
        /\ \E S \in SUBSET targetContainers : Set(S, sc.verb)
    BY <1>5 DEF InjectFailure, InjectFails, Goto
  <2>2. status' \in [Containers -> {"up", "stopped", "paused"}]
    BY <1>2, <2>1, SetFacts
  <2>3. TypeOK'
    BY <1>1, <2>1, <2>2 DEF TypeOK, RoutingTypeOK, Recorders
  <2>4. Injected'
    <3>1. ASSUME phase' = "probe", NEW c \in Containers
          PROVE  status'[c] = IF c \in targetContainers THEN sc.verb ELSE "up"
      <4>1. Set(targetContainers, sc.verb)
        BY <2>1, <3>1
      <4>2. status'[c] = IF c \in targetContainers THEN sc.verb ELSE status[c]
        BY <1>2, <4>1, SetFacts
      <4>3. status[c] = "up"
        BY <2>1 DEF Before, Intact
      <4>4. QED
        BY <4>2, <4>3
    <3>2. QED
      BY <1>1, <2>1, <3>1 DEF Injected, Containers, targetContainers
  <2>5. Before' /\ NothingLeftBehind'
    BY <2>1 DEF Before, NothingLeftBehind
  <2>6. QED
    BY <1>3, <2>3, <2>4, <2>5 DEF DrillRest
<1>6. CASE RestoreContainers \/ RestoreFails
  <2>1. /\ phase = "restore" /\ phase' = "post"
        /\ \/ Set({c \in targetContainers : status[c] = sc.verb}, "up") /\ UNCHANGED warned
           \/ warned' = TRUE
        /\ warned' \in BOOLEAN
        /\ \E S \in SUBSET targetContainers : Set(S, "up")
    BY <1>6 DEF RestoreContainers, RestoreFails, Goto, TypeOK
  <2>2. status' \in [Containers -> {"up", "stopped", "paused"}]
    BY <1>2, <2>1, SetFacts
  <2>3. TypeOK'
    BY <1>1, <2>1, <2>2 DEF TypeOK, RoutingTypeOK, Recorders
  <2>4. NothingLeftBehind'
    <3>1. CASE Set({c \in targetContainers : status[c] = sc.verb}, "up")
      <4>1. \A c \in Containers : status'[c] = "up"
        BY <1>2, <2>1, <3>1, SetFacts DEF Injected
      <4>2. QED
        BY <4>1 DEF NothingLeftBehind, Intact, Containers
    <3>2. CASE warned' = TRUE
      BY <3>2 DEF NothingLeftBehind
    <3>3. QED
      BY <2>1, <3>1, <3>2
  <2>5. Before' /\ Injected'
    BY <2>1 DEF Before, Injected
  <2>6. QED
    BY <1>3, <2>3, <2>4, <2>5 DEF DrillRest
<1>7. QED
  BY <1>4, <1>5, <1>6 DEF RunnerStep

LEMMA DrillStep == DrillInv /\ [Next]_vars => DrillInv'
<1> SUFFICES ASSUME DrillInv, [Next]_vars PROVE DrillInv'
  OBVIOUS
<1>1. GatewayInv'
  BY StepOfGateway, GatewayStep DEF DrillInv
<1>2. RoutingTypeOK'
  BY <1>1 DEF GatewayInv
<1>3. CASE \E r \in Requests, c \in Zones \cup {Geo} : SendProbe(r, c) \/ SendLoad(r, c)
  BY <1>1, <1>2, <1>3, LaunchStep DEF DrillRest, DrillInv
<1>4. CASE \E r \in Requests : AddResult(r)
  BY <1>1, <1>2, <1>4, AddStep DEF DrillRest, DrillInv
<1>5. CASE GatewayWorks \/ ZonesFollow \/ RunnerStep
  BY <1>1, <1>2, <1>5, GatewayWorksStep, ZonesFollowStep, RunnerStepped DEF DrillRest, DrillInv
<1>6. CASE LoadOver \/ FinalReport \/ UNCHANGED vars
  <2>1. UNCHANGED <<runner, gwVars, owner, rec, launched>>
    BY <1>6 DEF LoadOver, FinalReport
  <2>2. /\ genPhase' \in {"load", "drain", "report"}
        /\ genPhase' = "report" => genPhase = "report" \/ Pending("gen") = {}
        /\ genPhase' # "report" => genPhase # "report"
    BY <1>6 DEF LoadOver, FinalReport, DrillInv, TypeOK
  <2>3. TypeOK'
    BY <1>2, <2>1, <2>2 DEF DrillInv, TypeOK, Containers
  <2>4. Accounted'
    BY <2>1, <2>2 DEF DrillInv, Accounted, Pending
  <2>5. FinalReportIsComplete'
    <3>1. rec["gen"].total \in Int
      BY DEF DrillInv, TypeOK, Recorders, Record
    <3>2. Pending("gen") = {} /\ genPhase # "report" => rec["gen"].total = launched["gen"]
      <4>1. Pending("gen") = {} => Cardinality(Pending("gen")) = 0
        BY FS_EmptySet
      <4>2. QED
        BY <3>1, <4>1 DEF DrillInv, Accounted
    <3>3. QED
      BY <2>1, <2>2, <3>2 DEF DrillInv, FinalReportIsComplete
  <2>6. Before' /\ Injected' /\ BaselineIsClean' /\ NothingLeftBehind'
    BY <2>1 DEF DrillInv, Before, Injected, BaselineIsClean, NothingLeftBehind, Intact, Containers,
                targetContainers
  <2>7. QED
    BY <1>1, <2>3, <2>4, <2>5, <2>6 DEF DrillInv
<1>7. QED
  BY <1>3, <1>4, <1>5, <1>6 DEF Next

LEMMA DrillHolds == Spec => []DrillInv
BY DrillStarts, DrillStep, PTL DEF Spec

\* The drill's state stays well typed: no count leaves its bounds.
THEOREM TypeCorrect == Spec => []TypeOK
<1>1. DrillInv => TypeOK
  BY DEF DrillInv
<1>2. QED
  BY <1>1, DrillHolds, PTL

\* The baseline shows nothing of the failure, however late its probes end.
THEOREM BaselineClean == Spec => []BaselineIsClean
<1>1. DrillInv => BaselineIsClean
  BY DEF DrillInv
<1>2. QED
  BY <1>1, DrillHolds, PTL

\* traffic-gen's report counts as many requests as it launched: its goroutines
\* have all added their results when main reads them.
THEOREM ReportComplete == Spec => []FinalReportIsComplete
<1>1. DrillInv => FinalReportIsComplete
  BY DEF DrillInv
<1>2. QED
  BY <1>1, DrillHolds, PTL

\* After the restoring every container is up, or there was a warning.
THEOREM NothingLeft == Spec => []NothingLeftBehind
<1>1. DrillInv => NothingLeftBehind
  BY DEF DrillInv
<1>2. QED
  BY <1>1, DrillHolds, PTL

---------------------------------------------------------------------------
(* Part 3: which requests of a drill fail. *)

\* The other zone is never touched.
Spared ==
    \A z \in Zones \ {sc.zone} :
        z \notin ejected /\ \A s \in Services : <<z, s>> \in alive /\ status[<<z, s>>] = "up"

OnRoute == \A r \in Requests : pc[r] \in Zones => route[r] \in {Geo, pc[r]}

Balanced(r) == r \in InFlight /\ route[r] = Geo

\* The service has not died yet in the drill's zone; once recovered there it does
\* not die again.
Untouched(s) ==
    <<sc.zone, s>> \in alive /\ ~(phase \in {"post", "done"} /\ Serves(sc.zone, s))

Fresh == \A r \in Requests : Balanced(r) /\ Untouched(service[r]) => failures[r] = 0

StaysDown ==
    \A s \in Services :
        <<sc.zone, s>> \notin alive /\ phase \notin {"post", "done"} => ~Serves(sc.zone, s)

\* A request that came after the ejection is not at the drill's zone.
Away ==
    sc.zone \in ejected =>
        \A r \in Requests : Balanced(r) /\ r \notin present[sc.zone] => pc[r] # sc.zone

\* While its service is dead there, a balanced request loses tries as between two
\* zones.
Struck(r, y) ==
    IF y \notin ejected THEN failures[r] <= strikes[y]
    ELSE IF r \in present[y] THEN Lost(r, y) <= EjectAfter
    ELSE failures[r] = 0 /\ pc[r] # y

AllStruck ==
    \A r \in Requests :
        Balanced(r) /\ r \notin cleared /\ ~Serving(sc.zone, r) => Struck(r, sc.zone)

\* FailuresAreExplained but for the time of the failure, which is in Before.
Explained ==
    \A r \in Requests : pc[r] \in {"error", "overflow"} =>
        /\ route[r] \in {Geo, sc.zone}
        /\ route[r] = Geo /\ pc[r] = "error" => r \in cleared

PinnedInv == Spared /\ OnRoute /\ Fresh /\ StaysDown /\ Away /\ AllStruck /\ Explained

LEMMA DrillZone ==
    ASSUME TypeOK
    PROVE  /\ sc.zone \in Zones /\ RoutingTypeOK
           /\ \A z \in Zones, s \in Services : <<z, s>> \in Containers
BY DEF TypeOK, Containers

LEMMA PinnedStarts == Init => PinnedInv
<1>1. Init => Spared
  BY DEF Init, GatewayInit, Spared, Containers
<1>2. Init => OnRoute /\ Fresh /\ Away /\ AllStruck /\ Explained
  BY DEF Init, GatewayInit, OnRoute, Fresh, Away, AllStruck, Explained, Balanced, InFlight
<1>3. Init => StaysDown
  <2>1. Init => sc.zone \in Zones
    BY DEF Init
  <2>2. QED
    BY <2>1 DEF Init, GatewayInit, StaysDown
<1>4. QED
  BY <1>1, <1>2, <1>3 DEF PinnedInv

\* A balanced request at a zone without its service has a try left.
LEMMA StruckFacts ==
    ASSUME DrillInv, NEW r \in Requests, pc[r] = sc.zone, Struck(r, sc.zone)
    PROVE  failures[r] < EjectAfter
<1>1. sc.zone \in Zones
  BY DrillZone DEF DrillInv
<1>2. QED
  BY <1>1, Facts DEF Struck, Lost, DrillInv, TypeOK

LEMMA PinnedLaunch ==
    ASSUME DrillInv, PinnedInv, NEW r \in Requests, NEW c \in Zones \cup {Geo}, NEW s \in Services,
           Arrive(r, c, s), UNCHANGED runner
    PROVE  PinnedInv'
<1> USE DEF DrillInv, PinnedInv
<1>0. sc.zone \in Zones /\ RoutingTypeOK
  BY DrillZone
<1>1. /\ UNCHANGED <<alive, hosts, cleared, runner>>
      /\ \A q \in Requests : pc'[q] = IF q = r THEN "routed" ELSE pc[q]
      /\ \A q \in Requests : failures'[q] = IF q = r THEN 0 ELSE failures[q]
      /\ \A q \in Requests \ {r} : route'[q] = route[q] /\ service'[q] = service[q]
      /\ \A z \in Zones : r \notin present[z]
  BY <1>0 DEF Arrive, RoutingTypeOK, GatewayInv, Forgotten
<1>2. ASSUME NEW q \in Requests \ {r}
      PROVE  (Balanced(q)' <=> Balanced(q)) /\ (Serving(sc.zone, q)' <=> Serving(sc.zone, q))
  <2>1. Balanced(q)' <=> Balanced(q)
    BY <1>1 DEF Balanced, InFlight
  <2>2. Serving(sc.zone, q)' <=> Serving(sc.zone, q)
    BY <1>1 DEF Serving
  <2>3. QED
    BY <2>1, <2>2
<1>3. Spared' /\ OnRoute' /\ StaysDown' /\ Explained'
  <2>1. Spared' /\ StaysDown'
    BY <1>1 DEF Spared, StaysDown, Serves
  <2>2. OnRoute'
    BY <1>0, <1>1 DEF OnRoute
  <2>3. Explained'
    BY <1>1 DEF Explained
  <2>4. QED
    BY <2>1, <2>2, <2>3
<1>4. Fresh' /\ Away'
  BY <1>0, <1>1, <1>2 DEF Fresh, Away, Untouched, Serves
<1>5. AllStruck'
  <2>1. ASSUME NEW q \in Requests, Balanced(q)', q \notin cleared, ~Serving(sc.zone, q)'
        PROVE  Struck(q, sc.zone)'
    <3>1. CASE q = r
      BY <1>0, <1>1, <3>1, Facts DEF Struck
    <3>2. CASE q # r
      BY <1>1, <1>2, <2>1, <3>2 DEF AllStruck, Struck, Lost
    <3>3. QED
      BY <3>1, <3>2
  <2>2. QED
    BY <1>1, <2>1 DEF AllStruck
<1>6. QED
  BY <1>3, <1>4, <1>5

LEMMA PinnedRelease ==
    ASSUME DrillInv, PinnedInv, NEW r \in Requests, Release(r), UNCHANGED runner
    PROVE  PinnedInv'
<1> USE DEF DrillInv, PinnedInv
<1>0. sc.zone \in Zones /\ RoutingTypeOK
  BY DrillZone
<1>1. /\ UNCHANGED <<alive, ejected, strikes, runner>>
      /\ pc'[r] = "idle"
      /\ \A q \in Requests \ {r} : /\ pc'[q] = pc[q] /\ route'[q] = route[q]
                                   /\ service'[q] = service[q]
                                   /\ failures'[q] = failures[q]
                                   /\ q \in cleared' <=> q \in cleared
      /\ \A z \in Zones : present'[z] = present[z] \ {r}
  BY <1>0 DEF Release, RoutingTypeOK
<1>2. \A q \in Requests : Balanced(q)' => q # r /\ Balanced(q)
  BY <1>1 DEF Balanced, InFlight
<1>3. Spared' /\ OnRoute' /\ StaysDown' /\ Explained'
  <2>1. UNCHANGED <<alive, ejected, sc, phase, status>>
    BY <1>1
  <2>2. Spared'
    BY <2>1 DEF Spared
  <2>3. StaysDown'
    BY <2>1 DEF StaysDown, Serves
  <2>4. OnRoute'
    BY <1>0, <1>1 DEF OnRoute
  <2>5. Explained'
    BY <1>1 DEF Explained
  <2>6. QED
    BY <2>2, <2>3, <2>4, <2>5
<1>4. Fresh' /\ Away'
  <2>1. Fresh'
    BY <1>1, <1>2 DEF Fresh, Untouched, Serves
  <2>2. Away'
    BY <1>0, <1>1, <1>2 DEF Away
  <2>3. QED
    BY <2>1, <2>2
<1>5. AllStruck'
  <2>1. ASSUME NEW q \in Requests, Balanced(q)', q \notin cleared', ~Serving(sc.zone, q)'
        PROVE  Struck(q, sc.zone)'
    <3>1. q # r /\ Balanced(q) /\ q \notin cleared /\ ~Serving(sc.zone, q)
      BY <1>1, <1>2, <2>1 DEF Serving
    <3>2. Struck(q, sc.zone)
      BY <3>1 DEF AllStruck
    <3>3. Lost(q, sc.zone)' = Lost(q, sc.zone)
      BY <1>1, <3>1 DEF Lost
    <3>4. QED
      BY <1>0, <1>1, <3>1, <3>2, <3>3 DEF Struck
  <2>2. QED
    BY <2>1 DEF AllStruck
<1>6. QED
  BY <1>3, <1>4, <1>5

\* A request takes a try, or ends without a failure.
LEMMA PinnedQuiet ==
    ASSUME DrillInv, PinnedInv, RoutingTypeOK', NEW r \in Requests,
           UNCHANGED <<alive, ejected, present, route, service, failures, runner>>,
           \A q \in Requests \ {r} : pc'[q] = pc[q],
           cleared \subseteq cleared',
           \A q \in Requests \ cleared', y \in Zones :
               strikes'[y] = strikes[y] \/ Serving(y, q) \/ failures[q] = 0 \/ q \notin InFlight,
           \/ pc'[r] \in {"ok", "gone"}
           \/ r \in InFlight /\ pc'[r] \in Hosts(r)
    PROVE  PinnedInv'
<1> USE DEF DrillInv, PinnedInv
<1>0. sc.zone \in Zones /\ RoutingTypeOK
  BY DrillZone
<1>1. \A q \in Requests : /\ Balanced(q)' => Balanced(q)
                          /\ Serving(sc.zone, q)' <=> Serving(sc.zone, q)
  BY DEF Balanced, InFlight, Serving
<1>2. OnRoute'
  BY DEF OnRoute, Hosts
<1>3. Spared' /\ StaysDown'
  BY DEF Spared, StaysDown, Serves
<1>4. Explained'
  <2>1. pc'[r] \notin {"error", "overflow"}
    BY <1>0 DEF Hosts, RoutingTypeOK
  <2>2. QED
    BY <2>1 DEF Explained
<1>5. Fresh'
  BY <1>1 DEF Fresh, Untouched, Serves
<1>6. Balanced(r)' /\ sc.zone \in ejected => pc'[r] # sc.zone
  <2>1. ejected # Zones
    BY DEF Spared
  <2>2. QED
    BY <2>1 DEF Balanced, InFlight, Hosts
<1>7. Away'
  BY <1>1, <1>6 DEF Away
<1>8. AllStruck'
  <2>1. ASSUME NEW q \in Requests, Balanced(q)', q \notin cleared', ~Serving(sc.zone, q)'
        PROVE  Struck(q, sc.zone)'
    <3>1. Struck(q, sc.zone) /\ q \in InFlight
      BY <1>1, <2>1 DEF AllStruck, Balanced
    <3>2. strikes'[sc.zone] = strikes[sc.zone] \/ failures[q] = 0
      BY <1>0, <1>1, <2>1, <3>1
    <3>3. CASE sc.zone \notin ejected
      <4>1. strikes'[sc.zone] \in Int /\ 0 <= strikes'[sc.zone]
        <5>1. strikes'[sc.zone] \in 0..(EjectAfter - 1)
          BY <1>0 DEF RoutingTypeOK
        <5>2. QED
          BY <5>1
      <4>2. failures'[q] <= strikes'[sc.zone]
        BY <3>1, <3>2, <3>3, <4>1 DEF Struck
      <4>3. QED
        BY <3>3, <4>2 DEF Struck
    <3>4. CASE sc.zone \in ejected
      <4>1. CASE q = r
        BY <1>0, <1>6, <2>1, <3>1, <3>4, <4>1, Facts DEF Struck, Lost
      <4>2. CASE q # r
        BY <3>1, <3>4, <4>2 DEF Struck, Lost
      <4>3. QED
        BY <4>1, <4>2
    <3>5. QED
      BY <3>3, <3>4
  <2>2. QED
    BY <2>1 DEF AllStruck
<1>9. QED
  BY <1>2, <1>3, <1>4, <1>5, <1>7, <1>8

LEMMA PinnedFailure ==
    ASSUME DrillInv, PinnedInv, NEW r \in Requests, NEW x \in Zones, Fails(r, x),
           UNCHANGED runner
    PROVE  PinnedInv'
<1> USE DEF DrillInv, PinnedInv
<1>0. sc.zone \in Zones /\ RoutingTypeOK
  BY DrillZone
<1>2. /\ UNCHANGED <<alive, route, service, cleared>>
      /\ r \in InFlight /\ pc[r] = x /\ ~Serving(x, r)
      /\ \A q \in Requests \ {r} : pc'[q] = pc[q] /\ failures'[q] = failures[q]
      /\ failures'[r] = failures[r] + 1
      /\ pc'[r] \in {"routed", "error", "overflow"}
      /\ pc'[r] = "error" => route[r] # Geo \/ failures[r] >= Retries
      /\ pc'[r] # "error" => route[r] = Geo
  BY FailedTryFacts
<1>3. x = sc.zone
  BY <1>0, <1>2 DEF Spared, Serving, RoutingTypeOK
<1>4. \A q \in Requests : /\ Balanced(q)' => Balanced(q)
                          /\ Serving(sc.zone, q)' <=> Serving(sc.zone, q)
  BY <1>2 DEF Balanced, InFlight, Serving
<1>5. route[r] = Geo /\ r \notin cleared => failures[r] < EjectAfter
  BY <1>2, <1>3, StruckFacts DEF Balanced, AllStruck
<1>6. Explained'
  <2>1. pc'[r] # "error" => route[r] = Geo
    BY <1>2
  <2>2. pc'[r] = "error" => route[r] = sc.zone \/ (route[r] = Geo /\ r \in cleared)
    BY <1>0, <1>2, <1>3, <1>5, Facts DEF OnRoute
  <2>3. QED
    BY <1>0, <1>2, <2>1, <2>2 DEF Explained
<1>7. Spared'
  BY <1>2, <1>3 DEF Spared, Fails, FailUncounted, FailCounted, FailEjecting
<1>8. OnRoute' /\ StaysDown'
  BY <1>2 DEF OnRoute, StaysDown, Serves
<1>9. Fresh'
  <2>1. ASSUME NEW q \in Requests, Balanced(q)', Untouched(service[q])' PROVE failures'[q] = 0
    <3>1. Balanced(q) /\ Untouched(service[q])
      BY <1>2, <1>4, <2>1 DEF Untouched, Serves
    <3>2. q # r
      BY <1>2, <1>3, <3>1 DEF Untouched, Serving
    <3>3. QED
      BY <1>2, <3>1, <3>2 DEF Fresh
  <2>2. QED
    BY <1>2, <2>1 DEF Fresh, Untouched, Serves
<1>10. Away' /\ AllStruck'
  <2>1. CASE FailUncounted(r, x)
    <3>1. UNCHANGED hosts /\ (route[r] # Geo \/ x \in ejected)
      BY <2>1 DEF FailUncounted
    <3>2. Away'
      BY <1>0, <1>2, <1>4, <3>1 DEF Away
    <3>3. ASSUME NEW q \in Requests, Balanced(q)', q \notin cleared, ~Serving(sc.zone, q)'
          PROVE  Struck(q, x)'
      <4>1. Struck(q, x) /\ Balanced(q)
        BY <1>3, <1>4, <3>3 DEF AllStruck
      <4>2. CASE q = r
        <5>1. x \in ejected /\ r \in present[x] /\ failures[r] + 1 <= EjectAfter
          BY <1>2, <3>1, <4>1, <4>2 DEF Balanced, Struck, Lost
        <5>2. pc'[r] # x
          BY <1>2
        <5>3. QED
          BY <1>2, <3>1, <4>2, <5>1, <5>2 DEF Struck, Lost
      <4>3. CASE q # r
        BY <1>2, <3>1, <4>1, <4>3 DEF Struck, Lost
      <4>4. QED
        BY <4>2, <4>3
    <3>4. QED
      BY <1>2, <1>3, <3>2, <3>3 DEF AllStruck
  <2>2. CASE FailCounted(r, x)
    <3>1. /\ UNCHANGED <<ejected, present>> /\ x \notin ejected
          /\ strikes'[x] = strikes[x] + 1
      BY <1>0, <2>2 DEF FailCounted, RoutingTypeOK
    <3>2. Away'
      BY <1>3, <3>1 DEF Away
    <3>3. ASSUME NEW q \in Requests, Balanced(q)', q \notin cleared, ~Serving(sc.zone, q)'
          PROVE  Struck(q, x)'
      <4>1. failures[q] <= strikes[x]
        BY <1>3, <1>4, <3>1, <3>3 DEF AllStruck, Struck
      <4>2. failures'[q] \in {failures[q], failures[q] + 1}
        BY <1>2
      <4>3. /\ failures[q] \in Int /\ strikes[x] \in Int
            /\ strikes'[x] = strikes[x] + 1
        BY <1>0, <3>1, Facts
      <4>4. failures'[q] <= strikes'[x]
        BY <4>1, <4>2, <4>3
      <4>5. QED
        BY <3>1, <4>4 DEF Struck
    <3>4. QED
      BY <1>2, <1>3, <3>2, <3>3 DEF AllStruck
  <2>3. CASE FailEjecting(r, x)
    <3>1. /\ x \notin ejected /\ x \in ejected' /\ present'[x] = InFlight
          /\ strikes[x] + 1 = EjectAfter
      BY <1>0, <2>3 DEF FailEjecting, RoutingTypeOK
    <3>2. Away'
      BY <1>3, <1>4, <3>1 DEF Away, Balanced
    <3>3. ASSUME NEW q \in Requests, Balanced(q)', q \notin cleared, ~Serving(sc.zone, q)'
          PROVE  Struck(q, x)'
      <4>1. failures[q] <= strikes[x] /\ q \in InFlight
        BY <1>3, <1>4, <3>1, <3>3 DEF AllStruck, Struck, Balanced
      <4>2. failures[q] + 1 <= EjectAfter
        BY <1>0, <3>1, <4>1, Facts
      <4>3. pc'[r] # x
        BY <1>2
      <4>4. Lost(q, x)' <= EjectAfter
        <5>1. failures[q] \in Int /\ EjectAfter \in Int
          BY <1>0, Facts
        <5>2. CASE q = r
          BY <1>2, <4>2, <4>3, <5>1, <5>2 DEF Lost
        <5>3. CASE q # r
          BY <1>2, <4>2, <5>1, <5>3 DEF Lost
        <5>4. QED
          BY <5>2, <5>3
      <4>5. QED
        BY <3>1, <4>1, <4>4 DEF Struck
    <3>4. QED
      BY <1>2, <1>3, <3>2, <3>3 DEF AllStruck
  <2>4. QED
    BY <2>1, <2>2, <2>3 DEF Fails
<1>11. QED
  BY <1>6, <1>7, <1>8, <1>9, <1>10

LEMMA PinnedZones ==
    ASSUME DrillInv, PinnedInv, ZonesFollow
    PROVE  PinnedInv'
<1> USE DEF DrillInv, PinnedInv
<1>0. sc.zone \in Zones /\ RoutingTypeOK
  BY DrillZone
<1>1. PICK z \in Zones, s \in Services :
        \/ ~Serves(z, s) /\ Dies(z, s)
        \/ Serves(z, s) /\ Recovers(z, s)
        \/ Readmit(z)
  BY DEF ZonesFollow
<1>2. UNCHANGED <<runner, strikes, present, pc, route, service, failures, cleared>>
  <2>1. UNCHANGED runner
    BY DEF ZonesFollow
  <2>2. UNCHANGED <<strikes, present, pc, route, service, failures, cleared>>
    BY <1>1 DEF Dies, Recovers, Readmit
  <2>3. QED
    BY <2>1, <2>2
<1>3. \A q \in Requests : (Balanced(q)' <=> Balanced(q)) /\ service[q] \in Services
  BY <1>0, <1>2 DEF Balanced, InFlight, RoutingTypeOK
<1>4. OnRoute' /\ Explained'
  BY <1>2 DEF OnRoute, Explained
<1>5. CASE ~Serves(z, s) /\ Dies(z, s)
  <2>1. z = sc.zone
    BY <1>5 DEF Spared, Serves
  <2>2. alive' = alive \ {<<z, s>>} /\ <<z, s>> \in alive /\ ejected' = ejected
    BY <1>5 DEF Dies
  <2>3. \A q \in Requests : Balanced(q) /\ service[q] = s => failures[q] = 0
    BY <1>5, <2>1, <2>2 DEF Fresh, Untouched
  <2>4. Spared' /\ Away'
    BY <1>2, <1>3, <2>1, <2>2 DEF Spared, Away
  <2>5. StaysDown'
    BY <1>2, <1>5, <2>1, <2>2 DEF StaysDown, Serves
  <2>6. Fresh'
    BY <1>2, <1>3, <2>2 DEF Fresh, Untouched, Serves
  <2>7. ASSUME NEW q \in Requests, Balanced(q), q \notin cleared, ~Serving(sc.zone, q)'
        PROVE  Struck(q, sc.zone)'
    <3>1. CASE service[q] = s
      <4>1. failures[q] = 0
        BY <2>3, <2>7, <3>1
      <4>2. Lost(q, sc.zone) <= EjectAfter
        BY <4>1, Facts DEF Lost
      <4>3. sc.zone \in ejected /\ q \notin present[sc.zone] => pc[q] # sc.zone
        BY <2>7 DEF Away
      <4>4. QED
        BY <1>0, <1>2, <2>2, <4>1, <4>2, <4>3, Facts DEF Struck, Lost
    <3>2. CASE service[q] # s
      <4>1. ~Serving(sc.zone, q)
        BY <1>2, <2>2, <2>7, <3>2 DEF Serving
      <4>2. QED
        BY <1>2, <2>2, <2>7, <4>1 DEF AllStruck, Struck, Lost
    <3>3. QED
      BY <3>1, <3>2
  <2>8. AllStruck'
    BY <1>2, <1>3, <2>7 DEF AllStruck
  <2>9. QED
    BY <1>4, <2>4, <2>5, <2>6, <2>8
<1>6. CASE Serves(z, s) /\ Recovers(z, s)
  <2>1. <<z, s>> \notin alive /\ alive' = alive \cup {<<z, s>>} /\ ejected' = ejected
    BY <1>6 DEF Recovers
  <2>2. z = sc.zone
    BY <2>1 DEF Spared
  <2>3. phase \in {"post", "done"}
    BY <1>6, <2>1, <2>2 DEF StaysDown
  <2>4. Spared' /\ Away' /\ StaysDown'
    BY <1>2, <1>3, <2>1, <2>3 DEF Spared, Away, StaysDown, Serves
  <2>5. Fresh'
    BY <1>2, <1>3, <1>6, <2>1, <2>2, <2>3 DEF Fresh, Untouched, Serves
  <2>6. AllStruck'
    BY <1>2, <1>3, <2>1 DEF AllStruck, Struck, Lost, Serving
  <2>7. QED
    BY <1>4, <2>4, <2>5, <2>6
<1>7. CASE Readmit(z)
  <2>1. /\ z \in ejected /\ ejected' = ejected \ {z} /\ alive' = alive
        /\ present[z] \cap InFlight = {}
    BY <1>7 DEF Readmit
  <2>2. z = sc.zone
    BY <2>1 DEF Spared
  <2>3. Spared' /\ StaysDown' /\ Fresh'
    BY <1>2, <1>3, <2>1 DEF Spared, StaysDown, Fresh, Untouched, Serves
  <2>4. Away'
    BY <1>2, <2>1, <2>2 DEF Away
  <2>5. ASSUME NEW q \in Requests, Balanced(q), q \notin cleared, ~Serving(sc.zone, q)
        PROVE  Struck(q, sc.zone)'
    <3>1. failures[q] = 0
      BY <2>1, <2>2, <2>5 DEF AllStruck, Struck, Balanced
    <3>2. QED
      BY <1>0, <1>2, <2>1, <2>2, <3>1, Facts DEF Struck
  <2>6. AllStruck'
    BY <1>2, <1>3, <2>1, <2>5 DEF AllStruck, Serving
  <2>7. QED
    BY <1>4, <2>3, <2>4, <2>6
<1>8. QED
  BY <1>1, <1>5, <1>6, <1>7

LEMMA PinnedRunner ==
    ASSUME DrillInv, PinnedInv, RunnerStep
    PROVE  PinnedInv'
<1> USE DEF DrillInv, PinnedInv
<1>0. sc.zone \in Zones /\ RoutingTypeOK /\ \A z \in Zones, s \in Services : <<z, s>> \in Containers
  BY DrillZone
<1>1. UNCHANGED <<gwVars, sc>>
  BY DEF RunnerStep, BaselineStats, BaselineOver, InjectFailure, InjectFails, FailureOver,
         RestoreContainers, RestoreFails, Summary, Goto
<1>2. OnRoute' /\ Away' /\ AllStruck' /\ Explained'
  BY <1>1 DEF OnRoute, Away, AllStruck, Struck, Lost, Balanced, InFlight, Serving, Explained
<1>3. CASE BaselineStats \/ BaselineOver \/ FailureOver \/ Summary
  <2>1. /\ status' = status
        /\ phase' \in {"post", "done"} <=> phase \in {"post", "done"}
    BY <1>3 DEF BaselineStats, BaselineOver, FailureOver, Summary, Goto
  <2>2. Spared' /\ StaysDown' /\ Fresh'
    BY <1>1, <2>1 DEF Spared, StaysDown, Fresh, Untouched, Serves, Balanced, InFlight
  <2>3. QED
    BY <1>2, <2>2
<1>4. CASE InjectFailure \/ InjectFails
  <2>1. /\ phase = "inject" /\ phase' \in {"probe", "exit1"}
        /\ \E S \in SUBSET targetContainers : Set(S, sc.verb)
    BY <1>4 DEF InjectFailure, InjectFails, Goto
  <2>2. \A z \in Zones \ {sc.zone}, s \in Services : status'[<<z, s>>] = status[<<z, s>>]
    BY <1>0, <2>1 DEF targetContainers, Set
  <2>3. \A s \in Services : <<sc.zone, s>> \in alive
    BY <1>0, <2>1 DEF Before
  <2>4. Spared'
    <3>1. ejected' = ejected /\ alive' = alive /\ sc' = sc
      BY <1>1
    <3>2. \A z \in Zones \ {sc.zone} : z \notin ejected'
      BY <3>1 DEF Spared
    <3>3. \A z \in Zones \ {sc.zone}, s \in Services : <<z, s>> \in alive'
      BY <3>1 DEF Spared
    <3>4. ASSUME NEW z \in Zones \ {sc.zone}, NEW s \in Services
          PROVE  status'[<<z, s>>] = "up"
      <4>1. status[<<z, s>>] = "up"
        BY DEF Spared
      <4>2. status'[<<z, s>>] = status[<<z, s>>]
        BY <2>2
      <4>3. QED
        BY <4>1, <4>2
    <3>5. QED
      BY <3>1, <3>2, <3>3, <3>4 DEF Spared
  <2>5. StaysDown'
    BY <1>1, <2>3 DEF StaysDown
  <2>6. Fresh'
    BY <1>1, <2>1 DEF Fresh, Untouched, Balanced, InFlight
  <2>7. QED
    BY <1>2, <2>4, <2>5, <2>6
<1>5. CASE RestoreContainers \/ RestoreFails
  <2>1. /\ phase = "restore" /\ phase' = "post"
        /\ \E S \in SUBSET targetContainers : Set(S, "up")
    BY <1>5 DEF RestoreContainers, RestoreFails, Goto
  <2>2. \A z \in Zones \ {sc.zone}, s \in Services : status'[<<z, s>>] = status[<<z, s>>]
    BY <1>0, <2>1 DEF targetContainers, Set
  <2>3. Spared'
    <3>1. ejected' = ejected /\ alive' = alive /\ sc' = sc
      BY <1>1
    <3>2. \A z \in Zones \ {sc.zone} : z \notin ejected'
      BY <3>1 DEF Spared
    <3>3. \A z \in Zones \ {sc.zone}, s \in Services : <<z, s>> \in alive'
      BY <3>1 DEF Spared
    <3>4. ASSUME NEW z \in Zones \ {sc.zone}, NEW s \in Services
          PROVE  status'[<<z, s>>] = "up"
      <4>1. status[<<z, s>>] = "up"
        BY DEF Spared
      <4>2. status'[<<z, s>>] = status[<<z, s>>]
        BY <2>2
      <4>3. QED
        BY <4>1, <4>2
    <3>5. QED
      BY <3>1, <3>2, <3>3, <3>4 DEF Spared
  <2>4. StaysDown'
    BY <1>1, <2>1 DEF StaysDown
  <2>5. Fresh'
    BY <1>1, <2>1 DEF Fresh, Untouched, Balanced, InFlight
  <2>6. QED
    BY <1>2, <2>3, <2>4, <2>5
<1>6. QED
  BY <1>3, <1>4, <1>5 DEF RunnerStep

LEMMA PinnedStep == DrillInv /\ DrillInv' /\ PinnedInv /\ [Next]_vars => PinnedInv'
<1> SUFFICES ASSUME DrillInv, DrillInv', PinnedInv, [Next]_vars PROVE PinnedInv'
  OBVIOUS
<1>0. RoutingTypeOK /\ RoutingTypeOK' /\ GatewayInv
  BY DEF DrillInv, TypeOK
<1>1. ASSUME NEW r \in Requests, NEW c \in Zones \cup {Geo}, SendProbe(r, c) \/ SendLoad(r, c)
      PROVE  PinnedInv'
  <2>1. PICK o \in Recorders : Launch(r, c, o)
    BY <1>1 DEF SendProbe, SendLoad, Recorders
  <2>2. Path[o] \in Services /\ Arrive(r, c, Path[o]) /\ UNCHANGED runner
    BY <2>1 DEF Launch
  <2>3. QED
    BY <2>2, PinnedLaunch
<1>2. ASSUME NEW r \in Requests, AddResult(r) PROVE PinnedInv'
  BY <1>2, PinnedRelease DEF AddResult
<1>3. CASE GatewayWorks
  <2>1. PICK r \in Requests : RouterStep(r) \/ Abandon(r)
    BY <1>3 DEF GatewayWorks
  <2>2. UNCHANGED runner
    BY <1>3 DEF GatewayWorks
  <2>3. CASE Abandon(r)
    <3>1. /\ UNCHANGED <<alive, ejected, present, strikes, route, service, failures, cleared, runner>>
          /\ \A q \in Requests \ {r} : pc'[q] = pc[q]
          /\ pc'[r] = "gone"
      BY <1>0, <2>2, <2>3 DEF Abandon, RoutingTypeOK
    <3>2. QED
      BY <1>0, <3>1, PinnedQuiet
  <2>4. ASSUME NEW z \in Zones, Try(r, z) PROVE PinnedInv'
    <3>1. /\ UNCHANGED <<alive, ejected, present, strikes, route, service, failures, cleared, runner>>
          /\ \A q \in Requests \ {r} : pc'[q] = pc[q]
          /\ r \in InFlight /\ pc'[r] \in Hosts(r)
      BY <1>0, <2>2, <2>4 DEF Try, RoutingTypeOK, InFlight
    <3>2. QED
      BY <1>0, <3>1, PinnedQuiet
  <2>5. ASSUME NEW z \in Zones, Succeed(r, z) PROVE PinnedInv'
    BY <1>0, <2>2, <2>5, SucceedFacts, PinnedQuiet
  <2>6. ASSUME NEW z \in Zones, FailUncounted(r, z) \/ FailCounted(r, z) \/ FailEjecting(r, z)
        PROVE  PinnedInv'
    BY <2>2, <2>6, PinnedFailure DEF Fails
  <2>7. QED
    BY <2>1, <2>3, <2>4, <2>5, <2>6 DEF RouterStep
<1>4. CASE ZonesFollow \/ RunnerStep
  BY <1>4, PinnedZones, PinnedRunner
<1>5. CASE LoadOver \/ FinalReport \/ UNCHANGED vars
  <2>1. UNCHANGED <<runner, gwVars>>
    BY <1>5 DEF LoadOver, FinalReport
  <2>2. QED
    BY <2>1 DEF PinnedInv, Spared, OnRoute, Fresh, Untouched, Serves, StaysDown, Away, AllStruck,
                Struck, Lost, Balanced, InFlight, Serving, Explained
<1>6. QED
  BY <1>1, <1>2, <1>3, <1>4, <1>5 DEF Next

\* In a drill, whatever the load and whatever became of the containers: before
\* they go the gateway fails nothing, later nothing pinned to the other zone; and
\* of what it balances, only requests whose strikes another service's success
\* cleared run out of tries.
THEOREM FailuresExplained == Spec => []FailuresAreExplained
<1>1. Spec => []PinnedInv
  BY DrillHolds, PinnedStarts, PinnedStep, PTL DEF Spec
<1>2. DrillInv /\ PinnedInv => FailuresAreExplained
  BY DEF DrillInv, PinnedInv, Before, Explained, FailuresAreExplained
<1>3. QED
  BY <1>1, <1>2, DrillHolds, PTL
=============================================================================

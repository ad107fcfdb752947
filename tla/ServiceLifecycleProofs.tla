------------------------- MODULE ServiceLifecycleProofs -------------------------
(***************************************************************************)
(* For every set of instances, every number of probes that fill              *)
(* DeregisterCriticalServiceAfter and every load: a graceful stop leaves the *)
(* catalog first, an instance that answers stays in it, and the stop event   *)
(* is the last.                                                              *)
(***************************************************************************)
EXTENDS ServiceLifecycle, TLAPS

\* Only a process in the last part of the shutdown has a closed listener, and
\* one that is gone has none.
ListenerInv(i) ==
    /\ serving[i] = "closed" <=> pc[i] \in {"draining", "stopping", "flushing"}
    /\ pc[i] = "down" => serving[i] = "no"

\* A process not registered knows of a failed call, and one past its
\* deregistration has no entry unless it knows of one.
CatalogInv(i) ==
    /\ pc[i] \in {"subscribe", "arm", "wait", "closeHints"} /\ ~registered[i]
           => lost[i]
    /\ pc[i] \in {"deregistering", "drain", "draining", "stopping", "flushing"}
           /\ ~lost[i] => catalog[i] = "absent"

\* A steady instance answers now, and Consul has counted no failure.
SteadyInv(i) ==
    steady[i] => Healthy(i) /\ failing[i] = 0 /\ catalog[i] # "absent"

\* Handlers outlive the drain only past its deadline.
EventInv(i) ==
    /\ pc[i] = "down" => inflight[i] = 0
    /\ log[i] = "stop" => pc[i] \in {"flushing", "down"}
    /\ pc[i] \in {"stopping", "flushing"} /\ inflight[i] > 0 => overtime[i]

Local(i) == ListenerInv(i) /\ CatalogInv(i) /\ SteadyInv(i) /\ EventInv(i)

IInv == TypeOK /\ \A i \in Instances : Local(i)

---------------------------------------------------------------------------
\* main() starts in it.
LEMMA InitIInv == Init => IInv
BY LifecycleAssumption
   DEF Init, IInv, TypeOK, Local, ListenerInv, CatalogInv, SteadyInv, EventInv

\* A process that is gone is well typed.
LEMMA EndTypes ==
    ASSUME TypeOK, NEW i \in Instances, ProcessEnds(i)
    PROVE  /\ pc' \in [Instances -> {"down", "wait"} \cup StartUp \cup ShutDown]
           /\ serving' \in [Instances -> {"no", "open", "closed"}]
           /\ registered' \in [Instances -> BOOLEAN]
           /\ hints' \in [Instances -> BOOLEAN]
           /\ quit' \in [Instances -> BOOLEAN]
           /\ inflight' \in [Instances -> 0..MaxRequests]
           /\ frozen' \in [Instances -> BOOLEAN]
           /\ steady' \in [Instances -> BOOLEAN]
<1>1. /\ pc' \in [Instances -> {"down", "wait"} \cup StartUp \cup ShutDown]
      /\ serving' \in [Instances -> {"no", "open", "closed"}]
      /\ inflight' \in [Instances -> 0..MaxRequests]
  BY LifecycleAssumption DEF ProcessEnds, TypeOK
<1>2. registered' \in [Instances -> BOOLEAN]
  BY DEF ProcessEnds, TypeOK
<1>3. hints' \in [Instances -> BOOLEAN]
  BY DEF ProcessEnds, TypeOK
<1>4. quit' \in [Instances -> BOOLEAN]
  BY DEF ProcessEnds, TypeOK
<1>5. frozen' \in [Instances -> BOOLEAN]
  BY DEF ProcessEnds, TypeOK
<1>6. steady' \in [Instances -> BOOLEAN]
  BY DEF ProcessEnds, TypeOK
<1> QED  BY <1>1, <1>2, <1>3, <1>4, <1>5, <1>6

\* Every step keeps the types, action by action.
LEMMA TypeStep ==
    ASSUME TypeOK, [Next]_vars
    PROVE  TypeOK'
<1> USE LifecycleAssumption DEF rest, procVars, consulVars, history, StartUp,
                                ShutDown
<1>1. ASSUME NEW i \in Instances, StartUpStep(i) PROVE TypeOK'
  <2>1. CASE Start(i)
    <3>1. lost' \in [Instances -> BOOLEAN]
      BY <2>1 DEF Start, Goes, TypeOK
    <3>2. overtime' \in [Instances -> BOOLEAN]
      BY <2>1 DEF Start, Goes, TypeOK
    <3> QED  BY <2>1, <3>1, <3>2 DEF Start, Goes, TypeOK
  <2>2. CASE Listen(i)
    BY <2>2 DEF Listen, TypeOK
  <2>3. CASE RegisterApplied(i)
    <3>1. steady' \in [Instances -> BOOLEAN]
      BY <2>3 DEF RegisterApplied, Goes, Healthy, TypeOK
    <3> QED  BY <2>3, <3>1 DEF RegisterApplied, Goes, TypeOK
  <2>4. CASE RegisterOK(i)
    <3>1. registered' \in [Instances -> BOOLEAN]
      BY <2>4 DEF RegisterOK, Goes, TypeOK
    <3> QED  BY <2>4, <3>1 DEF RegisterOK, Goes, TypeOK
  <2>5. CASE RegisterFails(i)
    <3>1. lost' \in [Instances -> BOOLEAN]
      BY <2>5 DEF RegisterFails, Goes, TypeOK
    <3> QED  BY <2>5, <3>1 DEF RegisterFails, Goes, TypeOK
  <2>6. CASE Subscribe(i)
    <3>1. hints' \in [Instances -> BOOLEAN]
      BY <2>6 DEF Subscribe, Goes, TypeOK
    <3> QED  BY <2>6, <3>1 DEF Subscribe, Goes, TypeOK
  <2>7. CASE NotifySignals(i)
    BY <2>7 DEF NotifySignals, Passes, Goes, TypeOK
  <2> QED  BY <1>1, <2>1, <2>2, <2>3, <2>4, <2>5, <2>6, <2>7 DEF StartUpStep
<1>2. ASSUME NEW i \in Instances, ShutdownStep(i) PROVE TypeOK'
  <2>1. CASE BeginShutdown(i)
    BY <2>1 DEF BeginShutdown, Passes, Goes, AfterClose, TypeOK
  <2>2. CASE CloseHints(i)
    BY <2>2 DEF CloseHints, Passes, Goes, AfterClose, TypeOK
  <2>3. CASE DeregisterApplied(i)
    <3>1. steady' \in [Instances -> BOOLEAN]
      BY <2>3 DEF DeregisterApplied, Goes, TypeOK
    <3> QED  BY <2>3, <3>1 DEF DeregisterApplied, Goes, TypeOK
  <2>4. CASE DeregisterOK(i)
    BY <2>4 DEF DeregisterOK, Passes, Goes, TypeOK
  <2>5. CASE DeregisterFails(i)
    <3>1. lost' \in [Instances -> BOOLEAN]
      BY <2>5 DEF DeregisterFails, Goes, TypeOK
    <3> QED  BY <2>5, <3>1 DEF DeregisterFails, Goes, TypeOK
  <2>6. CASE CloseListener(i)
    <3>1. steady' \in [Instances -> BOOLEAN]
      BY <2>6 DEF CloseListener, Goes, TypeOK
    <3> QED  BY <2>6, <3>1 DEF CloseListener, Goes, TypeOK
  <2>7. CASE Drained(i)
    BY <2>7 DEF Drained, Passes, Goes, TypeOK
  <2>8. CASE DrainTimesOut(i)
    <3>1. overtime' \in [Instances -> BOOLEAN]
      BY <2>8 DEF DrainTimesOut, Goes, DrainDeadline, TypeOK
    <3> QED  BY <2>8, <3>1 DEF DrainTimesOut, Goes, DrainDeadline, TypeOK
  <2>9. CASE StopEvent(i)
    BY <2>9 DEF StopEvent, Goes, TypeOK
  <2>10. CASE Return(i)
    BY <2>10, EndTypes DEF Return, TypeOK
  <2> QED  BY <1>2, <2>1, <2>2, <2>3, <2>4, <2>5, <2>6, <2>7, <2>8, <2>9,
          <2>10 DEF ShutdownStep
<1>3. ASSUME NEW i \in Instances, ServerStep(i) PROVE TypeOK'
  <2>1. CASE PingArrives(i)
    BY <2>1 DEF PingArrives, TypeOK
  <2>2. CASE PingReturns(i)
    BY <2>2 DEF PingReturns, TypeOK
  <2>3. CASE ServerError(i)
    BY <2>3, EndTypes DEF ServerError, TypeOK
  <2> QED  BY <1>3, <2>1, <2>2, <2>3 DEF ServerStep
<1>4. ASSUME NEW i \in Instances, RuntimeStep(i) PROVE TypeOK'
  <2>1. CASE TermEarly(i)
    BY <2>1, EndTypes DEF TermEarly, TypeOK
  <2>2. CASE Term(i)
    <3>1. quit' \in [Instances -> BOOLEAN]
      BY <2>2 DEF Term, TypeOK
    <3> QED  BY <2>2, <3>1 DEF Term, TypeOK
  <2>3. CASE Kill(i)
    BY <2>3, EndTypes DEF Kill, TypeOK
  <2>4. CASE Pause(i)
    <3>1. frozen' \in [Instances -> BOOLEAN]
      BY <2>4 DEF Pause, TypeOK
    <3>2. steady' \in [Instances -> BOOLEAN]
      BY <2>4 DEF Pause, TypeOK
    <3> QED  BY <2>4, <3>1, <3>2 DEF Pause, TypeOK
  <2>5. CASE Unpause(i)
    <3>1. frozen' \in [Instances -> BOOLEAN]
      BY <2>5 DEF Unpause, TypeOK
    <3> QED  BY <2>5, <3>1 DEF Unpause, TypeOK
  <2> QED  BY <1>4, <2>1, <2>2, <2>3, <2>4, <2>5 DEF RuntimeStep
<1>5. ASSUME NEW i \in Instances, AgentStep(i) PROVE TypeOK'
  <2>1. CASE Probe(i)
    BY <2>1 DEF Probe, Answers, MoreFailures, TypeOK
  <2>2. CASE Reap(i)
    BY <2>2 DEF Reap, ReapDue, TypeOK
  <2> QED  BY <1>5, <2>1, <2>2 DEF AgentStep
<1>6. CASE ConsulStops
  <2>1. steady' \in [Instances -> BOOLEAN]
    BY <1>6 DEF ConsulStops, TypeOK
  <2>2. consul' \in BOOLEAN
    BY <1>6 DEF ConsulStops
  <2>3. /\ catalog' \in [Instances -> {"absent", "critical", "passing"}]
        /\ failing' \in [Instances -> 0..ReapAfter]
    BY <1>6 DEF ConsulStops
  <2> QED  BY <1>6, <2>1, <2>2, <2>3 DEF ConsulStops, TypeOK
<1>7. CASE ConsulStarts
  BY <1>7 DEF ConsulStarts, TypeOK
<1>8. CASE UNCHANGED vars
  BY <1>8 DEF vars, TypeOK
<1> QED  BY <1>1, <1>2, <1>3, <1>4, <1>5, <1>6, <1>7, <1>8 DEF Next

\* Every step of one instance, or of Consul, keeps the invariant of each.
LEMMA LocalStep ==
    ASSUME IInv, TypeOK', [Next]_vars, NEW j \in Instances
    PROVE  Local(j)'
<1> USE LifecycleAssumption DEF rest, procVars, consulVars, history, StartUp,
                                ShutDown, Up, Healthy, IInv, TypeOK, Local,
                                ListenerInv, CatalogInv, SteadyInv, EventInv
<1>1. ASSUME NEW i \in Instances, StartUpStep(i) PROVE Local(j)'
  <2>1. CASE Start(i)
    BY <2>1 DEF Start, Goes
  <2>2. CASE Listen(i)
    BY <2>2 DEF Listen
  <2>3. CASE RegisterApplied(i)
    BY <2>3 DEF RegisterApplied, Goes
  <2>4. CASE RegisterOK(i)
    BY <2>4 DEF RegisterOK, Goes
  <2>5. CASE RegisterFails(i)
    BY <2>5 DEF RegisterFails, Goes
  <2>6. CASE Subscribe(i)
    BY <2>6 DEF Subscribe, Goes
  <2>7. CASE NotifySignals(i)
    BY <2>7 DEF NotifySignals, Passes, Goes
  <2> QED  BY <1>1, <2>1, <2>2, <2>3, <2>4, <2>5, <2>6, <2>7 DEF StartUpStep
<1>2. ASSUME NEW i \in Instances, ShutdownStep(i) PROVE Local(j)'
  <2>1. CASE BeginShutdown(i)
    BY <2>1 DEF BeginShutdown, Passes, Goes, AfterClose
  <2>2. CASE CloseHints(i)
    BY <2>2 DEF CloseHints, Passes, Goes, AfterClose
  <2>3. CASE DeregisterApplied(i)
    BY <2>3 DEF DeregisterApplied, Goes
  <2>4. CASE DeregisterOK(i)
    BY <2>4 DEF DeregisterOK, Passes, Goes
  <2>5. CASE DeregisterFails(i)
    BY <2>5 DEF DeregisterFails, Goes
  <2>6. CASE CloseListener(i)
    BY <2>6 DEF CloseListener, Goes
  <2>7. CASE Drained(i)
    BY <2>7 DEF Drained, Passes, Goes
  <2>8. CASE DrainTimesOut(i)
    BY <2>8 DEF DrainTimesOut, Goes, DrainDeadline
  <2>9. CASE StopEvent(i)
    BY <2>9 DEF StopEvent, Goes
  <2>10. CASE Return(i)
    BY <2>10 DEF Return, ProcessEnds
  <2> QED  BY <1>2, <2>1, <2>2, <2>3, <2>4, <2>5, <2>6, <2>7, <2>8, <2>9,
          <2>10 DEF ShutdownStep
<1>3. ASSUME NEW i \in Instances, ServerStep(i) PROVE Local(j)'
  <2>1. CASE PingArrives(i)
    <3>1. /\ UNCHANGED <<pc, serving, registered, frozen, log, catalog, failing,
                         lost, overtime, steady>>
          /\ serving[i] = "open"
      BY <2>1 DEF PingArrives
    <3>2. ListenerInv(j)' /\ CatalogInv(j)' /\ SteadyInv(j)'
      BY <3>1 DEF IInv, Local, ListenerInv, CatalogInv, SteadyInv
    <3>3. pc[i] \notin {"draining", "stopping", "flushing"} /\ pc[i] # "down"
      BY <2>1, <3>1 DEF PingArrives, IInv, Local, ListenerInv, EventInv
    <3>4. j # i => inflight'[j] = inflight[j]
      BY <2>1 DEF PingArrives, IInv, TypeOK
    <3>5. EventInv(j)'
      BY <3>1, <3>3, <3>4 DEF IInv, Local, EventInv
    <3> QED  BY <3>2, <3>5 DEF Local
  <2>2. CASE PingReturns(i)
    BY <2>2 DEF PingReturns
  <2>3. CASE ServerError(i)
    BY <2>3 DEF ServerError, ProcessEnds
  <2> QED  BY <1>3, <2>1, <2>2, <2>3 DEF ServerStep
<1>4. ASSUME NEW i \in Instances, RuntimeStep(i) PROVE Local(j)'
  <2>1. CASE TermEarly(i)
    BY <2>1 DEF TermEarly, ProcessEnds
  <2>2. CASE Term(i)
    BY <2>2 DEF Term
  <2>3. CASE Kill(i)
    BY <2>3 DEF Kill, ProcessEnds
  <2>4. CASE Pause(i)
    BY <2>4 DEF Pause
  <2>5. CASE Unpause(i)
    BY <2>5 DEF Unpause
  <2> QED  BY <1>4, <2>1, <2>2, <2>3, <2>4, <2>5 DEF RuntimeStep
<1>5. ASSUME NEW i \in Instances, AgentStep(i) PROVE Local(j)'
  <2>1. CASE Probe(i)
    BY <2>1 DEF Probe, Answers, MoreFailures
  <2>2. CASE Reap(i)
    BY <2>2 DEF Reap, ReapDue
  <2> QED  BY <1>5, <2>1, <2>2 DEF AgentStep
<1>6. CASE ConsulStops
  BY <1>6 DEF ConsulStops
<1>7. CASE ConsulStarts
  BY <1>7 DEF ConsulStarts
<1>8. CASE UNCHANGED vars
  BY <1>8 DEF vars
<1> QED  BY <1>1, <1>2, <1>3, <1>4, <1>5, <1>6, <1>7, <1>8 DEF Next

\* The strengthening that makes the properties below inductive.
THEOREM Inductive == Spec => []IInv
<1>1. IInv /\ [Next]_vars => IInv'
  <2> SUFFICES ASSUME IInv, [Next]_vars  PROVE IInv'
    OBVIOUS
  <2>1. TypeOK'
    BY TypeStep DEF IInv
  <2>2. ASSUME NEW j \in Instances PROVE Local(j)'
    BY <2>1, LocalStep
  <2> QED  BY <2>1, <2>2 DEF IInv
<1> QED  BY InitIInv, <1>1, PTL DEF Spec

\* No step takes a variable out of its type.
THEOREM TypeCorrect == Spec => []TypeOK
<1>1. IInv => TypeOK
  BY DEF IInv
<1> QED  BY Inductive, <1>1, PTL

\* No graceful stop closes the listener of an instance that the catalog still
\* lists, unless a call to Consul reported an error.
THEOREM StopsUnlisted == Spec => []ClosedIsUnlisted
<1>1. IInv => ClosedIsUnlisted
  BY DEF IInv, Local, ListenerInv, CatalogInv, ClosedIsUnlisted
<1> QED  BY Inductive, <1>1, PTL

\* An instance that has answered since it was listed is never reaped.
THEOREM StaysListed == Spec => []SteadyIsListed
<1>1. IInv => SteadyIsListed
  BY DEF IInv, Local, SteadyInv, SteadyIsListed
<1> QED  BY Inductive, <1>1, PTL

\* After the stop event only a request that srv.Shutdown gave up on can log.
THEOREM StopsLast == Spec => []StopEventIsLast
<1>1. IInv => StopEventIsLast
  BY DEF IInv, TypeOK, Local, EventInv, StopEventIsLast
<1> QED  BY Inductive, <1>1, PTL

=================================================================================

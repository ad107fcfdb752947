---------------------------- MODULE ServiceLifecycle ---------------------------
(***************************************************************************)
(* app/cmd/service: the life of the application processes, from start-up    *)
(* to exit, and their entries in the Consul catalog.                        *)
(*                                                                          *)
(* A process starts its HTTP server in a goroutine, registers with Consul   *)
(* (best effort, once), dials Redis for routing hints (once) and only then  *)
(* asks for SIGTERM.  On SIGTERM it closes the subscriber, deregisters if   *)
(* its registration succeeded, shuts the server down and returns.           *)
(*                                                                          *)
(* Consul is external: its catalog is in memory (agent -dev), it probes     *)
(* /health every 5 s and removes an entry that failed for 30 s.  So are the *)
(* commands of an operator or of the failure runner: start, stop, pause,    *)
(* unpause.                                                                 *)
(***************************************************************************)
EXTENDS Naturals

CONSTANTS
    Instances,   \* INSTANCE_NAME of each container
    ReapAfter,   \* failed probes that fill DeregisterCriticalServiceAfter
    MaxRequests  \* bound: /ping requests one process handles at once

ASSUME LifecycleAssumption ==
    /\ ReapAfter \in Nat \ {0}
    /\ MaxRequests \in Nat

VARIABLES
    pc,         \* where main() is
    serving,    \* the listener of srv
    registered, \* main's registered
    hints,      \* hintsSub # nil
    quit,       \* a signal is in the channel quit, or was taken from it
    inflight,   \* requests inside the /ping handler
    frozen,     \* the container is paused
    log,        \* its last lifecycle event on stdout
    consul,     \* the agent runs
    catalog,    \* its entry for each instance, with the status of the check
    failing,    \* failed probes since the entry last passed
    lost,       \* history: a Consul call of this process reported an error
    overtime,   \* history: its srv.Shutdown hit the 15 s timeout
    steady      \* history: it answered /health ever since Consul listed it

rest == <<serving, registered, hints, quit, inflight, frozen, log>>
procVars == <<pc, rest>>
consulVars == <<consul, catalog, failing>>
history == <<lost, overtime, steady>>
vars == <<procVars, consulVars, history>>

StartUp == {"register", "registering", "subscribe", "arm"}
ShutDown == {"closeHints", "deregister", "deregistering", "drain",
             "draining", "stopping", "flushing"}

TypeOK ==
    /\ pc \in [Instances -> {"down", "wait"} \cup StartUp \cup ShutDown]
    /\ serving \in [Instances -> {"no", "open", "closed"}]
    /\ registered \in [Instances -> BOOLEAN]
    /\ hints \in [Instances -> BOOLEAN]
    /\ quit \in [Instances -> BOOLEAN]
    /\ inflight \in [Instances -> 0..MaxRequests]
    /\ frozen \in [Instances -> BOOLEAN]
    /\ log \in [Instances -> {"none", "start", "stop"}]
    /\ consul \in BOOLEAN
    /\ catalog \in [Instances -> {"absent", "critical", "passing"}]
    /\ failing \in [Instances -> 0..ReapAfter]
    /\ lost \in [Instances -> BOOLEAN]
    /\ overtime \in [Instances -> BOOLEAN]
    /\ steady \in [Instances -> BOOLEAN]

Init ==
    /\ pc = [i \in Instances |-> "down"]
    /\ serving = [i \in Instances |-> "no"]
    /\ registered = [i \in Instances |-> FALSE]
    /\ hints = [i \in Instances |-> FALSE]
    /\ quit = [i \in Instances |-> FALSE]
    /\ inflight = [i \in Instances |-> 0]
    /\ frozen = [i \in Instances |-> FALSE]
    /\ log = [i \in Instances |-> "none"]
    /\ consul = TRUE \* depends_on: consul is healthy
    /\ catalog = [i \in Instances |-> "absent"]
    /\ failing = [i \in Instances |-> 0]
    /\ lost = [i \in Instances |-> FALSE]
    /\ overtime = [i \in Instances |-> FALSE]
    /\ steady = [i \in Instances |-> FALSE]

Up(i) == pc[i] # "down"

Healthy(i) == serving[i] = "open" /\ ~frozen[i]

\* main() goes from one of the places "from" to "to".
Goes(i, from, to) ==
    /\ pc[i] \in from
    /\ ~frozen[i]
    /\ pc' = [pc EXCEPT ![i] = to]

\* A step of main() that changes nothing else.
Passes(i, from, to) ==
    /\ Goes(i, from, to)
    /\ UNCHANGED <<rest, consulVars, history>>

-----------------------------------------------------------------------------
(* Start-up *)

Start(i) ==
    /\ Goes(i, {"down"}, "register")
    /\ log' = [log EXCEPT ![i] = "start"]
    /\ lost' = [lost EXCEPT ![i] = FALSE]
    /\ overtime' = [overtime EXCEPT ![i] = FALSE]
    /\ UNCHANGED <<serving, registered, hints, quit, inflight, frozen,
                   consulVars, steady>>

\* The goroutine reaches Listen, at any point of main().
Listen(i) ==
    /\ Up(i) /\ ~frozen[i] /\ serving[i] = "no"
    /\ serving' = [serving EXCEPT ![i] = "open"]
    /\ UNCHANGED <<pc, registered, hints, quit, inflight, frozen, log,
                   consulVars, history>>

\* The agent has taken the registration, with the check critical until its
\* first probe; main() waits for the reply.
RegisterApplied(i) ==
    /\ consul
    /\ Goes(i, {"register"}, "registering")
    /\ \E status \in {"critical", catalog[i]} \ {"absent"} :
           catalog' = [catalog EXCEPT ![i] = status]
    /\ failing' = [failing EXCEPT ![i] = 0]
    /\ steady' = [steady EXCEPT ![i] = Healthy(i)]
    /\ UNCHANGED <<rest, consul, lost, overtime>>

RegisterOK(i) ==
    /\ Goes(i, {"registering"}, "subscribe")
    /\ registered' = [registered EXCEPT ![i] = TRUE]
    /\ UNCHANGED <<serving, hints, quit, inflight, frozen, log, consulVars,
                   history>>

\* The agent was not reached, or its reply was lost.
RegisterFails(i) ==
    /\ Goes(i, {"register", "registering"}, "subscribe")
    /\ lost' = [lost EXCEPT ![i] = TRUE]
    /\ UNCHANGED <<rest, consulVars, overtime, steady>>

Subscribe(i) ==
    /\ Goes(i, {"subscribe"}, "arm")
    /\ \E ok \in BOOLEAN : hints' = [hints EXCEPT ![i] = ok]
    /\ UNCHANGED <<serving, registered, quit, inflight, frozen, log,
                   consulVars, history>>

NotifySignals(i) == Passes(i, {"arm"}, "wait")

-----------------------------------------------------------------------------
(* Requests *)

\* A request whose client has gone away returns at once and leaves no event.
PingArrives(i) ==
    /\ Healthy(i)
    /\ inflight[i] < MaxRequests
    /\ inflight' = [inflight EXCEPT ![i] = @ + 1]
    /\ UNCHANGED <<pc, serving, registered, hints, quit, frozen, log,
                   consulVars, history>>

PingReturns(i) ==
    /\ inflight[i] > 0 /\ ~frozen[i]
    /\ inflight' = [inflight EXCEPT ![i] = @ - 1]
    /\ UNCHANGED <<pc, serving, registered, hints, quit, frozen, log,
                   consulVars, history>>

-----------------------------------------------------------------------------
(* The end *)

\* The process is gone, with everything it had in memory.
ProcessEnds(i) ==
    /\ pc' = [pc EXCEPT ![i] = "down"]
    /\ serving' = [serving EXCEPT ![i] = "no"]
    /\ registered' = [registered EXCEPT ![i] = FALSE]
    /\ hints' = [hints EXCEPT ![i] = FALSE]
    /\ quit' = [quit EXCEPT ![i] = FALSE]
    /\ inflight' = [inflight EXCEPT ![i] = 0]
    /\ frozen' = [frozen EXCEPT ![i] = FALSE]
    /\ steady' = [steady EXCEPT ![i] = FALSE]

\* A SIGTERM before signal.Notify ends the process where it stands.
TermEarly(i) ==
    /\ pc[i] \in StartUp /\ ~frozen[i]
    /\ ProcessEnds(i)
    /\ UNCHANGED <<log, consulVars, lost, overtime>>

\* Later ones reach the channel, which holds one; main() reads it once.
Term(i) ==
    /\ Up(i) /\ pc[i] \notin StartUp /\ ~frozen[i]
    /\ ~quit[i]
    /\ quit' = [quit EXCEPT ![i] = TRUE]
    /\ UNCHANGED <<pc, serving, registered, hints, inflight, frozen, log,
                   consulVars, history>>

\* Mutant: the shutdown sequence without its deregistration.
SkipDeregister(i) == "drain"

\* What follows the subscriber's Close.
AfterClose(i) == IF registered[i] THEN "deregister" ELSE "drain"

BeginShutdown(i) ==
    /\ quit[i]
    /\ Passes(i, {"wait"}, IF hints[i] THEN "closeHints" ELSE AfterClose(i))

CloseHints(i) == Passes(i, {"closeHints"}, AfterClose(i))

\* The agent knows the instance and removes it; main() waits for the reply.
DeregisterApplied(i) ==
    /\ consul /\ catalog[i] # "absent"
    /\ Goes(i, {"deregister"}, "deregistering")
    /\ catalog' = [catalog EXCEPT ![i] = "absent"]
    /\ failing' = [failing EXCEPT ![i] = 0]
    /\ steady' = [steady EXCEPT ![i] = FALSE]
    /\ UNCHANGED <<rest, consul, lost, overtime>>

DeregisterOK(i) == Passes(i, {"deregistering"}, "drain")

\* Not reached, an unknown instance, or the reply was lost.
DeregisterFails(i) ==
    /\ Goes(i, {"deregister", "deregistering"}, "drain")
    /\ lost' = [lost EXCEPT ![i] = TRUE]
    /\ UNCHANGED <<rest, consulVars, overtime, steady>>

\* srv.Shutdown closes the listener first ...
CloseListener(i) ==
    /\ Goes(i, {"drain"}, "draining")
    /\ serving' = [serving EXCEPT ![i] = "closed"]
    /\ steady' = [steady EXCEPT ![i] = FALSE]
    /\ UNCHANGED <<registered, hints, quit, inflight, frozen, log, consulVars,
                   lost, overtime>>

\* Mutant: srv.Close in place of srv.Shutdown.
ClosedAtOnce(i) == Passes(i, {"draining"}, "stopping")

\* ... then waits for the handlers ...
Drained(i) ==
    /\ inflight[i] = 0
    /\ Passes(i, {"draining"}, "stopping")

\* Mutant: context.Background() in place of WithTimeout.
NoDeadline(i) == FALSE

\* ... for 15 s at most.
DrainDeadline(i) == inflight[i] > 0

DrainTimesOut(i) ==
    /\ DrainDeadline(i)
    /\ Goes(i, {"draining"}, "stopping")
    /\ overtime' = [overtime EXCEPT ![i] = TRUE]
    /\ UNCHANGED <<rest, consulVars, lost, steady>>

\* main() returns: the deferred col.Stop ...
StopEvent(i) ==
    /\ Goes(i, {"stopping"}, "flushing")
    /\ log' = [log EXCEPT ![i] = "stop"]
    /\ UNCHANGED <<serving, registered, hints, quit, inflight, frozen,
                   consulVars, history>>

\* ... and then the watcher's Close and the tracer's flush, up to 5 s.
Return(i) ==
    /\ pc[i] = "flushing" /\ ~frozen[i]
    /\ ProcessEnds(i)
    /\ UNCHANGED <<log, consulVars, lost, overtime>>

\* ListenAndServe fails for another reason than Shutdown: os.Exit(1).
ServerError(i) ==
    /\ Up(i) /\ ~frozen[i] /\ serving[i] # "closed"
    /\ ProcessEnds(i)
    /\ UNCHANGED <<log, consulVars, lost, overtime>>

-----------------------------------------------------------------------------
(* The container runtime *)

\* SIGKILL: the grace period of a stop ran out, or the kernel's choice.
Kill(i) ==
    /\ Up(i)
    /\ ProcessEnds(i)
    /\ UNCHANGED <<log, consulVars, lost, overtime>>

Pause(i) ==
    /\ Up(i) /\ ~frozen[i]
    /\ frozen' = [frozen EXCEPT ![i] = TRUE]
    /\ steady' = [steady EXCEPT ![i] = FALSE]
    /\ UNCHANGED <<pc, serving, registered, hints, quit, inflight, log,
                   consulVars, lost, overtime>>

Unpause(i) ==
    /\ frozen[i]
    /\ frozen' = [frozen EXCEPT ![i] = FALSE]
    /\ UNCHANGED <<pc, serving, registered, hints, quit, inflight, log,
                   consulVars, history>>

-----------------------------------------------------------------------------
(* The Consul agent *)

\* Mutant: the check's URL names the instance, which the agent cannot resolve.
ByInstanceName(i) == FALSE

\* Does the probe of the check, http://<addr>:8080/health, succeed?
\* The address registered is taken to be one the agent reaches: on a host with a
\* loopback interface only it would be INSTANCE_NAME (main.go:190-193), which may
\* not resolve, and no probe would ever succeed.
Answers(i) == Healthy(i)

\* Mutant: failures counted past the bound.
Unbounded(n) == n + 1

MoreFailures(n) == IF n < ReapAfter THEN n + 1 ELSE n

Probe(i) ==
    /\ consul /\ catalog[i] # "absent"
    /\ IF Answers(i)
       THEN /\ catalog' = [catalog EXCEPT ![i] = "passing"]
            /\ failing' = [failing EXCEPT ![i] = 0]
       ELSE /\ catalog' = [catalog EXCEPT ![i] = "critical"]
            /\ failing' = [failing EXCEPT ![i] = MoreFailures(@)]
    /\ UNCHANGED <<procVars, consul, history>>

\* Mutant: the check without DeregisterCriticalServiceAfter.
NeverDue(i) == FALSE

\* DeregisterCriticalServiceAfter has passed.
ReapDue(i) == failing[i] = ReapAfter

Reap(i) ==
    /\ consul /\ catalog[i] # "absent"
    /\ ReapDue(i)
    /\ catalog' = [catalog EXCEPT ![i] = "absent"]
    /\ failing' = [failing EXCEPT ![i] = 0]
    /\ UNCHANGED <<procVars, consul, history>>

\* The catalog is in memory: the agent comes back with an empty one.
ConsulStops ==
    /\ consul
    /\ consul' = FALSE
    /\ catalog' = [i \in Instances |-> "absent"]
    /\ failing' = [i \in Instances |-> 0]
    /\ steady' = [i \in Instances |-> FALSE]
    /\ UNCHANGED <<procVars, lost, overtime>>

ConsulStarts ==
    /\ ~consul
    /\ consul' = TRUE
    /\ UNCHANGED <<procVars, catalog, failing, history>>

-----------------------------------------------------------------------------
StartUpStep(i) ==
    Start(i) \/ Listen(i) \/ RegisterApplied(i) \/ RegisterOK(i)
        \/ RegisterFails(i) \/ Subscribe(i) \/ NotifySignals(i)

ShutdownStep(i) ==
    BeginShutdown(i) \/ CloseHints(i) \/ DeregisterApplied(i)
        \/ DeregisterOK(i) \/ DeregisterFails(i) \/ CloseListener(i)
        \/ Drained(i) \/ DrainTimesOut(i) \/ StopEvent(i) \/ Return(i)

ServerStep(i) == PingArrives(i) \/ PingReturns(i) \/ ServerError(i)

RuntimeStep(i) == TermEarly(i) \/ Term(i) \/ Kill(i) \/ Pause(i) \/ Unpause(i)

AgentStep(i) == Probe(i) \/ Reap(i)

Next ==
    \/ \E i \in Instances :
           StartUpStep(i) \/ ShutdownStep(i) \/ ServerStep(i)
               \/ RuntimeStep(i) \/ AgentStep(i)
    \/ ConsulStops
    \/ ConsulStarts

Spec == Init /\ [][Next]_vars

\* A running main() goes on once it was signalled, its calls to Redis and to
\* Consul return or fail, and a running agent probes and reaps.  Nothing makes
\* a handler return, a signal arrive or a container resume.
Fairness ==
    \A i \in Instances :
        /\ WF_vars(ShutdownStep(i))
        /\ WF_vars(Probe(i))
        /\ WF_vars(Reap(i))

FairSpec == Spec /\ Fairness

-----------------------------------------------------------------------------
(* Properties *)

\* A graceful stop takes the instance out of discovery before it stops taking
\* connections: no process with a closed listener is still in the catalog,
\* neither by its own registration nor by an earlier process's, unless one of
\* its calls to Consul reported an error (main.go, the order of the shutdown).
ClosedIsUnlisted ==
    \A i \in Instances :
        serving[i] = "closed" /\ ~lost[i] => catalog[i] = "absent"

\* An instance that has answered since Consul took its registration is not
\* dropped from the catalog, whatever its earlier processes left there: the
\* check is one it passes (main.go, the comment on the check's address).
SteadyIsListed ==
    \A i \in Instances : steady[i] => catalog[i] # "absent"

\* The stop event is the process's last: a request event can follow it only if
\* srv.Shutdown gave up on that request (col.Stop is deferred).
StopEventIsLast ==
    \A i \in Instances :
        log[i] = "stop" /\ inflight[i] > 0 => overtime[i]

\* However a process ended - killed, crashed, terminated before it asked for
\* signals, registered by a call whose reply it never saw - its entry does not
\* outlive it for ever (DeregisterCriticalServiceAfter).
GoneIsForgotten ==
    \A i \in Instances :
        <>[](pc[i] = "down") => <>[](catalog[i] = "absent")

\* A signalled process ends, even if a handler never returns, unless it is
\* paused on the way (the 15 s of srv.Shutdown).
StopCompletes ==
    \A i \in Instances : quit[i] ~> (pc[i] = "down" \/ frozen[i])
=============================================================================

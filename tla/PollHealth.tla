-------------------------------- MODULE PollHealth --------------------------------
(***************************************************************************)
(* GET /healthz of the two pollers, cmd/control-plane (which pulls ML) and *)
(* cmd/ml-analyzer (which pulls Prometheus), against real time.  Both poll *)
(* once at start and then on every tick of a time.Ticker created after the *)
(* first poll; a poll takes at most CallTimeout, and what the loop does    *)
(* with an answer (the Redis broadcast) at most WorkTimeout; /healthz      *)
(* compares the age of the last success with MaxAge.  Time advances second *)
(* by second; all clocks are ages, so time itself needs no bound.          *)
(***************************************************************************)
EXTENDS Integers

CONSTANTS
    Interval,    \* the ticker's period
    CallTimeout, \* no poll takes longer
    WorkTimeout, \* nor does a broadcast
    MaxAge,      \* /healthz answers 503 above it
    Tolerated,   \* failed polls in a row that must not flip /healthz
    Detected     \* failed polls in a row that must have flipped it

ASSUME HealthAssumption ==
    /\ Interval \in Nat \ {0}
    /\ CallTimeout \in Nat /\ WorkTimeout \in Nat
    /\ MaxAge \in Nat
    /\ Tolerated \in Nat /\ Detected \in Nat
    /\ Tolerated < Detected

VARIABLES
    place,     \* "polling", "working" or "idle"
    ticking,   \* the ticker exists: the first poll is over
    phase,     \* seconds since the ticker last fired
    due,       \* a tick waits in the ticker's one-slot channel
    elapsed,   \* seconds the current poll or broadcast has taken
    succeeded, \* a poll has succeeded
    age,       \* seconds since the last success (it stops above MaxAge)
    early,     \* history: the last success came before the ticker existed
    failures   \* history: failed polls since then (it stops at Detected)

healthVars == <<place, ticking, phase, due, elapsed, succeeded, age, early, failures>>

Limit == [polling |-> CallTimeout, working |-> WorkTimeout, idle |-> 0]

HealthTypeOK ==
    /\ place \in {"polling", "working", "idle"}
    /\ ticking \in BOOLEAN
    /\ phase \in 0..(Interval - 1)
    /\ due \in BOOLEAN
    /\ elapsed \in 0..Limit[place]
    /\ succeeded \in BOOLEAN
    /\ age \in 0..(MaxAge + 1)
    /\ early \in BOOLEAN
    /\ failures \in 0..Detected

HealthInit ==
    /\ place = "polling"
    /\ ticking = FALSE /\ phase = 0 /\ due = FALSE
    /\ elapsed = 0
    /\ succeeded = FALSE /\ age = 0 /\ early = FALSE
    /\ failures = 0

---------------------------------------------------------------------------
\* Mutant: the loop sleeps for Interval after a poll instead of using a ticker.
SleepRuns ==
    IF ~ticking \/ place # "idle" THEN UNCHANGED <<phase, due>>
    ELSE /\ phase' = (phase + 1) % Interval
         /\ due' = (due \/ phase + 1 = Interval)

\* A tick that finds the channel full is dropped.
TickerRuns ==
    IF ~ticking THEN UNCHANGED <<phase, due>>
    ELSE /\ phase' = (phase + 1) % Interval
         /\ due' = (due \/ phase + 1 = Interval)

\* One second passes.  A waiting tick is received at once, and a poll or a
\* broadcast that has used up its time ends.
Second ==
    /\ place = "idle" => ~due
    /\ place # "idle" => elapsed < Limit[place]
    /\ TickerRuns
    /\ elapsed' = IF place = "idle" THEN 0 ELSE elapsed + 1
    /\ age' = IF succeeded /\ age <= MaxAge THEN age + 1 ELSE age
    /\ UNCHANGED <<place, ticking, succeeded, early, failures>>

Receive ==
    /\ place = "idle"
    /\ due
    /\ due' = FALSE
    /\ place' = "polling"
    /\ elapsed' = 0
    /\ UNCHANGED <<ticking, phase, succeeded, age, early, failures>>

\* The success is recorded before the broadcast.
Succeed ==
    /\ place = "polling"
    /\ succeeded' = TRUE
    /\ age' = 0
    /\ early' = ~ticking
    /\ failures' = 0
    /\ place' = "working"
    /\ elapsed' = 0
    /\ UNCHANGED <<ticking, phase, due>>

\* Back in the loop, the first time to create the ticker.
BackToLoop ==
    /\ place' = "idle"
    /\ elapsed' = 0
    /\ ticking' = TRUE
    /\ UNCHANGED <<phase, due, succeeded, early>>

Finish ==
    /\ place = "working"
    /\ BackToLoop
    /\ UNCHANGED <<age, failures>>

\* Mutant: the time of the last success is stored before the error is checked.
FailStamped ==
    /\ place = "polling"
    /\ BackToLoop
    /\ age' = 0
    /\ failures' = IF failures < Detected THEN failures + 1 ELSE failures

Fail ==
    /\ place = "polling"
    /\ BackToLoop
    /\ failures' = IF failures < Detected THEN failures + 1 ELSE failures
    /\ UNCHANGED age

HealthNext == Second \/ Receive \/ Succeed \/ Finish \/ Fail

HealthSpec == HealthInit /\ [][HealthNext]_healthVars

---------------------------------------------------------------------------
(* Properties *)

Healthy == succeeded /\ age <= MaxAge

\* Up to Tolerated failed polls in a row never make a poller that has worked
\* answer 503, however slow the polls are (main.go:624-625 of ml-analyzer:
\* "gives room for a couple of transient failures").  A first broadcast that
\* hangs delays the ticker and costs one of them.
TransientFailuresTolerated ==
    succeeded /\ failures + (IF early /\ WorkTimeout > 0 THEN 1 ELSE 0) <= Tolerated => Healthy

\* After Detected failed polls in a row the poller answers 503: nobody is
\* told that stale recommendations are fresh.
OutageDetected == failures = Detected => ~Healthy
=============================================================================

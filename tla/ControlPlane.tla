------------------------------ MODULE ControlPlane ------------------------------
(***************************************************************************)
(* cmd/control-plane: one poll loop pulls recommendations from the ML      *)
(* analyzer, stores them as the versioned snapshot every HTTP handler      *)
(* serves, and broadcasts one routing hint per service over Redis Pub/Sub; *)
(* a main goroutine shuts the process down; a /metrics handler reads the   *)
(* shared state piecemeal.  The process may crash and be started again.    *)
(*                                                                         *)
(* Redis is external: a publish the loop has begun is either acknowledged  *)
(* or fails, and the command of a failed one may still sit in a socket and *)
(* be fanned out later (limbo).                                            *)
(***************************************************************************)
EXTENDS Naturals, FiniteSets

CONSTANTS
    Services,      \* names a recommendation may mention
    ZoneWeights,   \* the zone -> weight maps a service may be given
    NoWeights,     \* the nil map a service absent from Weights marshals to
    Payloads,      \* the (weights, rate_limits) answers of the ML analyzer
    MaxVersion,    \* bound: a pull of new content needs a smaller version
    CountCap,      \* bound: the metrics counters saturate here
    MaxLimbo       \* bound: publish commands left in sockets at one time

ASSUME ConstantsAssumption ==
    /\ IsFiniteSet(Services)
    /\ NoWeights \notin ZoneWeights
    /\ \A p \in Payloads :
         /\ DOMAIN p.weights \cup DOMAIN p.rates \subseteq Services
         /\ \A s \in DOMAIN p.weights : p.weights[s] \in ZoneWeights
         /\ \A s \in DOMAIN p.rates : p.rates[s] \in Nat
    /\ MaxVersion \in Nat \ {0}
    /\ CountCap \in Nat
    /\ CountCap >= MaxVersion
    /\ MaxLimbo \in Nat

EmptyPayload == [weights |-> [s \in {} |-> NoWeights], rates |-> [s \in {} |-> 0]]

\* newState stores an empty snapshot of version 0.
EmptySnapshot == [version |-> 0, content |-> EmptyPayload]

Snapshot == [version : 0..MaxVersion, content : Payloads \cup {EmptyPayload}]

Hint == [version : Nat, weights : ZoneWeights \cup {NoWeights}, rps : Nat]

NoHint == [version |-> 0, weights |-> NoWeights, rps |-> 0]

VARIABLES
    main,              \* main(): "serve", "shutdown", "wait", "closed", "down"
    client,            \* publisher: "nil" without REDIS_URL, "open", "closed"
    pc,                \* where the poll loop is
    snap,              \* state.snap
    lastSuccess,       \* state.lastSuccess # 0
    successes,         \* state.successes
    errors,            \* state.errors
    pubSuccess,        \* state.pubSuccess
    pubErrors,         \* state.pubErrors
    firstPublishDone,  \* pollLoop: a broadcast has been attempted
    prevPublished,     \* pollLoop: the snapshot last broadcast
    current,           \* the snapshot PublishSnapshot is broadcasting
    todo,              \* services it has still to publish
    sending,           \* the service whose Publish call is in flight, if any
    scrape,            \* a GET /metrics being answered
    redisUp,           \* Redis is reachable
    limbo,             \* commands of failed publishes Redis may still execute
    channel,           \* the hint Redis last fanned out on routing:<service>
    faulted            \* history: services a publish of which ever failed

shared   == <<snap, lastSuccess, successes, errors, pubSuccess, pubErrors>>
loopVars == <<pc, firstPublishDone, prevPublished, current, todo, sending>>
procVars == <<main, client>>
redis    == <<redisUp, limbo, channel, faulted>>
vars     == <<shared, loopVars, procVars, scrape, redis>>

LoopSteps == {"idle", "pulling", "stored", "counted", "stamped", "publishing", "done"}

TypeOK ==
    /\ main \in {"serve", "shutdown", "wait", "closed", "down"}
    /\ client \in {"nil", "open", "closed"}
    /\ pc \in LoopSteps
    /\ snap \in Snapshot
    /\ lastSuccess \in BOOLEAN
    /\ successes \in 0..CountCap /\ errors \in 0..CountCap
    /\ pubSuccess \in [Services -> 0..CountCap]
    /\ pubErrors \in [Services -> 0..CountCap]
    /\ firstPublishDone \in BOOLEAN
    /\ prevPublished \in Snapshot /\ current \in Snapshot
    /\ todo \subseteq Services
    /\ sending \subseteq Services
    /\ scrape \in [at : {"none", "reading"}, version : 0..MaxVersion]
    /\ redisUp \in BOOLEAN
    /\ limbo \subseteq [service : Services, hint : Hint]
    /\ channel \in [Services -> Hint]
    /\ faulted \subseteq Services

---------------------------------------------------------------------------
ServicesOf(sn) == DOMAIN sn.content.weights \cup DOMAIN sn.content.rates

\* Mutant: the limit of a service without one is marshalled as null.
HintWithNullRate(s, sn) ==
    [version |-> sn.version,
     weights |-> IF s \in DOMAIN sn.content.weights THEN sn.content.weights[s] ELSE NoWeights,
     rps     |-> IF s \in DOMAIN sn.content.rates THEN sn.content.rates[s] ELSE NoWeights]

\* The RoutingHints of one service; a key missing from a map reads as its zero.
HintOf(s, sn) ==
    [version |-> sn.version,
     weights |-> IF s \in DOMAIN sn.content.weights THEN sn.content.weights[s] ELSE NoWeights,
     rps     |-> IF s \in DOMAIN sn.content.rates THEN sn.content.rates[s] ELSE 0]

Bump(n) == IF n < CountCap THEN n + 1 ELSE n

ctxDone == main \in {"shutdown", "wait", "closed"}

Running == main # "down"

NoScrape == [at |-> "none", version |-> 0]

Init ==
    /\ main = "serve"
    /\ pc = "pulling"          \* the immediate first pull
    /\ snap = EmptySnapshot
    /\ lastSuccess = FALSE
    /\ successes = 0 /\ errors = 0
    /\ pubSuccess = [s \in Services |-> 0]
    /\ pubErrors = [s \in Services |-> 0]
    /\ firstPublishDone = FALSE
    /\ prevPublished = EmptySnapshot /\ current = EmptySnapshot
    /\ todo = {} /\ sending = {}
    /\ scrape = NoScrape
    /\ client \in {"nil", "open"}
    /\ redisUp \in BOOLEAN
    /\ limbo = {}
    /\ channel = [s \in Services |-> NoHint]
    /\ faulted = {}

---------------------------------------------------------------------------
(* The poll loop: pull *)

StartPull ==
    /\ Running /\ ~ctxDone
    /\ pc = "idle"
    /\ pc' = "pulling"
    /\ UNCHANGED <<shared, firstPublishDone, prevPublished, current, todo, sending,
                   procVars, scrape, redis>>

\* Transport error, non-200, undecodable body, or a cancelled request.
PullFails ==
    /\ Running
    /\ pc = "pulling"
    /\ pc' = "idle"
    /\ errors' = Bump(errors)
    /\ UNCHANGED <<snap, lastSuccess, successes, pubSuccess, pubErrors, firstPublishDone,
                   prevPublished, current, todo, sending, procVars, scrape, redis>>

\* select picks the tick although ctx is done: the request fails at once.
PullCancelled ==
    /\ Running /\ ctxDone
    /\ pc = "idle"
    /\ errors' = Bump(errors)
    /\ UNCHANGED <<snap, lastSuccess, successes, pubSuccess, pubErrors, loopVars,
                   procVars, scrape, redis>>

NextVersion(p) ==
    IF p = snap.content
    THEN IF snap.version = 0 THEN 1 ELSE snap.version
    ELSE snap.version + 1

PullStores(p) ==
    /\ Running
    /\ pc = "pulling"
    /\ NextVersion(p) <= MaxVersion
    /\ snap' = [version |-> NextVersion(p), content |-> p]
    /\ pc' = "stored"
    /\ UNCHANGED <<lastSuccess, successes, errors, pubSuccess, pubErrors, firstPublishDone,
                   prevPublished, current, todo, sending, procVars, scrape, redis>>

\* Mutant: without a publisher, pull returns before it counts the success.
CountIfPublishing ==
    /\ Running
    /\ pc = "stored"
    /\ successes' = IF client = "nil" THEN successes ELSE Bump(successes)
    /\ pc' = "counted"
    /\ UNCHANGED <<snap, lastSuccess, errors, pubSuccess, pubErrors, firstPublishDone,
                   prevPublished, current, todo, sending, procVars, scrape, redis>>

CountSuccess ==
    /\ Running
    /\ pc = "stored"
    /\ successes' = Bump(successes)
    /\ pc' = "counted"
    /\ UNCHANGED <<snap, lastSuccess, errors, pubSuccess, pubErrors, firstPublishDone,
                   prevPublished, current, todo, sending, procVars, scrape, redis>>

StampSuccess ==
    /\ Running
    /\ pc = "counted"
    /\ lastSuccess' = TRUE
    /\ pc' = "stamped"
    /\ UNCHANGED <<snap, successes, errors, pubSuccess, pubErrors, firstPublishDone,
                   prevPublished, current, todo, sending, procVars, scrape, redis>>

(* The poll loop: broadcast *)

\* Mutant: every successful pull is broadcast.
PublishAlways == TRUE

\* Mutant: once published, content is never compared again.
PublishOnce == ~firstPublishDone

shouldPublish == ~firstPublishDone \/ prevPublished.content # snap.content

SkipPublish ==
    /\ Running
    /\ pc = "stamped"
    /\ client = "nil" \/ ~shouldPublish
    /\ pc' = "idle"
    /\ UNCHANGED <<shared, firstPublishDone, prevPublished, current, todo, sending,
                   procVars, scrape, redis>>

StartBroadcast ==
    /\ Running
    /\ pc = "stamped"
    /\ client # "nil" /\ shouldPublish
    /\ current' = snap
    /\ todo' = ServicesOf(snap)
    /\ pc' = "publishing"
    /\ UNCHANGED <<shared, firstPublishDone, prevPublished, sending, procVars, scrape, redis>>

\* A Publish call entered with a live context and an open client.
PublishBegin(s) ==
    /\ Running /\ ~ctxDone
    /\ pc = "publishing" /\ sending = {} /\ s \in todo
    /\ client = "open"
    /\ sending' = {s}
    /\ UNCHANGED <<shared, pc, firstPublishDone, prevPublished, current, todo,
                   procVars, scrape, redis>>

\* The context is done (or the client closed) before the call: nothing is sent.
PublishRefused(s) ==
    /\ Running
    /\ ctxDone \/ client = "closed"
    /\ pc = "publishing" /\ sending = {} /\ s \in todo
    /\ todo' = todo \ {s}
    /\ pubErrors' = [pubErrors EXCEPT ![s] = Bump(@)]
    /\ faulted' = faulted \cup {s}
    /\ UNCHANGED <<snap, lastSuccess, successes, errors, pubSuccess, pc, firstPublishDone,
                   prevPublished, current, sending, procVars, scrape, redisUp, limbo, channel>>

\* Mutant: the publish is left to a goroutine, and counted at once.
PublishAsync(s) ==
    /\ Running
    /\ s \in sending
    /\ redisUp
    /\ limbo' = limbo \cup {[service |-> s, hint |-> HintOf(s, current)]}
    /\ pubSuccess' = [pubSuccess EXCEPT ![s] = Bump(@)]
    /\ todo' = todo \ {s}
    /\ sending' = {}
    /\ UNCHANGED <<snap, lastSuccess, successes, errors, pubErrors, pc, firstPublishDone,
                   prevPublished, current, procVars, scrape, redisUp, channel, faulted>>

PublishAcked(s) ==
    /\ Running
    /\ s \in sending
    /\ redisUp
    /\ channel' = [channel EXCEPT ![s] = HintOf(s, current)]
    /\ pubSuccess' = [pubSuccess EXCEPT ![s] = Bump(@)]
    /\ todo' = todo \ {s}
    /\ sending' = {}
    /\ UNCHANGED <<snap, lastSuccess, successes, errors, pubErrors, pc, firstPublishDone,
                   prevPublished, current, procVars, scrape, redisUp, limbo, faulted>>

\* No reply within 3s: the command may have been sent all the same.
Unanswered(s) ==
    /\ limbo' \in {limbo} \cup
         (IF Cardinality(limbo) < MaxLimbo
          THEN {limbo \cup {[service |-> s, hint |-> HintOf(s, current)]}} ELSE {})
    /\ faulted' = faulted \cup {s}

PublishFails(s) ==
    /\ Running
    /\ s \in sending
    /\ Unanswered(s)
    /\ pubErrors' = [pubErrors EXCEPT ![s] = Bump(@)]
    /\ todo' = todo \ {s}
    /\ sending' = {}
    /\ UNCHANGED <<snap, lastSuccess, successes, errors, pubSuccess, pc, firstPublishDone,
                   prevPublished, current, procVars, scrape, redisUp, channel>>

FinishBroadcast ==
    /\ Running
    /\ pc = "publishing" /\ todo = {}
    /\ prevPublished' = current
    /\ firstPublishDone' = TRUE
    /\ pc' = "idle"
    /\ UNCHANGED <<shared, current, todo, sending, procVars, scrape, redis>>

\* Mutant: break leaves the select, not the loop.
BreakNotReturn ==
    /\ Running /\ ctxDone
    /\ pc = "idle"
    /\ UNCHANGED vars

LoopExit ==
    /\ Running /\ ctxDone
    /\ pc = "idle"
    /\ pc' = "done"
    /\ UNCHANGED <<shared, firstPublishDone, prevPublished, current, todo, sending,
                   procVars, scrape, redis>>

---------------------------------------------------------------------------
(* main() *)

Signal ==
    /\ main = "serve"
    /\ main' = "shutdown"
    /\ UNCHANGED <<shared, loopVars, client, scrape, redis>>

\* srv.Shutdown returns: the handlers are done, or its 10s are over.
ServerStopped ==
    /\ main = "shutdown"
    /\ main' = "wait"
    /\ UNCHANGED <<shared, loopVars, client, scrape, redis>>

\* Mutant: Close without wg.Wait.
CloseWithoutWait ==
    /\ main = "wait"
    /\ main' = "closed"
    /\ client' = IF client = "nil" THEN "nil" ELSE "closed"
    /\ UNCHANGED <<shared, loopVars, scrape, redis>>

\* wg.Wait returns, then the deferred publisher.Close runs.
ClosePublisher ==
    /\ main = "wait"
    /\ pc = "done"
    /\ main' = "closed"
    /\ client' = IF client = "nil" THEN "nil" ELSE "closed"
    /\ UNCHANGED <<shared, loopVars, scrape, redis>>

\* What the process held in memory is gone; the next one starts afresh.
ProcessGone ==
    /\ main' = "down"
    /\ client' = IF client = "nil" THEN "nil" ELSE "open"
    /\ pc' = "pulling"
    /\ snap' = EmptySnapshot
    /\ lastSuccess' = FALSE
    /\ successes' = 0 /\ errors' = 0
    /\ pubSuccess' = [s \in Services |-> 0]
    /\ pubErrors' = [s \in Services |-> 0]
    /\ firstPublishDone' = FALSE
    /\ prevPublished' = EmptySnapshot /\ current' = EmptySnapshot
    /\ todo' = {} /\ sending' = {}
    /\ scrape' = NoScrape

Exit ==
    /\ main = "closed"
    /\ ProcessGone
    /\ UNCHANGED redis

\* SIGKILL, panic or os.Exit: a publish in flight is left unanswered.
Crash ==
    /\ Running
    /\ \/ sending = {} /\ UNCHANGED <<limbo, faulted>>
       \/ \E s \in sending : Unanswered(s)
    /\ ProcessGone
    /\ UNCHANGED <<redisUp, channel>>

Boot ==
    /\ main = "down"
    /\ main' = "serve"
    /\ UNCHANGED <<shared, loopVars, client, scrape, redis>>

---------------------------------------------------------------------------
(* GET /metrics: the snapshot is read first, the counters later *)

ScrapeSnapshot ==
    /\ main = "serve"
    /\ scrape.at = "none"
    /\ scrape' = [at |-> "reading", version |-> snap.version]
    /\ UNCHANGED <<shared, loopVars, procVars, redis>>

\* The reply shows scrape.version beside the counters of this moment.
ScrapeReply ==
    /\ Running
    /\ scrape.at = "reading"
    /\ scrape' = NoScrape
    /\ UNCHANGED <<shared, loopVars, procVars, redis>>

---------------------------------------------------------------------------
(* Redis *)

RedisToggles ==
    /\ redisUp' = ~redisUp
    /\ UNCHANGED <<shared, loopVars, procVars, scrape, limbo, channel, faulted>>

\* A command a failed publish left in a socket is executed after all.
LateDelivery(m) ==
    /\ redisUp
    /\ m \in limbo
    /\ limbo' = limbo \ {m}
    /\ channel' = [channel EXCEPT ![m.service] = m.hint]
    /\ UNCHANGED <<shared, loopVars, procVars, scrape, redisUp, faulted>>

---------------------------------------------------------------------------
PublishStep(s) ==
    PublishBegin(s) \/ PublishRefused(s) \/ PublishAcked(s) \/ PublishFails(s)

LoopStep ==
    \/ StartPull \/ PullFails \/ PullCancelled
    \/ \E p \in Payloads : PullStores(p)
    \/ CountSuccess \/ StampSuccess \/ SkipPublish \/ StartBroadcast
    \/ \E s \in Services : PublishStep(s)
    \/ FinishBroadcast \/ LoopExit

MainStep == Signal \/ ServerStopped \/ ClosePublisher \/ Exit \/ Crash \/ Boot

Next ==
    \/ LoopStep
    \/ MainStep
    \/ ScrapeSnapshot \/ ScrapeReply
    \/ RedisToggles
    \/ \E m \in limbo : LateDelivery(m)

Spec == Init /\ [][Next]_vars

(***************************************************************************)
(* Fairness.  Every request and every publish has a timeout, so the loop   *)
(* never stays inside a cycle; the ticker keeps ticking; select chooses    *)
(* at random among its ready cases, so a done context is chosen in the     *)
(* end (strong fairness of LoopExit); the shutdown sequence runs on.       *)
(* Nothing makes a pull or a publish succeed, and nothing makes a stopped  *)
(* process start.                                                          *)
(***************************************************************************)
Fairness ==
    /\ WF_vars(LoopStep)
    /\ SF_vars(LoopExit)
    /\ WF_vars(ServerStopped) /\ WF_vars(ClosePublisher) /\ WF_vars(Exit)

FairSpec == Spec /\ Fairness

\* A Redis that is reachable again and again answers a publish in the end.
RecoverySpec == FairSpec /\ \A s \in Services : SF_vars(PublishAcked(s))

---------------------------------------------------------------------------
(* Properties *)

\* The publisher is closed only after the poll loop has returned, so no
\* publish can race a closed Redis client (the wg.Wait in main).
NoPublishAfterClose == client = "closed" => pc = "done"

\* Unchanged content is never broadcast twice: a service sees at most one
\* publish attempt per snapshot version in the life of a process.
NoDuplicateBroadcast ==
    \A s \in Services : pubSuccess[s] + pubErrors[s] <= snap.version

\* Between two cycles, whoever never had a publish fail was last told the
\* snapshot /config serves: the only way to miss it is a counted error.
QuietMeansDelivered ==
    (main = "serve" /\ client = "open" /\ pc \in {"idle", "pulling"} /\ snap.version > 0) =>
        \A s \in ServicesOf(snap) \ faulted : channel[s] = HintOf(s, snap)

\* A scrape of /metrics never shows a config version that the successful
\* pulls it shows, plus one just being counted, cannot account for.
ScrapeAccounted ==
    [][scrape.at = "reading" /\ scrape'.at = "none" /\ Running' =>
         scrape.version <= successes + 1]_vars

\* Once a process has published a service, it never lets that channel go
\* back to an older version, unless a publish of that service ever failed.
ChannelOrdered ==
    [][\A s \in Services \ faulted' :
         pubSuccess[s] > 0 => channel'[s].version >= channel[s].version]_vars

\* SIGTERM always ends the process, whatever the loop was doing.
ShutdownCompletes == main = "shutdown" ~> main = "down"

\* The comment on newRedisPublisher: when Redis comes back, publishing
\* resumes on the next pull cycle - so in a process that keeps serving and
\* pulling with Redis reachable, every service of the snapshot is told it.
ResumesAfterRecovery ==
    (<>[](redisUp /\ main = "serve" /\ client = "open") /\ []<>(pc = "stamped")) =>
        []<>(\A s \in ServicesOf(snap) : channel[s] = HintOf(s, snap))
---------------------------------------------------------------------------
(***************************************************************************)
(* The inductive invariant behind the safety properties.                   *)
(***************************************************************************)

published == IF firstPublishDone THEN prevPublished.version ELSE 0

\* Where the loop is determines what it is publishing; closing comes last.
LoopShape ==
    /\ pc # "publishing" => todo = {}
    /\ sending \subseteq todo
    /\ pc = "publishing" => current = snap /\ client # "nil" /\ published < snap.version
    /\ \A s, t \in sending : s = t
    /\ main = "down" => pc = "pulling" /\ snap = EmptySnapshot /\ client # "closed"
    /\ client = "closed" => main = "closed" /\ pc = "done"

\* What the loop remembers to have published against what it stores now.
Remembers ==
    /\ firstPublishDone => prevPublished.version > 0 /\ client # "nil"
    /\ published <= snap.version
    /\ pc \in {"stored", "counted", "stamped", "publishing"} => snap.version > 0
    /\ pc \in {"stored", "counted", "stamped"} /\ firstPublishDone =>
         \/ prevPublished = snap
         \/ /\ prevPublished.content # snap.content
            /\ prevPublished.version < snap.version
    /\ pc \in {"idle", "pulling", "done"} =>
         (client # "nil" /\ snap.version > 0 => firstPublishDone /\ prevPublished = snap)

\* One attempt per service for each snapshot broadcast so far.
Attempts ==
    \A s \in Services :
        pubSuccess[s] + pubErrors[s] <=
            published + (IF pc = "publishing" /\ s \notin todo THEN 1 ELSE 0)

\* What a channel holds for services that never had a publish fail.
Delivered ==
    /\ \A m \in limbo : m.service \in faulted
    /\ pc = "publishing" =>
         \A s \in ServicesOf(current) \ (todo \cup faulted) : channel[s] = HintOf(s, current)
    /\ pc # "publishing" /\ firstPublishDone =>
         \A s \in ServicesOf(prevPublished) \ faulted : channel[s] = HintOf(s, prevPublished)
    /\ \A s \in Services \ faulted :
         pubSuccess[s] > 0 => channel[s].version <= snap.version

Accounted ==
    /\ snap.version <= successes + (IF pc = "stored" THEN 1 ELSE 0)
    /\ scrape.version <= snap.version

IInv == TypeOK /\ LoopShape /\ Remembers /\ Attempts /\ Delivered /\ Accounted
=============================================================================

# geo-distributed-gateway: specifications, model checking and proofs

The repository is an HTTP gateway over two zones. Global Envoy pins every
request to a zone with a Lua filter; the filter takes weights from the Control
Plane; the Control Plane pulls them from the ML analyzer, which computes them
from the metrics Envoy leaves in Prometheus, and broadcasts them over Redis
Pub/Sub to the services. This directory holds TLA+ modules of the programs that
carry this loop, the TLC configurations that check them, and TLAPS proofs.

    Prometheus --poll 60s--> ml-analyzer <--pull 30s-- control-plane --publish--> Redis
                                ^                        |                          |
                          ml-inference            GET /config/weights         routing:<service>
                                                         v                          v
    client --> global-envoy (score.lua, cache 30s) --> zone envoys --> stub services

## 1. Inventory

| component | state it keeps | operations | what is hard | what makes it correct |
|---|---|---|---|---|
| control-plane (`cmd/control-plane`) | snapshot (version, weights, limits), time of last success, pull and publish counters, what was last broadcast | pull, store, broadcast, `/config`, `/config/weights`, `/healthz`, `/metrics`, shutdown | failing and late publishes, restarts that forget the version, readers between two stores, shutdown in mid-broadcast | each change is broadcast once and in order; who never had a publish fail is current; a closed client is never used; shutdown ends |
| hints subscriber (`sdk/config/sync.go`) | one-slot channel, context, done channel | receive loop, `Updates`, `Close` | drop-stale racing the consumer, `Close` racing the loop and other callers of `Close` | the consumer gets the newest hint; `Close` returns and leaves nothing behind |
| config watcher (`sdk/config/watcher.go`) | current config, subscribers, mutex | poll loop, `Get`, `Subscribe`, `Close` | a send with the lock held, half-written files, a change between `Get` and `Subscribe` | no deadlock, no stale value delivered, subscribers converge |
| Lua filter (`envoy/lua/score.lua`) | weight cache per worker | request and response callbacks | coroutines overlap between cache lookup and cache store; calls fail or answer late | weights older than the TTL are never used; a drained zone gets nothing |
| ml-analyzer (`cmd/ml-analyzer`) | published recommendations, time of last success, counters | poll cycle, heuristic, override by the model, `/recommendations`, `/healthz`, `/metrics` | partial failures of a cycle, metrics moving between queries, rounding, zones without series | recommendations are those of the metrics, health implies availability, a worse zone gets no more, a drained one is tried again |
| ml-inference (`ml-geo/ml_inference`) | model, previous prediction (smoothing) | `predict` | concurrent predictions share the smoothing state | split within bounds, converges |
| stub service (`app/cmd/service`) | live config, Consul registration, hints | `/ping`, `/health`, start-up, shutdown order | partial start-up, drain before deregistration | serves its zone, is deregistered before it stops |
| Envoy (`envoy/*.yaml`) | hosts ejected, consecutive failures of each, the tries of each request, the retries in progress | routes by `x-geo`, retries, outlier ejection | which routes retry, how the failures of one request eject a host under another, services that share a host's count of failures, the limit on concurrent retries, ejection of all hosts | a balanced request does not run out of tries with a living zone left, a pinned one fails only with its zone |
| events-collector | counters, one log stream and goroutine per container | list, follow, parse and count, shutdown | containers that exit or boot between listing, clock and subscription; streams that are cut; a shutdown nobody signalled | last words are counted, nothing twice; no container waits for another; shutdown ends |
| failure-runner, `sdk/stats` | phase of a drill, what it stopped or paused, a recorder per phase | probe, inject, restore, verdict | probes in flight when a phase ends, commands that fail half-way, Ctrl+C | the baseline is free of the drill's failure, targets are restored |
| traffic-gen, `sdk/client` | requests in flight, a recorder | send, final report | requests in flight at the end | the report counts as many as were launched |
| `sdk/telemetry` | next to none | encode events | - | - |
| ml-training, monitoring, compose files | none at run time | batch, configuration | - | - |

The components interact by HTTP pulls (control-plane from ml-analyzer,
ml-analyzer from Prometheus and ml-inference, the Lua filter from
control-plane), by messages (Redis Pub/Sub), and inside a process by channels,
atomics, mutexes and contexts. `PROJECT.json` lists the hazards of each at the
line where they bite, and the properties that cover them.

## 2. Modules

| module | models | abstract view, composition |
|---|---|---|
| `ControlPlane` | poll loop, broadcast, main, `/metrics`, crash and restart, Redis as an external | |
| `LatestValue` | - | what a drop-stale channel promises: a register whose reader only ever gets the last value offered |
| `RoutingHints` | hints subscriber with its consumer in the service | implements `LatestValue` |
| `Watcher` | config watcher with the services that subscribe | implements `LatestValue`, one register per client (`WatcherProofs`) |
| `LuaScore` | one Envoy worker's filter, the Control Plane seen through `/config/weights` | |
| `PollHealth` | `/healthz` of both pollers against real time | one module: checked with the Control Plane's numbers, proved for any |
| `Heuristic` | arithmetic of `buildRecommendations` | extended by `Analyzer` |
| `Analyzer` | poll cycle of ml-analyzer; the properties of the heuristic | |
| `ServiceLifecycle` | the service processes from start to exit, with Consul and the container runtime as externals | uses what `RoutingHints` and `Watcher` model in detail as single steps |
| `Gateway` | global Envoy after the Lua filter: routes, tries, outlier ejection | a specification of its own (`GatewaySpec`) |
| `Drill` | `failure-runner`, `traffic-gen`, `sdk/stats` and `sdk/client` around the gateway | composed with `Gateway`, and implements `GatewaySpec` |
| `EventsCollector` | events-collector with the containers and the Docker daemon | |
| `ControlPlaneProofs`, `RoutingHintsProofs`, `WatcherProofs`, `LuaScoreProofs`, `ServiceLifecycleProofs`, `DrillProofs`, `AnalyzerProofs`, `EventsCollectorProofs` | theorems about the module each extends; `AnalyzerProofs` also about `PollHealth` | |

`MC*` modules only give constants their values.

### ControlPlane
`snap`, `lastSuccess`, `successes`, `errors`, `pubSuccess`, `pubErrors` are the
fields of `state`; `firstPublishDone`, `prevPublished`, `current` the locals of
`pollLoop`; `pc` is where the loop is; `main` and `client` are the main
goroutine and the go-redis client. A cycle is `StartPull`, then `PullFails` or
`PullStores; CountSuccess; StampSuccess`, then `SkipPublish` or
`StartBroadcast`, one `PublishBegin` and one of `PublishAcked`, `PublishFails`
per service, `FinishBroadcast`. They are separate actions because `/metrics`
reads between them (`ScrapeSnapshot`, `ScrapeReply`) and because SIGTERM
(`Signal`) and a crash may fall anywhere. A publish that ended in an error may
have been sent all the same: its command waits in `limbo` and `LateDelivery`
may execute it later. go-redis' retries inside one call repeat the same hint and
are part of the call. `json.Marshal` of a hint cannot fail, since the numbers came
out of JSON; its error branch is left out.

### RoutingHints, LatestValue
The loop is one action per channel operation, since the consumer can run
between any two of them: `Receive`, `Send` or `SendWouldBlock; Drain; Resend`.
`closer` follows each caller of `Close` through `sync.Once`. The refinement maps
the register's value to the hint the loop decided to deliver, and counts it as
unread from the drain on.

### Watcher
The lock is the loop being in `notify`, `drain` or `resend`; `Get` and
`Subscribe` need it free. A client is the goroutine pair of
`app/cmd/service/main.go:68-99`: it stores what `Get` returned, then subscribes,
and applies what it receives with the zone of the environment as a baseline.
`gap` remembers the clients that a change found between the two.

### LuaScore
A request is a coroutine: `MissRequest` gives up the worker, `Answer` or
`CallFails` settles the call, `ResumeServed` stores the weights under the time
read before the call. `os.time` ticks; a call ends within `CallTimeout`. Random
draws are thirds (`Scale = 3`), so the weights 0, 2/3 and 1 cover both ends and an
inner value. `ScriptFails` is an error of the script itself (`require("cjson")` is
outside the `pcall`): Envoy then lets the request go on without a zone.

### PollHealth
All clocks are ages, so the state space is finite without a bound on time. The
ticker is created after the first poll and keeps its phase; a waiting tick is
received as soon as the loop is back. A success is stamped before the broadcast,
so `working` (the publishes) delays the loop but not the stamp. `early` remembers
that the last success came from the first poll: the ticker starts only after its
broadcast, so a first broadcast that hangs shifts every later tick and costs one
of the failures that are tolerated. The Control Plane's numbers are those of
`main.go` (30s interval, 8s pull, five publishes of 3s, 2.5 intervals); the
analyzer's are 60s, 30s for a cycle, no broadcast, 3 intervals.

### Heuristic, Analyzer
Readings are integers: tens of milliseconds, halves of a request per second;
weights are thousandths because `round3` keeps three digits. Scores are exact
fractions. `Analyzer` states two properties of the heuristic over every combination
of readings built from the constants `Latencies` and `Rates`: of two zones, one that is slower and fails a
larger share of its requests gets no more than half, and nothing if it fails all
of them; a zone of which nothing is known gets at least half, so no drain lasts
for ever. `Analyzer` asks one query per action, each answered from the metrics of
that moment, so a cycle can mix several states of Prometheus; what
ml-inference answers is any of a set of splits. `origin` remembers the metrics of
a cycle that nothing disturbed.

### ServiceLifecycle
`pc` follows `main` of `app/cmd/service/main.go`; `serving` is the listener,
which the server's goroutine opens at some point of the start-up. A call to
Consul has two steps, the agent's effect and the reply, and may fail at either:
`RegisterApplied` then `RegisterFails` is a registration that the process does not
know of. `TermEarly` is a SIGTERM before `signal.Notify`, which ends the process
without a shutdown. The agent probes whatever its catalog holds; after
`ReapAfter` failures it may remove the entry at any time, also when the instance
has just come back. A registration under an ID that is known keeps the status
of the check or makes it critical: both are allowed. The catalog is lost with the
agent (`agent -dev`). The model has no late calls: one that Consul has not taken
when its process ends is gone with the connection.

### Gateway, Drill
`pc` of a request is `routed`, the zone its try is at, or how it ended. A pinned
request has one host and one try; a balanced one any host that is not ejected (all
of them when all are: Envoy's panic) and `Retries` more tries - while fewer than
`MaxRetries` other requests are at a retry. `global-envoy.yaml` sets no
`circuit_breakers`, so that limit is Envoy's default of 3 per cluster; a request it
refuses ends in `overflow`. `alive` says which services each zone's proxy gets
answers from, its own retries included, whereas `ejected` and `strikes`, the
consecutive failures, belong to the host: the routes of all services (lines 39-99)
share two hosts, and any success on one clears its strikes (`Succeed`). `cleared`
remembers the requests that such a success, of a service the zone still has, robbed
of the strikes they had given. A pinned cluster has no outlier detection. An
ejection takes effect before the next try. `Readmit` is the end of the 60s of an
ejection, which the tries of the requests in flight (8s at most) do not outlast.
`steady` remembers the zones that neither lost nor regained the request's service
since it came. A client may stop waiting at any moment (`Abandon`, `gone`): the
tools do after 4s and 5s, which two tries without an answer use up, so the third
try that `num_retries` allows often comes too late.

`Drill` runs failure-runner's `main` (`phase`) and traffic-gen's (`genPhase`) side
by side. Every request of either is a goroutine of that gateway; when it ends it
adds its result to the recorder of its closure (`AddResult`), whose counts stop at
the last `Snapshot` (`Taken`), since later ones nobody reads. The end of a probe
loop by its deadline and by Ctrl+C are one action, because the code does the same
after both. The runtime's commands succeed, or fail after any part of the targets.
Zones have a container for each service; each tool asks for one service (`Path`),
so a partial drill may take one of them and leave the other. What a zone's proxy
gets answers from follows its containers with a delay (`ZonesFollow`), which stands
for drain, DNS and the proxy's health checks. `launched` counts, as history, what
was launched for each recorder.

### EventsCollector
`ContainerList`, `Since` and `Subscribe` are three steps since a container may
write, exit or boot between any two. `asOf` is what had been written when the clock
was read: the daemon sends everything later, and begins anywhere before (`from`),
for it counts in whole seconds, and the comment at `main.go:232-233` says that older
lines may come, too. `limit` is where the exit of the
listed container ends its stream, or `Open` while it is up. `Cut` is everything that ends a stream without
its last line: an error of the daemon, a line longer than the scanner's buffer, a
cancelled context. An event stands for what it adds to the metric vectors.

## 3. Runs

| run | question | bounds |
|---|---|---|
| `cp_core` | broadcasts: closed client, duplicates, delivery, order; scrapes; does SIGTERM end the process? | 2 services, 2 payloads (empty; weights of both services, a limit of one), 2 versions, counters up to 2, 1 command in limbo, any number of crashes |
| `cp_recovery` | finding 1 | 2 services, 1 payload, 1 version |
| `hints` | subscriber and `Close` | 2 hints and a bad message, 2 callers of `Close`, 3 messages buffered |
| `watcher` | lock, delivery, `Close`, do listeners pick up changes? | 2 clients, 2 settings, with and without zone |
| `watcher_gap` | finding 2 | 1 client |
| `lua_cache` | is a weight ever used beyond its TTL? does a drained zone get requests? | 2 overlapping requests, 1 service, 3 weights, TTL 2, time up to 5 |
| `health_cp` | `/healthz` of the Control Plane against failed polls: one is tolerated, three are detected | the real numbers, in seconds |
| `analyzer` | is what is published what was measured? is it there once `/healthz` says so? what does the heuristic give a worse, a failing, a silent zone? | 2 services, 2 states of the metrics of each, 1 prediction; 3 latencies, 5 rates, missing series, both zones: 20736 readings |
| `service` | is the catalog right about a process that stops, dies, is paused or has predecessors; does a stop end? | 1 instance and any number of lives, 2 requests at once, 6 probes of 5s for the 30s |
| `drill` | which requests does an outage cost, what do the tools' reports say of it, and is everything given back? | 2 requests at a time, 2 retries (3 are configured), 1 retry in progress (Envoy allows 3), 2 strikes as configured, 2 services and so 2 containers per zone (5 in the repository), one request for each of the three recorders; scenarios `zone1-partial` and `zone1-pause` (both verbs, half and all of a zone; zone2's are their mirror images) |
| `failover` | finding 3 | as `drill` |
| `collector` | last words, independence of the streams, shutdown | 2 containers with up to 2 and 1 lines, any number of boots |

Why the bounds are enough. Two versions show a first broadcast and a change, and
the second version may repeat or change the content; two services show a
broadcast that is half done. One message in limbo is one overtaken publish;
theorems cover any number. The subscriber's channel holds one hint, so three
buffered messages give a burst with a hint in the channel, one in the loop and
more to come. TTL 2 and a call of one tick leave room for an entry that is stored
late and used to its end, and time 5 for a second generation of entries. Instances
of the service touch each other only through restarts of the agent, so one shows
what can happen to each; the theorems cover any number. Two requests at a time show
one whose failures eject the host another is trying, one whose success clears the
strikes of the other, and one whose retry keeps the other from its own; two retries
are as many as the strikes, the fewest with which a balanced request survives; the
theorems cover any number of requests, services, retries and scenarios. Two lines of a
container are one before and one after whatever happens to it.

Fairness. The loops are weakly fair: their goroutines are scheduled and every
request and publish has a timeout. Leaving a `select` is strongly fair, because
Go chooses at random among ready cases, so a done context is taken in the end
although ticks or messages keep coming. Nothing makes a pull, a publish or a
consumer succeed, except in `cp_recovery`, where Redis is assumed to answer: a
stronger assumption, made to refute a promise. In the watcher the loop's fairness
is that of the run's specification, and that of the clients is a hypothesis of
`ListenersPickUp`, so that `CloseReturns` is shown without it. In
`ServiceLifecycle` only the shutdown sequence and the agent's probes and reaping
are fair; a call to Consul returns or fails, which the code leaves to the agent,
since the client it builds has no timeout of its own. In `EventsCollector` the
readers and `main` are fair, and a stream ends once its context is cancelled;
containers, errors and signals owe nothing.

Every property has a mutant (marked `Mutant:` in the modules): a plausible bug
under which TLC finds the property violated.

### What the code does and its comments do not say
1. `cp_recovery`: a broadcast that failed is not repeated when Redis is back;
   hints reach the services only when the recommendations change again.
2. `watcher_gap`: a change of the file between a service's `Get` and its
   `Subscribe` never reaches the service.
3. `failover`: every request the Lua filter sees is pinned, and the pinned
   clusters have no second host, no retry and no ejection. So the seamless
   failover that `global-envoy.yaml` and the diagram in `docs/Architecture.md`
   describe holds only for requests whose filter failed; others fail until the
   weights move. `drill` shows the part that does hold, and it is less than the
   comment at `global-envoy.yaml:117-120` says of `geo_cluster` itself: (a) a
   further request is refused a retry while three others are at theirs, so under
   load the outage shows although the other zone lives; (b) in a partial outage
   services the zone still has clear the strikes of those it lost, so it is not
   ejected and a request can lose all its tries there; (c) after two tries of 2s
   the tools' own timeouts are over. `FailoverIsSeamless` and
   `FailuresAreExplained` say exactly this much: no balanced request runs out of
   tries unless (b) happened to it.

Other differences, seen while reading and not checked by a run:
- `score.lua:5-7` announces a response header `x-route-fallback`; the response
  callback is empty.
- With the analyzer's numbers two failed cycles flip `/healthz` while the third
  is under way (`AnalyzerProofs`: `Forgiving` holds for one), where
  `main.go:624-625` speaks of "a couple of transient failures".
- A cycle in which only the requests query fails sends every limit to 100
  (`main.go:201`); `Analyzer` contains it, and nothing denies it.
- failure-runner: `-restore-after 0` is documented as manual restore, but probes
  for 30s and restores; an injection that fails half-way exits without a restore
  (`InjectFails`); a drill without a single sample passes.
- A container paused for longer than Consul's 30s is reaped and never registers
  again (`service/main.go:208`).
- events-collector's comment on `since` expects containers that boot after it;
  only those of the one listing are followed, as line 216 says. What a listed
  container writes before `since` is lost when the clock turns to a new second
  after the listing (`LastWordsCounted` begins with the reading of the clock), and
  the same comment expects older lines to be delivered, too, which the property
  allows.
- A service with only a loopback interface registers its `INSTANCE_NAME` as the
  address (`service/main.go:190-193`); `ServiceLifecycle` takes the registered
  address to be one the agent reaches.
- The split of the model may sum to 1.001, since each half is rounded on its own.

## 4. Proofs

Every module of theorems proves type correctness first, then an inductive
invariant (`IInv`, `Inv`, `DrillInv`), and the properties from it; each
step of the induction is one action. The only assumptions are the named `ASSUME`s of the modules
(`ConstantsAssumption`, `HintsAssumption`, `WatcherAssumption`, `LuaAssumption`,
`HealthAssumption`, `LifecycleAssumption`, `GatewayAssumption`, `DrillAssumption`,
`NoDataAssumption`, `AnalyzerAssumption`, `ReadingsAssumption`,
`CollectorAssumption`): special values are not ordinary ones,
bounds are naturals, weights are fractions of `Scale`, a call is shorter than the
TTL, there are at least as many retries as strikes before an ejection.

`ControlPlaneProofs`: for every set of services and payloads and every bound,
`TypeOK`, `NoPublishAfterClose`, `NoDuplicateBroadcast`, `QuietMeansDelivered`,
`ChannelOrdered` and `ScrapeAccounted`. None is inductive. `IInv` adds where the
loop can be and what its locals then hold (`LoopShape`: `current` is the snapshot
during a broadcast, the client is not closed before the loop is done), that what
was broadcast last is a snapshot of this process (`Remembers`), that an attempt
exists for exactly the services and versions already handled (`Attempts`), that a
channel without a failure holds the hint of `prevPublished` or `current`
(`Delivered`), and that the counters account for the version (`Accounted`). The
proof refuted an earlier form of `ChannelOrdered`: guarded by `firstPublishDone`
alone it holds for two versions, which is all TLC had seen, and fails for more.

`RoutingHintsProofs`: for every set of hints and closers and every inbox
capacity, the safety properties of the subscriber, and that it implements
`LatestValue`. `Buffer` says that what is buffered is what was emitted last, and
that the channel is empty between drain and second send; `LastGood`, that the
last decodable message is in the inbox with nothing decodable behind it, in the
loop's hands, or emitted. The refinement maps each action to a step of the
register or to a stutter.

`WatcherProofs`: for every set of clients and configurations, `ResendNeverBlocks`,
`PendingIsCurrent` and `QuietClientIsCurrent`. They hold only with the lock free;
while the loop holds it, `Served` says the same of the clients it is already done
with, and `Notifying` that the rest are subscribers. `ImplementsRegister` shows
that each client has a `LatestValue` register of its own: `Get`, `Send` and the
drain of a full channel offer a value, `Subscribe` and `Apply` take it, the loop's
end shuts the channels of those who subscribed, and everything else, the second
send among it, is a stutter. The values are configurations with a zone, so the
refinement also says that the service never runs without one. It needs that
nothing is offered after the close (`Shutting`). What it does not say is that
something will be offered: that is the gap of finding 2.

`LuaScoreProofs`: for every number of coroutines, every TTL longer than a call and
all times, `ConvergesWithinTTL` and `DrainedZoneIsAvoided`. The argument: what is
in a reply was served after its coroutine looked at the cache, so if it differs
from what is served now, that changed after the lookup (`RepliesAge`); an entry
expires `TTL` after that same lookup (`EntriesAge`), so an entry that is still
used can only differ if the change is younger than `TTL`.

`ServiceLifecycleProofs`: for every set of instances, every reaping delay and
every load, `ClosedIsUnlisted`, `SteadyIsListed` and `StopEventIsLast`. The
argument for the first: a process past its start-up that is not registered knows
of a failed call, so one that knows of none deregisters, and nobody but itself
could list it again before it is gone (`CatalogInv`, `ListenerInv`).

`DrillProofs`: first of the gateway alone, for every set of requests and services,
every limit on concurrent retries and every number of retries not below the
strikes, `FailoverIsSeamless`. `GatewayInv` counts: while one zone does not serve a
balanced request and the other does and is in rotation, every try it has lost is a
strike on the first unless the request is in `cleared` (`Counted`; `SucceedFacts`
says that what a success takes away is marked so), and that host is ejected before
the request has no try left; after the ejection the request loses at most
the try it is at (`Bounded`). Then
`DrillUsesGateway` shows that a drill implements `GatewaySpec`, every step of it
being a step of the gateway or a stutter, which carries the property over
(`DrillFailover`). `DrillInv` gives the other properties for every scenario, zone
size and load: what each phase knows of the containers and of the recorders, and
that what traffic-gen launched has a result or is under way (`Accounted`), so that
a report which waits until nothing is counts everything. `PinnedInv` adds that
services die only in the drilled zone, each once before the restore is over, and
that until one does the requests for it lose no try (`Fresh`); from then on the
counting of `GatewayInv` holds for them without any assumption on the other zone
(`AllStruck`), which gives `FailuresAreExplained`.

`AnalyzerProofs`, the heuristic: for every reading whatever, not the bounded ones
of the run. `WeightsSumToOne`; `WorseNeverMore` and `SilentAtLeastHalf`, from which
`WorseZoneGetsLess` and `SilentZoneIsTriedAgain` follow for any `Latencies` and
`Rates`; `ImprovementNeverPunished`, that a zone never loses weight by becoming
faster or failing a smaller share while the other stays as it is. The argument:
what the weights compare are two products (`Pull`), whose order is that of the
scores (`WorsePulls`); `round3` keeps the order of fractions (`RoundMonotone`) and
maps at most a half to at most 500, nought to 0 and the whole to 1000; and zone2
gets what rounding leaves over, so its weight is 1000 less the rounded share of
zone1 (`WeightIs`). Scores are exact fractions here; a float64 may differ by one
thousandth where a quotient falls on a rounding boundary.

The cycle: by an invariant (`Fresh`: the answers of an undisturbed cycle are still
those of Prometheus; `Made`: the recommendations are those of the answers;
`Serving`: what is set before what) `TypeOK`, `HealthyMeansServing` and
`ExactWhenQuiet`, for every catalogue of services, all metrics and all predictions.
Together with the theorems on the heuristic it gives `PublishesSoundly`: after an
undisturbed cycle in which the model had no say, what `/recommendations` serves
drains a zone that fails everything while the other does not, does not prefer the
worse one, tries one without series again, sums to the whole, and sets no limit below the traffic of the busier
zone. `NoTrafficLost` needs no quiet cycle: whatever was answered and whatever
failed, weights sum to 1000 thousandths, or to 1001 after the model's rounding.

`AnalyzerProofs`, last section, about `PollHealth`: for every interval, timeout and
threshold. If a poll and its
broadcast end before the next tick (`NoOverrun`), the age of the last success is
the number of ticks since then times the interval, plus the phase, to within a
call or a first broadcast (`AgeIsTicks`). So `TransientFailuresTolerated` holds if
`(Tolerated + 1) * Interval + CallTimeout <= MaxAge` (`Forgiving`), and
`OutageDetected` if `Detected * Interval - CallTimeout > MaxAge` (`Strict`). The
Control Plane's numbers satisfy both for 1 and 3 failures: 68 <= 75 < 82. The
analyzer's satisfy `Forgiving` for one failure (150 <= 180) and not for a couple
(210); they satisfy `Strict` for four (210 > 180).

`EventsCollectorProofs`: for every set of containers and every bound on their
lines, `TypeOK` and `LastWordsCounted`. `Inv` adds that nobody follows a container
before `since` is read (`NotFollowing`), that the end of a stream lies ahead of
what was read and within what was written (`EndAhead`), that the counter is the
number of events among the lines read (`ReadIsCounted`), that a stream that
ended by itself has been read to its end (`EndIsLast`), and that the daemon leaves
out nothing written after the clock was read (`SentSince`).

Not proved, only model-checked: liveness (`ShutdownCompletes`, `CloseReturns`,
`ListenersPickUp`, `GoneIsForgotten`, `StopCompletes`, `FollowedIsRead`,
`ExitCompletes`), which needs fairness and ENABLED, beyond this prover. Every other
property of a passing run is a theorem. Some type invariants and lemmas
(`PendingIsCurrent`, `RoutingHints!ResendNeverBlocks`, the type invariants of
`RoutingHints`, `LuaScore`, `PollHealth` and `Analyzer`) and the stronger statements
above (`ImprovementNeverPunished`, `PublishesSoundly`, `NoTrafficLost`, the
watcher's registers) are proved and not part of a run.

## 5. Not modelled, and plan

Not modelled: ml-training (batch computation on data frames), ml-inference beyond
the set of its answers, monitoring and compose files (configuration of other
programs), the inside of the zone proxies, percentiles and reports of `sdk/stats`,
flags, wording of logs and metrics, JSON encodings, tracing.

Next, in this order:
1. `HintsPipeline`: `ControlPlane` composed with `RoutingHints`; a subscriber
   that connects late, Redis that keeps nothing, a control plane that restarts at
   version 0; abstract specification: each service holds a hint of a snapshot
   that was current at some time, in order within a process.
2. The zone proxies between `Gateway` and `ServiceLifecycle`: name resolution that
   lags behind the catalog.
3. `MLInference`: smoothing state shared by predictions, bounds of the split.
4. `AdaptiveLoop`: weights back to traffic back to metrics, with `Heuristic` and
   `LuaScore`.
5. Proofs: liveness stays with TLC; the safety properties of modules to come.

-------------------------------- MODULE LuaScore --------------------------------
(***************************************************************************)
(* envoy/lua/score.lua, one Envoy worker: every request without a zone of   *)
(* its own is pinned to one according to the weights the Control Plane      *)
(* serves for its service.  Weights are cached per service for TTL seconds. *)
(* A request is a coroutine: it gives up the worker while httpCall waits,   *)
(* so other requests run between its cache lookup and its cache store.      *)
(*                                                                          *)
(* The Control Plane is seen through GET /config/weights/<service>: it      *)
(* serves the weights of its snapshot, or 404 while it has none; it may be  *)
(* unreachable, slow, or restarted at any time.                             *)
(***************************************************************************)
EXTENDS Integers

CONSTANTS
    Requests,       \* coroutines of the worker
    Services,       \* service_from_path
    Weights,        \* zone1 weights, in units of 1/Scale, that are served
    Scale,          \* math.random() is one of 0..Scale-1, over Scale
    FallbackWeight, \* FALLBACK_WEIGHTS.zone1
    NoWeights,      \* 404, or no cache entry
    TTL,            \* TTL_SECONDS
    CallTimeout,    \* CALL_TIMEOUT_MS, in ticks of os.time
    MaxTime         \* bound: os.time stops here

ASSUME LuaAssumption ==
    /\ Scale \in Nat \ {0}
    /\ Weights \subseteq 0..Scale
    /\ FallbackWeight \in 0..Scale
    /\ NoWeights \notin Int
    /\ TTL \in Nat /\ CallTimeout \in Nat
    /\ CallTimeout < TTL
    /\ MaxTime \in Nat

VARIABLES
    now,    \* os.time()
    cp,     \* the weights the Control Plane would serve for each service
    since,  \* history: when they last changed
    cache,  \* M.cache
    pc,     \* where each request is
    svc,    \* its service
    began,  \* the local now of get_weights
    reply,  \* what httpCall and the checks on it returned
    used,   \* the weights it was pinned by
    source, \* where they came from
    geo     \* the x-geo header it leaves with

reqVars == <<pc, svc, began, reply, used, source, geo>>
vars == <<now, cp, since, cache, reqVars>>

Entry == [weights : Weights, exp : Int]

NoEntry == [weights |-> NoWeights, exp |-> 0]

TypeOK ==
    /\ now \in 0..MaxTime
    /\ cp \in [Services -> Weights \cup {NoWeights}]
    /\ since \in [Services -> 0..MaxTime]
    /\ cache \in [Services -> Entry \cup {NoEntry}]
    /\ pc \in [Requests -> {"new", "calling", "answered", "pinned", "responded"}]
    /\ svc \in [Requests -> Services]
    /\ began \in [Requests -> 0..MaxTime]
    /\ reply \in [Requests -> Weights \cup {NoWeights}]
    /\ used \in [Requests -> Weights \cup {FallbackWeight, NoWeights}]
    /\ source \in [Requests -> {"none", "client", "cache", "call", "fallback", "error"}]
    /\ geo \in [Requests -> {"none", "zone1", "zone2"}]

Init ==
    /\ now = 0
    /\ cp \in [Services -> Weights \cup {NoWeights}]
    /\ since = [s \in Services |-> 0]
    /\ cache = [s \in Services |-> NoEntry]
    /\ pc = [r \in Requests |-> "new"]
    /\ svc \in [Requests -> Services]
    /\ began = [r \in Requests |-> 0]
    /\ reply = [r \in Requests |-> NoWeights]
    /\ used = [r \in Requests |-> NoWeights]
    /\ source = [r \in Requests |-> "none"]
    /\ geo = [r \in Requests |-> "none"]

---------------------------------------------------------------------------
InCall(r) == pc[r] \in {"calling", "answered"}

\* os.time moves on; Envoy ends a call after CallTimeout.
Tick ==
    /\ now < MaxTime
    /\ \A r \in Requests : InCall(r) => now - began[r] < CallTimeout
    /\ now' = now + 1
    /\ UNCHANGED <<cp, since, cache, reqVars>>

\* The Control Plane stores a new snapshot, or restarts with an empty one.
ServeOther(s, w) ==
    /\ w # cp[s]
    /\ cp' = [cp EXCEPT ![s] = w]
    /\ since' = [since EXCEPT ![s] = now]
    /\ UNCHANGED <<now, cache, reqVars>>

---------------------------------------------------------------------------
\* Mutant: <= for <.
PinInclusive(r, w, from) ==
    /\ \E x \in 0..(Scale - 1) :
         geo' = [geo EXCEPT ![r] = IF x <= w THEN "zone1" ELSE "zone2"]
    /\ pc' = [pc EXCEPT ![r] = "pinned"]
    /\ used' = [used EXCEPT ![r] = w]
    /\ source' = [source EXCEPT ![r] = from]

\* pick_zone, and headers:replace: only zone1's weight is looked at.
Pin(r, w, from) ==
    /\ \E x \in 0..(Scale - 1) :
         geo' = [geo EXCEPT ![r] = IF x < w THEN "zone1" ELSE "zone2"]
    /\ pc' = [pc EXCEPT ![r] = "pinned"]
    /\ used' = [used EXCEPT ![r] = w]
    /\ source' = [source EXCEPT ![r] = from]

CacheHit(s) == cache[s] # NoEntry /\ cache[s].exp > now

\* envoy_on_request with a zone in x-geo: nothing is done.
ClientPinned(r, z) ==
    /\ pc[r] = "new"
    /\ geo' = [geo EXCEPT ![r] = z]
    /\ source' = [source EXCEPT ![r] = "client"]
    /\ pc' = [pc EXCEPT ![r] = "pinned"]
    /\ UNCHANGED <<now, cp, since, cache, svc, began, reply, used>>

HitRequest(r) ==
    /\ pc[r] = "new"
    /\ CacheHit(svc[r])
    /\ Pin(r, cache[svc[r]].weights, "cache")
    /\ began' = [began EXCEPT ![r] = now]
    /\ UNCHANGED <<now, cp, since, cache, svc, reply>>

\* The coroutine yields in httpCall.
MissRequest(r) ==
    /\ pc[r] = "new"
    /\ ~CacheHit(svc[r])
    /\ began' = [began EXCEPT ![r] = now]
    /\ pc' = [pc EXCEPT ![r] = "calling"]
    /\ UNCHANGED <<now, cp, since, cache, svc, reply, used, source, geo>>

\* The Control Plane answers from its snapshot; 404 counts as no weights.
Answer(r) ==
    /\ pc[r] = "calling"
    /\ reply' = [reply EXCEPT ![r] = cp[svc[r]]]
    /\ pc' = [pc EXCEPT ![r] = "answered"]
    /\ UNCHANGED <<now, cp, since, cache, svc, began, used, source, geo>>

\* Unreachable, timed out, or a body without both zones.
CallFails(r) ==
    /\ InCall(r)
    /\ reply' = [reply EXCEPT ![r] = NoWeights]
    /\ pc' = [pc EXCEPT ![r] = "answered"]
    /\ UNCHANGED <<now, cp, since, cache, svc, began, used, source, geo>>

\* Mutant: the entry lives TTL seconds from its store, not from the lookup.
ExpireFromStore(r) ==
    /\ pc[r] = "answered"
    /\ reply[r] # NoWeights
    /\ cache' = [cache EXCEPT ![svc[r]] = [weights |-> reply[r], exp |-> now + TTL]]
    /\ Pin(r, reply[r], "call")
    /\ UNCHANGED <<now, cp, since, svc, began, reply>>

\* The coroutine runs on: what was served is cached, then used.
ResumeServed(r) ==
    /\ pc[r] = "answered"
    /\ reply[r] # NoWeights
    /\ cache' = [cache EXCEPT ![svc[r]] = [weights |-> reply[r], exp |-> began[r] + TTL]]
    /\ Pin(r, reply[r], "call")
    /\ UNCHANGED <<now, cp, since, svc, began, reply>>

\* The script fails: require("cjson") is outside the pcall, and nothing here
\* brings the module.  Envoy lets the request go on as it came, unpinned.
ScriptFails(r) ==
    /\ pc[r] = "answered"
    /\ reply[r] # NoWeights
    /\ source' = [source EXCEPT ![r] = "error"]
    /\ pc' = [pc EXCEPT ![r] = "pinned"]
    /\ UNCHANGED <<now, cp, since, cache, svc, began, reply, used, geo>>

\* A fallback is used but never cached.
ResumeFallback(r) ==
    /\ pc[r] = "answered"
    /\ reply[r] = NoWeights
    /\ Pin(r, FallbackWeight, "fallback")
    /\ UNCHANGED <<now, cp, since, cache, svc, began, reply>>

\* envoy_on_response has an empty body.
OnResponse(r) ==
    /\ pc[r] = "pinned"
    /\ pc' = [pc EXCEPT ![r] = "responded"]
    /\ UNCHANGED <<now, cp, since, cache, svc, began, reply, used, source, geo>>

\* The next request, of any service.
NextRequest(r, s) ==
    /\ pc[r] = "responded"
    /\ pc' = [pc EXCEPT ![r] = "new"]
    /\ svc' = [svc EXCEPT ![r] = s]
    /\ began' = [began EXCEPT ![r] = 0]
    /\ reply' = [reply EXCEPT ![r] = NoWeights]
    /\ used' = [used EXCEPT ![r] = NoWeights]
    /\ source' = [source EXCEPT ![r] = "none"]
    /\ geo' = [geo EXCEPT ![r] = "none"]
    /\ UNCHANGED <<now, cp, since, cache>>

---------------------------------------------------------------------------
RequestStep(r) ==
    \/ \E z \in {"zone1", "zone2"} : ClientPinned(r, z)
    \/ HitRequest(r) \/ MissRequest(r) \/ Answer(r) \/ CallFails(r)
    \/ ResumeServed(r) \/ ScriptFails(r) \/ ResumeFallback(r) \/ OnResponse(r)
    \/ \E s \in Services : NextRequest(r, s)

Next ==
    \/ Tick
    \/ \E s \in Services, w \in Weights \cup {NoWeights} : ServeOther(s, w)
    \/ \E r \in Requests : RequestStep(r)

Spec == Init /\ [][Next]_vars

---------------------------------------------------------------------------
(* Properties *)

PinnedNow(r) == pc[r] # "pinned" /\ pc'[r] = "pinned"

\* Weights the Control Plane has served unchanged for TTL seconds are the
\* ones every request is pinned by, unless its own call failed: an expired,
\* overtaken or fallback entry is never used past its time, whichever
\* coroutine stored it last.
ConvergesWithinTTL ==
    [][\A r \in Requests :
         PinnedNow(r) /\ source'[r] \in {"cache", "call"} /\ now - since[svc[r]] >= TTL =>
             used'[r] = cp[svc[r]]]_vars

\* A zone the Control Plane gave no weight TTL seconds ago gets no request,
\* except those whose client or whose failed call put it there.
DrainedZoneIsAvoided ==
    [][\A r \in Requests :
         PinnedNow(r) /\ source'[r] \in {"cache", "call"} /\ now - since[svc[r]] >= TTL =>
             /\ cp[svc[r]] = 0 => geo'[r] = "zone2"
             /\ cp[svc[r]] = Scale => geo'[r] = "zone1"]_vars
=============================================================================

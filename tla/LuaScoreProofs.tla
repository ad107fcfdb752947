----------------------------- MODULE LuaScoreProofs -----------------------------
(***************************************************************************)
(* For every number of coroutines, services and weights, every TTL and      *)
(* every time: the cache of LuaScore converges within its TTL.              *)
(***************************************************************************)
EXTENDS LuaScore, TLAPS

\* No time lies in the future.
Past ==
    /\ \A s \in Services : since[s] <= now /\ cache[s].exp <= now + TTL
    /\ \A r \in Requests : began[r] <= now

\* Envoy ends a call in time.
CallsAreShort == \A r \in Requests : InCall(r) => now - began[r] <= CallTimeout

\* A reply that differs from what is served now was overtaken since the
\* coroutine looked at the cache.
RepliesAge ==
    \A r \in Requests : pc[r] = "answered" /\ reply[r] # NoWeights =>
        reply[r] = cp[svc[r]] \/ since[svc[r]] >= began[r]

\* So was a cache entry since its TTL began.
EntriesAge ==
    \A s \in Services : cache[s] # NoEntry =>
        cache[s].weights = cp[s] \/ since[s] >= cache[s].exp - TTL

IInv == TypeOK /\ Past /\ CallsAreShort /\ RepliesAge /\ EntriesAge

---------------------------------------------------------------------------
LEMMA CacheFacts ==
    ASSUME TypeOK, NEW s \in Services
    PROVE  /\ cache[s].exp \in Int
           /\ cache[s] # NoEntry => cache[s].weights \in Weights
BY LuaAssumption DEF TypeOK, Entry, NoEntry

LEMMA NewEntry ==
    ASSUME NEW w \in Weights, NEW t \in Int
    PROVE  [weights |-> w, exp |-> t] \in Entry
BY DEF Entry

\* What pick_zone and headers:replace leave well typed, and unchanged.
LEMMA PinFacts ==
    ASSUME TypeOK, NEW r \in Requests, NEW w \in Weights \cup {FallbackWeight},
           NEW from \in {"cache", "call", "fallback"}, Pin(r, w, from)
    PROVE  /\ pc' = [pc EXCEPT ![r] = "pinned"]
           /\ pc' \in [Requests -> {"new", "calling", "answered", "pinned", "responded"}]
           /\ used' \in [Requests -> Weights \cup {FallbackWeight, NoWeights}]
           /\ source' \in [Requests -> {"none", "client", "cache", "call", "fallback", "error"}]
           /\ geo' \in [Requests -> {"none", "zone1", "zone2"}]
           /\ used'[r] = w /\ source'[r] = from
           /\ w = 0 => geo'[r] = "zone2"
           /\ w = Scale => geo'[r] = "zone1"
<1>1. PICK x \in 0..(Scale - 1) :
        geo' = [geo EXCEPT ![r] = IF x < w THEN "zone1" ELSE "zone2"]
  BY DEF Pin
<1>2. x \in Int /\ 0 <= x /\ x < Scale
  BY LuaAssumption
<1>3. (w = 0 => ~(x < w)) /\ (w = Scale => x < w)
  BY <1>2
<1>4. (w = 0 => geo'[r] = "zone2") /\ (w = Scale => geo'[r] = "zone1")
  BY <1>1, <1>3 DEF TypeOK
<1>5. QED
  BY <1>1, <1>4 DEF Pin, TypeOK

USE DEF reqVars

---------------------------------------------------------------------------
(* The filter's state stays well typed: the cache holds nothing but weights *)
(* that were served.                                                        *)
THEOREM TypeCorrect == Spec => []TypeOK
<1>1. Init => TypeOK
  BY LuaAssumption DEF Init, TypeOK
<1>2. TypeOK /\ [Next]_vars => TypeOK'
  <2> SUFFICES ASSUME TypeOK, [Next]_vars PROVE TypeOK'
    OBVIOUS
  <2>1. CASE Tick
    BY <2>1, LuaAssumption DEF Tick, TypeOK
  <2>2. ASSUME NEW s \in Services, NEW w \in Weights \cup {NoWeights}, ServeOther(s, w)
        PROVE  TypeOK'
    BY <2>2 DEF ServeOther, TypeOK
  <2>3. ASSUME NEW r \in Requests, RequestStep(r) PROVE TypeOK'
    <3>1. ASSUME NEW z \in {"zone1", "zone2"}, ClientPinned(r, z) PROVE TypeOK'
      BY <3>1 DEF ClientPinned, TypeOK
    <3>2. CASE HitRequest(r)
      <4>1. cache[svc[r]].weights \in Weights
        BY <3>2, CacheFacts DEF HitRequest, CacheHit, TypeOK
      <4>2. QED
        BY <3>2, <4>1, PinFacts DEF HitRequest, TypeOK
    <3>3. CASE MissRequest(r)
      BY <3>3 DEF MissRequest, TypeOK
    <3>4. CASE Answer(r)
      BY <3>4 DEF Answer, TypeOK
    <3>5. CASE CallFails(r)
      BY <3>5 DEF CallFails, TypeOK
    <3>6. CASE ResumeServed(r)
      <4>1. reply[r] \in Weights /\ began[r] + TTL \in Int
        BY <3>6, LuaAssumption DEF ResumeServed, TypeOK
      <4>2. [weights |-> reply[r], exp |-> began[r] + TTL] \in Entry
        BY <4>1, NewEntry
      <4>3. cache' \in [Services -> Entry \cup {NoEntry}]
        BY <3>6, <4>2 DEF ResumeServed, TypeOK
      <4>4. QED
        BY <3>6, <4>1, <4>3, PinFacts DEF ResumeServed, TypeOK
    <3>7. CASE ResumeFallback(r)
      BY <3>7, PinFacts DEF ResumeFallback, TypeOK
    <3>8. CASE OnResponse(r)
      BY <3>8 DEF OnResponse, TypeOK
    <3>9. ASSUME NEW s \in Services, NextRequest(r, s) PROVE TypeOK'
      BY <3>9, LuaAssumption DEF NextRequest, TypeOK
    <3>10. CASE ScriptFails(r)
      BY <3>10 DEF ScriptFails, TypeOK
    <3>11. QED
      BY <2>3, <3>1, <3>2, <3>3, <3>4, <3>5, <3>6, <3>7, <3>8, <3>9, <3>10 DEF RequestStep
  <2>4. CASE UNCHANGED vars
    BY <2>4 DEF vars, TypeOK
  <2>5. QED
    BY <2>1, <2>2, <2>3, <2>4 DEF Next
<1>3. QED
  BY <1>1, <1>2, PTL DEF Spec

---------------------------------------------------------------------------
(* Whatever coroutines overlap, a reply or a cache entry that is not what   *)
(* the Control Plane serves now was overtaken after its TTL began to run.   *)
THEOREM Inductive == Spec => []IInv
<1>1. Init => IInv
  BY LuaAssumption
     DEF Init, IInv, TypeOK, Past, CallsAreShort, RepliesAge, EntriesAge, InCall, NoEntry
<1>2. TypeOK /\ TypeOK' /\ IInv /\ [Next]_vars => IInv'
  <2> SUFFICES ASSUME TypeOK, TypeOK', IInv, [Next]_vars
               PROVE  Past' /\ CallsAreShort' /\ RepliesAge' /\ EntriesAge'
    BY DEF IInv
  <2> USE LuaAssumption
  <2>0. /\ now \in Int /\ TTL \in Int /\ CallTimeout \in Int
        /\ \A r \in Requests : began[r] \in Int /\ svc[r] \in Services
        /\ \A s \in Services : since[s] \in Int /\ cache[s].exp \in Int
    BY CacheFacts DEF TypeOK
  <2>1. CASE Tick
    <3>1. now' = now + 1 /\ UNCHANGED <<cp, since, cache, reqVars>>
      BY <2>1 DEF Tick
    <3>2. Past'
      BY <2>0, <3>1 DEF IInv, Past
    <3>3. CallsAreShort'
      BY <2>0, <2>1, <3>1 DEF Tick, CallsAreShort, InCall
    <3>4. RepliesAge' /\ EntriesAge'
      BY <3>1 DEF IInv, RepliesAge, EntriesAge, NoEntry
    <3>5. QED
      BY <3>2, <3>3, <3>4
  <2>2. ASSUME NEW s \in Services, NEW w \in Weights \cup {NoWeights}, ServeOther(s, w)
        PROVE  Past' /\ CallsAreShort' /\ RepliesAge' /\ EntriesAge'
    <3>1. /\ UNCHANGED <<now, cache, reqVars>>
          /\ \A q \in Services : since'[q] = IF q = s THEN now ELSE since[q]
          /\ \A q \in Services : q # s => cp'[q] = cp[q]
      BY <2>2 DEF ServeOther, TypeOK
    <3>2. Past'
      BY <2>0, <3>1 DEF IInv, Past
    <3>3. CallsAreShort'
      BY <3>1 DEF IInv, CallsAreShort, InCall
    <3>4. RepliesAge'
      BY <2>0, <3>1 DEF IInv, RepliesAge, Past
    <3>5. EntriesAge'
      <4>1. ASSUME NEW q \in Services, cache[q] # NoEntry
            PROVE  cache[q].weights = cp'[q] \/ since'[q] >= cache[q].exp - TTL
        BY <2>0, <3>1, <4>1 DEF IInv, EntriesAge, Past
      <4>2. QED
        BY <3>1, <4>1 DEF EntriesAge, NoEntry
    <3>6. QED
      BY <3>2, <3>3, <3>4, <3>5
  <2>3. ASSUME NEW r \in Requests, RequestStep(r)
        PROVE  Past' /\ CallsAreShort' /\ RepliesAge' /\ EntriesAge'
    <3>1. CASE /\ UNCHANGED <<now, cp, since, cache>>
               /\ began' = [began EXCEPT ![r] = began'[r]] /\ began'[r] \in {0, began[r], now}
               /\ pc' = [pc EXCEPT ![r] = pc'[r]]
               /\ pc'[r] \in {"new", "pinned", "responded"}
               /\ svc' = [svc EXCEPT ![r] = svc'[r]]
               /\ reply' = [reply EXCEPT ![r] = reply'[r]]
      (* A request outside the call, that stores nothing. *)
      <4>1. Past'
        BY <2>0, <3>1 DEF IInv, Past, TypeOK
      <4>2. CallsAreShort' /\ RepliesAge'
        BY <3>1 DEF IInv, CallsAreShort, RepliesAge, InCall, TypeOK
      <4>3. EntriesAge'
        BY <3>1 DEF IInv, EntriesAge, NoEntry
      <4>4. QED
        BY <4>1, <4>2, <4>3
    <3>2. CASE MissRequest(r)
      <4>1. /\ UNCHANGED <<now, cp, since, cache, svc, reply>>
            /\ \A q \in Requests : began'[q] = IF q = r THEN now ELSE began[q]
            /\ \A q \in Requests : pc'[q] = IF q = r THEN "calling" ELSE pc[q]
        BY <3>2 DEF MissRequest, TypeOK
      <4>2. Past' /\ CallsAreShort' /\ RepliesAge'
        BY <2>0, <4>1 DEF IInv, Past, CallsAreShort, RepliesAge, InCall
      <4>3. EntriesAge'
        BY <4>1 DEF IInv, EntriesAge, NoEntry
      <4>4. QED
        BY <4>2, <4>3
    <3>3. CASE Answer(r) \/ CallFails(r)
      <4>1. /\ UNCHANGED <<now, cp, since, cache, svc, began>>
            /\ InCall(r)
            /\ reply'[r] \in {cp[svc[r]], NoWeights}
            /\ \A q \in Requests : q # r => reply'[q] = reply[q] /\ pc'[q] = pc[q]
        BY <3>3 DEF Answer, CallFails, TypeOK, InCall
      <4>2. Past' /\ CallsAreShort'
        BY <4>1 DEF IInv, Past, CallsAreShort, InCall
      <4>3. RepliesAge'
        BY <2>0, <4>1 DEF IInv, RepliesAge
      <4>4. EntriesAge'
        BY <4>1 DEF IInv, EntriesAge, NoEntry
      <4>5. QED
        BY <4>2, <4>3, <4>4
    <3>4. CASE ResumeServed(r)
      <4>1. /\ UNCHANGED <<now, cp, since, svc, began, reply>>
            /\ pc[r] = "answered" /\ reply[r] # NoWeights
            /\ cache' = [cache EXCEPT ![svc[r]] = [weights |-> reply[r], exp |-> began[r] + TTL]]
            /\ \A q \in Requests : pc'[q] = IF q = r THEN "pinned" ELSE pc[q]
        BY <3>4 DEF ResumeServed, Pin, TypeOK
      <4>2. \A s \in Services :
              IF s = svc[r] THEN cache'[s].weights = reply[r] /\ cache'[s].exp = began[r] + TTL
                            ELSE cache'[s] = cache[s]
        BY <4>1 DEF TypeOK
      <4>3. Past'
        BY <2>0, <4>1, <4>2 DEF IInv, Past
      <4>4. CallsAreShort' /\ RepliesAge'
        BY <4>1 DEF IInv, CallsAreShort, RepliesAge, InCall
      <4>5. EntriesAge'
        BY <2>0, <4>1, <4>2 DEF IInv, EntriesAge, RepliesAge, NoEntry
      <4>6. QED
        BY <4>3, <4>4, <4>5
    <3>5. ASSUME NEW z \in {"zone1", "zone2"}, ClientPinned(r, z)
          PROVE  Past' /\ CallsAreShort' /\ RepliesAge' /\ EntriesAge'
      BY <3>1, <3>5 DEF ClientPinned, TypeOK
    <3>6. CASE HitRequest(r)
      BY <3>1, <3>6 DEF HitRequest, Pin, TypeOK
    <3>7. CASE ResumeFallback(r)
      BY <3>1, <3>7 DEF ResumeFallback, Pin, TypeOK
    <3>8. CASE OnResponse(r)
      BY <3>1, <3>8 DEF OnResponse, TypeOK
    <3>9. ASSUME NEW s \in Services, NextRequest(r, s)
          PROVE  Past' /\ CallsAreShort' /\ RepliesAge' /\ EntriesAge'
      BY <3>1, <3>9 DEF NextRequest, TypeOK
    <3>10. CASE ScriptFails(r)
      BY <3>1, <3>10 DEF ScriptFails, TypeOK
    <3>11. QED
      BY <2>3, <3>2, <3>3, <3>4, <3>5, <3>6, <3>7, <3>8, <3>9, <3>10 DEF RequestStep
  <2>4. CASE UNCHANGED vars
    <3>1. UNCHANGED vars
      BY <2>4
    <3>2. QED
      BY <3>1 DEF vars, IInv, Past, CallsAreShort, RepliesAge, EntriesAge, InCall, NoEntry
  <2>5. QED
    BY <2>1, <2>2, <2>3, <2>4 DEF Next
<1>3. IInv => TypeOK
  BY DEF IInv
<1>4. QED
  BY <1>1, <1>2, <1>3, TypeCorrect, PTL DEF Spec

---------------------------------------------------------------------------
\* Only a cache hit and a call that was answered pin a request by weights
\* the Control Plane has served.
LEMMA PinnedBy ==
    ASSUME TypeOK, [Next]_vars, NEW r \in Requests,
           PinnedNow(r), source'[r] \in {"cache", "call"}
    PROVE  HitRequest(r) \/ ResumeServed(r)
<1>1. CASE Tick
  BY <1>1 DEF Tick, PinnedNow
<1>2. ASSUME NEW s \in Services, NEW w \in Weights \cup {NoWeights}, ServeOther(s, w)
      PROVE  FALSE
  BY <1>2 DEF ServeOther, PinnedNow
<1>3. CASE UNCHANGED vars
  BY <1>3 DEF vars, PinnedNow
<1>4. ASSUME NEW q \in Requests, RequestStep(q), q # r PROVE FALSE
  <2>1. pc'[r] = pc[r]
    BY <1>4 DEF RequestStep, ClientPinned, HitRequest, MissRequest, Answer, CallFails,
                ResumeServed, ScriptFails, ResumeFallback, OnResponse, NextRequest, Pin, TypeOK
  <2>2. QED
    BY <2>1 DEF PinnedNow
<1>5. CASE RequestStep(r)
  <2>1. CASE \E z \in {"zone1", "zone2"} : ClientPinned(r, z)
    BY <2>1 DEF ClientPinned, TypeOK
  <2>2. CASE MissRequest(r) \/ Answer(r) \/ CallFails(r) \/ OnResponse(r)
    BY <2>2 DEF MissRequest, Answer, CallFails, OnResponse, PinnedNow, TypeOK
  <2>3. CASE ResumeFallback(r) \/ ScriptFails(r)
    BY <2>3 DEF ResumeFallback, ScriptFails, Pin, TypeOK
  <2>4. CASE \E s \in Services : NextRequest(r, s)
    BY <2>4 DEF NextRequest, PinnedNow, TypeOK
  <2>5. QED
    BY <1>5, <2>1, <2>2, <2>3, <2>4 DEF RequestStep
<1>6. QED
  BY <1>1, <1>2, <1>3, <1>4, <1>5 DEF Next

\* When the weights have been the same for TTL seconds, both hold them: the
\* entry has not expired, and no call takes TTL seconds.
LEMMA PinnedByCurrent ==
    ASSUME IInv, [Next]_vars, NEW r \in Requests,
           PinnedNow(r), source'[r] \in {"cache", "call"}, now - since[svc[r]] >= TTL
    PROVE  \E from \in {"cache", "call"} :
              cp[svc[r]] \in Weights /\ Pin(r, cp[svc[r]], from)
<1> USE DEF IInv
<1>1. /\ svc[r] \in Services /\ now \in Int /\ began[r] \in Int
      /\ since[svc[r]] \in Int /\ cache[svc[r]].exp \in Int
      /\ TTL \in Int /\ CallTimeout \in Int /\ CallTimeout < TTL
  BY CacheFacts, LuaAssumption DEF TypeOK
<1>2. CASE HitRequest(r)
  <2>1. cache[svc[r]] # NoEntry /\ cache[svc[r]].exp > now
    BY <1>2 DEF HitRequest, CacheHit
  <2>2. cache[svc[r]].weights = cp[svc[r]]
    BY <1>1, <2>1 DEF EntriesAge
  <2>3. QED
    BY <1>1, <1>2, <2>1, <2>2, CacheFacts DEF HitRequest
<1>3. CASE ResumeServed(r)
  <2>1. pc[r] = "answered" /\ reply[r] # NoWeights /\ Pin(r, reply[r], "call")
    BY <1>3 DEF ResumeServed
  <2>2. reply[r] = cp[svc[r]]
    BY <1>1, <2>1 DEF RepliesAge, CallsAreShort, InCall
  <2>3. QED
    BY <2>1, <2>2 DEF TypeOK
<1>4. QED
  BY <1>2, <1>3, PinnedBy

(* Weights served unchanged for TTL seconds are those every request is      *)
(* pinned by, unless its own call failed: no entry outlives its time.       *)
THEOREM Converges == Spec => ConvergesWithinTTL
<1>1. IInv /\ [Next]_vars =>
        [\A r \in Requests :
           PinnedNow(r) /\ source'[r] \in {"cache", "call"} /\ now - since[svc[r]] >= TTL =>
               used'[r] = cp[svc[r]]]_vars
  BY PinnedByCurrent, PinFacts DEF IInv
<1>2. QED
  BY <1>1, Inductive, PTL DEF Spec, ConvergesWithinTTL

(* A zone without weight for TTL seconds gets only the requests whose       *)
(* client or whose failed call put them there.                              *)
THEOREM DrainedAvoided == Spec => DrainedZoneIsAvoided
<1>1. IInv /\ [Next]_vars =>
        [\A r \in Requests :
           PinnedNow(r) /\ source'[r] \in {"cache", "call"} /\ now - since[svc[r]] >= TTL =>
               /\ cp[svc[r]] = 0 => geo'[r] = "zone2"
               /\ cp[svc[r]] = Scale => geo'[r] = "zone1"]_vars
  BY PinnedByCurrent, PinFacts DEF IInv
<1>2. QED
  BY <1>1, Inductive, PTL DEF Spec, DrainedZoneIsAvoided
=============================================================================

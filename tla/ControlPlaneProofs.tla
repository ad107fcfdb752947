--------------------------- MODULE ControlPlaneProofs ---------------------------
(***************************************************************************)
(* The safety properties of ControlPlane hold for every set of services,   *)
(* every set of payloads the ML analyzer may answer and every bound.       *)
(***************************************************************************)
EXTENDS ControlPlane, TLAPS

(* A hint built from a stored snapshot is well formed. *)
LEMMA HintType ==
    ASSUME NEW s \in Services, NEW sn \in Snapshot
    PROVE  HintOf(s, sn) \in Hint /\ HintOf(s, sn).version = sn.version
<1>1. CASE sn.content \in Payloads
  BY <1>1, ConstantsAssumption DEF HintOf, Hint, Snapshot
<1>2. CASE sn.content = EmptyPayload
  BY <1>2, ConstantsAssumption DEF HintOf, Hint, Snapshot, EmptyPayload
<1>3. QED
  BY <1>1, <1>2 DEF Snapshot

(* A snapshot only mentions known services. *)
LEMMA ServicesKnown ==
    ASSUME NEW sn \in Snapshot
    PROVE  ServicesOf(sn) \subseteq Services
<1>1. CASE sn.content \in Payloads
  BY <1>1, ConstantsAssumption DEF ServicesOf, Snapshot
<1>2. CASE sn.content = EmptyPayload
  BY <1>2 DEF ServicesOf, Snapshot, EmptyPayload
<1>3. QED
  BY <1>1, <1>2 DEF Snapshot

(* The initial values of the process are well typed. *)
LEMMA FreshTypes ==
    /\ EmptySnapshot \in Snapshot /\ EmptySnapshot.version = 0
    /\ NoHint \in Hint
    /\ 0 \in 0..CountCap /\ 0 \in 0..MaxVersion
    /\ [s \in Services |-> 0] \in [Services -> 0..CountCap]
    /\ [s \in Services |-> NoHint] \in [Services -> Hint]
    /\ NoScrape \in [at : {"none", "reading"}, version : 0..MaxVersion]
<1>1. 0 \in 0..CountCap /\ 0 \in 0..MaxVersion
  BY ConstantsAssumption
<1>2. NoHint \in Hint
  BY DEF NoHint, Hint
<1>3. QED
  BY <1>1, <1>2 DEF EmptySnapshot, Snapshot, NoScrape

(* A saturating counter stays within its cap and moves by at most one. *)
LEMMA BumpType ==
    ASSUME NEW n \in 0..CountCap
    PROVE  Bump(n) \in 0..CountCap /\ Bump(n) <= n + 1 /\ Bump(n) >= n
           /\ (n < CountCap => Bump(n) = n + 1)
BY ConstantsAssumption DEF Bump

(* Storing an answer yields a snapshot whose version is positive and not   *)
(* older, and is the same only for the same content.                       *)
LEMMA NextVersionFacts ==
    ASSUME TypeOK, NEW p \in Payloads, NextVersion(p) <= MaxVersion
    PROVE  /\ [version |-> NextVersion(p), content |-> p] \in Snapshot
           /\ NextVersion(p) > 0
           /\ NextVersion(p) >= snap.version
           /\ NextVersion(p) <= snap.version + 1
           /\ snap.version > 0 /\ p = snap.content =>
                [version |-> NextVersion(p), content |-> p] = snap
           /\ snap.version > 0 /\ p # snap.content => NextVersion(p) > snap.version
<1>1. snap.version \in Nat /\ MaxVersion \in Nat /\ snap = [version |-> snap.version, content |-> snap.content]
  BY ConstantsAssumption DEF TypeOK, Snapshot
<1>2. NextVersion(p) \in 0..MaxVersion /\ NextVersion(p) > 0 /\ NextVersion(p) >= snap.version
      /\ NextVersion(p) <= snap.version + 1
      /\ (snap.version > 0 /\ p = snap.content => NextVersion(p) = snap.version)
      /\ (snap.version > 0 /\ p # snap.content => NextVersion(p) > snap.version)
  BY <1>1 DEF NextVersion
<1>3. QED
  BY <1>1, <1>2 DEF Snapshot

---------------------------------------------------------------------------
(* Every state the program reaches is well typed: versions, counters and   *)
(* channel contents stay in their ranges, and the in-flight publish is one *)
(* of those the broadcast still has to make.                               *)
THEOREM TypeCorrect == Spec => []TypeOK
<1>1. Init => TypeOK
  BY FreshTypes DEF Init, TypeOK, LoopSteps
<1>2. TypeOK /\ [Next]_vars => TypeOK'
  <2> SUFFICES ASSUME TypeOK, [Next]_vars PROVE TypeOK'
    OBVIOUS
  <2> USE DEF TypeOK, LoopSteps
  <2>1. CASE StartPull \/ PullFails \/ PullCancelled \/ CountSuccess \/ StampSuccess
    <3>1. Bump(successes) \in 0..CountCap /\ Bump(errors) \in 0..CountCap
      BY BumpType
    <3>2. CASE StartPull
      BY <3>2 DEF StartPull, shared, procVars, redis
    <3>3. CASE PullFails
      BY <3>3, <3>1 DEF PullFails, procVars, redis
    <3>4. CASE PullCancelled
      BY <3>4, <3>1 DEF PullCancelled, loopVars, procVars, redis
    <3>5. CASE CountSuccess
      BY <3>5, <3>1 DEF CountSuccess, procVars, redis
    <3>6. CASE StampSuccess
      BY <3>6 DEF StampSuccess, procVars, redis
    <3>7. QED
      BY <2>1, <3>2, <3>3, <3>4, <3>5, <3>6
  <2>2. ASSUME NEW p \in Payloads, PullStores(p) PROVE TypeOK'
    BY <2>2, NextVersionFacts DEF PullStores, shared, loopVars, procVars, redis
  <2>3. CASE SkipPublish \/ FinishBroadcast \/ LoopExit
    BY <2>3 DEF SkipPublish, FinishBroadcast, LoopExit, shared, loopVars, procVars, redis
  <2>4. CASE StartBroadcast
    BY <2>4, ServicesKnown DEF StartBroadcast, shared, loopVars, procVars, redis
  <2>5. ASSUME NEW s \in Services, PublishStep(s) PROVE TypeOK'
    <3>1. CASE PublishBegin(s)
      BY <3>1 DEF PublishBegin, shared, loopVars, procVars, redis
    <3>2. CASE PublishRefused(s)
      BY <3>2, BumpType DEF PublishRefused, shared, loopVars, procVars, redis
    <3>3. CASE PublishAcked(s)
      BY <3>3, BumpType, HintType DEF PublishAcked, shared, loopVars, procVars, redis
    <3>4. CASE PublishFails(s)
      BY <3>4, BumpType, HintType
         DEF PublishFails, Unanswered, shared, loopVars, procVars, redis
    <3>5. QED
      BY <2>5, <3>1, <3>2, <3>3, <3>4 DEF PublishStep
  <2>6. CASE Signal \/ ServerStopped \/ ClosePublisher \/ Boot
    BY <2>6 DEF Signal, ServerStopped, ClosePublisher, Boot, shared, loopVars, procVars, redis
  <2>7. CASE Exit
    BY <2>7, FreshTypes DEF Exit, ProcessGone, redis
  <2>8. CASE Crash
    <3>1. limbo' \subseteq [service : Services, hint : Hint] /\ faulted' \subseteq Services
      BY <2>8, HintType DEF Crash, Unanswered
    <3>2. QED
      BY <2>8, <3>1, FreshTypes DEF Crash, ProcessGone
  <2>9. CASE ScrapeSnapshot \/ ScrapeReply
    BY <2>9, ConstantsAssumption
       DEF ScrapeSnapshot, ScrapeReply, NoScrape, Snapshot, shared, loopVars, procVars, redis
  <2>10. CASE RedisToggles
    BY <2>10 DEF RedisToggles, shared, loopVars, procVars
  <2>11. ASSUME NEW m \in limbo, LateDelivery(m) PROVE TypeOK'
    BY <2>11 DEF LateDelivery, shared, loopVars, procVars
  <2>12. CASE UNCHANGED vars
    BY <2>12 DEF vars, shared, loopVars, procVars, redis
  <2>13. QED
    BY <2>1, <2>2, <2>3, <2>4, <2>5, <2>6, <2>7, <2>8, <2>9, <2>10, <2>11, <2>12
       DEF Next, LoopStep, MainStep
<1>3. QED
  BY <1>1, <1>2, PTL DEF Spec

---------------------------------------------------------------------------
(* Every action keeps the inductive invariant, one named part at a time.   *)

USE DEF TypeOK, LoopSteps, published

LEMMA InitInv == Init => IInv
<1> SUFFICES ASSUME Init PROVE IInv
  OBVIOUS
<1> USE FreshTypes DEF Init
<1>1. TypeOK
  OBVIOUS
<1>2. LoopShape
  BY DEF LoopShape
<1>3. Remembers
  BY DEF Remembers
<1>4. Attempts
  BY DEF Attempts
<1>5. Delivered
  BY DEF Delivered
<1>6. Accounted
  BY DEF Accounted, NoScrape
<1>7. QED
  BY <1>1, <1>2, <1>3, <1>4, <1>5, <1>6 DEF IInv

LEMMA StepLoopShape ==
    ASSUME IInv, TypeOK', Next
    PROVE  LoopShape'
<1> USE DEF IInv, LoopShape, Remembers, shared, loopVars, procVars, redis
<1>1. CASE StartPull \/ PullFails \/ PullCancelled \/ CountSuccess \/ StampSuccess
  BY <1>1 DEF StartPull, PullFails, PullCancelled, CountSuccess, StampSuccess, Running
<1>2. ASSUME NEW p \in Payloads, PullStores(p) PROVE LoopShape'
  BY <1>2 DEF PullStores, Running
<1>3. CASE SkipPublish \/ FinishBroadcast \/ LoopExit
  BY <1>3 DEF SkipPublish, FinishBroadcast, LoopExit, Running
<1>4. CASE StartBroadcast
  BY <1>4 DEF StartBroadcast, Running, shouldPublish
<1>5. ASSUME NEW s \in Services, PublishStep(s) PROVE LoopShape'
  BY <1>5 DEF PublishStep, PublishBegin, PublishRefused, PublishAcked, PublishFails, Running
<1>6. CASE Signal \/ ServerStopped \/ ClosePublisher \/ Boot
  BY <1>6 DEF Signal, ServerStopped, ClosePublisher, Boot
<1>7. CASE Exit \/ Crash
  BY <1>7 DEF Exit, Crash, ProcessGone
<1>8. CASE ScrapeSnapshot \/ ScrapeReply \/ RedisToggles \/ \E m \in limbo : LateDelivery(m)
  BY <1>8 DEF ScrapeSnapshot, ScrapeReply, RedisToggles, LateDelivery
<1>9. QED
  BY <1>1, <1>2, <1>3, <1>4, <1>5, <1>6, <1>7, <1>8 DEF Next, LoopStep, MainStep

LEMMA StepRemembers ==
    ASSUME IInv, TypeOK', Next
    PROVE  Remembers'
<1> USE DEF IInv, LoopShape, Remembers, shared, loopVars, procVars, redis
<1>1. CASE StartPull \/ PullFails \/ PullCancelled \/ CountSuccess \/ StampSuccess
  BY <1>1 DEF StartPull, PullFails, PullCancelled, CountSuccess, StampSuccess
<1>2. ASSUME NEW p \in Payloads, PullStores(p) PROVE Remembers'
  <2> DEFINE new == [version |-> NextVersion(p), content |-> p]
  <2>1. /\ snap' = new /\ pc = "pulling" /\ pc' = "stored"
        /\ UNCHANGED <<firstPublishDone, prevPublished, client>>
    BY <1>2 DEF PullStores
  <2>2. /\ new.version > 0 /\ new.version >= snap.version
        /\ snap.version \in Nat /\ new.version \in Nat
        /\ snap.version > 0 /\ p = snap.content => new = snap
        /\ snap.version > 0 /\ p # snap.content =>
             new.content # snap.content /\ new.version > snap.version
    BY <1>2, NextVersionFacts DEF PullStores, Snapshot
  <2>3. firstPublishDone => prevPublished = snap /\ snap.version > 0
    BY <2>1, <2>2 DEF Snapshot
  <2> HIDE DEF new
  <2>4. QED
    BY <2>1, <2>2, <2>3
<1>3. CASE SkipPublish \/ FinishBroadcast \/ LoopExit
  <2>1. CASE SkipPublish
    BY <2>1 DEF SkipPublish, shouldPublish
  <2>2. CASE FinishBroadcast
    <3>1. prevPublished' = snap /\ firstPublishDone' /\ snap' = snap /\ pc' = "idle"
          /\ client' # "nil"
      BY <2>2 DEF FinishBroadcast
    <3>2. snap.version > 0 /\ snap.version <= snap.version
      BY <2>2 DEF FinishBroadcast, Snapshot
    <3>3. QED
      BY <3>1, <3>2
  <2>3. CASE LoopExit
    BY <2>3 DEF LoopExit
  <2>4. QED
    BY <1>3, <2>1, <2>2, <2>3
<1>4. CASE StartBroadcast
  BY <1>4 DEF StartBroadcast
<1>5. ASSUME NEW s \in Services, PublishStep(s) PROVE Remembers'
  BY <1>5 DEF PublishStep, PublishBegin, PublishRefused, PublishAcked, PublishFails
<1>6. CASE Signal \/ ServerStopped \/ ClosePublisher \/ Boot
  BY <1>6 DEF Signal, ServerStopped, ClosePublisher, Boot
<1>7. CASE Exit \/ Crash
  BY <1>7, FreshTypes DEF Exit, Crash, ProcessGone
<1>8. CASE ScrapeSnapshot \/ ScrapeReply \/ RedisToggles \/ \E m \in limbo : LateDelivery(m)
  BY <1>8 DEF ScrapeSnapshot, ScrapeReply, RedisToggles, LateDelivery
<1>9. QED
  BY <1>1, <1>2, <1>3, <1>4, <1>5, <1>6, <1>7, <1>8 DEF Next, LoopStep, MainStep

LEMMA StepAttempts ==
    ASSUME IInv, TypeOK', Next
    PROVE  Attempts'
<1> USE DEF IInv, LoopShape, Remembers, Attempts, shared, loopVars, procVars, redis
<1>1. CASE StartPull \/ PullFails \/ PullCancelled \/ CountSuccess \/ StampSuccess
  BY <1>1 DEF StartPull, PullFails, PullCancelled, CountSuccess, StampSuccess
<1>2. ASSUME NEW p \in Payloads, PullStores(p) PROVE Attempts'
  BY <1>2 DEF PullStores
<1>3. CASE SkipPublish \/ FinishBroadcast \/ LoopExit
  <2>1. CASE FinishBroadcast
    <3>1. published' = snap.version /\ published + 1 <= snap.version
          /\ pubSuccess' = pubSuccess /\ pubErrors' = pubErrors /\ pc' = "idle" /\ todo = {}
      BY <2>1 DEF FinishBroadcast, Snapshot
    <3>2. \A s \in Services : pubSuccess[s] + pubErrors[s] <= published + 1
      BY <2>1 DEF FinishBroadcast, Snapshot
    <3>3. published \in Nat /\ snap.version \in Nat
          /\ \A s \in Services : pubSuccess[s] + pubErrors[s] \in Nat
      BY DEF Snapshot
    <3>4. \A s \in Services : pubSuccess[s] + pubErrors[s] <= snap.version
      BY <3>1, <3>2, <3>3
    <3>5. QED
      BY <3>1, <3>4, <3>3
  <2>2. CASE SkipPublish \/ LoopExit
    BY <2>2 DEF SkipPublish, LoopExit
  <2>3. QED
    BY <1>3, <2>1, <2>2
<1>4. CASE StartBroadcast
  BY <1>4 DEF StartBroadcast, Snapshot
<1>5. ASSUME NEW s \in Services, PublishStep(s) PROVE Attempts'
  <2>1. CASE PublishBegin(s)
    BY <2>1 DEF PublishBegin
  <2>2. CASE PublishRefused(s)
    BY <2>2, BumpType DEF PublishRefused, Snapshot
  <2>3. CASE PublishAcked(s)
    BY <2>3, BumpType DEF PublishAcked, Snapshot
  <2>4. CASE PublishFails(s)
    BY <2>4, BumpType DEF PublishFails, Snapshot
  <2>5. QED
    BY <1>5, <2>1, <2>2, <2>3, <2>4 DEF PublishStep
<1>6. CASE Signal \/ ServerStopped \/ ClosePublisher \/ Boot
  BY <1>6 DEF Signal, ServerStopped, ClosePublisher, Boot
<1>7. CASE Exit \/ Crash
  BY <1>7 DEF Exit, Crash, ProcessGone
<1>8. CASE ScrapeSnapshot \/ ScrapeReply \/ RedisToggles \/ \E m \in limbo : LateDelivery(m)
  BY <1>8 DEF ScrapeSnapshot, ScrapeReply, RedisToggles, LateDelivery
<1>9. QED
  BY <1>1, <1>2, <1>3, <1>4, <1>5, <1>6, <1>7, <1>8 DEF Next, LoopStep, MainStep

LEMMA StepDelivered ==
    ASSUME IInv, TypeOK', Next
    PROVE  Delivered'
<1> USE DEF IInv, LoopShape, Remembers, Delivered, shared, loopVars, procVars, redis
<1>1. CASE StartPull \/ PullFails \/ PullCancelled \/ CountSuccess \/ StampSuccess
  BY <1>1 DEF StartPull, PullFails, PullCancelled, CountSuccess, StampSuccess
<1>2. ASSUME NEW p \in Payloads, PullStores(p) PROVE Delivered'
  BY <1>2, NextVersionFacts DEF PullStores, Snapshot, Hint
<1>3. CASE SkipPublish \/ FinishBroadcast \/ LoopExit
  BY <1>3 DEF SkipPublish, FinishBroadcast, LoopExit
<1>4. CASE StartBroadcast
  BY <1>4 DEF StartBroadcast
<1>5. ASSUME NEW s \in Services, PublishStep(s) PROVE Delivered'
  <2>1. CASE PublishBegin(s)
    BY <2>1 DEF PublishBegin
  <2>2. CASE PublishRefused(s)
    BY <2>2 DEF PublishRefused
  <2>3. CASE PublishAcked(s)
    BY <2>3, HintType DEF PublishAcked, Snapshot
  <2>4. CASE PublishFails(s)
    BY <2>4 DEF PublishFails, Unanswered
  <2>5. QED
    BY <1>5, <2>1, <2>2, <2>3, <2>4 DEF PublishStep
<1>6. CASE Signal \/ ServerStopped \/ ClosePublisher \/ Boot
  BY <1>6 DEF Signal, ServerStopped, ClosePublisher, Boot
<1>7. CASE Exit \/ Crash
  BY <1>7 DEF Exit, Crash, ProcessGone, Unanswered
<1>8. CASE ScrapeSnapshot \/ ScrapeReply \/ RedisToggles \/ \E m \in limbo : LateDelivery(m)
  <2>1. CASE ScrapeSnapshot \/ ScrapeReply \/ RedisToggles
    BY <2>1 DEF ScrapeSnapshot, ScrapeReply, RedisToggles
  <2>2. ASSUME NEW m \in limbo, LateDelivery(m) PROVE Delivered'
    <3>1. m.service \in faulted
      OBVIOUS
    <3>2. \A s \in Services \ faulted : channel'[s] = channel[s]
      BY <2>2, <3>1 DEF LateDelivery
    <3>3. ServicesOf(current) \subseteq Services /\ ServicesOf(prevPublished) \subseteq Services
      BY ServicesKnown
    <3>4. limbo' \subseteq limbo /\ UNCHANGED <<shared, loopVars, faulted>>
      BY <2>2 DEF LateDelivery
    <3>5. QED
      BY <3>2, <3>3, <3>4 DEF ServicesOf, HintOf
  <2>3. QED
    BY <1>8, <2>1, <2>2
<1>9. QED
  BY <1>1, <1>2, <1>3, <1>4, <1>5, <1>6, <1>7, <1>8 DEF Next, LoopStep, MainStep

LEMMA StepAccounted ==
    ASSUME IInv, TypeOK', Next
    PROVE  Accounted'
<1> USE ConstantsAssumption DEF IInv, LoopShape, Accounted, shared, loopVars, procVars, redis
<1>1. CASE StartPull \/ PullFails \/ PullCancelled \/ StampSuccess
  BY <1>1 DEF StartPull, PullFails, PullCancelled, StampSuccess
<1>2. CASE CountSuccess
  BY <1>2 DEF CountSuccess, Bump, Snapshot
<1>3. ASSUME NEW p \in Payloads, PullStores(p) PROVE Accounted'
  BY <1>3, NextVersionFacts DEF PullStores, Snapshot
<1>4. CASE SkipPublish \/ FinishBroadcast \/ LoopExit \/ StartBroadcast
  BY <1>4 DEF SkipPublish, FinishBroadcast, LoopExit, StartBroadcast
<1>5. ASSUME NEW s \in Services, PublishStep(s) PROVE Accounted'
  BY <1>5 DEF PublishStep, PublishBegin, PublishRefused, PublishAcked, PublishFails
<1>6. CASE Signal \/ ServerStopped \/ ClosePublisher \/ Boot
  BY <1>6 DEF Signal, ServerStopped, ClosePublisher, Boot
<1>7. CASE Exit \/ Crash
  BY <1>7, FreshTypes DEF Exit, Crash, ProcessGone, NoScrape
<1>8. CASE ScrapeSnapshot \/ ScrapeReply \/ RedisToggles \/ \E m \in limbo : LateDelivery(m)
  BY <1>8, FreshTypes DEF ScrapeSnapshot, ScrapeReply, RedisToggles, LateDelivery, NoScrape, Snapshot
<1>9. QED
  BY <1>1, <1>2, <1>3, <1>4, <1>5, <1>6, <1>7, <1>8 DEF Next, LoopStep, MainStep

---------------------------------------------------------------------------
(* The inductive invariant holds in every reachable state: what the loop   *)
(* remembers as published, what it stores, what it attempted and what the  *)
(* channels hold agree at every step of the poll loop and of shutdown.     *)
THEOREM Inductive == Spec => []IInv
<1>1. Init => IInv
  BY InitInv
<1>2. IInv /\ TypeOK' /\ [Next]_vars => IInv'
  <2> SUFFICES ASSUME IInv, TypeOK', [Next]_vars PROVE IInv'
    OBVIOUS
  <2>1. CASE Next
    BY <2>1, StepLoopShape, StepRemembers, StepAttempts, StepDelivered, StepAccounted DEF IInv
  <2>2. CASE UNCHANGED vars
    BY <2>2
       DEF IInv, LoopShape, Remembers, Attempts, Delivered, Accounted, ServicesOf, HintOf,
           vars, shared, loopVars, procVars, redis
  <2>3. QED
    BY <2>1, <2>2
<1>3. QED
  BY <1>1, <1>2, TypeCorrect, PTL DEF Spec

(* The Redis client is only closed once the poll loop has returned.        *)
THEOREM ClosedAfterLoop == Spec => []NoPublishAfterClose
<1>1. IInv => NoPublishAfterClose
  BY DEF IInv, LoopShape, NoPublishAfterClose
<1>2. QED
  BY <1>1, Inductive, PTL

(* No service is sent the same content twice: attempts never outnumber the *)
(* versions of the snapshot.                                               *)
THEOREM NoDuplicates == Spec => []NoDuplicateBroadcast
<1>1. IInv => NoDuplicateBroadcast
  <2> SUFFICES ASSUME IInv, NEW s \in Services
               PROVE  pubSuccess[s] + pubErrors[s] <= snap.version
    BY DEF NoDuplicateBroadcast
  <2>1. published \in Nat /\ snap.version \in Nat /\ pubSuccess[s] + pubErrors[s] \in Nat
    BY DEF IInv, Snapshot
  <2>2. published + (IF pc = "publishing" /\ s \notin todo THEN 1 ELSE 0) <= snap.version
    BY <2>1 DEF IInv, LoopShape, Remembers
  <2>3. QED
    BY <2>1, <2>2 DEF IInv, Attempts
<1>2. QED
  BY <1>1, Inductive, PTL

(* Between two cycles a service without a failed publish was last told the *)
(* snapshot that /config serves.                                           *)
THEOREM QuietDelivers == Spec => []QuietMeansDelivered
<1>1. IInv => QuietMeansDelivered
  BY DEF IInv, Remembers, Delivered, QuietMeansDelivered
<1>2. QED
  BY <1>1, Inductive, PTL

(* A channel without failed publishes never goes back to an older version  *)
(* once the running process has published it.                              *)
THEOREM ChannelsOrdered == Spec => ChannelOrdered
<1> DEFINE Ordered ==
      \A s \in Services \ faulted' :
         pubSuccess[s] > 0 => channel'[s].version >= channel[s].version
<1>1. IInv /\ [Next]_vars => [Ordered]_vars
  <2> SUFFICES ASSUME IInv, Next, NEW s \in Services \ faulted', pubSuccess[s] > 0
               PROVE  channel'[s].version >= channel[s].version
    OBVIOUS
  <2>1. channel[s].version \in Nat
    BY DEF IInv, Hint
  <2>2. faulted \subseteq faulted'
    BY DEF Next, LoopStep, MainStep, PublishStep, Unanswered, shared, loopVars, procVars, redis,
           StartPull, PullFails, PullCancelled, PullStores, CountSuccess, StampSuccess,
           SkipPublish, StartBroadcast, PublishBegin, PublishRefused, PublishAcked,
           PublishFails, FinishBroadcast, LoopExit, Signal, ServerStopped, ClosePublisher,
           Exit, Crash, Boot, ScrapeSnapshot, ScrapeReply, RedisToggles, LateDelivery
  <2>3. CASE channel' = channel
    BY <2>1, <2>3
  <2>4. ASSUME NEW t \in Services, PublishAcked(t)
        PROVE  channel'[s].version >= channel[s].version
    <3>1. channel[s].version <= snap.version
      BY <2>2 DEF IInv, Delivered
    <3>2. current = snap /\ channel' = [channel EXCEPT ![t] = HintOf(t, current)]
      BY <2>4 DEF PublishAcked, IInv, LoopShape
    <3>3. QED
      BY <2>1, <3>1, <3>2, HintType DEF IInv
  <2>5. ASSUME NEW m \in limbo, LateDelivery(m)
        PROVE  channel'[s].version >= channel[s].version
    BY <2>1, <2>2, <2>5 DEF LateDelivery, IInv, Delivered
  <2>6. QED
    BY <2>3, <2>4, <2>5
       DEF Next, LoopStep, MainStep, PublishStep, redis,
           StartPull, PullFails, PullCancelled, PullStores, CountSuccess, StampSuccess,
           SkipPublish, StartBroadcast, PublishBegin, PublishRefused,
           PublishFails, FinishBroadcast, LoopExit, Signal, ServerStopped, ClosePublisher,
           Exit, Crash, Boot, ScrapeSnapshot, ScrapeReply, RedisToggles
<1>2. QED
  BY <1>1, Inductive, PTL DEF Spec, ChannelOrdered

(* A /metrics reply never shows more versions than pulls account for.      *)
THEOREM ScrapesAccounted == Spec => ScrapeAccounted
<1> DEFINE Balanced ==
      scrape.at = "reading" /\ scrape'.at = "none" /\ Running' =>
         scrape.version <= successes + 1
<1>1. IInv => scrape.version <= successes + 1
  BY ConstantsAssumption DEF IInv, Accounted, Snapshot
<1>2. IInv /\ [Next]_vars => [Balanced]_vars
  BY <1>1
<1>3. QED
  BY <1>2, Inductive, PTL DEF Spec, ScrapeAccounted
=============================================================================

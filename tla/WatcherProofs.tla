------------------------------ MODULE WatcherProofs ------------------------------
(***************************************************************************)
(* For every number of clients and configurations: Watcher's loop never     *)
(* blocks with the lock held, and delivers nothing stale.                   *)
(***************************************************************************)
EXTENDS Watcher, TLAPS

\* The clients the loop still has to notify have subscribed, and it has none
\* left when it gives the lock back.
Notifying ==
    /\ left \subseteq subs
    /\ ~Locked => left = {}
    /\ pc \in {"drain", "resend"} => \E c \in left : at = {c}
    /\ pc \notin {"drain", "resend"} => at = {}
    /\ Locked => cfg = current
    /\ pc = "parsed" => cfg \in Config

\* A client has subscribed if and only if it listens, or has listened.
Subscribed ==
    /\ \A c \in Clients : c \in subs <=> client[c] \in {"listening", "ended"}
    /\ \A c \in Clients : chan[c] # <<>> => c \in subs

\* The clients the loop is done with: what waits for them is the current
\* configuration, and if nothing waits they run it.
Served ==
    \A c \in Clients \ left :
        /\ chan[c] \in {<<>>, <<current>>}
        /\ c \notin gap /\ client[c] \in {"got", "listening"} /\ chan[c] = <<>> =>
             applied[c] = WithBaseline(current)

IInv == TypeOK /\ Notifying /\ Subscribed /\ Served /\ ResendNeverBlocks

---------------------------------------------------------------------------
LEMMA BaselineType ==
    ASSUME NEW v \in Config
    PROVE  WithBaseline(v) \in Config
BY WatcherAssumption DEF WithBaseline, Config

LEMMA SlotFacts ==
    /\ <<>> \in Slot
    /\ \A v \in Config : <<v>> \in Slot /\ <<v>> # <<>> /\ Head(<<v>>) = v
    /\ \A s \in Slot : s # <<>> => Head(s) \in Config /\ s = <<Head(s)>>
BY DEF Slot

USE DEF loopVars

---------------------------------------------------------------------------
(* The watcher and its clients stay well typed: nothing that parse rejects  *)
(* is ever current, waiting or applied.                                     *)
THEOREM TypeCorrect == Spec => []TypeOK
<1>1. Init => TypeOK
  <2> SUFFICES ASSUME Init PROVE TypeOK
    OBVIOUS
  <2>1. chan \in [Clients -> Slot]
    BY SlotFacts DEF Init
  <2>2. applied \in [Clients -> Config]
    BY DEF Init
  <2>3. QED
    BY <2>1, <2>2 DEF Init, TypeOK
<1>2. TypeOK /\ [Next]_vars => TypeOK'
  <2> SUFFICES ASSUME TypeOK, [Next]_vars PROVE TypeOK'
    OBVIOUS
  <2> USE DEF TypeOK
  <2>1. ASSUME NEW v \in Config \cup {Invalid}, Edit(v) PROVE TypeOK'
    BY <2>1 DEF Edit
  <2>2. CASE Tick
    BY <2>2 DEF Tick
  <2>3. CASE Unchanged
    BY <2>3 DEF Unchanged
  <2>4. CASE Change
    BY <2>4 DEF Change
  <2>5. CASE Unlock
    BY <2>5 DEF Unlock
  <2>6. CASE Stop
    BY <2>6 DEF Stop
  <2>7. ASSUME NEW c \in Clients, Send(c) PROVE TypeOK'
    BY <2>7, SlotFacts DEF Send
  <2>8. ASSUME NEW c \in Clients, SendWouldBlock(c) PROVE TypeOK'
    BY <2>8 DEF SendWouldBlock
  <2>9. ASSUME NEW c \in Clients, Drain(c) PROVE TypeOK'
    BY <2>9, SlotFacts DEF Drain
  <2>10. ASSUME NEW c \in Clients, Resend(c) PROVE TypeOK'
    BY <2>10, SlotFacts DEF Resend
  <2>11. ASSUME NEW c \in Clients, Get(c) PROVE TypeOK'
    BY <2>11, BaselineType DEF Get
  <2>12. ASSUME NEW c \in Clients, Subscribe(c) PROVE TypeOK'
    BY <2>12 DEF Subscribe
  <2>13. ASSUME NEW c \in Clients, Apply(c) PROVE TypeOK'
    <3>1. Head(chan[c]) \in Config
      BY <2>13, SlotFacts DEF Apply
    <3>2. QED
      BY <2>13, <3>1, BaselineType, SlotFacts DEF Apply
  <2>14. ASSUME NEW c \in Clients, End(c) PROVE TypeOK'
    BY <2>14 DEF End
  <2>15. CASE Close
    BY <2>15 DEF Close
  <2>16. CASE UNCHANGED vars
    BY <2>16 DEF vars
  <2>17. QED
    BY <2>1, <2>2, <2>3, <2>4, <2>5, <2>6, <2>7, <2>8, <2>9, <2>10, <2>11, <2>12,
       <2>13, <2>14, <2>15, <2>16 DEF Next, LoopStep, ClientStep
<1>3. QED
  BY <1>1, <1>2, PTL DEF Spec

---------------------------------------------------------------------------
(* The loop hands over only what is current, and finds every channel empty  *)
(* when it sends for the second time.                                       *)
THEOREM Inductive == Spec => []IInv
<1> DEFINE Rest == Notifying /\ Subscribed /\ Served /\ ResendNeverBlocks
<1>1. Init => Rest
  <2> SUFFICES ASSUME Init PROVE Rest
    OBVIOUS
  <2>1. \A c \in Clients : chan[c] = <<>> /\ client[c] = "new"
    BY DEF Init
  <2>2. QED
    BY <2>1 DEF Init, Notifying, Subscribed, Served, ResendNeverBlocks, Locked
<1>2. TypeOK /\ TypeOK' /\ Rest /\ [Next]_vars => Rest'
  <2> SUFFICES ASSUME TypeOK, TypeOK', Rest, [Next]_vars PROVE Rest'
    OBVIOUS
  <2> USE DEF Notifying, Subscribed, Served, ResendNeverBlocks, Locked
  <2>0. /\ pc \in {"select", "parsed", "notify", "drain", "resend", "done"}
        /\ \A c \in Clients : client[c] \in {"new", "got", "listening", "ended"}
        /\ left \subseteq Clients /\ at \subseteq Clients /\ subs \subseteq Clients
    BY DEF TypeOK
  <2>1. ASSUME NEW v \in Config \cup {Invalid}, Edit(v) PROVE Rest'
    BY <2>1 DEF Edit
  <2>2. CASE Tick
    BY <2>2 DEF Tick, TypeOK
  <2>3. CASE Unchanged
    BY <2>3 DEF Unchanged
  <2>4. CASE Change
    <3>1. /\ pc = "parsed" /\ current' = cfg /\ left' = subs /\ pc' = "notify"
          /\ gap' = (gap \ subs) \cup {c \in Clients : client[c] = "got"}
          /\ UNCHANGED <<subs, chan, cfg, at, client, applied>>
      BY <2>4 DEF Change
    <3>2. Notifying' /\ Subscribed' /\ ResendNeverBlocks'
      BY <3>1
    <3>3. \A c \in Clients \ subs : chan[c] = <<>> /\ (c \in gap' \/ client[c] \notin {"got", "listening"})
      BY <2>0, <3>1
    <3>4. Served'
      BY <3>1, <3>3
    <3>5. QED
      BY <3>2, <3>4
  <2>5. CASE Unlock
    BY <2>5 DEF Unlock
  <2>6. CASE Stop
    BY <2>6 DEF Stop
  <2>7. ASSUME NEW c \in Clients, Send(c) PROVE Rest'
    <3>1. /\ pc = "notify" /\ c \in left /\ left' = left \ {c}
          /\ chan'[c] = <<current>> /\ chan'[c] # <<>>
          /\ \A d \in Clients : d # c => chan'[d] = chan[d]
          /\ UNCHANGED <<current, subs, pc, cfg, at, client, applied, gap>>
      BY <2>7 DEF Send, TypeOK
    <3>2. Notifying' /\ Subscribed' /\ ResendNeverBlocks'
      BY <3>1
    <3>3. Served'
      BY <3>1
    <3>4. QED
      BY <3>2, <3>3
  <2>8. ASSUME NEW c \in Clients, SendWouldBlock(c) PROVE Rest'
    BY <2>8 DEF SendWouldBlock
  <2>9. ASSUME NEW c \in Clients, Drain(c) PROVE Rest'
    <3>1. /\ pc = "drain" /\ pc' = "resend" /\ c \in at /\ chan'[c] = <<>>
          /\ \A d \in Clients : d # c => chan'[d] = chan[d]
          /\ UNCHANGED <<current, subs, cfg, left, at, client, applied, gap>>
      BY <2>9 DEF Drain, TypeOK
    <3>2. at = {c}
      BY <2>9 DEF Drain
    <3>3. QED
      BY <3>1, <3>2
  <2>10. ASSUME NEW c \in Clients, Resend(c) PROVE Rest'
    <3>1. /\ pc = "resend" /\ pc' = "notify" /\ c \in at /\ at' = {} /\ left' = left \ {c}
          /\ chan'[c] = <<current>> /\ chan'[c] # <<>>
          /\ \A d \in Clients : d # c => chan'[d] = chan[d]
          /\ UNCHANGED <<current, subs, cfg, client, applied, gap>>
      BY <2>10 DEF Resend, TypeOK
    <3>2. Notifying' /\ Subscribed' /\ ResendNeverBlocks'
      BY <3>1
    <3>3. Served'
      BY <3>1
    <3>4. QED
      BY <3>2, <3>3
  <2>11. ASSUME NEW c \in Clients, Get(c) PROVE Rest'
    <3>1. /\ client[c] = "new" /\ client'[c] = "got" /\ applied'[c] = WithBaseline(current)
          /\ \A d \in Clients : d # c => client'[d] = client[d] /\ applied'[d] = applied[d]
          /\ UNCHANGED <<current, subs, chan, pc, cfg, left, at, gap>>
      BY <2>11 DEF Get, TypeOK
    <3>2. QED
      BY <2>0, <3>1 DEF WithBaseline
  <2>12. ASSUME NEW c \in Clients, Subscribe(c) PROVE Rest'
    <3>1. /\ client[c] = "got" /\ client'[c] = "listening" /\ subs' = subs \cup {c} /\ ~Locked
          /\ \A d \in Clients : d # c => client'[d] = client[d]
          /\ UNCHANGED <<current, chan, pc, cfg, left, at, applied, gap>>
      BY <2>12 DEF Subscribe, TypeOK
    <3>2. QED
      BY <2>0, <3>1 DEF WithBaseline
  <2>13. ASSUME NEW c \in Clients, Apply(c) PROVE Rest'
    <3>1. /\ client[c] = "listening" /\ chan[c] # <<>> /\ chan'[c] = <<>>
          /\ applied'[c] = WithBaseline(Head(chan[c]))
          /\ \A d \in Clients : d # c => chan'[d] = chan[d] /\ applied'[d] = applied[d]
          /\ UNCHANGED <<current, subs, pc, cfg, left, at, client, gap>>
      BY <2>13 DEF Apply, TypeOK
    <3>2. c \notin left => applied'[c] = WithBaseline(current)
      <4>1. c \notin left => chan[c] = <<current>>
        BY <3>1
      <4>2. Head(<<current>>) = current
        BY SlotFacts DEF TypeOK
      <4>3. QED
        BY <3>1, <4>1, <4>2
    <3>3. \A d \in Clients : chan'[d] = <<>> \/ chan'[d] = chan[d]
      BY <3>1
    <3>4. Notifying' /\ Subscribed'
      BY <2>0, <3>1, <3>3
    <3>5. ResendNeverBlocks'
      BY <2>0, <3>1, <3>3
    <3>6. Served'
      <4> SUFFICES ASSUME NEW d \in Clients, d \notin left
                   PROVE  /\ chan'[d] \in {<<>>, <<current>>}
                          /\ d \notin gap /\ client[d] \in {"got", "listening"} /\ chan'[d] = <<>> =>
                               applied'[d] = WithBaseline(current)
        BY <3>1 DEF WithBaseline
      <4>1. CASE d = c
        BY <3>1, <3>2, <4>1
      <4>2. CASE d # c
        BY <3>1, <4>2
      <4>3. QED
        BY <4>1, <4>2
    <3>7. QED
      BY <3>4, <3>5, <3>6
  <2>14. ASSUME NEW c \in Clients, End(c) PROVE Rest'
    <3>1. /\ client[c] = "listening" /\ client'[c] = "ended"
          /\ \A d \in Clients : d # c => client'[d] = client[d]
          /\ UNCHANGED <<current, subs, chan, pc, cfg, left, at, applied, gap>>
      BY <2>14 DEF End, TypeOK
    <3>2. QED
      BY <2>0, <3>1 DEF WithBaseline
  <2>15. CASE Close
    BY <2>15 DEF Close
  <2>16. CASE UNCHANGED vars
    BY <2>16 DEF vars
  <2>17. QED
    BY <2>1, <2>2, <2>3, <2>4, <2>5, <2>6, <2>7, <2>8, <2>9, <2>10, <2>11, <2>12,
       <2>13, <2>14, <2>15, <2>16 DEF Next, LoopStep, ClientStep
<1>3. TypeOK /\ Rest => IInv
  BY DEF IInv
<1>4. QED
  BY <1>1, <1>2, <1>3, TypeCorrect, PTL DEF Spec

---------------------------------------------------------------------------
(* The send that watcher.go makes without a select, with the lock held,     *)
(* finds the channel empty.                                                 *)
THEOREM ResendSafe == Spec => []ResendNeverBlocks
BY Inductive, PTL DEF IInv

(* What waits for a client is never an old configuration.                   *)
THEOREM NothingStale == Spec => []PendingIsCurrent
<1>1. IInv => PendingIsCurrent
  BY DEF IInv, Served, Notifying, PendingIsCurrent
<1>2. QED
  BY <1>1, Inductive, PTL

(* A client with nothing to read runs the current configuration, unless it  *)
(* missed a change before it subscribed.                                    *)
THEOREM QuietClients == Spec => []QuietClientIsCurrent
<1>1. IInv => QuietClientIsCurrent
  BY DEF IInv, Served, Notifying, QuietClientIsCurrent
<1>2. QED
  BY <1>1, Inductive, PTL

---------------------------------------------------------------------------
(* The watcher implements, for each of its clients, the register that       *)
(* LatestValue specifies.  A configuration counts as what the client makes  *)
(* of it, with the zone of the environment for one that is left out.        *)

\* Something is on its way to c: what Get returned and Subscribe has yet to
\* follow, what is in the channel, or what the loop is about to send again.
Waiting(c) ==
    \/ client[c] = "got"
    \/ chan[c] # <<>>
    \/ pc = "resend" /\ c \in at

Newest(c) ==
    IF client[c] = "new" THEN Invalid
    ELSE IF pc = "resend" /\ c \in at THEN WithBaseline(cfg)
    ELSE IF chan[c] # <<>> THEN WithBaseline(Head(chan[c]))
    ELSE applied[c]

Complete == {v \in Config : v.zone # NoZone}

Channel(c) == INSTANCE LatestValue WITH
    Values  <- Complete,
    NoValue <- Invalid,
    latest  <- Newest(c),
    fresh   <- Waiting(c),
    seen    <- IF client[c] \in {"new", "got"} THEN Invalid ELSE applied[c],
    open    <- c \notin closed

\* No channel is closed before the loop is done, and only those of subscribers.
Shutting ==
    /\ closed # {} => pc = "done"
    /\ closed \subseteq subs

LEMMA BaselineComplete == \A v \in Config : WithBaseline(v) \in Complete
BY WatcherAssumption DEF WithBaseline, Config, Complete

LEMMA ShutLast == Spec => []Shutting
<1>1. Init => Shutting
  BY DEF Init, Shutting
<1>2. Shutting /\ [Next]_vars => Shutting'
  BY DEF Shutting, Next, LoopStep, ClientStep, vars, Edit, Tick, Unchanged, Change, Unlock,
     Stop, Send, SendWouldBlock, Drain, Resend, Get, Subscribe, Apply, End, Close
<1>3. QED
  BY <1>1, <1>2, PTL DEF Spec

(* Every client's channel is a register that is only ever overwritten with, *)
(* and only ever yields, the value offered last: what a client applies is   *)
(* complete and in the order of the file's changes, none of them twice,     *)
(* and Close shuts it once.                                                 *)
THEOREM ImplementsRegister ==
    ASSUME NEW c \in Clients
    PROVE  Spec => Channel(c)!Spec
<1> USE DEF Channel!vars
<1>1. Init => Channel(c)!Init
  BY DEF Init, Channel!Init, Newest, Waiting
<1>2. IInv /\ Shutting /\ [Next]_vars => [Channel(c)!Next]_(Channel(c)!vars)
  <2> SUFFICES ASSUME IInv, Shutting, [Next]_vars
               PROVE  Channel(c)!Next \/ UNCHANGED Channel(c)!vars
    OBVIOUS
  <2> USE DEF Newest, Waiting
  <2>0. /\ TypeOK /\ Notifying /\ Subscribed /\ ResendNeverBlocks /\ Shutting
        /\ cfg \in Config /\ current \in Config
    BY DEF IInv, TypeOK
  <2>1. ASSUME NEW v \in Config \cup {Invalid}, Edit(v) PROVE UNCHANGED Channel(c)!vars
    BY <2>1 DEF Edit
  <2>2. CASE Tick
    BY <2>2 DEF Tick
  <2>3. CASE Unchanged
    BY <2>3 DEF Unchanged
  <2>4. CASE Change
    BY <2>4 DEF Change
  <2>5. CASE Unlock
    BY <2>5 DEF Unlock
  <2>6. CASE Stop
    <3>1. c \in subs => Channel(c)!Shut
      BY <2>0, <2>6 DEF Stop, Shutting, Channel!Shut
    <3>2. c \notin subs => UNCHANGED Channel(c)!vars
      BY <2>0, <2>6 DEF Stop, Shutting
    <3>3. QED
      BY <3>1, <3>2 DEF Channel!Next
  <2>7. ASSUME NEW d \in Clients, Send(d) PROVE Channel(c)!Next \/ UNCHANGED Channel(c)!vars
    <3>1. CASE d = c
      <4>1. Channel(c)!Offer(WithBaseline(cfg))
        BY <2>0, <2>7, <3>1 DEF Send, TypeOK, Notifying, Subscribed, Shutting, Channel!Offer
      <4>2. QED
        BY <2>0, <4>1, BaselineComplete DEF Channel!Next
    <3>2. CASE d # c
      BY <2>0, <2>7, <3>2 DEF Send, TypeOK
    <3>3. QED
      BY <3>1, <3>2
  <2>8. ASSUME NEW d \in Clients, SendWouldBlock(d) PROVE UNCHANGED Channel(c)!vars
    BY <2>8 DEF SendWouldBlock
  <2>9. ASSUME NEW d \in Clients, Drain(d) PROVE Channel(c)!Next \/ UNCHANGED Channel(c)!vars
    <3>1. CASE d = c
      <4>1. Channel(c)!Offer(WithBaseline(cfg))
        BY <2>0, <2>9, <3>1 DEF Drain, TypeOK, Notifying, Subscribed, Shutting, Channel!Offer
      <4>2. QED
        BY <2>0, <4>1, BaselineComplete DEF Channel!Next
    <3>2. CASE d # c
      BY <2>0, <2>9, <3>2 DEF Drain, TypeOK, Notifying
    <3>3. QED
      BY <3>1, <3>2
  <2>10. ASSUME NEW d \in Clients, Resend(d) PROVE UNCHANGED Channel(c)!vars
    <3>1. CASE d = c
      BY <2>0, <2>10, <3>1, SlotFacts DEF Resend, TypeOK, Notifying, Subscribed
    <3>2. CASE d # c
      BY <2>0, <2>10, <3>2 DEF Resend, TypeOK, Notifying
    <3>3. QED
      BY <3>1, <3>2
  <2>11. ASSUME NEW d \in Clients, Get(d) PROVE Channel(c)!Next \/ UNCHANGED Channel(c)!vars
    <3>1. CASE d = c
      <4>1. Channel(c)!Offer(WithBaseline(current))
        BY <2>0, <2>11, <3>1 DEF Get, Locked, TypeOK, Notifying, Subscribed, Shutting, Channel!Offer
      <4>2. QED
        BY <2>0, <4>1, BaselineComplete DEF Channel!Next
    <3>2. CASE d # c
      BY <2>0, <2>11, <3>2 DEF Get, TypeOK
    <3>3. QED
      BY <3>1, <3>2
  <2>12. ASSUME NEW d \in Clients, Subscribe(d)
         PROVE  Channel(c)!Next \/ UNCHANGED Channel(c)!vars
    <3>1. CASE d = c
      <4>1. Channel(c)!Take
        BY <2>0, <2>12, <3>1 DEF Subscribe, Locked, TypeOK, Subscribed, Channel!Take
      <4>2. QED
        BY <4>1 DEF Channel!Next
    <3>2. CASE d # c
      BY <2>0, <2>12, <3>2 DEF Subscribe, TypeOK
    <3>3. QED
      BY <3>1, <3>2
  <2>13. ASSUME NEW d \in Clients, Apply(d) PROVE Channel(c)!Next \/ UNCHANGED Channel(c)!vars
    <3>1. CASE d = c
      <4>1. Channel(c)!Take
        BY <2>0, <2>13, <3>1 DEF Apply, TypeOK, ResendNeverBlocks, Channel!Take
      <4>2. QED
        BY <4>1 DEF Channel!Next
    <3>2. CASE d # c
      BY <2>0, <2>13, <3>2 DEF Apply, TypeOK
    <3>3. QED
      BY <3>1, <3>2
  <2>14. ASSUME NEW d \in Clients, End(d) PROVE UNCHANGED Channel(c)!vars
    BY <2>0, <2>14 DEF End, TypeOK
  <2>15. CASE Close
    BY <2>15 DEF Close
  <2>16. CASE UNCHANGED vars
    BY <2>16 DEF vars
  <2>17. QED
    BY <2>1, <2>2, <2>3, <2>4, <2>5, <2>6, <2>7, <2>8, <2>9, <2>10, <2>11, <2>12,
       <2>13, <2>14, <2>15, <2>16 DEF Next, LoopStep, ClientStep
<1>3. QED
  BY <1>1, <1>2, Inductive, ShutLast, PTL DEF Spec, Channel!Spec
=============================================================================

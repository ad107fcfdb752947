--------------------------- MODULE RoutingHintsProofs ---------------------------
(***************************************************************************)
(* For every set of hints and closers and every inbox capacity: the safety  *)
(* properties of RoutingHints hold and it implements LatestValue.           *)
(***************************************************************************)
EXTENDS RoutingHints, TLAPS

\* What the one-slot buffer, the loop's decoded hint and the consumer know.
Buffer ==
    /\ updates # <<>> => updates = <<emitted>> /\ pc # "resend"
    /\ pc \in {"send", "drain", "resend"} => hint \in Hints
    /\ pc = "resend" => hint = emitted
    /\ updates = <<>> /\ pc \notin {"resend", "returned"} => seen = emitted

\* Once somebody has called Close, somebody is inside it or it is over.
Closing ==
    /\ (\E c \in Closers : closer[c] # "none") =>
         (\E c \in Closers : closer[c] \in {"in_once", "await"}) \/ (done /\ ~clientOpen)
    /\ CloseIsComplete

\* The last decodable message is in the inbox, in the loop, or emitted.
handled == IF pc \in {"send", "drain"} THEN hint ELSE emitted

LastGood ==
    \/ /\ \A i \in 1..Len(inbox) : inbox[i] \notin Hints
       /\ handled = lastGood
    \/ \E i \in 1..Len(inbox) :
         /\ inbox[i] = lastGood /\ lastGood \in Hints
         /\ \A j \in 1..Len(inbox) : j > i => inbox[j] \notin Hints

USE DEF Slot, loopVars

---------------------------------------------------------------------------
(* The subscriber's state stays well typed; in particular the channel never *)
(* holds more than one hint.                                                *)
THEOREM TypeCorrect == Spec => [](TypeOK /\ Buffer)
<1>1. Init => TypeOK
  <2> SUFFICES ASSUME Init PROVE TypeOK
    OBVIOUS
  <2>1. inbox \in Seq(Hints \cup {BadPayload}) /\ Len(inbox) <= InboxCap
    BY HintsAssumption DEF Init
  <2>2. updates \in Slot(Hints)
    BY DEF Init
  <2>3. closer \in [Closers -> {"none", "blocked", "in_once", "await", "returned"}]
    BY DEF Init
  <2> HIDE DEF Slot
  <2>4. QED
    BY <2>1, <2>2, <2>3 DEF Init, TypeOK
<1>2. TypeOK /\ Buffer /\ [Next]_vars => TypeOK'
  <2> SUFFICES ASSUME TypeOK, Buffer, [Next]_vars PROVE TypeOK'
    OBVIOUS
  <2> USE DEF TypeOK
  <2>1. ASSUME NEW m \in Hints \cup {BadPayload}, Deliver(m) PROVE TypeOK'
    BY <2>1, HintsAssumption DEF Deliver
  <2>2. CASE Receive
    <3>1. /\ Tail(inbox) \in Seq(Hints \cup {BadPayload})
          /\ Len(Tail(inbox)) <= InboxCap
          /\ Head(inbox) \in Hints \cup {BadPayload}
      BY <2>2, HintsAssumption DEF Receive
    <3>2. pc' \in {"select", "send"} /\ hint' \in Hints \cup {NoHint}
      BY <2>2 DEF Receive
    <3> HIDE DEF Slot
    <3>3. QED
      BY <2>2, <3>1, <3>2 DEF Receive
  <2>3. CASE Stop \/ ResendCancelled \/ CloseDone \/ SendWouldBlock
    BY <2>3 DEF Stop, ResendCancelled, CloseDone, SendWouldBlock, Return
  <2>4. CASE Consume
    <3>1. updates' \in Slot(Hints) /\ seen' \in Hints \cup {NoHint}
      BY <2>4 DEF Consume
    <3> HIDE DEF Slot
    <3>2. QED
      BY <2>4, <3>1 DEF Consume
  <2>5. CASE Send \/ Drain \/ Resend
    <3>1. updates' \in Slot(Hints) /\ emitted' \in Hints \cup {NoHint}
      BY <2>5 DEF Send, Drain, Resend, Buffer
    <3>2. pc' \in {"select", "send", "drain", "resend", "returned"}
      BY <2>5 DEF Send, Drain, Resend
    <3> HIDE DEF Slot
    <3>3. /\ inbox' = inbox /\ inboxOpen' = inboxOpen /\ cancelled' = cancelled
          /\ hint' = hint /\ done' = done /\ closer' = closer
          /\ clientOpen' = clientOpen /\ seen' = seen /\ lastGood' = lastGood
      BY <2>5 DEF Send, Drain, Resend
    <3>4. QED
      BY <3>1, <3>2, <3>3
  <2>6. ASSUME NEW c \in Closers, CloseStep(c) PROVE TypeOK'
    BY <2>6 DEF CloseStep, CloseEnter, ClosePubSub, CloseClient, CloseAgain
  <2>7. CASE UNCHANGED vars
    BY <2>7 DEF vars
  <2>8. QED
    BY <2>1, <2>2, <2>3, <2>4, <2>5, <2>6, <2>7 DEF Next, LoopStep
<1>3. Init => Buffer
  BY DEF Init, Buffer
<1>4. TypeOK /\ Buffer /\ [Next]_vars => Buffer'
  <2> SUFFICES ASSUME TypeOK, Buffer, [Next]_vars PROVE Buffer'
    OBVIOUS
  <2> USE DEF TypeOK, Buffer
  <2>1. ASSUME NEW m \in Hints \cup {BadPayload}, Deliver(m) PROVE Buffer'
    BY <2>1 DEF Deliver
  <2>2. CASE Receive
    BY <2>2 DEF Receive
  <2>3. CASE Stop \/ ResendCancelled \/ CloseDone \/ SendWouldBlock
    BY <2>3 DEF Stop, ResendCancelled, CloseDone, SendWouldBlock, Return
  <2>4. CASE Send \/ Drain \/ Resend
    <3>1. CASE Send
      BY <3>1 DEF Send
    <3>2. CASE Drain
      BY <3>2 DEF Drain
    <3>3. CASE Resend
      BY <3>3 DEF Resend
    <3>4. QED
      BY <2>4, <3>1, <3>2, <3>3
  <2>5. CASE Consume
    BY <2>5 DEF Consume
  <2>6. ASSUME NEW c \in Closers, CloseStep(c) PROVE Buffer'
    BY <2>6 DEF CloseStep, CloseEnter, ClosePubSub, CloseClient, CloseAgain
  <2>7. CASE UNCHANGED vars
    BY <2>7 DEF vars
  <2>8. QED
    BY <2>1, <2>2, <2>3, <2>4, <2>5, <2>6, <2>7 DEF Next, LoopStep
<1>5. QED
  BY <1>1, <1>2, <1>3, <1>4, PTL DEF Spec

(* The bare send after the drain never meets a full buffer.                 *)
THEOREM ResendSafe == Spec => []ResendNeverBlocks
<1>1. TypeOK /\ Buffer => ResendNeverBlocks
  BY DEF Buffer, ResendNeverBlocks
<1>2. QED
  BY <1>1, TypeCorrect, PTL

---------------------------------------------------------------------------
(* A Close that has returned has stopped the goroutine and the client.      *)
THEOREM CloseComplete == Spec => []CloseIsComplete
<1>1. Init => Closing
  BY DEF Init, Closing, CloseIsComplete
<1>2. TypeOK /\ Closing /\ [Next]_vars => Closing'
  <2> SUFFICES ASSUME TypeOK, Closing, [Next]_vars PROVE Closing'
    OBVIOUS
  <2> USE DEF Closing, CloseIsComplete
  <2>1. CASE \E m \in Hints \cup {BadPayload} : Deliver(m)
    BY <2>1 DEF Deliver
  <2>2. CASE LoopStep \/ Consume
    BY <2>2 DEF LoopStep, Receive, Stop, Send, SendWouldBlock, Drain, Resend, ResendCancelled,
                CloseDone, Consume, Return
  <2>3. ASSUME NEW c \in Closers, CloseStep(c) PROVE Closing'
    <3> USE DEF TypeOK
    <3>1. CASE CloseEnter(c)
      BY <3>1 DEF CloseEnter
    <3>2. CASE ClosePubSub(c)
      BY <3>2 DEF ClosePubSub
    <3>3. CASE CloseClient(c)
      BY <3>3 DEF CloseClient
    <3>4. CASE CloseAgain(c)
      BY <3>4 DEF CloseAgain
    <3>5. QED
      BY <2>3, <3>1, <3>2, <3>3, <3>4 DEF CloseStep
  <2>4. CASE UNCHANGED vars
    BY <2>4 DEF vars
  <2>5. QED
    BY <2>1, <2>2, <2>3, <2>4 DEF Next
<1>3. Closing => CloseIsComplete
  BY DEF Closing
<1>4. QED
  BY <1>1, <1>2, <1>3, TypeCorrect, PTL DEF Spec

---------------------------------------------------------------------------
(* The receive loop and its consumer implement the latest-value register:   *)
(* the consumer only ever receives the hint emitted last, and the producer  *)
(* never waits for it.                                                      *)
THEOREM ImplementsRegister == Spec => RegisterSpec
<1> USE DEF Register!vars
<1>1. Init => Register!Init
  BY DEF Init, Register!Init
<1>2. TypeOK /\ Buffer /\ [Next]_vars => [Register!Next]_(Register!vars)
  <2> SUFFICES ASSUME TypeOK, Buffer, [Next]_vars
               PROVE  Register!Next \/ UNCHANGED Register!vars
    OBVIOUS
  <2>1. CASE \E m \in Hints \cup {BadPayload} : Deliver(m)
    BY <2>1 DEF Deliver
  <2>2. CASE Receive \/ CloseDone \/ SendWouldBlock
    BY <2>2 DEF Receive, CloseDone, SendWouldBlock
  <2>3. CASE Resend
    BY <2>3 DEF Resend, Buffer
  <2>4. CASE Send
    <3>1. Register!Offer(hint) /\ hint \in Hints
      BY <2>4 DEF Send, Buffer, Register!Offer
    <3>2. QED
      BY <3>1 DEF Register!Next
  <2>5. CASE Drain
    <3>1. Register!Offer(hint) /\ hint \in Hints
      BY <2>5 DEF Drain, Buffer, Register!Offer
    <3>2. QED
      BY <3>1 DEF Register!Next
  <2>6. CASE Stop
    <3>1. Register!Shut
      BY <2>6 DEF Stop, Return, Register!Shut
    <3>2. QED
      BY <3>1 DEF Register!Next
  <2>7. CASE ResendCancelled
    <3>1. Register!Shut
      BY <2>7 DEF ResendCancelled, Return, Register!Shut, Buffer
    <3>2. QED
      BY <3>1 DEF Register!Next
  <2>8. CASE Consume
    <3>1. Register!Take
      BY <2>8 DEF Consume, Buffer, Register!Take
    <3>2. QED
      BY <3>1 DEF Register!Next
  <2>9. CASE \E c \in Closers : CloseStep(c)
    BY <2>9 DEF CloseStep, CloseEnter, ClosePubSub, CloseClient, CloseAgain
  <2>10. CASE UNCHANGED vars
    BY <2>10 DEF vars
  <2>11. QED
    BY <2>1, <2>2, <2>3, <2>4, <2>5, <2>6, <2>7, <2>8, <2>9, <2>10 DEF Next, LoopStep
<1>3. QED
  BY <1>1, <1>2, TypeCorrect, PTL DEF Spec, RegisterSpec, Register!Spec

---------------------------------------------------------------------------
(* When nothing is on its way, the consumer holds the last decodable hint.  *)
THEOREM QuietIsCurrent == Spec => []QuietConsumerIsCurrent
<1>1. Init => LastGood
  BY DEF Init, LastGood, handled
<1>2. TypeOK /\ Buffer /\ LastGood /\ [Next]_vars => LastGood'
  <2> SUFFICES ASSUME TypeOK, Buffer, LastGood, [Next]_vars PROVE LastGood'
    OBVIOUS
  <2>1. ASSUME NEW m \in Hints \cup {BadPayload}, Deliver(m) PROVE LastGood'
    <3>1. /\ inbox' = Append(inbox, m)
          /\ handled' = handled
          /\ lastGood' = IF m \in Hints THEN m ELSE lastGood
      BY <2>1 DEF Deliver, handled
    <3>2. /\ Len(inbox') = Len(inbox) + 1 /\ Len(inbox) \in Nat
          /\ inbox'[Len(inbox) + 1] = m
          /\ \A i \in 1..Len(inbox) : inbox'[i] = inbox[i]
      BY <3>1 DEF TypeOK
    <3>3. QED
      BY <3>1, <3>2 DEF LastGood
  <2>2. CASE Receive
    <3>1. /\ inbox \in Seq(Hints \cup {BadPayload}) /\ inbox # <<>>
          /\ inbox' = Tail(inbox)
      BY <2>2 DEF Receive, TypeOK
    <3>2. /\ Len(inbox) \in Nat /\ Len(inbox') = Len(inbox) - 1 /\ Len(inbox) >= 1
          /\ \A i \in 1..Len(inbox') : inbox'[i] = inbox[i + 1]
          /\ Head(inbox) = inbox[1]
      BY <3>1
    <3>3. /\ inbox[1] \in Hints => handled' = inbox[1]
          /\ inbox[1] \notin Hints => handled' = handled
          /\ lastGood' = lastGood
      BY <2>2, <3>2 DEF Receive, handled
    <3>4. CASE \A i \in 1..Len(inbox) : inbox[i] \notin Hints
      BY <3>2, <3>3, <3>4 DEF LastGood
    <3>5. ASSUME NEW i \in 1..Len(inbox), inbox[i] = lastGood, lastGood \in Hints,
                 \A j \in 1..Len(inbox) : j > i => inbox[j] \notin Hints
          PROVE  LastGood'
      <4>1. CASE i = 1
        BY <3>2, <3>3, <3>5, <4>1 DEF LastGood
      <4>2. CASE i > 1
        <5>1. /\ i - 1 \in 1..Len(inbox') /\ inbox'[i - 1] = lastGood
              /\ \A j \in 1..Len(inbox') : j > i - 1 => inbox'[j] \notin Hints
          BY <3>2, <3>5, <4>2
        <5>2. QED
          BY <3>3, <3>5, <5>1 DEF LastGood
      <4>3. QED
        BY <4>1, <4>2
    <3>6. QED
      BY <3>4, <3>5 DEF LastGood
  <2>3. CASE LoopStep /\ ~Receive
    <3>1. inbox' = inbox /\ lastGood' = lastGood /\ handled' = handled
      BY <2>3 DEF LoopStep, Stop, Send, SendWouldBlock, Drain, Resend, ResendCancelled,
                  CloseDone, Return, handled
    <3>2. QED
      BY <3>1 DEF LastGood
  <2>4. CASE Consume \/ (\E c \in Closers : CloseStep(c)) \/ UNCHANGED vars
    <3>1. inbox' = inbox /\ lastGood' = lastGood /\ handled' = handled
      BY <2>4 DEF Consume, CloseStep, CloseEnter, ClosePubSub, CloseClient, CloseAgain, vars, handled
    <3>2. QED
      BY <3>1 DEF LastGood
  <2>5. QED
    BY <2>1, <2>2, <2>3, <2>4 DEF Next
<1>3. TypeOK /\ Buffer /\ LastGood => QuietConsumerIsCurrent
  <2> SUFFICES ASSUME TypeOK, Buffer, LastGood, pc = "select", inbox = <<>>, updates = <<>>
               PROVE  seen = lastGood
    BY DEF QuietConsumerIsCurrent
  <2>1. seen = emitted /\ handled = emitted
    BY DEF Buffer, handled
  <2>2. Len(inbox) = 0
    OBVIOUS
  <2>3. QED
    BY <2>1, <2>2 DEF LastGood
<1>4. QED
  BY <1>1, <1>2, <1>3, TypeCorrect, PTL DEF Spec
=============================================================================

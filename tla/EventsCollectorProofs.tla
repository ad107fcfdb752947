---------------------------- MODULE EventsCollectorProofs ----------------------------
(***************************************************************************)
(* For any number of containers and lines: the counters of a container are *)
(* at every moment the events among the lines its goroutine has read, and  *)
(* a stream ends after the last line written before the container's exit.  *)
(***************************************************************************)
EXTENDS EventsCollector, FiniteSetTheorems, TLAPS

\* The events among lines a + 1 to b of a log.
EventsOf(l, a, b) == {i \in (a + 1)..b : l[i] = "event"}

LEMMA EventsDef ==
    ASSUME NEW c \in Containers, NEW a, NEW b
    PROVE  Events(c, a, b) = Cardinality(EventsOf(log[c], a, b))
BY DEF Events, EventsOf

\* No line, no event.
LEMMA NoEvents ==
    ASSUME NEW l, NEW a \in Nat PROVE Cardinality(EventsOf(l, a, a)) = 0
<1>1. EventsOf(l, a, a) = {}
  BY DEF EventsOf
<1>2. QED
  BY <1>1, FS_EmptySet

LEMMA EventsFinite ==
    ASSUME NEW l, NEW a \in Nat, NEW b \in Nat
    PROVE  IsFiniteSet(EventsOf(l, a, b)) /\ Cardinality(EventsOf(l, a, b)) \in Nat
<1>1. IsFiniteSet((a + 1)..b)
  BY FS_Interval
<1>2. EventsOf(l, a, b) \in SUBSET ((a + 1)..b)
  BY DEF EventsOf
<1>3. IsFiniteSet(EventsOf(l, a, b))
  BY <1>1, <1>2, FS_Subset
<1>4. QED
  BY <1>3, FS_CardinalityType

\* One more line adds one event or none.
LEMMA OneMoreLine ==
    ASSUME NEW l, NEW a \in Nat, NEW b \in Nat, a <= b
    PROVE  Cardinality(EventsOf(l, a, b + 1)) =
             Cardinality(EventsOf(l, a, b)) + (IF l[b + 1] = "event" THEN 1 ELSE 0)
<1>1. CASE l[b + 1] = "event"
  <2>1. EventsOf(l, a, b + 1) = EventsOf(l, a, b) \cup {b + 1}
    BY <1>1 DEF EventsOf
  <2>2. b + 1 \notin EventsOf(l, a, b)
    BY DEF EventsOf
  <2>3. QED
    BY <1>1, <2>1, <2>2, EventsFinite, FS_AddElement
<1>2. CASE l[b + 1] # "event"
  <2>1. EventsOf(l, a, b + 1) = EventsOf(l, a, b)
    BY <1>2 DEF EventsOf
  <2>2. QED
    BY <1>2, <2>1, EventsFinite
<1>3. QED
  BY <1>1, <1>2

\* What is written later does not change what was read.
LEMMA OldEventsStay ==
    ASSUME NEW l \in Seq(Lines), NEW k \in Lines, NEW a \in Nat, NEW b \in Nat, b <= Len(l)
    PROVE  EventsOf(Append(l, k), a, b) = EventsOf(l, a, b)
BY DEF EventsOf

---------------------------------------------------------------------------
(* The inductive invariant. *)

\* Before `since` is read no goroutine runs.
NotFollowing ==
    pc \in {"list", "since"} => \A c \in Containers :
        /\ stream[c] \in (IF pc = "list" THEN {"none"} ELSE {"none", "starting"})
        /\ from[c] = 0 /\ next[c] = 0 /\ counted[c] = 0 /\ limit[c] = Open

\* An exit ends a stream at what had been written, which may not be read yet.
EndAhead ==
    \A c \in Containers : limit[c] # Open => next[c] <= limit[c] /\ limit[c] <= Len(log[c])

\* What is read is counted, once.
ReadIsCounted ==
    \A c \in Containers : counted[c] = Cardinality(EventsOf(log[c], from[c], next[c]))

\* A stream ends after its last line.
EndIsLast ==
    \A c \in Containers : stream[c] = "eof" => next[c] = limit[c]

\* The daemon leaves out nothing written after the clock was read.
SentSince == \A c \in Containers : from[c] <= asOf[c]

Inv == TypeOK /\ NotFollowing /\ EndAhead /\ ReadIsCounted /\ EndIsLast /\ SentSince

---------------------------------------------------------------------------
LEMMA InvInit == Init => Inv
<1> SUFFICES ASSUME Init PROVE Inv
  OBVIOUS
<1>1. TypeOK
  <2>1. log \in [Containers -> Seq(Lines)] /\ \A c \in Containers : Len(log[c]) = 0
    BY DEF Init
  <2>2. /\ from \in [Containers -> Nat] /\ asOf \in [Containers -> Nat]
        /\ next \in [Containers -> Nat]
        /\ limit \in [Containers -> Nat \cup {Open}] /\ counted \in [Containers -> Nat]
    BY DEF Init
  <2>3. \A c \in Containers : from[c] = 0 /\ next[c] = 0 /\ counted[c] = 0 /\ 0 <= MaxLines[c]
    BY CollectorAssumption DEF Init
  <2>4. /\ up \subseteq Containers /\ ctxDone \in BOOLEAN /\ pc = "list"
        /\ stream \in [Containers -> {"none", "starting", "open", "eof", "cut"}]
    BY DEF Init
  <2>5. QED
    BY <2>1, <2>2, <2>3, <2>4 DEF TypeOK
<1>2. NotFollowing /\ EndAhead /\ EndIsLast /\ SentSince
  BY DEF Init, NotFollowing, EndAhead, EndIsLast, SentSince
<1>3. ReadIsCounted
  BY NoEvents DEF Init, ReadIsCounted
<1>4. QED
  BY <1>1, <1>2, <1>3 DEF Inv

\* What the containers do.
LEMMA BootStep == ASSUME Inv, NEW c \in Containers, Boot(c) PROVE Inv'
<1> USE DEF Boot, main, streams
<1>1. TypeOK'
  BY DEF Inv, TypeOK
<1>2. QED
  BY <1>1 DEF Inv, NotFollowing, EndAhead, ReadIsCounted, EndIsLast, SentSince

LEMMA WriteStep ==
    ASSUME Inv, NEW c \in Containers, NEW k \in Lines, Write(c, k) PROVE Inv'
<1>1. /\ log \in [Containers -> Seq(Lines)]
      /\ log' = [log EXCEPT ![c] = Append(log[c], k)]
      /\ Len(log[c]) < MaxLines[c]
      /\ UNCHANGED <<up, pc, ctxDone, stream, from, asOf, next, limit, counted>>
  BY DEF Inv, TypeOK, Write, main, streams
<1>2. \A d \in Containers : /\ log[d] \in Seq(Lines) /\ Len(log[d]) \in Nat
                            /\ from[d] \in Nat /\ next[d] \in Nat /\ limit[d] \in Nat \cup {Open}
                            /\ next[d] <= Len(log[d]) /\ from[d] <= next[d]
                            /\ MaxLines[d] \in Nat
  BY CollectorAssumption DEF Inv, TypeOK
<1>3. \A d \in Containers : /\ log'[d] \in Seq(Lines)
                            /\ Len(log'[d]) = IF d = c THEN Len(log[d]) + 1 ELSE Len(log[d])
  BY <1>1, <1>2
<1>4. TypeOK'
  <2>1. log' \in [Containers -> Seq(Lines)]
    BY <1>1, <1>2
  <2>2. \A d \in Containers : Len(log'[d]) <= MaxLines[d] /\ next[d] <= Len(log'[d])
    BY <1>1, <1>2, <1>3 DEF Inv, TypeOK
  <2>3. QED
    BY <1>1, <2>1, <2>2 DEF Inv, TypeOK
<1>5. EndAhead'
  BY <1>1, <1>2, <1>3, CollectorAssumption DEF Inv, EndAhead
<1>6. ReadIsCounted'
  <2>1. \A d \in Containers : EventsOf(log'[d], from[d], next[d]) = EventsOf(log[d], from[d], next[d])
    BY <1>1, <1>2, OldEventsStay
  <2>2. QED
    BY <1>1, <2>1 DEF Inv, ReadIsCounted
<1>7. NotFollowing' /\ EndIsLast' /\ SentSince'
  BY <1>1 DEF Inv, NotFollowing, EndIsLast, SentSince
<1>8. QED
  BY <1>4, <1>5, <1>6, <1>7 DEF Inv

LEMMA ExitStep == ASSUME Inv, NEW c \in Containers, Exit(c) PROVE Inv'
<1>1. /\ UNCHANGED <<log, pc, ctxDone, stream, from, asOf, next, counted>>
      /\ up' = up \ {c}
      /\ limit' = IF stream[c] = "open" /\ limit[c] = Open
                  THEN [limit EXCEPT ![c] = Len(log[c])] ELSE limit
  BY DEF Exit, main
<1>2. limit' \in [Containers -> Nat \cup {Open}]
  BY <1>1 DEF Inv, TypeOK
<1>3. TypeOK'
  BY <1>1, <1>2 DEF Inv, TypeOK
<1>4. NotFollowing'
  BY <1>1 DEF Inv, NotFollowing
<1>5. EndAhead'
  BY <1>1 DEF Inv, TypeOK, EndAhead
<1>6. ReadIsCounted' /\ SentSince'
  BY <1>1 DEF Inv, ReadIsCounted, SentSince
<1>7. EndIsLast'
  BY <1>1 DEF Inv, TypeOK, EndIsLast
<1>8. QED
  BY <1>3, <1>4, <1>5, <1>6, <1>7 DEF Inv

\* What main does.
LEMMA SinceStep == ASSUME Inv, Since PROVE Inv'
<1>1. PICK f \in [Containers -> Lengths] :
        /\ \A c \in Containers : f[c] <= Len(log[c])
        /\ from' = f /\ next' = f
  BY DEF Since
<1>2. /\ pc = "since" /\ pc' = "serve"
      /\ asOf' = [c \in Containers |-> Len(log[c])]
      /\ UNCHANGED <<up, log, ctxDone, stream, limit, counted>>
  BY DEF Since
<1>3. f \in [Containers -> Nat]
  <2>1. Lengths \subseteq Nat
    BY CollectorAssumption DEF Lengths
  <2>2. QED
    BY <2>1
<1>4. \A c \in Containers : counted[c] = 0 /\ limit[c] = Open /\ stream[c] # "eof"
  BY <1>2 DEF Inv, NotFollowing
<1>5. TypeOK'
  <2>1. asOf' \in [Containers -> Nat]
    BY <1>2 DEF Inv, TypeOK
  <2>2. QED
    BY <1>1, <1>2, <1>3, <1>4, <2>1 DEF Inv, TypeOK
<1>6. NotFollowing' /\ EndAhead' /\ EndIsLast' /\ SentSince'
  BY <1>1, <1>2, <1>4 DEF NotFollowing, EndAhead, EndIsLast, SentSince
<1>7. ReadIsCounted'
  BY <1>1, <1>2, <1>3, <1>4, NoEvents DEF ReadIsCounted
<1>8. QED
  BY <1>5, <1>6, <1>7 DEF Inv

LEMMA MainSteps ==
    ASSUME Inv,
           ContainerList \/ ListFails \/ Signal \/ Leave \/ Shutdown \/ Finish \/ UNCHANGED vars
    PROVE  Inv'
<1> USE DEF Inv, TypeOK, NotFollowing, EndAhead, ReadIsCounted, EndIsLast, SentSince, main, streams
<1>1. CASE ContainerList
  BY <1>1 DEF ContainerList
<1>2. CASE ListFails
  BY <1>2 DEF ListFails
<1>3. CASE Signal
  BY <1>3 DEF Signal
<1>4. CASE Leave
  BY <1>4 DEF Leave
<1>5. CASE Shutdown
  BY <1>5 DEF Shutdown
<1>6. CASE Finish
  BY <1>6 DEF Finish
<1>7. CASE UNCHANGED vars
  BY <1>7 DEF vars
<1>8. QED
  BY <1>1, <1>2, <1>3, <1>4, <1>5, <1>6, <1>7

\* What the goroutines do.
LEMMA SubscribeStep == ASSUME Inv, NEW c \in Containers, Subscribe(c) PROVE Inv'
<1>1. /\ UNCHANGED <<up, log, pc, ctxDone, from, asOf, next, counted>>
      /\ stream[c] = "starting" /\ pc # "since"
      /\ stream' = [stream EXCEPT ![c] = "open"]
      /\ limit' = IF c \in up THEN limit ELSE [limit EXCEPT ![c] = Len(log[c])]
  BY DEF Subscribe, main
<1>2. TypeOK'
  BY <1>1 DEF Inv, TypeOK
<1>3. pc # "list"
  BY <1>1 DEF Inv, NotFollowing
<1>4. NotFollowing'
  BY <1>1, <1>3 DEF NotFollowing
<1>5. EndAhead'
  BY <1>1 DEF Inv, TypeOK, EndAhead
<1>6. ReadIsCounted' /\ SentSince'
  BY <1>1 DEF Inv, ReadIsCounted, SentSince
<1>7. EndIsLast'
  BY <1>1 DEF Inv, TypeOK, EndIsLast
<1>8. QED
  BY <1>2, <1>4, <1>5, <1>6, <1>7 DEF Inv

LEMMA ReadStep == ASSUME Inv, NEW c \in Containers, Read(c) PROVE Inv'
<1>1. /\ UNCHANGED <<up, log, pc, ctxDone, stream, from, asOf, limit>>
      /\ stream[c] = "open"
      /\ next[c] < End(c)
      /\ counted' = IF log[c][next[c] + 1] = "event"
                    THEN [counted EXCEPT ![c] = @ + 1] ELSE counted
      /\ next' = [next EXCEPT ![c] = @ + 1]
  BY DEF Read, main
<1>2. /\ \A d \in Containers : /\ from[d] \in Nat /\ next[d] \in Nat /\ counted[d] \in Nat
                               /\ Len(log[d]) \in Nat /\ limit[d] \in Nat \cup {Open}
                               /\ from[d] <= next[d]
      /\ counted \in [Containers -> Nat] /\ next \in [Containers -> Nat]
  BY DEF Inv, TypeOK
<1>3. next[c] + 1 <= Len(log[c]) /\ (limit[c] # Open => next[c] + 1 <= limit[c])
  BY <1>1, <1>2 DEF End, Inv, EndAhead
<1>4. \A d \in Containers : next'[d] = IF d = c THEN next[d] + 1 ELSE next[d]
  BY <1>1, <1>2
<1>5. \A d \in Containers :
        counted'[d] = IF d = c /\ log[c][next[c] + 1] = "event" THEN counted[d] + 1 ELSE counted[d]
  BY <1>1, <1>2
<1>6. TypeOK'
  <2>1. next' \in [Containers -> Nat] /\ counted' \in [Containers -> Nat]
    BY <1>1, <1>2
  <2>2. \A d \in Containers : /\ next[d] <= Len(log[d]) /\ counted[d] <= next[d] - from[d]
                              /\ Len(log[d]) <= MaxLines[d]
    BY DEF Inv, TypeOK
  <2>3. ASSUME NEW d \in Containers
        PROVE  /\ from[d] <= next'[d] /\ next'[d] <= Len(log[d])
               /\ counted'[d] <= next'[d] - from[d]
    <3>1. CASE d = c
      <4>1. next'[c] = next[c] + 1 /\ counted'[c] \in {counted[c], counted[c] + 1}
        BY <1>4, <1>5
      <4>2. next[c] + 1 <= Len(log[c])
        BY <1>3
      <4>3. QED
        BY <1>2, <2>2, <3>1, <4>1, <4>2
    <3>2. CASE d # c
      BY <1>2, <1>4, <1>5, <2>2, <3>2
    <3>3. QED
      BY <3>1, <3>2
  <2>4. QED
    BY <1>1, <2>1, <2>3 DEF Inv, TypeOK
<1>7. NotFollowing'
  BY <1>1 DEF Inv, NotFollowing
<1>8. EndAhead'
  BY <1>1, <1>3, <1>4 DEF Inv, EndAhead
<1>9. ReadIsCounted'
  <2>1. Cardinality(EventsOf(log[c], from[c], next[c] + 1)) =
          Cardinality(EventsOf(log[c], from[c], next[c])) + (IF log[c][next[c] + 1] = "event" THEN 1 ELSE 0)
    BY <1>2, OneMoreLine
  <2>2. QED
    BY <1>1, <1>2, <1>4, <1>5, <2>1 DEF Inv, ReadIsCounted
<1>10. EndIsLast' /\ SentSince'
  BY <1>1, <1>4 DEF Inv, EndIsLast, SentSince
<1>11. QED
  BY <1>6, <1>7, <1>8, <1>9, <1>10 DEF Inv

LEMMA EndSteps == ASSUME Inv, NEW c \in Containers, Cut(c) \/ Eof(c) PROVE Inv'
<1> USE DEF Inv, TypeOK, NotFollowing, EndAhead, ReadIsCounted, EndIsLast, SentSince, main
<1>1. CASE Cut(c)
  BY <1>1 DEF Cut
<1>2. CASE Eof(c)
  BY <1>2 DEF Eof
<1>3. QED
  BY <1>1, <1>2

---------------------------------------------------------------------------
\* Every step of main, of a goroutine and of a container keeps the counters
\* equal to the events read so far.
THEOREM Invariance == Spec => []Inv
<1>1. Inv /\ [Next]_vars => Inv'
  BY BootStep, WriteStep, ExitStep, SinceStep, MainSteps, SubscribeStep, ReadStep, EndSteps
     DEF Next, MainStep, Reader
<1>2. QED
  BY InvInit, <1>1, PTL DEF Spec

\* The types, and that a goroutine never counts more than it read, nor reads
\* more than was written.
THEOREM TypeCorrect == Spec => []TypeOK
<1>1. Inv => TypeOK
  BY DEF Inv
<1>2. QED
  BY <1>1, Invariance, PTL

\* When a container's exit has ended its stream, the counters have each event it
\* wrote up to that exit after the clock was read, and of the earlier ones at most
\* the latest: the witness is where the daemon began to send.
THEOREM LastWords == Spec => []LastWordsCounted
<1>1. ASSUME Inv, NEW c \in Containers, stream[c] = "eof"
      PROVE  \E a \in 0..asOf[c] : counted[c] = Events(c, a, limit[c])
  <2>1. from[c] \in 0..asOf[c]
    BY <1>1 DEF Inv, TypeOK, SentSince
  <2>2. counted[c] = Events(c, from[c], limit[c])
    BY <1>1, EventsDef DEF Inv, ReadIsCounted, EndIsLast
  <2>3. QED
    BY <2>1, <2>2
<1>2. Inv => LastWordsCounted
  BY <1>1 DEF LastWordsCounted
<1>3. QED
  BY <1>2, Invariance, PTL
=============================================================================

------------------------------ MODULE RoutingHints ------------------------------
(***************************************************************************)
(* sdk/config/sync.go: RoutingHintsSubscriber.  One goroutine moves the     *)
(* messages of a Redis subscription into the channel Updates() returns,     *)
(* which holds one hint and drops a stale one; a consumer (the log loop of  *)
(* app/cmd/service) ranges over that channel; any number of goroutines may  *)
(* call Close.                                                              *)
(*                                                                          *)
(* The go-redis PubSub is external: a Go channel of messages, fed by a      *)
(* goroutine of its own, which drops a message when the channel stays full  *)
(* and closes it when the PubSub is closed.                                 *)
(***************************************************************************)
EXTENDS Naturals, Sequences

CONSTANTS
    Hints,      \* the hints that may be published on routing:<service>
    NoHint,     \* no hint yet
    BadPayload, \* a message json.Unmarshal rejects
    Closers,    \* goroutines that may call Close
    InboxCap    \* bound: messages the PubSub channel buffers (100 in go-redis)

ASSUME HintsAssumption ==
    /\ NoHint \notin Hints
    /\ BadPayload \notin Hints
    /\ InboxCap \in Nat \ {0}

VARIABLES
    inbox,      \* pubsub.Channel()
    inboxOpen,  \* pubsub.Close has not been called
    cancelled,  \* ctx is done
    pc,         \* where loop is
    hint,       \* the hint loop has decoded
    updates,    \* the buffered channel
    done,       \* closed: loop has returned (updates is closed before it)
    closer,     \* where each caller of Close is
    clientOpen, \* s.client
    seen,       \* the hint the consumer received last
    emitted,    \* history: the hint loop last put into updates
    lastGood    \* history: the last decodable message put into inbox

loopVars == <<pc, hint, updates, done, emitted>>
vars == <<inbox, inboxOpen, cancelled, loopVars, closer, clientOpen, seen, lastGood>>

Slot(S) == {<<>>} \cup {<<v>> : v \in S}

TypeOK ==
    /\ inbox \in Seq(Hints \cup {BadPayload}) /\ Len(inbox) <= InboxCap
    /\ inboxOpen \in BOOLEAN
    /\ cancelled \in BOOLEAN
    /\ pc \in {"select", "send", "drain", "resend", "returned"}
    /\ hint \in Hints \cup {NoHint}
    /\ updates \in Slot(Hints)
    /\ done \in BOOLEAN
    /\ closer \in [Closers -> {"none", "blocked", "in_once", "await", "returned"}]
    /\ clientOpen \in BOOLEAN
    /\ seen \in Hints \cup {NoHint}
    /\ emitted \in Hints \cup {NoHint}
    /\ lastGood \in Hints \cup {NoHint}

\* NewRoutingHintsSubscriber has pinged Redis and confirmed the subscription.
Init ==
    /\ inbox = <<>> /\ inboxOpen = TRUE
    /\ cancelled = FALSE
    /\ pc = "select"
    /\ hint = NoHint
    /\ updates = <<>>
    /\ done = FALSE
    /\ closer = [c \in Closers |-> "none"]
    /\ clientOpen = TRUE
    /\ seen = NoHint
    /\ emitted = NoHint
    /\ lastGood = NoHint

---------------------------------------------------------------------------
(* The PubSub *)

Deliver(m) ==
    /\ inboxOpen
    /\ Len(inbox) < InboxCap
    /\ inbox' = Append(inbox, m)
    /\ lastGood' = IF m \in Hints THEN m ELSE lastGood
    /\ UNCHANGED <<inboxOpen, cancelled, loopVars, closer, clientOpen, seen>>

---------------------------------------------------------------------------
(* loop *)

Return ==
    /\ pc' = "returned"
    /\ UNCHANGED <<hint, updates, done, emitted>>

Receive ==
    /\ pc = "select"
    /\ inbox # <<>>
    /\ inbox' = Tail(inbox)
    /\ IF Head(inbox) \in Hints
       THEN pc' = "send" /\ hint' = Head(inbox)
       ELSE UNCHANGED <<pc, hint>>     \* decode error: logged, skipped
    /\ UNCHANGED <<inboxOpen, cancelled, updates, done, emitted, closer, clientOpen, seen,
                   lastGood>>

\* select takes ctx.Done, or a receive from the closed, drained channel.
Stop ==
    /\ pc = "select"
    /\ cancelled \/ (~inboxOpen /\ inbox = <<>>)
    /\ Return
    /\ UNCHANGED <<inbox, inboxOpen, cancelled, closer, clientOpen, seen, lastGood>>

Send ==
    /\ pc = "send"
    /\ updates = <<>>
    /\ updates' = <<hint>>
    /\ emitted' = hint
    /\ pc' = "select"
    /\ UNCHANGED <<inbox, inboxOpen, cancelled, hint, done, closer, clientOpen, seen, lastGood>>

\* Mutant: the new hint is dropped instead of the stale one.
DropNewest ==
    /\ pc = "send"
    /\ updates # <<>>
    /\ pc' = "select"
    /\ UNCHANGED <<inbox, inboxOpen, cancelled, hint, updates, done, emitted, closer,
                   clientOpen, seen, lastGood>>

\* Mutant: a bare send waits for the consumer.
SendBlocks ==
    /\ pc = "send"
    /\ updates # <<>>
    /\ UNCHANGED vars

SendWouldBlock ==
    /\ pc = "send"
    /\ updates # <<>>
    /\ pc' = "drain"
    /\ UNCHANGED <<inbox, inboxOpen, cancelled, hint, updates, done, emitted, closer,
                   clientOpen, seen, lastGood>>

\* Mutant: after draining the loop goes back to select.
DrainOnly ==
    /\ pc = "drain"
    /\ updates' = <<>>
    /\ emitted' = hint
    /\ pc' = "select"
    /\ UNCHANGED <<inbox, inboxOpen, cancelled, hint, done, closer, clientOpen, seen, lastGood>>

\* The stale value is taken out, unless the consumer was quicker.
Drain ==
    /\ pc = "drain"
    /\ updates' = <<>>
    /\ emitted' = hint
    /\ pc' = "resend"
    /\ UNCHANGED <<inbox, inboxOpen, cancelled, hint, done, closer, clientOpen, seen, lastGood>>

Resend ==
    /\ pc = "resend"
    /\ updates = <<>>
    /\ updates' = <<hint>>
    /\ pc' = "select"
    /\ UNCHANGED <<inbox, inboxOpen, cancelled, hint, done, emitted, closer, clientOpen, seen,
                   lastGood>>

ResendCancelled ==
    /\ pc = "resend"
    /\ cancelled
    /\ Return
    /\ UNCHANGED <<inbox, inboxOpen, cancelled, closer, clientOpen, seen, lastGood>>

\* The deferred calls: close(updates), then close(done).
CloseDone ==
    /\ pc = "returned" /\ ~done
    /\ done' = TRUE
    /\ UNCHANGED <<inbox, inboxOpen, cancelled, pc, hint, updates, emitted, closer, clientOpen,
                   seen, lastGood>>

---------------------------------------------------------------------------
(* The consumer *)

Consume ==
    /\ updates # <<>>
    /\ seen' = Head(updates)
    /\ updates' = <<>>
    /\ UNCHANGED <<inbox, inboxOpen, cancelled, pc, hint, done, emitted, closer, clientOpen,
                   lastGood>>

---------------------------------------------------------------------------
(* Close: closeOnce lets one caller in; the others wait until it is out *)

CloseEnter(c) ==
    /\ closer[c] = "none"
    /\ closer' = [closer EXCEPT ![c] =
                    IF \A d \in Closers : closer[d] = "none" THEN "in_once" ELSE "blocked"]
    /\ cancelled' = TRUE
    /\ UNCHANGED <<inbox, inboxOpen, loopVars, clientOpen, seen, lastGood>>

ClosePubSub(c) ==
    /\ closer[c] = "in_once"
    /\ inboxOpen' = FALSE
    /\ closer' = [closer EXCEPT ![c] = "await"]
    /\ UNCHANGED <<inbox, cancelled, loopVars, clientOpen, seen, lastGood>>

CloseClient(c) ==
    /\ closer[c] = "await"
    /\ done
    /\ clientOpen' = FALSE
    /\ closer' = [closer EXCEPT ![c] = "returned"]
    /\ UNCHANGED <<inbox, inboxOpen, cancelled, loopVars, seen, lastGood>>

\* Mutant: a closed flag instead of sync.Once.
CloseAgainAtOnce(c) ==
    /\ closer[c] = "blocked"
    /\ closer' = [closer EXCEPT ![c] = "returned"]
    /\ UNCHANGED <<inbox, inboxOpen, cancelled, loopVars, clientOpen, seen, lastGood>>

CloseAgain(c) ==
    /\ closer[c] = "blocked"
    /\ \A d \in Closers : closer[d] \notin {"in_once", "await"}
    /\ closer' = [closer EXCEPT ![c] = "returned"]
    /\ UNCHANGED <<inbox, inboxOpen, cancelled, loopVars, clientOpen, seen, lastGood>>

---------------------------------------------------------------------------
LoopStep ==
    \/ Receive \/ Stop \/ Send \/ SendWouldBlock \/ Drain \/ Resend
    \/ ResendCancelled \/ CloseDone

CloseStep(c) == CloseEnter(c) \/ ClosePubSub(c) \/ CloseClient(c) \/ CloseAgain(c)

Next ==
    \/ \E m \in Hints \cup {BadPayload} : Deliver(m)
    \/ LoopStep
    \/ Consume
    \/ \E c \in Closers : CloseStep(c)

Spec == Init /\ [][Next]_vars

(***************************************************************************)
(* The goroutine of loop is scheduled, select picks ctx.Done in the end     *)
(* although messages keep coming (it chooses at random), and a caller       *)
(* inside Close runs on.  Nobody is forced to consume, to publish or to     *)
(* call Close.                                                              *)
(***************************************************************************)
LoopFairness ==
    /\ WF_vars(LoopStep)
    /\ SF_vars(Stop)
    /\ \A c \in Closers :
         WF_vars(ClosePubSub(c)) /\ WF_vars(CloseClient(c)) /\ WF_vars(CloseAgain(c))

FairSpec == Spec /\ LoopFairness

---------------------------------------------------------------------------
(* Properties *)

\* "Single writer + buffer 1 makes the bare send safe" (sync.go:175-178):
\* the second send of a hint always finds the buffer empty.
ResendNeverBlocks == pc = "resend" => updates = <<>>

\* When nothing is on its way any more, the consumer has received the last
\* decodable hint: bursts, bad messages and a slow consumer lose only
\* hints a newer one replaced.
QuietConsumerIsCurrent ==
    (pc = "select" /\ inbox = <<>> /\ updates = <<>>) => seen = lastGood

\* A Close that has returned - the first or any later one - leaves neither
\* the goroutine nor the Redis connection behind.
CloseIsComplete ==
    \A c \in Closers : closer[c] = "returned" => done /\ ~clientOpen

\* Close always returns, even when nobody reads Updates() any more.
CloseReturns ==
    \A c \in Closers : closer[c] # "none" ~> closer[c] = "returned"

\* The channel is the latest-value register LatestValue specifies: between
\* taking out a stale hint and putting in its successor, the successor
\* counts as offered.
Register == INSTANCE LatestValue WITH
    Values  <- Hints,
    NoValue <- NoHint,
    latest  <- emitted,
    fresh   <- updates # <<>> \/ pc = "resend",
    seen    <- seen,
    open    <- pc # "returned"

RegisterSpec == Register!Spec
=============================================================================

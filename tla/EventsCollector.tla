------------------------------- MODULE EventsCollector -------------------------------
(***************************************************************************)
(* cmd/events-collector: at start it lists the running app containers and  *)
(* follows the stdout of each in a goroutine, which counts the telemetry   *)
(* events it can parse.  The Docker daemon ends a stream when the          *)
(* container of the listing exits; containers write, exit and boot again   *)
(* at any time.  Counts stand for all four metric vectors: an event adds   *)
(* to events_total and to the vector of its kind.                          *)
(***************************************************************************)
EXTENDS Integers, Sequences, FiniteSets

CONSTANTS
    Containers, \* labelled gateway.component=app
    MaxLines,   \* bound: lines each writes
    Open        \* the end of a stream whose container is up

ASSUME CollectorAssumption ==
    /\ MaxLines \in [Containers -> Nat]
    /\ Open \notin Nat

\* An event with service and zone, or a line that is none or that record drops.
Lines == {"event", "junk"}

VARIABLES
    up,      \* running containers
    log,     \* what each wrote, restarts included
    pc,      \* where main is
    ctxDone, \* the context of NotifyContext
    stream,  \* the goroutine of each container
    from,    \* how many of a log's first lines the daemon does not send
    asOf,    \* history: lines a container had written when `since` was read
    next,    \* lines read so far, those not sent included
    limit,   \* where the container's exit ends the stream; Open before that
    counted  \* the counters

main == <<pc, ctxDone>>
streams == <<stream, from, asOf, next, limit, counted>>
vars == <<up, log, main, streams>>

\* How much of a log may have been written, or read.
Lengths == UNION {0..MaxLines[c] : c \in Containers}

TypeOK ==
    /\ up \subseteq Containers
    /\ log \in [Containers -> Seq(Lines)]
    /\ \A c \in Containers : Len(log[c]) <= MaxLines[c]
    /\ pc \in {"list", "since", "serve", "shutdown", "wait", "exited", "exit1"}
    /\ ctxDone \in BOOLEAN
    /\ stream \in [Containers -> {"none", "starting", "open", "eof", "cut"}]
    /\ from \in [Containers -> Nat] /\ asOf \in [Containers -> Nat]
    /\ next \in [Containers -> Nat]
    /\ limit \in [Containers -> Nat \cup {Open}]
    /\ counted \in [Containers -> Nat]
    /\ \A c \in Containers : /\ from[c] <= next[c] /\ next[c] <= Len(log[c])
                           /\ counted[c] <= next[c] - from[c]

Init ==
    /\ up \in SUBSET Containers
    /\ log = [c \in Containers |-> <<>>]
    /\ pc = "list" /\ ctxDone = FALSE
    /\ stream = [c \in Containers |-> "none"]
    /\ from = [c \in Containers |-> 0] /\ asOf = [c \in Containers |-> 0]
    /\ next = [c \in Containers |-> 0]
    /\ limit = [c \in Containers |-> Open]
    /\ counted = [c \in Containers |-> 0]

---------------------------------------------------------------------------
(* The containers; bound: nothing is of interest once the collector is gone. *)

Alive == pc \notin {"exited", "exit1"}

Boot(c) ==
    /\ Alive /\ c \notin up
    /\ up' = up \cup {c}
    /\ UNCHANGED <<log, main, streams>>

Write(c, k) ==
    /\ Alive /\ c \in up
    /\ Len(log[c]) < MaxLines[c]
    /\ log' = [log EXCEPT ![c] = Append(@, k)]
    /\ UNCHANGED <<up, main, streams>>

\* The daemon sends what was written so far, and then ends the stream.
Exit(c) ==
    /\ Alive /\ c \in up
    /\ up' = up \ {c}
    /\ limit' = IF stream[c] = "open" /\ limit[c] = Open
                THEN [limit EXCEPT ![c] = Len(log[c])] ELSE limit
    /\ UNCHANGED <<log, main, stream, from, asOf, next, counted>>

---------------------------------------------------------------------------
(* main *)

ContainerList ==
    /\ pc = "list"
    /\ ~ctxDone
    /\ stream' = [c \in Containers |-> IF c \in up THEN "starting" ELSE "none"]
    /\ pc' = "since"
    /\ UNCHANGED <<up, log, ctxDone, from, asOf, next, limit, counted>>

ListFails ==
    /\ pc = "list"
    /\ pc' = "exit1"
    /\ UNCHANGED <<up, log, ctxDone, streams>>

\* The clock is read, in whole seconds.  Whatever a container writes from now on
\* the daemon sends.  How far back it begins is its own affair: with the current
\* second or, if the comment at 232-233 is right, with lines older than `since`.
\* What a container wrote after the listing is lost when a second has begun in
\* between.  The goroutines and the HTTP server are started.
Since ==
    /\ pc = "since"
    /\ \E f \in [Containers -> Lengths] :
         /\ \A c \in Containers : f[c] <= Len(log[c])
         /\ from' = f /\ next' = f
    /\ asOf' = [c \in Containers |-> Len(log[c])]
    /\ pc' = "serve"
    /\ UNCHANGED <<up, log, ctxDone, stream, limit, counted>>

Signal ==
    /\ ~ctxDone
    /\ ctxDone' = TRUE
    /\ UNCHANGED <<up, log, pc, streams>>

\* The signal is seen, or the HTTP server failed.
Leave ==
    /\ pc = "serve"
    /\ pc' = "shutdown"
    /\ UNCHANGED <<up, log, ctxDone, streams>>

\* Mutant: without stop() the streams are only ended by a signal.
ShutdownOnly ==
    /\ pc = "shutdown"
    /\ pc' = "wait"
    /\ UNCHANGED <<up, log, ctxDone, streams>>

\* srv.Shutdown, for at most 5s, then stop().
Shutdown ==
    /\ pc = "shutdown"
    /\ pc' = "wait"
    /\ ctxDone' = TRUE
    /\ UNCHANGED <<up, log, streams>>

\* wg.Wait
Finish ==
    /\ pc = "wait"
    /\ \A c \in Containers : stream[c] \notin {"starting", "open"}
    /\ pc' = "exited"
    /\ UNCHANGED <<up, log, ctxDone, streams>>

---------------------------------------------------------------------------
(* streamContainer *)

\* Mutant: the containers are followed one after the other (the `go` is lost).
SubscribeInTurn(c) ==
    /\ stream[c] = "starting" /\ pc # "since"
    /\ \A d \in Containers : stream[d] # "open"
    /\ stream' = [stream EXCEPT ![c] = "open"]
    /\ limit' = IF c \in up THEN limit ELSE [limit EXCEPT ![c] = Len(log[c])]
    /\ UNCHANGED <<up, log, main, from, asOf, next, counted>>

\* Mutant: a stream that ended is opened again, with the same Since.
SubscribeAgain(c) ==
    /\ stream[c] \in {"starting", "eof"} /\ pc # "since"
    /\ stream' = [stream EXCEPT ![c] = "open"]
    /\ next' = [next EXCEPT ![c] = from[c]]
    /\ limit' = [limit EXCEPT ![c] = IF c \in up THEN Open ELSE Len(log[c])]
    /\ UNCHANGED <<up, log, main, from, asOf, counted>>

\* ContainerLogs; of a container that has exited it sends what there is.
Subscribe(c) ==
    /\ stream[c] = "starting" /\ pc # "since"
    /\ stream' = [stream EXCEPT ![c] = "open"]
    /\ limit' = IF c \in up THEN limit ELSE [limit EXCEPT ![c] = Len(log[c])]
    /\ UNCHANGED <<up, log, main, from, asOf, next, counted>>

\* An error of ContainerLogs or of the stream, a line longer than the scanner's
\* buffer (any line may be one), or a cancelled context.
Cut(c) ==
    /\ stream[c] \in {"starting", "open"} /\ pc # "since"
    /\ stream' = [stream EXCEPT ![c] = "cut"]
    /\ UNCHANGED <<up, log, main, from, asOf, next, limit, counted>>

End(c) == IF limit[c] = Open THEN Len(log[c]) ELSE limit[c]

\* The scanner's next line.
Read(c) ==
    /\ stream[c] = "open"
    /\ next[c] < End(c)
    /\ counted' = IF log[c][next[c] + 1] = "event"
                  THEN [counted EXCEPT ![c] = @ + 1] ELSE counted
    /\ next' = [next EXCEPT ![c] = @ + 1]
    /\ UNCHANGED <<up, log, main, stream, from, asOf, limit>>

\* Mutant: the end of the stream overtakes what the pipe still holds.
EofEarly(c) ==
    /\ stream[c] = "open"
    /\ limit[c] # Open
    /\ stream' = [stream EXCEPT ![c] = "eof"]
    /\ UNCHANGED <<up, log, main, from, asOf, next, limit, counted>>

\* The pipe is closed after the last line went through it.
Eof(c) ==
    /\ stream[c] = "open"
    /\ next[c] = limit[c]
    /\ stream' = [stream EXCEPT ![c] = "eof"]
    /\ UNCHANGED <<up, log, main, from, asOf, next, limit, counted>>

---------------------------------------------------------------------------
Reader(c) == Subscribe(c) \/ Read(c) \/ Eof(c) \/ (ctxDone /\ Cut(c))

MainStep == ContainerList \/ Since \/ Shutdown \/ Finish \/ (ctxDone /\ Leave)

Next ==
    \/ \E c \in Containers :
         Boot(c) \/ Exit(c) \/ Reader(c) \/ Cut(c) \/ \E k \in Lines : Write(c, k)
    \/ MainStep \/ ListFails \/ Leave \/ Signal

\* Goroutines run, a cancelled stream ends, and main runs on; containers,
\* failures and signals are owed by nobody.
Spec ==
    /\ Init /\ [][Next]_vars
    /\ WF_vars(MainStep)
    /\ \A c \in Containers : WF_vars(Reader(c))

---------------------------------------------------------------------------
(* Properties *)

Events(c, a, b) == Cardinality({i \in (a + 1)..b : log[c][i] = "event"})

\* A container's last words are counted: when its exit has ended the stream, the
\* counters have each event it wrote up to that exit since the clock was read - it
\* may have exited before its goroutine subscribed, or booted again since - and of
\* the earlier ones none but the latest, each once.
LastWordsCounted ==
    \A c \in Containers :
        stream[c] = "eof" => \E a \in 0..asOf[c] : counted[c] = Events(c, a, limit[c])

\* A line of a listed container is read sooner or later, however the others
\* write, exit and boot, unless its stream is cut: no container waits for
\* another one's stream to end.
FollowedIsRead ==
    \A c \in Containers : \A n \in 1..MaxLines[c] :
        stream[c] \in {"starting", "open"} /\ End(c) >= n
            ~> next[c] >= n \/ stream[c] = "cut"

\* Once main leaves its select, on a signal or because the HTTP server failed,
\* it gets past wg.Wait although the containers go on writing.
ExitCompletes == pc = "shutdown" ~> pc = "exited"
=============================================================================

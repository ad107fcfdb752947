----------------------------- MODULE MCEventsCollector -----------------------------
(* An instance of EventsCollector for TLC: one container with a log, and one   *)
(* of a single line for it to interleave and to shut down with.               *)
EXTENDS EventsCollector, TLC

CONSTANTS c1, c2

MCMaxLines == (c1 :> 2) @@ (c2 :> 1)
=============================================================================

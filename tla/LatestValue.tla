------------------------------- MODULE LatestValue -------------------------------
(***************************************************************************)
(* What the buffered "drop-stale" channels of the SDK promise (RoutingHints *)
(* updates, Watcher subscriptions): a producer that never waits, and a      *)
(* consumer that only ever receives the value offered last.                 *)
(***************************************************************************)
CONSTANTS Values, NoValue

VARIABLES
    latest,  \* the value offered last
    fresh,   \* it has not been received yet
    seen,    \* the value the consumer received last
    open     \* the channel may still be offered values

vars == <<latest, fresh, seen, open>>

Init ==
    /\ latest = NoValue
    /\ fresh = FALSE
    /\ seen = NoValue
    /\ open = TRUE

\* An unreceived value is overwritten: the producer never waits.
Offer(v) ==
    /\ open
    /\ latest' = v
    /\ fresh' = TRUE
    /\ UNCHANGED <<seen, open>>

Take ==
    /\ fresh
    /\ seen' = latest
    /\ fresh' = FALSE
    /\ UNCHANGED <<latest, open>>

\* A value not yet received may be lost when the channel is shut.
Shut ==
    /\ open
    /\ open' = FALSE
    /\ fresh' \in {fresh, FALSE}
    /\ UNCHANGED <<latest, seen>>

Next == (\E v \in Values : Offer(v)) \/ Take \/ Shut

Spec == Init /\ [][Next]_vars
=============================================================================

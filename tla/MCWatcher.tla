------------------------------- MODULE MCWatcher -------------------------------
(* Instances of Watcher for TLC. *)
EXTENDS Watcher

CONSTANTS a, b, z1 \* settings, and the zone of the environment
=============================================================================

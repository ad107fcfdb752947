---------------------------- MODULE MCRoutingHints ----------------------------
(* Instances of RoutingHints for TLC. *)
EXTENDS RoutingHints

CONSTANTS h1, h2, c1, c2
=============================================================================

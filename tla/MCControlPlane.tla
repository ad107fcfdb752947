---------------------------- MODULE MCControlPlane ----------------------------
(* Instances of ControlPlane for TLC. *)
EXTENDS ControlPlane, TLC

CONSTANTS s1, s2, w1, w2

\* An answer that limits one service only.
Usual == [weights |-> s1 :> w1 @@ s2 :> w2, rates |-> s1 :> 1]

MCPayloads == {EmptyPayload, Usual}

\* One answer that names both services everywhere.
OnePayload == {[weights |-> s1 :> w1 @@ s2 :> w2, rates |-> s1 :> 1 @@ s2 :> 2]}
=============================================================================

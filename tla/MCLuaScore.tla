------------------------------ MODULE MCLuaScore ------------------------------
(* Instances of LuaScore for TLC. *)
EXTENDS LuaScore, TLC

CONSTANTS r1, r2, a

Symmetry == Permutations({r1, r2})

MCWeights == {0, 2, 3}
=============================================================================

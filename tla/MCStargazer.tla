---------------------------- MODULE MCStargazer ----------------------------
(* Small instances of Stargazer for TLC. *)
EXTENDS Stargazer, TLC

CONSTANTS c1, c2

MCIds == {c1, c2}
MCSymmetry == Permutations(MCIds)
=============================================================================

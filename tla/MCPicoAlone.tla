---- MODULE MCPicoAlone ----
(* Small instances of PicoAlone for TLC. *)
EXTENDS PicoAlone, TLC

CONSTANTS c1, c2

MCIds == {c1, c2}
MCSymmetry == Permutations(MCIds)
====

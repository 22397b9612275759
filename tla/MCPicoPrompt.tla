---------------------------- MODULE MCPicoPrompt ----------------------------
(* A small instance of PicoPrompt for TLC. *)
EXTENDS PicoPrompt

CONSTANT c1
=============================================================================

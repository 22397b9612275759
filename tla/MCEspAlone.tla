----------------------------- MODULE MCEspAlone -----------------------------
(* A small instance of EspAlone for TLC. *)
EXTENDS EspAlone

CONSTANT c1
=============================================================================

------------------------------- MODULE Bytes -------------------------------
(***************************************************************************)
(* What the rings of the UART are made of.                                 *)
(***************************************************************************)
EXTENDS Integers, Sequences

CONSTANTS
  Byte,   \* the values of a byte
  Nul,    \* the zero byte
  Size    \* buffer.size() of a ring, 256 for both rings of a PicoUart

ASSUME RingAssumption == Size \in Nat \ {0} /\ Nul \in Byte
=============================================================================

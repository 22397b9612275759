---------------------------- MODULE BoundedFifo ----------------------------
(***************************************************************************)
(* What a byte buffer of the UART promises: bytes come out in the order    *)
(* they went in, none is invented, none is lost once it was accepted, and  *)
(* no more than Capacity wait at once.  RingBuffer implements it.          *)
(***************************************************************************)
EXTENDS Integers, Sequences

CONSTANTS
  Byte,      \* the values of a byte
  Capacity   \* how many of them can wait

VARIABLE waiting   \* the bytes that wait, the oldest first

FifoInit == waiting = <<>>

Accept(b) ==
  /\ Len(waiting) < Capacity
  /\ waiting' = Append(waiting, b)

Deliver ==
  /\ waiting # <<>>
  /\ waiting' = Tail(waiting)

FifoNext == (\E b \in Byte : Accept(b)) \/ Deliver

FifoSpec == FifoInit /\ [][FifoNext]_waiting
=============================================================================

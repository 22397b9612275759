----------------------------- MODULE RingBuffer -----------------------------
(***************************************************************************)
(* RingBuffer.cpp: a circular buffer of bytes, the producer moves head and *)
(* the consumer moves tail.  One slot stays free to tell full from empty.  *)
(***************************************************************************)
EXTENDS Bytes

VARIABLES head, tail, buffer

ringVars == <<head, tail, buffer>>

Slots == 0 .. Size - 1

RingInit == head = 0 /\ tail = 0 /\ buffer = [i \in Slots |-> Nul]

Following(i) == (i + 1) % Size

empty == head = tail
full == Following(head) = tail

(* Mutant: put does not look whether the buffer is full.                   *)
PutUnchecked(b) ==
  /\ buffer' = [buffer EXCEPT ![head] = b]
  /\ head' = Following(head)
  /\ UNCHANGED tail

(* put of a byte that fits; one that does not changes nothing (line 39).   *)
Put(b) ==
  /\ Following(head) # tail
  /\ buffer' = [buffer EXCEPT ![head] = b]
  /\ head' = Following(head)
  /\ UNCHANGED tail

Refuse == Following(head) = tail /\ UNCHANGED ringVars

(* get returns this byte and moves tail, unless the buffer is empty.       *)
Oldest == buffer[tail]
Get ==
  /\ tail' = IF head # tail THEN Following(tail) ELSE tail
  /\ UNCHANGED <<head, buffer>>

RingNext == (\E b \in Byte : Put(b) \/ Refuse) \/ Get

RingSpec == RingInit /\ [][RingNext]_ringVars

----------------------------------------------------------------------------
(* The bytes that wait, the oldest first: the refinement mapping.          *)
Count == IF head >= tail THEN head - tail ELSE head - tail + Size
Slot(i) == IF tail + i - 1 < Size THEN tail + i - 1 ELSE tail + i - 1 - Size
Contents == [i \in 1 .. Count |-> buffer[Slot(i)]]

Fifo == INSTANCE BoundedFifo WITH waiting <- Contents, Capacity <- Size - 1

(* The ring is a bounded FIFO: whatever the positions of head and tail,    *)
(* put and get act on the bytes that wait and on nothing else (RingBuffer, *)
(* lines 20-56).                                                           *)
ImplementsFifo == Fifo!FifoSpec

RingTypeOK ==
  /\ head \in Slots
  /\ tail \in Slots
  /\ buffer \in [Slots -> Byte]
=============================================================================

----------------------------- MODULE RingProofs -----------------------------
(***************************************************************************)
(* RingBuffer implements BoundedFifo, for every size of the buffer and     *)
(* every set of bytes.                                                     *)
(***************************************************************************)
EXTENDS RingBuffer, SequenceTheorems, TLAPS

(* The modulo of put and get (RingBuffer.cpp:37, 54) is a step to the next *)
(* slot, back to the first one after the last.                             *)
LEMMA FollowingSlot ==
  ASSUME NEW i \in Slots
  PROVE  /\ Following(i) = IF i + 1 = Size THEN 0 ELSE i + 1
         /\ Following(i) \in Slots
<1>0. Size \in Nat /\ Size > 0 /\ i \in Nat /\ i < Size
  BY RingAssumption DEF Slots
<1>1. CASE i + 1 = Size
  BY <1>0, <1>1 DEF Following, Slots
<1>2. CASE i + 1 # Size
  <2>1. (i + 1) % Size = i + 1
    BY <1>0, <1>2
  <2> QED
    BY <1>0, <1>2, <2>1 DEF Following, Slots
<1> QED
  BY <1>1, <1>2

(* The waiting bytes are a sequence of at most Size - 1 bytes.             *)
ContentsOK ==
  /\ Count \in 0 .. Size - 1
  /\ Contents \in Seq(Byte)
  /\ Len(Contents) = Count
  /\ Count = 0 <=> head = tail
  /\ Count = Size - 1 <=> Following(head) = tail

(* The slots from tail to head form a sequence of at most Size - 1 bytes.  *)
LEMMA ContentsTypeCorrect == RingTypeOK => ContentsOK
<1> SUFFICES ASSUME RingTypeOK
             PROVE  ContentsOK
  OBVIOUS
<1>0. Size \in Nat /\ Size > 0 /\ head \in Slots /\ tail \in Slots
  BY RingAssumption DEF RingTypeOK
<1>1. Count \in 0 .. Size - 1
  BY <1>0 DEF Count, Slots
<1>2. \A i \in 1 .. Count : Slot(i) \in Slots
  BY <1>0 DEF Count, Slot, Slots
<1>3. Contents \in [1 .. Count -> Byte]
  BY <1>2 DEF Contents, RingTypeOK
<1>4. Contents \in Seq(Byte)
  BY <1>1, <1>3, SeqDef
<1>5. Len(Contents) = Count
  BY <1>1, <1>3, <1>4, LenProperties
<1>6. Count = 0 <=> head = tail
  BY <1>0 DEF Count, Slots
<1>7. Following(head) = IF head + 1 = Size THEN 0 ELSE head + 1
  BY <1>0, FollowingSlot
<1>8. Count = Size - 1 <=> Following(head) = tail
  BY <1>0, <1>7 DEF Count, Slots
<1> QED
  BY <1>1, <1>4, <1>5, <1>6, <1>8 DEF ContentsOK

(* The types of the ring hold at the start.                                *)
LEMMA RingTypeInit == RingInit => RingTypeOK
BY RingAssumption DEF RingInit, RingTypeOK, Slots

(* Every step of the ring keeps them.                                      *)
LEMMA RingTypeStep ==
  ASSUME RingTypeOK, [RingNext]_ringVars
  PROVE  RingTypeOK'
<1>1. ASSUME NEW b \in Byte, Put(b)
      PROVE  RingTypeOK'
  BY <1>1, FollowingSlot DEF RingTypeOK, Put
<1>2. CASE Get
  BY <1>2, FollowingSlot DEF RingTypeOK, Get
<1>3. CASE UNCHANGED ringVars
  BY <1>3 DEF RingTypeOK, ringVars, Slots
<1> QED
  BY <1>1, <1>2, <1>3 DEF RingNext, Refuse

(* put appends the byte to the bytes that wait.                            *)
LEMMA PutAppends ==
  ASSUME RingTypeOK, NEW b \in Byte, Put(b)
  PROVE  /\ RingTypeOK'
         /\ Len(Contents) < Size - 1
         /\ Contents' = Append(Contents, b)
<1>0. Size \in Nat /\ Size > 0 /\ head \in Slots /\ tail \in Slots
  BY RingAssumption DEF RingTypeOK
<1>1. RingTypeOK'
  BY RingTypeStep DEF RingNext
<1>2. Following(head) = IF head + 1 = Size THEN 0 ELSE head + 1
  BY <1>0, FollowingSlot
<1>3. Count' = Count + 1
  BY <1>0, <1>2 DEF Put, Count, Slots
<1>4. Slot(Count + 1) = head
  BY <1>0 DEF Slot, Count, Slots
<1>5. \A i \in 1 .. Count : Slot(i) # head /\ Slot(i) \in Slots
  BY <1>0 DEF Slot, Count, Slots
<1>6. \A i \in 1 .. Count + 1 : Slot(i)' = Slot(i)
  BY DEF Put, Slot
<1>7. Contents' = [i \in 1 .. Count + 1 |-> buffer'[Slot(i)]]
  BY <1>3, <1>6 DEF Contents
<1>8. \A i \in 1 .. Count : buffer'[Slot(i)] = Contents[i]
  BY <1>5 DEF Put, RingTypeOK, Contents
<1>9. buffer'[Slot(Count + 1)] = b
  BY <1>0, <1>4 DEF Put, RingTypeOK
<1>10. Contents \in Seq(Byte) /\ Len(Contents) = Count /\ Count \in Nat
  BY ContentsTypeCorrect, <1>0 DEF ContentsOK
<1>11. /\ Append(Contents, b) \in Seq(Byte)
       /\ Len(Append(Contents, b)) = Count + 1
       /\ \A i \in 1 .. Count : Append(Contents, b)[i] = Contents[i]
       /\ Append(Contents, b)[Count + 1] = b
  BY <1>10, AppendProperties
<1>12. /\ Contents' \in Seq(Byte)
       /\ Len(Contents') = Count + 1
       /\ \A i \in 1 .. Count + 1 : Contents'[i] = buffer'[Slot(i)]
  <2>1. ContentsOK'
    BY <1>1, ContentsTypeCorrect, PTL
  <2> QED
    BY <2>1, <1>3, <1>7 DEF ContentsOK
<1>13. \A i \in 1 .. Count + 1 : Contents'[i] = Append(Contents, b)[i]
  BY <1>8, <1>9, <1>10, <1>11, <1>12
<1>14. Contents' = Append(Contents, b)
  BY <1>10, <1>11, <1>12, <1>13, SeqEqual
<1>15. Count < Size - 1
  BY <1>0, <1>2, ContentsTypeCorrect DEF Put, ContentsOK
<1> QED
  BY <1>1, <1>10, <1>14, <1>15

(* get of a buffer that is not empty takes the oldest byte off; of an      *)
(* empty one it changes nothing.                                           *)
LEMMA GetTakesOldest ==
  ASSUME RingTypeOK, Get
  PROVE  /\ RingTypeOK'
         /\ head = tail => Contents' = Contents
         /\ head # tail => /\ Contents # <<>>
                           /\ Contents' = Tail(Contents)
                           /\ Oldest = Head(Contents)
<1>0. Size \in Nat /\ Size > 0 /\ head \in Slots /\ tail \in Slots
  BY RingAssumption DEF RingTypeOK
<1>1. RingTypeOK'
  BY RingTypeStep DEF RingNext
<1>2. CASE head = tail
  BY <1>1, <1>2 DEF Get, Contents, Count, Slot
<1>3. CASE head # tail
  <2>1. Following(tail) = IF tail + 1 = Size THEN 0 ELSE tail + 1
    BY <1>0, FollowingSlot
  <2>2. Contents \in Seq(Byte) /\ Len(Contents) = Count /\ Count \in Nat \ {0}
    BY <1>0, <1>3, ContentsTypeCorrect DEF ContentsOK
  <2>3. Count' = Count - 1
    BY <1>0, <1>3, <2>1 DEF Get, Count, Slots
  <2>4. \A i \in 1 .. Count - 1 : Slot(i)' = Slot(i + 1)
    BY <1>0, <1>3, <2>1 DEF Get, Slot, Slots, Count
  <2>5. Contents # <<>>
    BY <2>2
  <2>6. /\ Tail(Contents) \in Seq(Byte)
        /\ Len(Tail(Contents)) = Count - 1
        /\ \A i \in 1 .. Count - 1 : Tail(Contents)[i] = Contents[i + 1]
    BY <2>2, <2>5, HeadTailProperties
  <2>7. Contents' \in Seq(Byte) /\ Len(Contents') = Count - 1
    <3>1. ContentsOK'
      BY <1>1, ContentsTypeCorrect, PTL
    <3> QED
      BY <3>1, <2>3 DEF ContentsOK
  <2>8. \A i \in 1 .. Count - 1 : Contents'[i] = Tail(Contents)[i]
    <3>1. Contents' = [i \in 1 .. Count - 1 |-> buffer[Slot(i)']]
      BY <2>3 DEF Get, Contents
    <3>2. \A i \in 1 .. Count - 1 : i + 1 \in 1 .. Count
      BY <2>2
    <3>3. \A i \in 1 .. Count : Contents[i] = buffer[Slot(i)]
      BY DEF Contents
    <3>4. \A i \in 1 .. Count - 1 : Contents'[i] = buffer[Slot(i)']
      BY <3>1
    <3> QED
      BY <3>2, <3>3, <3>4, <2>4, <2>6
  <2>9. Contents' = Tail(Contents)
    BY <2>2, <2>6, <2>7, <2>8, SeqEqual
  <2>10. Slot(1) = tail
    BY <1>0 DEF Slot, Slots
  <2>11. Head(Contents) = Contents[1]
    BY <2>2
  <2>12. Oldest = Head(Contents)
    BY <2>2, <2>10, <2>11 DEF Oldest, Contents
  <2> QED
    BY <1>1, <1>3, <2>5, <2>9, <2>12
<1> QED
  BY <1>1, <1>2, <1>3

----------------------------------------------------------------------------
(* Every step of the ring is a step of the FIFO or leaves the bytes that   *)
(* wait as they are.                                                       *)
LEMMA RingStepRefines ==
  ASSUME RingTypeOK, [RingNext]_ringVars
  PROVE  [Fifo!FifoNext]_Contents
<1>1. ASSUME NEW b \in Byte, Put(b)
      PROVE  Fifo!FifoNext
  <2>1. Len(Contents) < Size - 1 /\ Contents' = Append(Contents, b)
    BY <1>1, PutAppends
  <2> QED
    BY <2>1 DEF Fifo!FifoNext, Fifo!Accept
<1>2. CASE Get
  <2>1. CASE head = tail
    BY <1>2, <2>1, GetTakesOldest
  <2>2. CASE head # tail
    BY <1>2, <2>2, GetTakesOldest DEF Fifo!FifoNext, Fifo!Deliver
  <2> QED
    BY <2>1, <2>2
<1>3. CASE UNCHANGED ringVars
  BY <1>3 DEF ringVars, Contents, Count, Slot
<1> QED
  BY <1>1, <1>2, <1>3 DEF RingNext, Refuse

(* RingBuffer implements the bounded FIFO for every size and every byte:   *)
(* what put accepts, get returns once, in order (RingBuffer.cpp:20-56).    *)
THEOREM RingIsFifo == RingSpec => ImplementsFifo
<1>1. RingInit => RingTypeOK /\ Fifo!FifoInit
  <2> SUFFICES ASSUME RingInit
               PROVE  RingTypeOK /\ Contents = <<>>
    BY DEF Fifo!FifoInit
  <2>1. RingTypeOK
    BY RingTypeInit
  <2>2. head = tail
    BY DEF RingInit
  <2>3. Contents \in Seq(Byte) /\ Len(Contents) = 0
    BY <2>1, <2>2, ContentsTypeCorrect DEF ContentsOK
  <2> QED
    BY <2>1, <2>3
<1>2. RingTypeOK /\ [RingNext]_ringVars => RingTypeOK' /\ [Fifo!FifoNext]_Contents
  BY RingTypeStep, RingStepRefines
<1> QED
  BY <1>1, <1>2, PTL DEF RingSpec, ImplementsFifo, Fifo!FifoSpec
=============================================================================

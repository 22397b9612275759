----------------------------- MODULE UartProofs -----------------------------
(***************************************************************************)
(* The interrupt handler and the main loop share a UART without losing,    *)
(* repeating or reordering a byte, for every size of the rings and of the  *)
(* FIFOs (PicoUart); and over that UART, wherever the reads cut the stream *)
(* and whatever is lost or damaged, the parsers find the messages of the   *)
(* stream, and none that was not sent (SerialLink).                        *)
(***************************************************************************)
EXTENDS SerialLink, SequenceTheorems, WellFoundedInduction, TLAPS

TxP == INSTANCE RingProofs WITH head <- tx_head, tail <- tx_tail, buffer <- tx_buffer
RxP == INSTANCE RingProofs WITH head <- rx_head, tail <- rx_tail, buffer <- rx_buffer

----------------------------------------------------------------------------
(* What RingProofs says of a ring, said of the two rings of the UART.      *)
LEMMA TxPut ==
  ASSUME Tx!RingTypeOK, NEW b \in Byte, Tx!Put(b)
  PROVE  Tx!RingTypeOK' /\ Tx!Contents' = Append(Tx!Contents, b)
<1>1. TxP!RingTypeOK /\ TxP!Put(b)
  BY DEF Tx!RingTypeOK, Tx!Put, Tx!Slots, Tx!Following,
         TxP!RingTypeOK, TxP!Put, TxP!Slots, TxP!Following
<1>2. TxP!RingTypeOK' /\ TxP!Contents' = Append(TxP!Contents, b)
  BY <1>1, TxP!PutAppends, RingAssumption DEF TxP!RingAssumption
<1> QED
  BY <1>2 DEF Tx!RingTypeOK, TxP!RingTypeOK, Tx!Slots, TxP!Slots, Tx!Contents,
     TxP!Contents, Tx!Count, TxP!Count, Tx!Slot, TxP!Slot

(* What is taken from the transmit ring is its oldest byte, and the others *)
(* stay.                                                                   *)
LEMMA TxGet ==
  ASSUME Tx!RingTypeOK, Tx!Get, ~ Tx!empty
  PROVE  /\ Tx!RingTypeOK'
         /\ Tx!Contents # <<>>
         /\ Tx!Contents' = Tail(Tx!Contents)
         /\ Tx!Oldest = Head(Tx!Contents)
<1>1. TxP!RingTypeOK /\ TxP!Get
  BY DEF Tx!RingTypeOK, Tx!Get, Tx!Slots, Tx!Following,
         TxP!RingTypeOK, TxP!Get, TxP!Slots, TxP!Following
<1>2. /\ TxP!RingTypeOK'
      /\ TxP!Contents # <<>>
      /\ TxP!Contents' = Tail(TxP!Contents)
      /\ TxP!Oldest = Head(TxP!Contents)
  BY <1>1, TxP!GetTakesOldest, RingAssumption DEF TxP!RingAssumption, Tx!empty
<1> QED
  BY <1>2 DEF Tx!RingTypeOK, TxP!RingTypeOK, Tx!Slots, TxP!Slots, Tx!Contents,
     TxP!Contents, Tx!Count, TxP!Count, Tx!Slot, TxP!Slot, Tx!Oldest, TxP!Oldest

(* The contents of the transmit ring are a sequence of bytes, empty when   *)
(* the ring is.                                                            *)
LEMMA TxContents ==
  Tx!RingTypeOK => /\ Tx!Contents \in Seq(Byte)
                   /\ Tx!empty <=> Tx!Contents = <<>>
<1> SUFFICES ASSUME Tx!RingTypeOK
             PROVE  /\ Tx!Contents \in Seq(Byte)
                    /\ Tx!empty <=> Tx!Contents = <<>>
  OBVIOUS
<1>1. TxP!RingTypeOK
  BY DEF Tx!RingTypeOK, TxP!RingTypeOK, Tx!Slots, TxP!Slots
<1>2. TxP!ContentsOK
  BY <1>1, TxP!ContentsTypeCorrect, RingAssumption DEF TxP!RingAssumption
<1>3. TxP!Contents \in Seq(Byte) /\ (tx_head = tx_tail <=> TxP!Contents = <<>>)
  BY <1>2, EmptySeq DEF TxP!ContentsOK
<1> QED
  BY <1>3 DEF Tx!Contents, TxP!Contents, Tx!Count, TxP!Count, Tx!Slot, TxP!Slot, Tx!empty

(* Every step keeps the types of the receive ring.                         *)
LEMMA RxStep ==
  ASSUME Rx!RingTypeOK, [Rx!RingNext]_rxRing
  PROVE  Rx!RingTypeOK'
<1>1. RxP!RingTypeOK /\ [RxP!RingNext]_(RxP!ringVars)
  BY DEF Rx!RingTypeOK, RxP!RingTypeOK, Rx!Slots, RxP!Slots, rxRing, RxP!ringVars,
     Rx!ringVars, Rx!RingNext, RxP!RingNext, Rx!Put, RxP!Put, Rx!Refuse, RxP!Refuse,
     Rx!Get, RxP!Get, Rx!Following, RxP!Following
<1>2. RxP!RingTypeOK'
  BY <1>1, RxP!RingTypeStep, RingAssumption DEF RxP!RingAssumption
<1> QED
  BY <1>2 DEF Rx!RingTypeOK, RxP!RingTypeOK, Rx!Slots, RxP!Slots
----------------------------------------------------------------------------
(* A byte that moves from one queue to the next stays at its place among   *)
(* all bytes.                                                              *)
LEMMA MoveHead ==
  ASSUME NEW S, NEW a \in Seq(S), NEW b \in Seq(S), b # <<>>
  PROVE  Append(a, Head(b)) \o Tail(b) = a \o b
<1>1. /\ Head(b) \in S
      /\ Tail(b) \in Seq(S)
      /\ Len(Tail(b)) = Len(b) - 1
      /\ \A i \in 1 .. Len(Tail(b)) : Tail(b)[i] = b[i + 1]
  BY HeadTailProperties
<1>2. Len(b) \in Nat \ {0} /\ Len(a) \in Nat /\ Head(b) = b[1]
  BY EmptySeq, LenProperties
<1>3. /\ Append(a, Head(b)) \in Seq(S)
      /\ Len(Append(a, Head(b))) = Len(a) + 1
      /\ \A i \in 1 .. Len(a) : Append(a, Head(b))[i] = a[i]
      /\ Append(a, Head(b))[Len(a) + 1] = Head(b)
  BY <1>1, AppendProperties
<1>4. /\ a \o b \in Seq(S)
      /\ Len(a \o b) = Len(a) + Len(b)
      /\ \A i \in 1 .. Len(a) + Len(b) :
           (a \o b)[i] = IF i <= Len(a) THEN a[i] ELSE b[i - Len(a)]
  BY ConcatProperties
<1> DEFINE c == Append(a, Head(b)) \o Tail(b)
<1>5. /\ c \in Seq(S)
      /\ Len(c) = Len(a) + Len(b)
      /\ \A i \in 1 .. Len(a) + Len(b) :
           c[i] = IF i <= Len(a) + 1 THEN Append(a, Head(b))[i]
                  ELSE Tail(b)[i - (Len(a) + 1)]
  BY <1>1, <1>2, <1>3, ConcatProperties
<1>6. \A i \in 1 .. Len(a) + Len(b) : c[i] = (a \o b)[i]
  <2> TAKE i \in 1 .. Len(a) + Len(b)
  <2>1. CASE i <= Len(a)
    BY <1>2, <1>3, <1>4, <1>5, <2>1
  <2>2. CASE i = Len(a) + 1
    BY <1>2, <1>3, <1>4, <1>5, <2>2
  <2>3. CASE i > Len(a) + 1
    <3>1. i - (Len(a) + 1) \in 1 .. Len(Tail(b))
      BY <1>1, <1>2, <2>3
    <3>2. Tail(b)[i - (Len(a) + 1)] = b[i - Len(a)]
      BY <1>1, <1>2, <3>1
    <3> QED
      BY <1>2, <1>4, <1>5, <2>3, <3>2
  <2> QED
    BY <1>2, <2>1, <2>2, <2>3
<1> QED
  BY <1>2, <1>4, <1>5, <1>6, SeqEqual

(* Appending to the second of two joined sequences.                        *)
LEMMA AppendToConcat ==
  ASSUME NEW S, NEW a \in Seq(S), NEW b \in Seq(S), NEW e \in S
  PROVE  a \o Append(b, e) = Append(a \o b, e)
<1>1. /\ <<e>> \in Seq(S)
      /\ Append(b, e) = b \o <<e>>
      /\ a \o b \in Seq(S)
      /\ Append(a \o b, e) = (a \o b) \o <<e>>
  BY AppendIsConcat, ConcatProperties
<1> QED
  BY <1>1, ConcatAssociative

(* The provers take nested concatenations apart; an operator keeps them    *)
(* whole.                                                                  *)
Cat(s, t) == s \o t

(* Length and elements of two joined sequences.                            *)
LEMMA CatProperties ==
  ASSUME NEW S, NEW a \in Seq(S), NEW b \in Seq(S)
  PROVE  /\ Len(a) \in Nat /\ Len(b) \in Nat
         /\ Cat(a, b) \in Seq(S)
         /\ Len(Cat(a, b)) = Len(a) + Len(b)
         /\ \A i \in 1 .. Len(a) + Len(b) :
              Cat(a, b)[i] = IF i <= Len(a) THEN a[i] ELSE b[i - Len(a)]
  BY ConcatProperties, LenProperties DEF Cat

(* A byte that moves from one sequence to the next changes nothing of the  *)
(* whole.                                                                  *)
LEMMA Regroup ==
  ASSUME NEW S, NEW a \in Seq(S), NEW b \in Seq(S), NEW c \in Seq(S),
         NEW d \in Seq(S), NEW e \in Seq(S), Cat(b, c) = Cat(d, e)
  PROVE  Cat(Cat(a, b), c) = Cat(Cat(a, d), e)
<1> DEFINE at(i) == IF i <= Len(a) THEN a[i] ELSE Cat(b, c)[i - Len(a)]
<1>1. ASSUME NEW s \in Seq(S), NEW t \in Seq(S), Cat(s, t) = Cat(b, c)
      PROVE  /\ Cat(Cat(a, s), t) \in Seq(S)
             /\ Len(Cat(Cat(a, s), t)) = Len(a) + Len(Cat(b, c))
             /\ \A i \in 1 .. Len(a) + Len(Cat(b, c)) : Cat(Cat(a, s), t)[i] = at(i)
  <2>1. /\ Len(a) \in Nat /\ Len(s) \in Nat /\ Len(t) \in Nat
        /\ Cat(a, s) \in Seq(S)
        /\ Len(Cat(a, s)) = Len(a) + Len(s)
        /\ \A i \in 1 .. Len(a) + Len(s) :
             Cat(a, s)[i] = IF i <= Len(a) THEN a[i] ELSE s[i - Len(a)]
    BY CatProperties
  <2>2. /\ Len(Cat(s, t)) = Len(s) + Len(t)
        /\ \A i \in 1 .. Len(s) + Len(t) :
             Cat(s, t)[i] = IF i <= Len(s) THEN s[i] ELSE t[i - Len(s)]
    BY CatProperties
  <2> DEFINE as == Cat(a, s)
  <2>a. as \in Seq(S)
    BY <2>1
  <2> HIDE DEF as
  <2>b. /\ Cat(as, t) \in Seq(S)
        /\ Len(Cat(as, t)) = Len(as) + Len(t)
        /\ \A i \in 1 .. Len(as) + Len(t) :
             Cat(as, t)[i] = IF i <= Len(as) THEN as[i] ELSE t[i - Len(as)]
    BY <2>a, CatProperties
  <2>3. /\ Cat(Cat(a, s), t) \in Seq(S)
        /\ Len(Cat(Cat(a, s), t)) = Len(Cat(a, s)) + Len(t)
        /\ \A i \in 1 .. Len(Cat(a, s)) + Len(t) :
             Cat(Cat(a, s), t)[i] = IF i <= Len(Cat(a, s)) THEN Cat(a, s)[i]
                                    ELSE t[i - Len(Cat(a, s))]
    BY <2>b DEF as
  <2>4. ASSUME NEW i \in 1 .. Len(a) + Len(Cat(b, c))
        PROVE  Cat(Cat(a, s), t)[i] = at(i)
    <3>1. CASE i <= Len(a)
      BY <2>1, <2>2, <2>3, <1>1, <3>1
    <3>2. CASE Len(a) < i /\ i <= Len(a) + Len(s)
      <4>1. i - Len(a) \in 1 .. Len(s) /\ ~ (i <= Len(a))
        BY <2>1, <3>2
      <4> DEFINE j == i - Len(a)
      <4>a. j \in 1 .. Len(s) + Len(t) /\ j <= Len(s)
        BY <2>1, <3>2
      <4> HIDE DEF j
      <4>b. Cat(s, t)[j] = s[j]
        BY <2>2, <4>a
      <4>2. Cat(Cat(a, s), t)[i] = s[i - Len(a)]
        BY <2>1, <2>3, <3>2
      <4>3. Cat(s, t)[i - Len(a)] = s[i - Len(a)]
        BY <4>b DEF j
      <4> QED
        BY <1>1, <4>1, <4>2, <4>3
    <3>3. CASE Len(a) + Len(s) < i
      <4>1. /\ i - Len(a) \in 1 .. Len(s) + Len(t)
            /\ ~ (i <= Len(a)) /\ ~ (i - Len(a) <= Len(s))
            /\ (i - Len(a)) - Len(s) = i - (Len(a) + Len(s))
        BY <1>1, <2>1, <2>2, <3>3
      <4>2. Cat(Cat(a, s), t)[i] = t[i - (Len(a) + Len(s))]
        BY <1>1, <2>1, <2>2, <2>3, <3>3
      <4>3. Cat(s, t)[i - Len(a)] = t[(i - Len(a)) - Len(s)]
        BY <2>1, <2>2, <4>1
      <4> QED
        BY <1>1, <4>1, <4>2, <4>3
    <3> QED
      BY <1>1, <2>1, <2>2, <3>1, <3>2, <3>3
  <2> QED
    BY <1>1, <2>1, <2>2, <2>3, <2>4
<1> HIDE DEF at
<1>2. /\ Cat(Cat(a, b), c) \in Seq(S)
      /\ Len(Cat(Cat(a, b), c)) = Len(a) + Len(Cat(b, c))
      /\ \A i \in 1 .. Len(a) + Len(Cat(b, c)) : Cat(Cat(a, b), c)[i] = at(i)
  BY <1>1
<1>3. /\ Cat(Cat(a, d), e) \in Seq(S)
      /\ Len(Cat(Cat(a, d), e)) = Len(a) + Len(Cat(b, c))
      /\ \A i \in 1 .. Len(a) + Len(Cat(b, c)) : Cat(Cat(a, d), e)[i] = at(i)
  BY <1>1
<1> QED
  BY <1>2, <1>3, SeqEqual

----------------------------------------------------------------------------
(* The two rings change by put and get alone.                              *)
LEMMA RingSteps ==
  ASSUME UartTypeOK, [UartNext]_uartVars
  PROVE  [Tx!RingNext]_txRing /\ [Rx!RingNext]_rxRing
<1> USE DEF txRing, rxRing
<1>1. CASE IrqReceive
  <2>1. Head(rx_fifo) \in Byte
    BY <1>1, HeadTailProperties DEF UartTypeOK, FlowTypeOK, IrqReceive
  <2> QED
    BY <1>1, <2>1 DEF IrqReceive, Rx!RingNext
<1>2. CASE Fill
  <2>1. Head(out) \in Byte
    BY <1>2, HeadTailProperties DEF UartTypeOK, FlowTypeOK, Fill
  <2> QED
    BY <1>2, <2>1 DEF Fill, Tx!RingNext
<1>3. CASE IrqTransmit \/ Prime
  BY <1>3 DEF IrqTransmit, Prime, TxMove, Tx!RingNext
<1>4. CASE ReadByte
  BY <1>4 DEF ReadByte, Rx!RingNext
<1>5. CASE \/ Shift \/ (\E b \in Byte : Arrive(b)) \/ Interrupt \/ IrqReceived
           \/ IrqEnd \/ Send \/ Filled \/ Enable \/ Primed
           \/ ReadCall("idle", "read") \/ ReadCall("read", "idle")
  BY <1>5 DEF Shift, Arrive, Interrupt, IrqReceived, IrqEnd, Send, Filled, Enable,
     Primed, ReadCall
<1>6. CASE UNCHANGED uartVars
  BY <1>6 DEF uartVars
<1> QED
  BY <1>1, <1>2, <1>3, <1>4, <1>5, <1>6 DEF UartNext, Handler, Write

(* Every step keeps the types of the transmit ring.                        *)
LEMMA TxStep ==
  ASSUME Tx!RingTypeOK, [Tx!RingNext]_txRing
  PROVE  Tx!RingTypeOK'
<1>1. TxP!RingTypeOK /\ [TxP!RingNext]_(TxP!ringVars)
  BY DEF Tx!RingTypeOK, TxP!RingTypeOK, Tx!Slots, TxP!Slots, txRing, TxP!ringVars,
     Tx!ringVars, Tx!RingNext, TxP!RingNext, Tx!Put, TxP!Put, Tx!Refuse, TxP!Refuse,
     Tx!Get, TxP!Get, Tx!Following, TxP!Following
<1>2. TxP!RingTypeOK'
  BY <1>1, TxP!RingTypeStep, RingAssumption DEF TxP!RingAssumption
<1> QED
  BY <1>2 DEF Tx!RingTypeOK, TxP!RingTypeOK, Tx!Slots, TxP!Slots

(* Every step keeps the types.                                             *)
LEMMA UartTypeStep ==
  ASSUME UartTypeOK, [UartNext]_uartVars
  PROVE  UartTypeOK'
<1>0. Tx!RingTypeOK' /\ Rx!RingTypeOK'
  BY RingSteps, TxStep, RxStep DEF UartTypeOK
<1>a. FlowTypeOK
  BY DEF UartTypeOK
<1> SUFFICES FlowTypeOK'
  BY <1>0 DEF UartTypeOK
<1> USE DEF FlowTypeOK
<1>1. CASE Shift
  <2>1. Head(tx_fifo) \in Byte /\ Tail(tx_fifo) \in Seq(Byte)
    BY <1>a, <1>1, HeadTailProperties DEF Shift
  <2> QED
    BY <1>a, <1>1, <2>1, AppendProperties DEF Shift
<1>2. ASSUME NEW b \in Byte, Arrive(b)
      PROVE  FlowTypeOK'
  BY <1>a, <1>2, AppendProperties DEF Arrive
<1>3. CASE TxMove /\ UNCHANGED <<handler, loop, enabled>>
  <2>1. Tx!Oldest \in Byte
    <3>1. Tx!Contents \in Seq(Byte) /\ Tx!Contents # <<>> /\ Tx!Oldest = Head(Tx!Contents)
      BY <1>3, TxGet, TxContents DEF TxMove, UartTypeOK
    <3> QED
      BY <3>1, HeadTailProperties
  <2> QED
    BY <1>a, <1>3, <2>1, AppendProperties DEF TxMove
<1>4. CASE IrqReceive
  BY <1>a, <1>4, HeadTailProperties DEF IrqReceive
<1>5. CASE Interrupt \/ IrqReceived \/ IrqEnd \/ Send \/ Filled \/ Enable \/ Primed
  BY <1>a, <1>5, EmptySeq DEF Interrupt, IrqReceived, IrqEnd, TxStop, Send, Filled,
     Enable, Primed
<1>6. CASE Fill
  <2>1. Head(out) \in Byte /\ Tail(out) \in Seq(Byte)
    BY <1>a, <1>6, HeadTailProperties DEF Fill
  <2> QED
    BY <1>a, <1>6, <2>1, AppendProperties DEF Fill
<1>7. CASE ReadByte \/ ReadCall("idle", "read") \/ ReadCall("read", "idle")
  BY <1>a, <1>7 DEF ReadByte, ReadCall
<1>8. CASE UNCHANGED uartVars
  BY <1>a, <1>8 DEF uartVars
<1> QED
  BY <1>1, <1>2, <1>3, <1>4, <1>5, <1>6, <1>7, <1>8
     DEF UartNext, Handler, Write, IrqTransmit, Prime, TxMove

----------------------------------------------------------------------------
(* A byte moves from the ring to the FIFO, from the FIFO to the line, or   *)
(* from write() into the ring: accepted follows.                           *)
LEMMA ConservedStep ==
  ASSUME UartTypeOK, Conserved, [UartNext]_uartVars
  PROVE  Conserved'
<1>1. /\ Tx!RingTypeOK
      /\ Tx!Contents \in Seq(Byte)
      /\ line \in Seq(Byte) /\ tx_fifo \in Seq(Byte)
      /\ out \in Seq(Byte)
  BY TxContents DEF UartTypeOK, FlowTypeOK
<1>2. accepted = line \o tx_fifo \o Tx!Contents
  BY DEF Conserved
<1>3. CASE Shift
  <2>1. Tx!Contents' = Tx!Contents
    BY <1>3 DEF Shift, txRing, Tx!Contents, Tx!Count, Tx!Slot
  <2>2. line' \o tx_fifo' = line \o tx_fifo
    BY <1>1, <1>3, MoveHead DEF Shift
  <2> QED
    BY <1>2, <1>3, <2>1, <2>2 DEF Conserved, Shift
<1>4. CASE TxMove
  <2>1. /\ Tx!Contents # <<>>
        /\ Tx!Contents' = Tail(Tx!Contents)
        /\ tx_fifo' = Append(tx_fifo, Head(Tx!Contents))
    BY <1>1, <1>4, TxGet DEF TxMove
  <2>2. Cat(tx_fifo', Tx!Contents') = Cat(tx_fifo, Tx!Contents)
    BY <1>1, <2>1, MoveHead DEF Cat
  <2>3. Tx!Contents' \in Seq(Byte) /\ tx_fifo' \in Seq(Byte)
    BY <1>1, <2>1, HeadTailProperties, AppendProperties
  <2>4. Cat(Cat(line, tx_fifo'), Tx!Contents') = Cat(Cat(line, tx_fifo), Tx!Contents)
    BY <1>1, <2>2, <2>3, Regroup
  <2> QED
    BY <1>2, <1>4, <2>4 DEF Conserved, TxMove, Cat
<1>5. CASE Fill
  <2>1. Head(out) \in Byte
    BY <1>1, <1>5, HeadTailProperties DEF Fill
  <2>2. Tx!Contents' = Append(Tx!Contents, Head(out))
    BY <1>1, <1>5, <2>1, TxPut DEF Fill
  <2>3. line \o tx_fifo \in Seq(Byte)
    BY <1>1, ConcatProperties
  <2>4. (line \o tx_fifo) \o Append(Tx!Contents, Head(out))
          = Append((line \o tx_fifo) \o Tx!Contents, Head(out))
    BY <1>1, <2>1, <2>3, AppendToConcat
  <2> QED
    BY <1>2, <1>5, <2>2, <2>4 DEF Conserved, Fill
<1>6. CASE UNCHANGED <<txRing, tx_fifo, line, accepted>>
  BY <1>2, <1>6 DEF Conserved, txRing, Tx!Contents, Tx!Count, Tx!Slot
<1> QED
  BY <1>3, <1>4, <1>5, <1>6
     DEF UartNext, Handler, Write, IrqTransmit, Prime, Arrive, Interrupt, IrqReceive,
         IrqReceived, IrqEnd, Send, Filled, Enable, Primed, ReadCall, ReadByte,
         uartVars

----------------------------------------------------------------------------
(* Why no wake-up is lost: with the transmit interrupt enabled it is       *)
(* raised or the FIFO is above its level, outside the section of write()   *)
(* that runs with interrupts disabled; and it is only disabled with the    *)
(* ring empty.                                                             *)
WakeInv ==
  /\ txim /\ loop # "prime" => txris \/ Len(tx_fifo) > Watermark
  /\ loop \in {"idle", "read"} /\ ~ Tx!empty => txim
  /\ loop = "prime" => txim
  /\ loop \in {"enable", "prime"} => ~ enabled /\ handler = "none"

(* Every step of the UART keeps the transmit interrupt able to go on.      *)
LEMMA WakeStep ==
  ASSUME UartTypeOK, WakeInv, [UartNext]_uartVars
  PROVE  WakeInv'
<1>1. FlowTypeOK /\ FifoDepth \in Nat /\ Watermark \in Nat /\ Watermark < FifoDepth
  BY RingAssumption, UartAssumption DEF UartTypeOK
<1>2. Len(tx_fifo) \in Nat
  BY <1>1, LenProperties DEF FlowTypeOK
<1> USE DEF WakeInv
<1>3. CASE Shift
  <2>1. Len(tx_fifo') = Len(tx_fifo) - 1
    BY <1>1, <1>3, HeadTailProperties DEF FlowTypeOK, Shift
  <2>2. Len(tx_fifo) > Watermark => Len(tx_fifo') > Watermark \/ Len(tx_fifo) - 1 = Watermark
    BY <1>1, <1>2, <2>1
  <2> QED
    BY <1>3, <2>2, Zenon DEF Shift, txRing, Tx!empty
<1>4. CASE IrqTransmit \/ Prime
  <2>1. Tx!Oldest \in Byte
    <3>1. Tx!Contents \in Seq(Byte) /\ Tx!Contents # <<>> /\ Tx!Oldest = Head(Tx!Contents)
      BY <1>4, TxGet, TxContents DEF IrqTransmit, Prime, TxMove, UartTypeOK
    <3> QED
      BY <3>1, HeadTailProperties
  <2>2. Len(tx_fifo') = Len(tx_fifo) + 1
    BY <1>1, <1>4, <2>1, AppendProperties DEF FlowTypeOK, IrqTransmit, Prime, TxMove
  <2>3. /\ Len(tx_fifo) > Watermark => Len(tx_fifo') > Watermark
        /\ ~ (Len(tx_fifo) + 1 <= Watermark) => Len(tx_fifo') > Watermark
    BY <1>1, <1>2, <2>2
  <2>4. ~ Tx!empty /\ UNCHANGED <<txim, loop, enabled, handler>>
    BY <1>4 DEF IrqTransmit, Prime, TxMove
  <2>5. txris' = (txris /\ Len(tx_fifo) + 1 <= Watermark)
    BY <1>4 DEF IrqTransmit, Prime, TxMove
  <2> QED
    BY <2>3, <2>4, <2>5, Zenon
<1>5. CASE IrqEnd
  BY <1>5 DEF IrqEnd, TxStop, txRing, Tx!empty
<1>6. CASE Primed
  <2>1. ~ writable => Len(tx_fifo) > Watermark
    BY <1>1, <1>2 DEF writable
  <2> QED
    BY <1>6, <2>1, Zenon DEF Primed, At, TxStop, txRing, Tx!empty
<1>7. CASE Enable \/ Filled \/ Fill \/ Send
  BY <1>7 DEF Enable, Filled, Fill, Send, At, txRing, Tx!empty
<1>8. CASE Interrupt \/ IrqReceive \/ IrqReceived \/ (\E b \in Byte : Arrive(b))
  BY <1>8 DEF Interrupt, IrqReceive, IrqReceived, Arrive, txRing, Tx!empty
<1>9. CASE ReadByte \/ ReadCall("idle", "read") \/ ReadCall("read", "idle")
  BY <1>9 DEF ReadByte, ReadCall, At, txRing, Tx!empty
<1>10. CASE UNCHANGED uartVars
  BY <1>10 DEF uartVars, txRing, Tx!empty
<1> QED
  BY <1>3, <1>4, <1>5, <1>6, <1>7, <1>8, <1>9, <1>10 DEF UartNext, Handler, Write

----------------------------------------------------------------------------
UartInv == UartTypeOK /\ Conserved /\ WakeInv

(* The strengthening holds at the start.                                   *)
LEMMA UartInitInv == UartInit => UartInv
<1> SUFFICES ASSUME UartInit PROVE UartInv
  OBVIOUS
<1>1. Tx!RingTypeOK /\ Rx!RingTypeOK
  BY RingAssumption DEF UartInit, Tx!RingInit, Rx!RingInit, Tx!RingTypeOK, Rx!RingTypeOK,
     Tx!Slots, Rx!Slots
<1>2. FlowTypeOK
  BY EmptySeq DEF UartInit, FlowTypeOK
<1>3. Tx!empty /\ Tx!Contents = <<>>
  BY <1>1, TxContents DEF UartInit, Tx!RingInit, Tx!empty
<1>4. Conserved
  BY <1>3, ConcatEmptySeq, EmptySeq DEF UartInit, Conserved
<1>5. WakeInv
  BY <1>3 DEF UartInit, WakeInv
<1> QED
  BY <1>1, <1>2, <1>4, <1>5 DEF UartInv, UartTypeOK

(* So it holds always, for rings and FIFOs of any size.                    *)
THEOREM UartInvariant == UartSpec => []UartInv
<1>1. UartInv /\ [UartNext]_uartVars => UartInv'
  BY UartTypeStep, ConservedStep, WakeStep DEF UartInv
<1> QED
  BY UartInitInv, <1>1, PTL DEF UartSpec

(* The types of the UART's state hold in every reachable state.            *)
THEOREM UartTypeCorrect == UartSpec => []UartTypeOK
<1>1. UartInv => UartTypeOK
  BY DEF UartInv
<1> QED
  BY UartInvariant, <1>1, PTL

(* No byte that write() accepted is lost, repeated or reordered on its way *)
(* to the line.                                                            *)
THEOREM NothingLost == UartSpec => []Conserved
<1>1. UartInv => Conserved
  BY DEF UartInv
<1> QED
  BY UartInvariant, <1>1, PTL

(* Bytes never wait in the ring with no interrupt to come for them.        *)
THEOREM NeverStranded == UartSpec => []NoLostWakeup
<1>1. UartInv => NoLostWakeup
  BY DEF UartInv, WakeInv, NoLostWakeup
<1> QED
  BY UartInvariant, <1>1, PTL

(* The rings of the UART are the rings of RingProofs.                      *)
LEMMA TxRefines == Tx!RingSpec => Tx!ImplementsFifo
<1>1. TxP!RingAssumption
  BY RingAssumption DEF TxP!RingAssumption
<1>2. Tx!RingInit => TxP!RingInit
  BY DEF Tx!RingInit, TxP!RingInit, Tx!Slots, TxP!Slots
<1>3. [Tx!RingNext]_(Tx!ringVars) => [TxP!RingNext]_(TxP!ringVars)
  BY DEF Tx!ringVars, TxP!ringVars, Tx!RingNext, TxP!RingNext, Tx!Put, TxP!Put,
     Tx!Refuse, TxP!Refuse, Tx!Get, TxP!Get, Tx!Following, TxP!Following
<1>4. Tx!RingSpec => TxP!RingSpec
  BY <1>2, <1>3, PTL DEF Tx!RingSpec, TxP!RingSpec
<1>5. TxP!RingSpec => TxP!ImplementsFifo
  BY <1>1, TxP!RingIsFifo
<1>6. TxP!Contents = Tx!Contents /\ TxP!Contents' = Tx!Contents'
  BY DEF Tx!Contents, TxP!Contents, Tx!Count, TxP!Count, Tx!Slot, TxP!Slot
<1>7. TxP!Fifo!FifoInit => Tx!Fifo!FifoInit
  BY <1>6 DEF TxP!Fifo!FifoInit, Tx!Fifo!FifoInit
<1>8. [TxP!Fifo!FifoNext]_(TxP!Contents) => [Tx!Fifo!FifoNext]_(Tx!Contents)
  BY <1>6 DEF TxP!Fifo!FifoNext, Tx!Fifo!FifoNext, TxP!Fifo!Accept, Tx!Fifo!Accept,
     TxP!Fifo!Deliver, Tx!Fifo!Deliver
<1>9. TxP!ImplementsFifo => Tx!ImplementsFifo
  BY <1>7, <1>8, PTL
     DEF TxP!ImplementsFifo, Tx!ImplementsFifo, TxP!Fifo!FifoSpec, Tx!Fifo!FifoSpec
<1> QED
  BY <1>4, <1>5, <1>9

(* The receive ring inside the UART implements the FIFO.                   *)
LEMMA RxRefines == Rx!RingSpec => Rx!ImplementsFifo
<1>1. RxP!RingAssumption
  BY RingAssumption DEF RxP!RingAssumption
<1>2. Rx!RingInit => RxP!RingInit
  BY DEF Rx!RingInit, RxP!RingInit, Rx!Slots, RxP!Slots
<1>3. [Rx!RingNext]_(Rx!ringVars) => [RxP!RingNext]_(RxP!ringVars)
  BY DEF Rx!ringVars, RxP!ringVars, Rx!RingNext, RxP!RingNext, Rx!Put, RxP!Put,
     Rx!Refuse, RxP!Refuse, Rx!Get, RxP!Get, Rx!Following, RxP!Following
<1>4. Rx!RingSpec => RxP!RingSpec
  BY <1>2, <1>3, PTL DEF Rx!RingSpec, RxP!RingSpec
<1>5. RxP!RingSpec => RxP!ImplementsFifo
  BY <1>1, RxP!RingIsFifo
<1>6. RxP!Contents = Rx!Contents /\ RxP!Contents' = Rx!Contents'
  BY DEF Rx!Contents, RxP!Contents, Rx!Count, RxP!Count, Rx!Slot, RxP!Slot
<1>7. RxP!Fifo!FifoInit => Rx!Fifo!FifoInit
  BY <1>6 DEF RxP!Fifo!FifoInit, Rx!Fifo!FifoInit
<1>8. [RxP!Fifo!FifoNext]_(RxP!Contents) => [Rx!Fifo!FifoNext]_(Rx!Contents)
  BY <1>6 DEF RxP!Fifo!FifoNext, Rx!Fifo!FifoNext, RxP!Fifo!Accept, Rx!Fifo!Accept,
     RxP!Fifo!Deliver, Rx!Fifo!Deliver
<1>9. RxP!ImplementsFifo => Rx!ImplementsFifo
  BY <1>7, <1>8, PTL
     DEF RxP!ImplementsFifo, Rx!ImplementsFifo, RxP!Fifo!FifoSpec, Rx!Fifo!FifoSpec
<1> QED
  BY <1>4, <1>5, <1>9

(* Each ring is a bounded FIFO: no step of the loop or of the handler does *)
(* anything to it that put and get of the abstract queue would not do.     *)
THEOREM RingsRefineFifos == UartSpec => RingsAreFifos
<1>1. UartInit => Tx!RingInit /\ Rx!RingInit
  BY DEF UartInit
<1>2. UartInv /\ [UartNext]_uartVars => [Tx!RingNext]_txRing /\ [Rx!RingNext]_rxRing
  BY RingSteps DEF UartInv
<1>3. UartSpec => Tx!RingSpec /\ Rx!RingSpec
  <2>1. <<tx_head, tx_tail, tx_buffer>> = txRing /\ <<rx_head, rx_tail, rx_buffer>> = rxRing
    BY DEF txRing, rxRing
  <2>2. [Tx!RingNext]_txRing => [Tx!RingNext]_(Tx!ringVars)
    BY DEF txRing, Tx!ringVars
  <2>3. [Rx!RingNext]_rxRing => [Rx!RingNext]_(Rx!ringVars)
    BY DEF rxRing, Rx!ringVars
  <2> QED
    BY <1>1, <1>2, <2>2, <2>3, UartInvariant, PTL DEF UartSpec, Tx!RingSpec, Rx!RingSpec
<1> QED
  BY <1>3, TxRefines, RxRefines DEF RingsAreFifos

----------------------------------------------------------------------------
(* The parsers, for texts of any length.  Induction is by the least number *)
(* that fails.                                                             *)
LEMMA LeastOf ==
  ASSUME NEW T, T \subseteq Nat, T # {}
  PROVE  \E k \in T : \A j \in T : k <= j
<1>1. PICK k \in T : \A j \in T : ~(<<j, k>> \in OpToRel(<, Nat))
  BY NatLessThanWellFounded, WFMin
<1>2. ASSUME NEW j \in T
      PROVE  k <= j
  <2>1. ~(j < k) /\ j \in Nat /\ k \in Nat
    BY <1>1, <1>2 DEF OpToRel
  <2> QED
    BY <2>1
<1> QED
  BY <1>2

(* Upwards, from a to b.                                                   *)
LEMMA GoingUp ==
  ASSUME NEW a \in Nat, NEW b \in Nat, NEW S, a \in S,
         \A i \in a .. b - 1 : i \in S => i + 1 \in S
  PROVE  \A i \in a .. b : i \in S
<1> DEFINE T == {i \in a .. b : i \notin S}
<1>1. CASE T = {}
  BY <1>1
<1>2. CASE T # {}
  <2>0. T \subseteq Nat
    OBVIOUS
  <2>1. PICK k \in T : \A j \in T : k <= j
    <3> HIDE DEF T
    <3> QED
      BY <1>2, <2>0, LeastOf
  <2>2. k \in a .. b /\ k \notin S /\ k # a
    OBVIOUS
  <2>3. k - 1 \in a .. b - 1 /\ (k - 1) + 1 = k
    BY <2>2
  <2>4. k - 1 \notin S
    BY <2>2, <2>3
  <2>5. k - 1 \in T
    BY <2>3, <2>4
  <2> QED
    BY <2>1, <2>2, <2>5
<1> QED
  BY <1>1, <1>2

(* Downwards from n, each number given all that are greater.               *)
LEMMA GoingDown ==
  ASSUME NEW n \in Nat, NEW S,
         \A i \in 1 .. n : (\A j \in i + 1 .. n : j \in S) => i \in S
  PROVE  \A i \in 1 .. n : i \in S
<1> DEFINE T == {i \in 0 .. n : n - i \in (1 .. n) \ S}
<1>1. CASE T = {}
  <2> SUFFICES ASSUME NEW i \in 1 .. n, i \notin S PROVE FALSE
    OBVIOUS
  <2>1. n - i \in 0 .. n /\ n - (n - i) = i
    OBVIOUS
  <2>2. n - i \in T
    BY <2>1
  <2> QED
    BY <1>1, <2>2
<1>2. CASE T # {}
  <2>0. T \subseteq Nat
    OBVIOUS
  <2>1. PICK k \in T : \A j \in T : k <= j
    <3> HIDE DEF T
    <3> QED
      BY <1>2, <2>0, LeastOf
  <2>2. k \in 0 .. n /\ n - k \in 1 .. n /\ n - k \notin S
    OBVIOUS
  <2>3. PICK j \in (n - k) + 1 .. n : j \notin S
    BY <2>2
  <2>4. n - j \in 0 .. n /\ n - (n - j) = j /\ j \in 1 .. n /\ n - j < k
    BY <2>2, <2>3
  <2>5. n - j \in T
    BY <2>3, <2>4
  <2> QED
    BY <2>1, <2>2, <2>4, <2>5
<1> QED
  BY <1>1, <1>2

(* What FirstOf finds.                                                     *)
LEMMA FirstOfProperties ==
  ASSUME NEW S, NEW s \in Seq(S), NEW b, NEW from \in 1 .. Len(s) + 1
  PROVE  /\ FirstOf(s, b, from) \in from .. Len(s) + 1
         /\ \A k \in from .. FirstOf(s, b, from) - 1 : s[k] # b
         /\ FirstOf(s, b, from) <= Len(s) => s[FirstOf(s, b, from)] = b
<1> DEFINE T == {k \in from .. Len(s) : s[k] = b} \cup {Len(s) + 1}
<1>0. Len(s) \in Nat
  BY LenProperties
<1>1. T \subseteq from .. Len(s) + 1 /\ T \subseteq Nat /\ T # {} /\ Len(s) + 1 \in T
  BY <1>0
<1>2. \E k \in T : \A j \in T : k <= j
  <2> HIDE DEF T
  <2> QED
    BY <1>1, LeastOf
<1>3. Min(T) \in T /\ \A j \in T : Min(T) <= j
  BY <1>2 DEF Min
<1>4. FirstOf(s, b, from) = Min(T)
  BY DEF FirstOf
<1>5. ASSUME NEW k \in from .. Min(T) - 1
      PROVE  s[k] # b
  <2>1. Min(T) \in from .. Len(s) + 1
    BY <1>1, <1>3
  <2> DEFINE m == Min(T)
  <2> HIDE DEF m
  <2>2. k \in from .. Len(s) /\ k < Min(T)
    BY <1>0, <1>5, <2>1
  <2>3. k \notin T
    <3> HIDE DEF T
    <3> QED
      BY <1>3, <2>1, <2>2
  <2> QED
    BY <2>2, <2>3
<1>6. Min(T) <= Len(s) => s[Min(T)] = b
  <2> SUFFICES ASSUME Min(T) <= Len(s) PROVE s[Min(T)] = b
    OBVIOUS
  <2>1. Min(T) # Len(s) + 1
    BY <1>0
  <2> QED
    BY <1>3, <2>1
<1> HIDE DEF T
<1> QED
  BY <1>1, <1>3, <1>4, <1>5, <1>6

----------------------------------------------------------------------------
(* What the loops of the parsers look at next lies ahead, so that their    *)
(* definitions by recursion mean what they say.                            *)
LEMMA ParsedLocal ==
  ASSUME NEW S, NEW text \in Seq(S), NEW i \in 1 .. Len(text) + 1, NEW f, NEW g,
         \A j \in i + 1 .. Len(text) + 1 : f[j] = g[j]
  PROVE  ParsedAt(text, i, f) = ParsedAt(text, i, g)
<1> DEFINE start == FirstOf(text, "$", i)
           end == FirstOf(text, ";", start)
<1>0. Len(text) \in Nat
  BY LenProperties
<1>1. start \in i .. Len(text) + 1
  BY FirstOfProperties
<1>2. start \in 1 .. Len(text) + 1
  BY <1>0, <1>1
<1>3. end \in start .. Len(text) + 1
  <2> HIDE DEF start
  <2> QED
    BY <1>2, FirstOfProperties
<1>4. \A h : ParsedAt(text, i, h) =
        IF start > Len(text) THEN Nothing
        ELSE IF end > Len(text)
        THEN [kept |-> SubSeq(text, start, Len(text)), messages |-> <<>>]
        ELSE Before(Converted(SubSeq(text, start, end - 1)), h[end + 1])
  BY DEF ParsedAt
<1>5. end <= Len(text) => f[end + 1] = g[end + 1]
  <2> HIDE DEF start, end
  <2> QED
    BY <1>0, <1>1, <1>3
<1> HIDE DEF start, end
<1>6. CASE start > Len(text)
  BY <1>4, <1>6
<1>7. CASE ~(start > Len(text)) /\ end > Len(text)
  BY <1>4, <1>7
<1>8. CASE ~(start > Len(text)) /\ ~(end > Len(text))
  <2>1. f[end + 1] = g[end + 1]
    BY <1>0, <1>2, <1>3, <1>5, <1>8
  <2> QED
    BY <1>4, <1>8, <2>1
<1> QED
  BY <1>6, <1>7, <1>8

(* parse() turns to what follows the message it has just found.            *)
LEMMA ParsedUnfolds ==
  ASSUME NEW S, NEW text \in Seq(S), NEW i \in 1 .. Len(text) + 1
  PROVE  Parsed(text)[i] = ParsedAt(text, i, Parsed(text))
<1> DEFINE n == Len(text) + 1
           Good == {j \in 1 .. n : \E f : f = [k \in j .. n |-> ParsedAt(text, k, f)]}
<1>0. n \in Nat /\ n >= 1
  BY LenProperties
<1>1. ASSUME NEW j \in 1 .. n, \A k \in j + 1 .. n : k \in Good
      PROVE  j \in Good
  <2>1. \E f : f = [k \in j + 1 .. n |-> ParsedAt(text, k, f)]
    <3>1. CASE j = n
      <4>1. j + 1 .. n = {}
        BY <1>0, <3>1
      <4>2. [k \in {} |-> 0] = [k \in j + 1 .. n |-> ParsedAt(text, k, [l \in {} |-> 0])]
        BY <4>1
      <4> QED
        BY <4>2
    <3>2. CASE j # n
      <4>1. j + 1 \in j + 1 .. n
        BY <1>0, <3>2
      <4> QED
        BY <1>1, <4>1
    <3> QED
      BY <3>1, <3>2
  <2>2. PICK f : f = [k \in j + 1 .. n |-> ParsedAt(text, k, f)]
    BY <2>1
  <2> DEFINE g == [k \in j .. n |-> IF k = j THEN ParsedAt(text, j, f) ELSE f[k]]
  <2>3. ASSUME NEW k \in j + 1 .. n
        PROVE  g[k] = f[k] /\ f[k] = ParsedAt(text, k, f)
    <3>1. k \in j .. n /\ k # j
      BY <1>0
    <3>2. g[k] = f[k]
      BY <3>1
    <3>3. f[k] = ParsedAt(text, k, f)
      BY <2>2
    <3> QED
      BY <3>2, <3>3
  <2>4. ASSUME NEW k \in j .. n
        PROVE  g[k] = ParsedAt(text, k, g)
    <3>1. \A l \in k + 1 .. n : f[l] = g[l]
      BY <1>0, <2>3
    <3>2. k \in 1 .. Len(text) + 1
      BY <1>0
    <3> HIDE DEF g
    <3>3. ParsedAt(text, k, f) = ParsedAt(text, k, g)
      BY <3>1, <3>2, ParsedLocal
    <3>4. g[k] = ParsedAt(text, k, f)
      <4>1. CASE k = j
        BY <4>1 DEF g
      <4>2. CASE k # j
        <5>1. k \in j + 1 .. n
          BY <1>0, <4>2
        <5> QED
          BY <2>3, <5>1
      <4> QED
        BY <4>1, <4>2
    <3> QED
      BY <3>3, <3>4
  <2>5. g = [k \in j .. n |-> ParsedAt(text, k, g)]
    <3>1. g = [k \in j .. n |-> g[k]]
      OBVIOUS
    <3> HIDE DEF g
    <3> QED
      BY <2>4, <3>1
  <2> HIDE DEF g
  <2> QED
    BY <2>5
<1>2. 1 \in Good
  <2> HIDE DEF Good
  <2>1. \A j \in 1 .. n : j \in Good
    BY <1>0, <1>1, GoingDown
  <2> QED
    BY <1>0, <2>1
<1>3. \E f : f = [k \in 1 .. n |-> ParsedAt(text, k, f)]
  BY <1>2
<1>4. Parsed(text) = CHOOSE f : f = [k \in 1 .. n |-> ParsedAt(text, k, f)]
  BY DEF Parsed
<1>5. Parsed(text) = [k \in 1 .. n |-> ParsedAt(text, k, Parsed(text))]
  BY <1>3, <1>4
<1> QED
  BY <1>5

(* The same of the ESP's parser.                                           *)
LEMMA ExtractedLocal ==
  ASSUME NEW S, NEW text \in Seq(S), NEW i \in 1 .. Len(text) + 1, NEW f, NEW g,
         \A j \in i + 1 .. Len(text) + 1 : f[j] = g[j]
  PROVE  ExtractedAt(text, i, f) = ExtractedAt(text, i, g)
<1> DEFINE start == FirstOf(text, "$", i)
           end == FirstOf(text, ";", i)
<1>0. Len(text) \in Nat
  BY LenProperties
<1>1. end \in i .. Len(text) + 1
  BY FirstOfProperties
<1>2. \A h : ExtractedAt(text, i, h) =
        IF end > Len(text) \/ start > end \/ end - start + 1 > LongestCommand THEN <<>>
        ELSE Converted(SubSeq(text, start, end - 1)) \o h[end + 1]
  BY DEF ExtractedAt
<1>3. end <= Len(text) => f[end + 1] = g[end + 1]
  <2> HIDE DEF end
  <2> QED
    BY <1>0, <1>1
<1> HIDE DEF start, end
<1>4. CASE end > Len(text) \/ start > end \/ end - start + 1 > LongestCommand
  BY <1>2, <1>4
<1>5. CASE ~(end > Len(text) \/ start > end \/ end - start + 1 > LongestCommand)
  <2>1. f[end + 1] = g[end + 1]
    BY <1>0, <1>1, <1>3, <1>5
  <2> QED
    BY <1>2, <1>5, <2>1
<1> QED
  BY <1>4, <1>5

(* So does the parser of the ESP.                                          *)
LEMMA ExtractedUnfolds ==
  ASSUME NEW S, NEW text \in Seq(S), Len(text) \in Nat
  PROVE  \E E : /\ E = [k \in 1 .. Len(text) + 1 |-> ExtractedAt(text, k, E)]
               /\ Extracted(text) = E[1]
<1> DEFINE n == Len(text) + 1
           Good == {j \in 1 .. n : \E f : f = [k \in j .. n |-> ExtractedAt(text, k, f)]}
<1>0. n \in Nat /\ n >= 1
  BY LenProperties
<1>1. ASSUME NEW j \in 1 .. n, \A k \in j + 1 .. n : k \in Good
      PROVE  j \in Good
  <2>1. \E f : f = [k \in j + 1 .. n |-> ExtractedAt(text, k, f)]
    <3>1. CASE j = n
      <4>1. j + 1 .. n = {}
        BY <1>0, <3>1
      <4>2. [k \in {} |-> 0] = [k \in j + 1 .. n |-> ExtractedAt(text, k, [l \in {} |-> 0])]
        BY <4>1
      <4> QED
        BY <4>2
    <3>2. CASE j # n
      <4>1. j + 1 \in j + 1 .. n
        BY <1>0, <3>2
      <4> QED
        BY <1>1, <4>1
    <3> QED
      BY <3>1, <3>2
  <2>2. PICK f : f = [k \in j + 1 .. n |-> ExtractedAt(text, k, f)]
    BY <2>1
  <2> DEFINE g == [k \in j .. n |-> IF k = j THEN ExtractedAt(text, j, f) ELSE f[k]]
  <2>3. ASSUME NEW k \in j + 1 .. n
        PROVE  g[k] = f[k] /\ f[k] = ExtractedAt(text, k, f)
    <3>1. k \in j .. n /\ k # j
      BY <1>0
    <3>2. g[k] = f[k]
      BY <3>1
    <3>3. f[k] = ExtractedAt(text, k, f)
      BY <2>2
    <3> QED
      BY <3>2, <3>3
  <2>4. ASSUME NEW k \in j .. n
        PROVE  g[k] = ExtractedAt(text, k, g)
    <3>1. \A l \in k + 1 .. n : f[l] = g[l]
      BY <1>0, <2>3
    <3>2. k \in 1 .. Len(text) + 1
      BY <1>0
    <3> HIDE DEF g
    <3>3. ExtractedAt(text, k, f) = ExtractedAt(text, k, g)
      BY <3>1, <3>2, ExtractedLocal
    <3>4. g[k] = ExtractedAt(text, k, f)
      <4>1. CASE k = j
        BY <4>1 DEF g
      <4>2. CASE k # j
        <5>1. k \in j + 1 .. n
          BY <1>0, <4>2
        <5> QED
          BY <2>3, <5>1
      <4> QED
        BY <4>1, <4>2
    <3> QED
      BY <3>3, <3>4
  <2>5. g = [k \in j .. n |-> ExtractedAt(text, k, g)]
    <3>1. g = [k \in j .. n |-> g[k]]
      OBVIOUS
    <3> HIDE DEF g
    <3> QED
      BY <2>4, <3>1
  <2> HIDE DEF g
  <2> QED
    BY <2>5
<1>2. 1 \in Good
  <2> HIDE DEF Good
  <2>1. \A j \in 1 .. n : j \in Good
    BY <1>0, <1>1, GoingDown
  <2> QED
    BY <1>0, <2>1
<1>3. \E f : f = [k \in 1 .. n |-> ExtractedAt(text, k, f)]
  BY <1>2
<1> DEFINE E == CHOOSE f : f = [k \in 1 .. n |-> ExtractedAt(text, k, f)]
<1>4. E = [k \in 1 .. n |-> ExtractedAt(text, k, E)]
  <2> HIDE DEF n
  <2> QED
    BY <1>3
<1>5. 1 \in 1 .. n /\ Extracted(text) = E[1]
  BY <1>0 DEF Extracted
<1> HIDE DEF E
<1> QED
  BY <1>4, <1>5

----------------------------------------------------------------------------
(* The parser of single bytes, from any state on.                          *)
ParserState == [kept : Seq(Byte), messages : Seq(Texts)]
End == ";"   \* hidden, since Z3 does not read this string
State(kept, messages) == [kept |-> kept, messages |-> messages]
Follows(run, text) == \A n \in 1 .. Len(text) : run[n] = Heard(run[n - 1], text[n])

(* A conversion yields texts of messages.                                  *)
LEMMA ConvertedType ==
  ASSUME NEW s
  PROVE  Converted(s) \in Seq(Texts)
<1>1. CASE \E text \in Texts : s = <<"$", text>>
  <2>1. PICK text \in Texts : s = <<"$", text>>
    BY <1>1
  <2>2. s[2] = text
    BY <2>1
  <2>3. Converted(s) = <<text>>
    BY <1>1, <2>2 DEF Converted
  <2> QED
    BY <2>3
<1>2. CASE ~ \E text \in Texts : s = <<"$", text>>
  <2>1. Converted(s) = <<>>
    BY <1>2 DEF Converted
  <2> QED
    BY <2>1, EmptySeq
<1> QED
  BY <1>1, <1>2

(* The bytes that mean something are bytes.                                *)
LEMMA Delimiters == "$" \in Byte /\ ";" \in Byte /\ Texts \subseteq Byte
BY LinkAssumption

(* A byte keeps the parser's types.                                        *)
LEMMA HeardType ==
  ASSUME NEW st \in ParserState, NEW b \in Byte
  PROVE  Heard(st, b) \in ParserState
<1>0. st.kept \in Seq(Byte) /\ st.messages \in Seq(Texts) /\ <<>> \in Seq(Byte)
  BY EmptySeq DEF ParserState
<1>1. CASE st.kept = <<>> /\ b = "$"
  <2>1. Heard(st, b) = [kept |-> <<b>>, messages |-> st.messages]
    BY <1>1 DEF Heard
  <2>2. <<b>> \in Seq(Byte)
    OBVIOUS
  <2> QED
    BY <1>0, <2>1, <2>2 DEF ParserState
<1>2. CASE st.kept = <<>> /\ b # "$"
  BY <1>2 DEF Heard
<1>3. CASE st.kept # <<>> /\ b = ";"
  <2>1. Heard(st, b) = [kept |-> <<>>, messages |-> st.messages \o Converted(st.kept)]
    BY <1>3 DEF Heard
  <2>2. st.messages \o Converted(st.kept) \in Seq(Texts)
    BY <1>0, ConvertedType, ConcatProperties
  <2> QED
    BY <1>0, <2>1, <2>2 DEF ParserState
<1>4. CASE st.kept # <<>> /\ b # ";"
  <2>1. Heard(st, b) = [kept |-> Append(st.kept, b), messages |-> st.messages]
    BY <1>4 DEF Heard
  <2>2. Append(st.kept, b) \in Seq(Byte)
    BY <1>0, AppendProperties
  <2> QED
    BY <1>0, <2>1, <2>2 DEF ParserState
<1> QED
  BY <1>1, <1>2, <1>3, <1>4

(* And so does a text.                                                     *)
LEMMA RunType ==
  ASSUME NEW text \in Seq(Byte), NEW run, run[0] \in ParserState, Follows(run, text)
  PROVE  \A n \in 0 .. Len(text) : run[n] \in ParserState
<1> DEFINE Good == {n \in 0 .. Len(text) : run[n] \in ParserState}
<1>0. Len(text) \in Nat
  BY LenProperties
<1>1. 0 \in Good
  BY <1>0
<1>2. ASSUME NEW n \in 0 .. Len(text) - 1, n \in Good
      PROVE  n + 1 \in Good
  <2>1. n + 1 \in 1 .. Len(text) /\ (n + 1) - 1 = n
    BY <1>0
  <2>2. run[n + 1] = Heard(run[n], text[n + 1])
    BY <2>1 DEF Follows
  <2>3. text[n + 1] \in Byte
    BY <2>1, ElementOfSeq
  <2>4. run[n + 1] \in ParserState
    BY <1>2, <2>2, <2>3, HeardType
  <2> QED
    BY <1>0, <2>1, <2>4
<1>3. \A n \in 0 .. Len(text) : n \in Good
  <2> HIDE DEF Good
  <2> QED
    BY <1>0, <1>1, <1>2, GoingUp
<1> QED
  BY <1>3

(* Outside a message nothing happens before the next "$".                  *)
LEMMA Idles ==
  ASSUME NEW text \in Seq(Byte), NEW run, Follows(run, text),
         NEW a \in 0 .. Len(text), NEW b \in a .. Len(text),
         run[a].kept = <<>>,
         \A k \in a + 1 .. b : text[k] # "$"
  PROVE  run[b] = run[a]
<1> DEFINE Good == {n \in a .. b : run[n] = run[a]}
<1>0. Len(text) \in Nat /\ a \in Nat /\ b \in Nat /\ a <= b /\ b <= Len(text)
  BY LenProperties
<1>1. a \in Good
  BY <1>0
<1>2. ASSUME NEW n \in a .. b - 1, n \in Good
      PROVE  n + 1 \in Good
  <2>1. n + 1 \in 1 .. Len(text) /\ (n + 1) - 1 = n /\ n + 1 \in a + 1 .. b
    BY <1>0
  <2>2. run[n + 1] = Heard(run[n], text[n + 1])
    BY <2>1 DEF Follows
  <2>3. run[n].kept = <<>> /\ text[n + 1] # "$"
    BY <1>2, <2>1
  <2>4. run[n + 1] = run[n]
    BY <2>2, <2>3 DEF Heard
  <2> QED
    BY <1>0, <1>2, <2>1, <2>4
<1>3. \A n \in a .. b : n \in Good
  <2> HIDE DEF Good
  <2> QED
    BY <1>0, <1>1, <1>2, GoingUp
<1> QED
  BY <1>0, <1>3

(* Within a message everything is kept before the next ";".                *)
LEMMA Keeps ==
  ASSUME NEW text \in Seq(Byte), NEW run, Follows(run, text),
         NEW a \in 0 .. Len(text), NEW b \in a .. Len(text),
         NEW kept \in Seq(Byte), NEW messages, kept # <<>>,
         run[a] = State(kept, messages),
         \A k \in a + 1 .. b : text[k] # End
  PROVE  run[b] = State(kept \o SubSeq(text, a + 1, b), messages)
<1> DEFINE More(n) == SubSeq(text, a + 1, n)
           Good == {n \in a .. b : run[n] = State(kept \o More(n), messages)}
<1>0. Len(text) \in Nat /\ a \in Nat /\ b \in Nat /\ a <= b /\ b <= Len(text)
  BY LenProperties
<1>1. a \in Good
  <2>1. More(a) = <<>>
    BY <1>0, SubSeqEmpty
  <2>2. kept \o <<>> = kept
    BY ConcatEmptySeq
  <2>3. kept \o More(a) = kept
    BY <2>1, <2>2, Zenon
  <2>4. a \in a .. b
    BY <1>0
  <2> HIDE DEF More
  <2> QED
    BY <2>3, <2>4, Zenon
<1>2. ASSUME NEW n \in a .. b - 1, n \in Good
      PROVE  n + 1 \in Good
  <2>1. n + 1 \in 1 .. Len(text) /\ (n + 1) - 1 = n /\ n + 1 \in a + 1 .. b
    BY <1>0
  <2>2. run[n + 1] = Heard(run[n], text[n + 1])
    BY <2>1 DEF Follows
  <2>3. text[n + 1] \in Byte /\ text[n + 1] # End
    BY <2>1, ElementOfSeq
  <2>4. run[n] = State(kept \o More(n), messages)
    BY <1>2
  <2>5. More(n) \in Seq(Byte)
    <3>1. \A i \in a + 1 .. n : text[i] \in Byte
      BY <1>0, ElementOfSeq
    <3> QED
      BY <1>0, <3>1, SubSeqProperties
  <2>6. kept \o More(n) # <<>>
    BY <2>5, ConcatEqualIffEmpty
  <2>7. run[n + 1] = State(Append(kept \o More(n), text[n + 1]), messages)
    <3> DEFINE k == kept \o More(n)
               b1 == text[n + 1]
    <3>1. k # <<>> /\ b1 # End /\ run[n + 1] = Heard(State(k, messages), b1)
      BY <2>2, <2>3, <2>4, <2>6
    <3> HIDE DEF k, b1
    <3>2. Heard(State(k, messages), b1) = State(Append(k, b1), messages)
      BY <3>1 DEF Heard, State, End
    <3> QED
      BY <3>1, <3>2 DEF k, b1
  <2>8. More(n + 1) = Append(More(n), text[n + 1])
    <3>1. a + 1 \in 1 .. Len(text) /\ n + 1 \in a + 1 .. Len(text)
      BY <1>0
    <3>2. SubSeq(text, a + 1, n + 1) = SubSeq(text, a + 1, (n + 1) - 1) \o <<text[n + 1]>>
      BY <3>1, SubSeqRecursiveSecond
    <3>3. Append(More(n), text[n + 1]) = More(n) \o <<text[n + 1]>>
      <4> HIDE DEF More
      <4> QED
        BY <2>3, <2>5, AppendIsConcat
    <3> QED
      BY <2>1, <3>2, <3>3
  <2>9. kept \o More(n + 1) = Append(kept \o More(n), text[n + 1])
    <3> DEFINE m == More(n)
               e == text[n + 1]
    <3>1. m \in Seq(Byte) /\ e \in Byte
      BY <2>3, <2>5
    <3> HIDE DEF m, e
    <3>2. kept \o Append(m, e) = Append(kept \o m, e)
      BY <3>1, AppendToConcat
    <3> QED
      BY <2>8, <3>2, Zenon DEF m, e
  <2>10. n + 1 \in a .. b
    BY <1>0
  <2> HIDE DEF More
  <2> QED
    BY <2>4, <2>7, <2>9, <2>10
<1>3. \A n \in a .. b : n \in Good
  <2> HIDE DEF Good
  <2> QED
    BY <1>0, <1>1, <1>2, GoingUp
<1> QED
  BY <1>0, <1>3

(* From a "$" on, everything up to the next ";" is kept.                   *)
LEMMA OneMessage ==
  ASSUME NEW text \in Seq(Byte), NEW run, Follows(run, text),
         NEW i \in 1 .. Len(text), NEW start \in i .. Len(text),
         NEW b \in start .. Len(text), NEW messages,
         run[i - 1] = State(<<>>, messages),
         text[start] = "$",
         \A k \in i .. start - 1 : text[k] # "$",
         \A k \in start + 1 .. b : text[k] # End
  PROVE  run[b] = State(SubSeq(text, start, b), messages)
<1>0. Len(text) \in Nat /\ i \in Nat /\ start \in Nat /\ b \in Nat
  BY LenProperties
<1>1. run[start - 1] = State(<<>>, messages)
  <2>1. i - 1 \in 0 .. Len(text) /\ start - 1 \in i - 1 .. Len(text) /\ (i - 1) + 1 = i
    BY <1>0
  <2>2. run[i - 1].kept = <<>>
    BY DEF State
  <2>3. \A k \in (i - 1) + 1 .. start - 1 : text[k] # "$"
    BY <2>1
  <2>4. run[start - 1] = run[i - 1]
    BY <2>1, <2>2, <2>3, Idles, SMTT(60)
  <2> QED
    BY <2>4
<1>2. run[start] = State(<<"$">>, messages)
  <2>1. start \in 1 .. Len(text)
    BY <1>0
  <2>2. run[start] = Heard(State(<<>>, messages), "$")
    BY <1>1, <2>1 DEF Follows
  <2> QED
    BY <2>2 DEF Heard, State
<1>3. <<"$">> \in Seq(Byte) /\ <<"$">> # <<>>
  <2>1. "$" \in Byte
    BY Delimiters, Zenon
  <2> QED
    BY <2>1
<1>4. run[b] = State(<<"$">> \o SubSeq(text, start + 1, b), messages)
  <2> DEFINE one == <<"$">>
  <2>1. start \in 0 .. Len(text)
    BY <1>0
  <2>2. one \in Seq(Byte) /\ one # <<>> /\ run[start] = State(one, messages)
    BY <1>2, <1>3
  <2> HIDE DEF one
  <2>3. run[b] = State(one \o SubSeq(text, start + 1, b), messages)
    BY <2>1, <2>2, Keeps
  <2> QED
    BY <2>3 DEF one
<1>5. SubSeq(text, start, b) = <<text[start]>> \o SubSeq(text, start + 1, b)
  <2>1. start \in 1 .. Len(text)
    BY <1>0
  <2> QED
    BY <2>1, SubSeqRecursiveFirst
<1> QED
  BY <1>4, <1>5, Zenon

(* What one turn of the loop of parse finds.                               *)
LEMMA ParsedCases ==
  ASSUME NEW text \in Seq(Byte), NEW i \in 1 .. Len(text) + 1
  PROVE  \/ /\ Parsed(text)[i] = Nothing
            /\ \A k \in i .. Len(text) : text[k] # "$"
         \/ \E start \in i .. Len(text) :
              /\ text[start] = "$"
              /\ \A k \in i .. start - 1 : text[k] # "$"
              /\ \/ /\ \A k \in start + 1 .. Len(text) : text[k] # End
                    /\ Parsed(text)[i] = State(SubSeq(text, start, Len(text)), <<>>)
                 \/ \E end \in start + 1 .. Len(text) :
                      /\ text[end] = End
                      /\ \A k \in start + 1 .. end - 1 : text[k] # End
                      /\ Parsed(text)[i] = Before(Converted(SubSeq(text, start, end - 1)),
                                                  Parsed(text)[end + 1])
<1> DEFINE start == FirstOf(text, "$", i)
           end == FirstOf(text, ";", start)
           p == Parsed(text)
<1>0. Len(text) \in Nat
  BY LenProperties
<1>1. /\ start \in i .. Len(text) + 1
      /\ \A k \in i .. start - 1 : text[k] # "$"
      /\ start <= Len(text) => text[start] = "$"
  BY FirstOfProperties
<1>2. start \in 1 .. Len(text) + 1
  BY <1>0, <1>1
<1>3. /\ end \in start .. Len(text) + 1
      /\ \A k \in start .. end - 1 : text[k] # End
      /\ end <= Len(text) => text[end] = End
  <2> HIDE DEF start
  <2> QED
    BY <1>2, FirstOfProperties DEF End
<1>4. p[i] = IF start > Len(text) THEN Nothing
             ELSE IF end > Len(text) THEN State(SubSeq(text, start, Len(text)), <<>>)
             ELSE Before(Converted(SubSeq(text, start, end - 1)), p[end + 1])
  <2>1. p[i] = ParsedAt(text, i, p)
    BY ParsedUnfolds
  <2> QED
    BY <2>1 DEF ParsedAt, State
<1>5. "$" # End
  BY DEF End
<1> HIDE DEF start, end, p
<1>6. CASE start > Len(text)
  <2>1. p[i] = Nothing
    BY <1>4, <1>6
  <2>2. \A k \in i .. Len(text) : text[k] # "$"
    BY <1>0, <1>1, <1>6
  <2> QED
    BY <2>1, <2>2 DEF p
<1>7. CASE ~(start > Len(text))
  <2>1. start \in i .. Len(text) /\ text[start] = "$"
    BY <1>0, <1>1, <1>7
  <2>2. end # start
    BY <1>0, <1>3, <1>5, <2>1
  <2>3. CASE end > Len(text)
    <3>1. p[i] = State(SubSeq(text, start, Len(text)), <<>>)
      BY <1>4, <1>7, <2>3
    <3>2. \A k \in start + 1 .. Len(text) : text[k] # End
      BY <1>0, <1>2, <1>3, <2>3
    <3> QED
      BY <1>1, <2>1, <3>1, <3>2 DEF p
  <2>4. CASE ~(end > Len(text))
    <3>1. p[i] = Before(Converted(SubSeq(text, start, end - 1)), p[end + 1])
      BY <1>4, <1>7, <2>4
    <3>2. end \in start + 1 .. Len(text) /\ text[end] = End
      BY <1>0, <1>2, <1>3, <2>2, <2>4
    <3>3. \A k \in start + 1 .. end - 1 : text[k] # End
      BY <1>0, <1>2, <1>3
    <3> QED
      BY <1>1, <2>1, <3>1, <3>2, <3>3 DEF p
  <2> QED
    BY <2>3, <2>4
<1> QED
  BY <1>6, <1>7

(* The states the parsers go through are typed.                            *)
LEMMA StateType ==
  ASSUME NEW kept \in Seq(Byte), NEW messages \in Seq(Texts)
  PROVE  State(kept, messages) \in ParserState
BY DEF State, ParserState

(* Messages found earlier come before.                                     *)
LEMMA BeforeType ==
  ASSUME NEW messages \in Seq(Texts), NEW parsed \in ParserState
  PROVE  Before(messages, parsed) \in ParserState
<1>1. parsed.kept \in Seq(Byte) /\ parsed.messages \in Seq(Texts)
  BY DEF ParserState
<1>2. messages \o parsed.messages \in Seq(Texts)
  BY <1>1, ConcatProperties
<1> QED
  BY <1>1, <1>2 DEF Before, ParserState

(* Messages found earlier come before, one after the other or all at once. *)
LEMMA BeforeBefore ==
  ASSUME NEW messages \in Seq(Texts), NEW more \in Seq(Texts), NEW parsed \in ParserState
  PROVE  Before(messages \o more, parsed) = Before(messages, Before(more, parsed))
<1> DEFINE last == parsed.messages
<1>1. last \in Seq(Texts)
  BY DEF ParserState
<1> HIDE DEF last
<1>2. (messages \o more) \o last = messages \o (more \o last)
  BY <1>1, ConcatAssociative, SMTT(30)
<1> QED
  BY <1>2, Zenon DEF Before, last

(* What parse finds is typed.                                              *)
LEMMA ParsedType ==
  ASSUME NEW text \in Seq(Byte)
  PROVE  \A i \in 1 .. Len(text) + 1 : Parsed(text)[i] \in ParserState
<1> DEFINE n == Len(text) + 1
           p == Parsed(text)
           Good == {i \in 1 .. n : p[i] \in ParserState}
<1>0. Len(text) \in Nat /\ n \in Nat /\ <<>> \in Seq(Byte) /\ <<>> \in Seq(Texts)
  BY LenProperties, EmptySeq
<1>1. ASSUME NEW i \in 1 .. n, \A j \in i + 1 .. n : j \in Good
      PROVE  i \in Good
  <2>1. CASE p[i] = Nothing
    <3>1. Nothing = State(<<>>, <<>>)
      BY DEF Nothing, State
    <3>2. Nothing \in ParserState
      BY <1>0, <3>1, StateType
    <3> QED
      BY <2>1, <3>2
  <2>2. ASSUME NEW start \in i .. Len(text),
               p[i] = State(SubSeq(text, start, Len(text)), <<>>)
        PROVE  i \in Good
    <3>1. SubSeq(text, start, Len(text)) \in Seq(Byte)
      <4>1. \A k \in start .. Len(text) : text[k] \in Byte
        BY <1>0, ElementOfSeq
      <4> QED
        BY <1>0, <4>1, SubSeqProperties
    <3> QED
      BY <1>0, <2>2, <3>1, StateType
  <2>3. ASSUME NEW end \in i + 1 .. Len(text), NEW sub,
               p[i] = Before(Converted(sub), p[end + 1])
        PROVE  i \in Good
    <3>1. end + 1 \in i + 1 .. n
      BY <1>0
    <3>2. p[end + 1] \in ParserState
      BY <1>1, <3>1
    <3>3. Converted(sub) \in Seq(Texts)
      BY ConvertedType
    <3> QED
      BY <2>3, <3>2, <3>3, BeforeType
  <2>4. \A start \in i .. Len(text) :
          \A end \in start + 1 .. Len(text) : end \in i + 1 .. Len(text)
    BY <1>0
  <2> HIDE DEF Good, p
  <2> QED
    BY <2>1, <2>2, <2>3, <2>4, ParsedCases DEF p
<1>2. \A i \in 1 .. n : i \in Good
  <2> HIDE DEF Good, n
  <2> QED
    BY <1>0, <1>1, GoingDown
<1> QED
  BY <1>2

(* The parser of single bytes and parse agree on a text from every         *)
(* position at which nothing is kept.                                      *)
LEMMA ParsedIsStreamed ==
  ASSUME NEW text \in Seq(Byte), NEW run, Follows(run, text)
  PROVE  \A i \in 1 .. Len(text) + 1 : \A messages \in Seq(Texts) :
           run[i - 1] = State(<<>>, messages)
             => run[Len(text)] = Before(messages, Parsed(text)[i])
<1> DEFINE n == Len(text) + 1
           p == Parsed(text)
           Agree(i) == \A messages \in Seq(Texts) :
                         run[i - 1] = State(<<>>, messages)
                           => run[Len(text)] = Before(messages, p[i])
           Good == {i \in 1 .. n : Agree(i)}
<1>0. Len(text) \in Nat /\ n \in Nat
  BY LenProperties
<1>1. ASSUME NEW i \in 1 .. n, \A j \in i + 1 .. n : j \in Good
      PROVE  i \in Good
  <2> SUFFICES ASSUME NEW messages \in Seq(Texts), run[i - 1] = State(<<>>, messages)
               PROVE  run[Len(text)] = Before(messages, p[i])
    OBVIOUS
  <2>1. CASE p[i] = Nothing /\ \A k \in i .. Len(text) : text[k] # "$"
    <3>1. i - 1 \in 0 .. Len(text) /\ Len(text) \in i - 1 .. Len(text) /\ (i - 1) + 1 = i
      BY <1>0
    <3>2. run[i - 1].kept = <<>>
      BY DEF State
    <3>3. \A k \in (i - 1) + 1 .. Len(text) : text[k] # "$"
      BY <2>1, <3>1
    <3>4. run[Len(text)] = State(<<>>, messages)
      BY <3>1, <3>2, <3>3, Idles
    <3>5. messages \o <<>> = messages
      BY ConcatEmptySeq
    <3>6. Before(messages, Nothing) = State(<<>>, messages)
      BY <3>5 DEF Before, Nothing, State
    <3> QED
      BY <2>1, <3>4, <3>6
  <2>2. ASSUME NEW start \in i .. Len(text), text[start] = "$",
               \A k \in i .. start - 1 : text[k] # "$",
               \A k \in start + 1 .. Len(text) : text[k] # End,
               p[i] = State(SubSeq(text, start, Len(text)), <<>>)
        PROVE  run[Len(text)] = Before(messages, p[i])
    <3>1. i \in 1 .. Len(text) /\ Len(text) \in start .. Len(text)
      BY <1>0
    <3>2. run[Len(text)] = State(SubSeq(text, start, Len(text)), messages)
      BY <2>2, <3>1, OneMessage
    <3>3. messages \o <<>> = messages
      BY ConcatEmptySeq
    <3> DEFINE sub == SubSeq(text, start, Len(text))
    <3> HIDE DEF sub
    <3>4. Before(messages, State(sub, <<>>)) = State(sub, messages)
      BY <3>3 DEF Before, State
    <3> QED
      BY <2>2, <3>2, <3>4 DEF sub
  <2>3. ASSUME NEW start \in i .. Len(text), text[start] = "$",
               \A k \in i .. start - 1 : text[k] # "$",
               NEW end \in start + 1 .. Len(text), text[end] = End,
               \A k \in start + 1 .. end - 1 : text[k] # End,
               p[i] = Before(Converted(SubSeq(text, start, end - 1)), p[end + 1])
        PROVE  run[Len(text)] = Before(messages, p[i])
    <3> DEFINE sub == SubSeq(text, start, end - 1)
               c == Converted(sub)
               q == p[end + 1]
    <3>1. i \in 1 .. Len(text) /\ end - 1 \in start .. Len(text)
      BY <1>0
    <3>2. run[end - 1] = State(sub, messages)
      BY <2>3, <3>1, OneMessage, SMTT(60)
    <3>3. sub # <<>>
      <4>1. \A k \in start .. end - 1 : text[k] \in Byte
        BY <1>0, ElementOfSeq
      <4>2. Len(sub) = (end - 1) - start + 1 /\ (end - 1) - start + 1 # 0
        BY <1>0, <3>1, <4>1, SubSeqProperties
      <4> HIDE DEF sub
      <4>3. Len(<<>>) = 0
        OBVIOUS
      <4> QED
        BY <4>2, <4>3, Zenon
    <3>4. end \in 1 .. Len(text)
      BY <1>0
    <3>5. run[end] = Heard(State(sub, messages), End)
      BY <2>3, <3>2, <3>4 DEF Follows
    <3> HIDE DEF sub
    <3>6. run[end] = State(<<>>, messages \o c)
      BY <3>3, <3>5 DEF Heard, State, End
    <3>7. c \in Seq(Texts)
      BY ConvertedType
    <3>8. end + 1 \in i + 1 .. n /\ end + 1 \in 1 .. n /\ (end + 1) - 1 = end
      BY <1>0
    <3>9. q \in ParserState
      BY <3>8, ParsedType
    <3> HIDE DEF c
    <3>10. messages \o c \in Seq(Texts)
      BY <3>7, ConcatProperties
    <3>11. run[Len(text)] = Before(messages \o c, q)
      BY <1>1, <3>6, <3>8, <3>10
    <3> HIDE DEF q
    <3>12. Before(messages \o c, q) = Before(messages, Before(c, q))
      BY <3>7, <3>9, BeforeBefore
    <3> QED
      BY <2>3, <3>11, <3>12 DEF c, q, sub
  <2> HIDE DEF Good, p
  <2> QED
    BY <2>1, <2>2, <2>3, ParsedCases DEF p
<1>2. \A i \in 1 .. n : i \in Good
  <2> HIDE DEF Good, n
  <2> QED
    BY <1>0, <1>1, GoingDown
<1> QED
  BY <1>2

(* The two agree as well when a message was begun before the text.         *)
LEMMA ParseIsStreamed ==
  ASSUME NEW text \in Seq(Byte), NEW run, Follows(run, text),
         NEW kept \in Seq(Byte), NEW messages \in Seq(Texts),
         run[0] = State(kept, messages)
  PROVE  run[Len(text)] = Before(messages, Parse(kept, text))
<1> DEFINE end == FirstOf(text, ";", 1)
           p == Parsed(text)
<1>0. Len(text) \in Nat /\ 1 \in 1 .. Len(text) + 1
  BY LenProperties
<1>1. /\ end \in 1 .. Len(text) + 1
      /\ \A k \in 1 .. end - 1 : text[k] # End
      /\ end <= Len(text) => text[end] = End
  BY <1>0, FirstOfProperties DEF End
<1>2. Parse(kept, text) =
        IF kept = <<>> THEN p[1]
        ELSE IF end > Len(text) THEN State(kept \o text, <<>>)
        ELSE Before(Converted(kept \o SubSeq(text, 1, end - 1)), p[end + 1])
  BY DEF Parse, State
<1> HIDE DEF end, p
<1>3. CASE kept = <<>>
  <2>1. run[1 - 1] = State(<<>>, messages)
    BY <1>3
  <2>2. run[Len(text)] = Before(messages, Parsed(text)[1])
    BY <1>0, <2>1, ParsedIsStreamed
  <2> QED
    BY <1>2, <1>3, <2>2 DEF p
<1>4. CASE kept # <<>> /\ end > Len(text)
  <2>1. 0 \in 0 .. Len(text) /\ Len(text) \in 0 .. Len(text)
    BY <1>0
  <2>2. \A k \in 0 + 1 .. Len(text) : text[k] # End
    BY <1>0, <1>1, <1>4
  <2>3. run[Len(text)] = State(kept \o SubSeq(text, 0 + 1, Len(text)), messages)
    BY <1>4, <2>1, <2>2, Keeps
  <2>4. SubSeq(text, 0 + 1, Len(text)) = text
    BY SubSeqFull
  <2>5. run[Len(text)] = State(kept \o text, messages)
    BY <2>3, <2>4, Zenon
  <2> DEFINE all == kept \o text
  <2>6. Parse(kept, text) = State(all, <<>>)
    BY <1>2, <1>4
  <2> HIDE DEF all
  <2>7. messages \o <<>> = messages
    BY ConcatEmptySeq
  <2>8. Before(messages, State(all, <<>>)) = State(all, messages)
    BY <2>7 DEF Before, State
  <2> QED
    BY <2>5, <2>6, <2>8, Zenon DEF all
<1>5. CASE kept # <<>> /\ ~(end > Len(text))
  <2> DEFINE part == kept \o SubSeq(text, 1, end - 1)
             c == Converted(part)
             q == p[end + 1]
  <2>1. /\ 0 \in 0 .. Len(text) /\ end - 1 \in 0 .. Len(text)
        /\ end \in 1 .. Len(text) /\ text[end] = End
    BY <1>0, <1>1, <1>5
  <2>2. \A k \in 0 + 1 .. end - 1 : text[k] # End
    BY <1>1
  <2>3. run[end - 1] = State(kept \o SubSeq(text, 0 + 1, end - 1), messages)
    BY <1>5, <2>1, <2>2, Keeps
  <2>4. part # <<>>
    <3> DEFINE more == SubSeq(text, 1, end - 1)
    <3>1. more \in Seq(Byte)
      <4>1. \A k \in 1 .. end - 1 : text[k] \in Byte
        BY <1>0, <2>1, ElementOfSeq
      <4> QED
        BY <1>0, <2>1, <4>1, SubSeqProperties
    <3> HIDE DEF more
    <3>2. kept \o more # <<>>
      BY <1>5, <3>1, ConcatEqualIffEmpty
    <3> QED
      BY <3>2 DEF more
  <2>5. run[end - 1] = State(part, messages)
    BY <2>3
  <2>6. run[end] = Heard(State(part, messages), End)
    BY <2>1, <2>5 DEF Follows
  <2>7. Parse(kept, text) = Before(c, q)
    BY <1>2, <1>5
  <2> HIDE DEF part
  <2>8. run[end] = State(<<>>, messages \o c)
    BY <2>4, <2>6 DEF Heard, State, End
  <2>9. c \in Seq(Texts)
    BY ConvertedType
  <2>10. end + 1 \in 1 .. Len(text) + 1 /\ (end + 1) - 1 = end
    BY <1>0, <2>1
  <2>11. q \in ParserState
    BY <2>10, ParsedType DEF p
  <2> HIDE DEF c
  <2>12. messages \o c \in Seq(Texts)
    BY <2>9, ConcatProperties
  <2>13. run[Len(text)] = Before(messages \o c, q)
    <3> DEFINE all == messages \o c
               i == end + 1
    <3>1. all \in Seq(Texts) /\ i \in 1 .. Len(text) + 1
      BY <2>10, <2>12
    <3>2. run[i - 1] = State(<<>>, all)
      BY <2>8, <2>10
    <3> HIDE DEF all, i
    <3>3. run[Len(text)] = Before(all, Parsed(text)[i])
      BY <3>1, <3>2, ParsedIsStreamed
    <3> QED
      BY <3>3 DEF all, i, q, p
  <2> HIDE DEF q
  <2>14. Before(messages \o c, q) = Before(messages, Before(c, q))
    BY <2>9, <2>11, BeforeBefore
  <2> QED
    BY <2>7, <2>13, <2>14
<1> QED
  BY <1>3, <1>4, <1>5

----------------------------------------------------------------------------
(* What the parser of single bytes makes of a stream.                      *)
LEMMA StreamingUnfolds ==
  ASSUME NEW bytes \in Seq(Byte)
  PROVE  /\ Streaming(bytes)[0] = Nothing
         /\ Follows(Streaming(bytes), bytes)
<1> DEFINE n == Len(bytes)
           Good == {j \in 0 .. n : \E f : f = [k \in 0 .. j |-> StreamedAt(bytes, k, f)]}
<1>0. n \in Nat
  BY LenProperties
<1>1. 0 \in Good
  <2> DEFINE f == [k \in 0 .. 0 |-> Nothing]
  <2>1. \A k \in 0 .. 0 : StreamedAt(bytes, k, f) = Nothing
    BY DEF StreamedAt
  <2>2. f = [k \in 0 .. 0 |-> StreamedAt(bytes, k, f)]
    BY <2>1
  <2>3. 0 \in 0 .. n
    BY <1>0
  <2> HIDE DEF f
  <2> QED
    BY <2>2, <2>3
<1>2. ASSUME NEW j \in 0 .. n - 1, j \in Good
      PROVE  j + 1 \in Good
  <2>1. PICK f : f = [k \in 0 .. j |-> StreamedAt(bytes, k, f)]
    BY <1>2
  <2> DEFINE m == j + 1
             g == [k \in 0 .. m |-> IF k = m THEN StreamedAt(bytes, m, f) ELSE f[k]]
  <2>2. ASSUME NEW k \in 0 .. j
        PROVE  g[k] = f[k] /\ f[k] = StreamedAt(bytes, k, f)
    <3>1. k \in 0 .. m /\ k # m
      BY <1>0
    <3>2. g[k] = f[k]
      BY <3>1
    <3>3. f[k] = StreamedAt(bytes, k, f)
      BY <2>1
    <3> QED
      BY <3>2, <3>3
  <2>3. g[m] = StreamedAt(bytes, m, f)
    BY <1>0
  <2>4. ASSUME NEW k \in 0 .. m
        PROVE  g[k] = StreamedAt(bytes, k, g)
    <3> HIDE DEF g
    <3>1. k # 0 => k - 1 \in 0 .. j
      BY <1>0
    <3>2. k # 0 => f[k - 1] = g[k - 1]
      BY <2>2, <3>1
    <3>3. StreamedAt(bytes, k, f) = StreamedAt(bytes, k, g)
      BY <3>2 DEF StreamedAt
    <3>4. CASE k = m
      BY <2>3, <3>3, <3>4
    <3>5. CASE k # m
      <4>1. k \in 0 .. j
        BY <1>0, <3>5
      <4> QED
        BY <2>2, <3>3, <4>1
    <3> QED
      BY <3>4, <3>5
  <2>5. g = [k \in 0 .. m |-> StreamedAt(bytes, k, g)]
    <3>1. g = [k \in 0 .. m |-> g[k]]
      OBVIOUS
    <3> HIDE DEF g
    <3> QED
      BY <2>4, <3>1
  <2>6. m \in 0 .. n
    BY <1>0
  <2> HIDE DEF g
  <2> QED
    BY <2>5, <2>6
<1>3. n \in Good
  <2> HIDE DEF Good
  <2>1. \A j \in 0 .. n : j \in Good
    BY <1>0, <1>1, <1>2, GoingUp
  <2> QED
    BY <1>0, <2>1
<1>4. \E f : f = [k \in 0 .. n |-> StreamedAt(bytes, k, f)]
  BY <1>3
<1> DEFINE run == Streaming(bytes)
<1>5. run = CHOOSE f : f = [k \in 0 .. n |-> StreamedAt(bytes, k, f)]
  BY DEF Streaming
<1> HIDE DEF run
<1>6. run = [k \in 0 .. n |-> StreamedAt(bytes, k, run)]
  BY <1>4, <1>5
<1>7. run[0] = Nothing
  <2>1. 0 \in 0 .. n
    BY <1>0
  <2>2. run[0] = StreamedAt(bytes, 0, run)
    BY <1>6, <2>1
  <2> QED
    BY <2>2 DEF StreamedAt
<1>8. ASSUME NEW k \in 1 .. n
      PROVE  run[k] = Heard(run[k - 1], bytes[k])
  <2>1. k \in 0 .. n /\ k # 0
    BY <1>0
  <2>2. run[k] = StreamedAt(bytes, k, run)
    BY <1>6, <2>1
  <2> QED
    BY <2>1, <2>2 DEF StreamedAt
<1> QED
  BY <1>7, <1>8 DEF Follows, run

(* Two runs of it over the same bytes are the same.                        *)
LEMMA RunsAgree ==
  ASSUME NEW n \in Nat, NEW f, NEW g, f[0] = g[0],
         \A k \in 1 .. n : f[k - 1] = g[k - 1] => f[k] = g[k]
  PROVE  \A k \in 0 .. n : f[k] = g[k]
<1> DEFINE Good == {k \in 0 .. n : f[k] = g[k]}
<1>1. 0 \in Good
  OBVIOUS
<1>2. ASSUME NEW k \in 0 .. n - 1, k \in Good
      PROVE  k + 1 \in Good
  <2>1. k + 1 \in 1 .. n /\ k + 1 \in 0 .. n /\ (k + 1) - 1 = k
    OBVIOUS
  <2> QED
    BY <1>2, <2>1
<1>3. \A k \in 0 .. n : k \in Good
  <2> HIDE DEF Good
  <2> QED
    BY <1>1, <1>2, GoingUp
<1> QED
  BY <1>3

(* The stream of what was heard before and of a text that is read now: the *)
(* single bytes of both give what parse gives of the text, wherever the    *)
(* text begins.                                                            *)
LEMMA ParseContinues ==
  ASSUME NEW bytes \in Seq(Byte), NEW text \in Seq(Byte)
  PROVE  /\ Streamed(bytes) \in ParserState
         /\ Streamed(bytes \o text) =
              Before(Streamed(bytes).messages, Parse(Streamed(bytes).kept, text))
<1> DEFINE n == Len(bytes)
           m == Len(text)
           whole == bytes \o text
           f == Streaming(bytes)
           g == Streaming(whole)
           run == [k \in 0 .. m |-> g[n + k]]
<1>0. n \in Nat /\ m \in Nat
  BY LenProperties
<1>1. /\ whole \in Seq(Byte)
      /\ Len(whole) = n + m
      /\ \A k \in 1 .. n + m : whole[k] = IF k <= n THEN bytes[k] ELSE text[k - n]
  BY ConcatProperties
<1> HIDE DEF n, m, whole
<1>2. f[0] = Nothing /\ \A k \in 1 .. n : f[k] = Heard(f[k - 1], bytes[k])
  BY StreamingUnfolds DEF Follows, n
<1>3. g[0] = Nothing /\ \A k \in 1 .. n + m : g[k] = Heard(g[k - 1], whole[k])
  BY <1>1, StreamingUnfolds DEF Follows
<1> HIDE DEF f, g
<1>4. g[n] = f[n]
  <2>1. ASSUME NEW k \in 1 .. n, f[k - 1] = g[k - 1]
        PROVE  f[k] = g[k]
    <3>1. k \in 1 .. n + m /\ k <= n
      BY <1>0
    <3>2. whole[k] = bytes[k]
      BY <1>1, <3>1
    <3> QED
      BY <1>2, <1>3, <2>1, <3>1, <3>2
  <2>2. \A k \in 0 .. n : f[k] = g[k]
    <3>1. f[0] = g[0]
      BY <1>2, <1>3
    <3>2. \A k \in 1 .. n : f[k - 1] = g[k - 1] => f[k] = g[k]
      BY <2>1
    <3> QED
      BY <1>0, <3>1, <3>2, RunsAgree, ZenonT(90)
  <2>3. n \in 0 .. n
    BY <1>0
  <2> QED
    BY <2>2, <2>3
<1>5. f[n] \in ParserState
  <2>1. Nothing = State(<<>>, <<>>)
    BY DEF Nothing, State
  <2>2. Nothing \in ParserState
    BY <2>1, EmptySeq, StateType
  <2>3. Follows(f, bytes)
    BY <1>2 DEF Follows, n
  <2>4. \A k \in 0 .. Len(bytes) : f[k] \in ParserState
    BY <1>2, <2>2, <2>3, RunType
  <2>5. n \in 0 .. n
    BY <1>0
  <2> QED
    BY <2>4, <2>5 DEF n
<1>6. run[0] = f[n] /\ run[m] = g[n + m]
  <2>1. 0 \in 0 .. m /\ m \in 0 .. m /\ n + 0 = n
    BY <1>0
  <2> QED
    BY <1>4, <2>1
<1>7. ASSUME NEW k \in 1 .. m
      PROVE  run[k] = Heard(run[k - 1], text[k])
  <2>1. /\ k \in 0 .. m /\ k - 1 \in 0 .. m
        /\ n + k \in 1 .. n + m /\ n + (k - 1) = (n + k) - 1
        /\ ~(n + k <= n) /\ (n + k) - n = k
    BY <1>0
  <2>2. g[n + k] = Heard(g[(n + k) - 1], whole[n + k])
    BY <1>3, <2>1
  <2>3. whole[n + k] = text[k]
    BY <1>1, <2>1
  <2>4. run[k] = g[n + k] /\ run[k - 1] = g[(n + k) - 1]
    BY <2>1
  <2> QED
    BY <2>2, <2>3, <2>4
<1> HIDE DEF run
<1>8. Follows(run, text)
  BY <1>7 DEF Follows, m
<1>9. PICK kept \in Seq(Byte), messages \in Seq(Texts) : f[n] = State(kept, messages)
  BY <1>5 DEF ParserState, State
<1>10. f[n].kept = kept /\ f[n].messages = messages
  BY <1>9 DEF State
<1>11. run[m] = Before(messages, Parse(kept, text))
  <2>1. run[0] = State(kept, messages)
    BY <1>6, <1>9
  <2> QED
    BY <1>8, <2>1, ParseIsStreamed DEF m
<1>12. Streamed(bytes) = f[n] /\ Streamed(whole) = g[n + m]
  BY <1>1 DEF Streamed, f, g, n
<1> QED
  BY <1>5, <1>6, <1>10, <1>11, <1>12 DEF whole

----------------------------------------------------------------------------
(* The link between the devices.                                           *)
PlanOK == plan.pico \in Seq(Texts) /\ plan.esp \in Seq(Texts) /\ {tried, said} \subseteq Nat
ParsesStream == Streamed(heard) = State(string_buffer, queue)
LinkInv == LinkTypeOK /\ PlanOK /\ ParsesStream

(* A message is three bytes.                                               *)
LEMMA ThreeBytes ==
  ASSUME NEW S, NEW a \in S, NEW b \in S, NEW c \in S
  PROVE  <<a, b, c>> \in Seq(S)
OBVIOUS

(* A message is bytes.                                                     *)
LEMMA FramedType ==
  ASSUME NEW text \in Texts
  PROVE  Framed(text) \in Seq(Byte)
<1>1. "$" \in Byte /\ ";" \in Byte /\ text \in Byte
  BY Delimiters, Zenon
<1> QED
  BY <1>1, ThreeBytes, Zenon DEF Framed

(* What a chunk adds to the text read so far.                              *)
LEMMA AppendedType ==
  ASSUME NEW c \in Seq(Byte), NEW text \in Appended(c)
  PROVE  text \in Seq(Byte)
<1> DEFINE nul == FirstOf(c, Nul, 1)
<1>0. Len(c) \in Nat /\ 1 \in 1 .. Len(c) + 1
  BY LenProperties
<1>1. nul \in 1 .. Len(c) + 1
  BY <1>0, FirstOfProperties
<1>2. {Junk, "$", ";"} \subseteq Byte
  BY LinkAssumption, Zenon
<1>3. \/ nul <= Len(c) /\ text = SubSeq(c, 1, nul - 1)
      \/ text = c
      \/ \E b \in {Junk, "$", ";"} : text = Append(c, b)
  BY Zenon DEF Appended
<1> HIDE DEF nul
<1>4. CASE nul <= Len(c) /\ text = SubSeq(c, 1, nul - 1)
  <2>1. \A k \in 1 .. nul - 1 : c[k] \in Byte
    BY <1>0, <1>1, <1>4, ElementOfSeq
  <2> QED
    BY <1>0, <1>1, <1>4, <2>1, SubSeqProperties
<1>5. CASE \E b \in {Junk, "$", ";"} : text = Append(c, b)
  <2>1. PICK b \in Byte : text = Append(c, b)
    BY <1>2, <1>5, Zenon
  <2> QED
    BY <2>1, AppendProperties
<1> QED
  BY <1>3, <1>4, <1>5, Zenon

(* What is taken from the receive ring is a byte.                          *)
LEMMA RxOldestType == Rx!RingTypeOK => Rx!Oldest \in Byte
BY DEF Rx!RingTypeOK, Rx!Oldest

(* Every step of the link is a step of the UART or leaves it alone.        *)
LEMMA LinkUartStep ==
  ASSUME LinkInv, [LinkNext]_linkVars
  PROVE  [UartNext]_uartVars
<1> USE DEF Handler, Write
<1>a. PlanOK /\ to_pico \in Seq(Byte)
  BY DEF LinkInv, LinkTypeOK
<1>1. CASE PicoSend
  BY <1>1 DEF PicoSend, UartNext
<1>2. CASE ReadStart \/ ReadChunkByte \/ ReadEnd
  BY <1>2 DEF ReadStart, ReadChunkByte, ReadEnd, UartNext
<1>3. CASE ReadChunk \/ EspSend \/ EspArrive \/ EspGlitch \/ EspRead \/ EspFlush
  <2>1. UNCHANGED uartVars
    BY <1>3, Zenon DEF ReadChunk, EspSend, EspArrive, EspGlitch, EspRead, EspFlush
  <2> QED
    BY <2>1
<1>4. CASE WireByte
  <2>1. Head(to_pico) \in Byte
    BY <1>4, <1>a, HeadTailProperties DEF WireByte
  <2> QED
    BY <1>4, <2>1 DEF WireByte, UartNext
<1>5. CASE Glitch
  BY <1>5, RingAssumption DEF Glitch, UartNext
<1>6. CASE UartStep \/ Receive
  BY <1>6 DEF UartStep, Receive, UartNext
<1>7. CASE UNCHANGED linkVars
  BY <1>7 DEF linkVars
<1> QED
  BY <1>1, <1>2, <1>3, <1>4, <1>5, <1>6, <1>7 DEF LinkNext

(* And keeps the types of the UART.                                        *)
LEMMA LinkUartTypes ==
  ASSUME LinkInv, [LinkNext]_linkVars
  PROVE  UartTypeOK'
<1>1. UartTypeOK
  BY DEF LinkInv, LinkTypeOK
<1> QED
  BY <1>1, LinkUartStep, UartTypeStep

(* The line grows at its end.                                              *)
LEMMA LineGrows ==
  ASSUME UartTypeOK, [UartNext]_uartVars
  PROVE  Len(line') >= Len(line) /\ Len(line) \in Nat /\ Len(line') \in Nat
<1>0. line \in Seq(Byte) /\ tx_fifo \in Seq(Byte)
  BY DEF UartTypeOK, FlowTypeOK
<1>1. CASE Shift
  <2>1. Head(tx_fifo) \in Byte /\ line' = Append(line, Head(tx_fifo))
    BY <1>0, <1>1, HeadTailProperties DEF Shift
  <2>2. Len(line') = Len(line) + 1
    BY <1>0, <2>1, AppendProperties
  <2> QED
    BY <1>0, <2>2, LenProperties
<1>2. CASE line' = line
  BY <1>0, <1>2, LenProperties
<1>3. Shift \/ line' = line
  BY Zenon DEF UartNext, Handler, Write, Arrive, Interrupt, IrqReceive, IrqReceived,
     IrqTransmit, TxMove, IrqEnd, Send, Fill, Filled, Enable, Prime, Primed, ReadByte,
     ReadCall, uartVars
<1> QED
  BY <1>1, <1>2, <1>3

(* What the main loop parses, the types of it included, is what a parser   *)
(* of the whole stream makes of it.                                        *)
LEMMA ReaderStep ==
  ASSUME LinkInv, [LinkNext]_linkVars
  PROVE  /\ {chunk, str, string_buffer, heard}' \subseteq Seq(Byte)
         /\ queue' \in Seq(Texts)
         /\ ParsesStream'
<1>a. /\ chunk \in Seq(Byte) /\ str \in Seq(Byte) /\ string_buffer \in Seq(Byte)
      /\ heard \in Seq(Byte) /\ queue \in Seq(Texts) /\ <<>> \in Seq(Byte)
      /\ Rx!RingTypeOK /\ ParsesStream
  BY EmptySeq DEF LinkInv, LinkTypeOK, UartTypeOK
<1>1. CASE ReadChunkByte
  <2>1. chunk' = Append(chunk, Rx!Oldest) /\ UNCHANGED <<str, string_buffer, queue, heard>>
    BY <1>1 DEF ReadChunkByte
  <2>2. Rx!Oldest \in Byte
    BY <1>a, RxOldestType
  <2>3. chunk' \in Seq(Byte)
    BY <1>a, <2>1, <2>2, AppendProperties
  <2> QED
    BY <1>a, <2>1, <2>3 DEF ParsesStream
<1>2. CASE ReadChunk
  <2>1. /\ \E text \in Appended(chunk) : str' = str \o text
        /\ chunk' = <<>>
        /\ UNCHANGED <<string_buffer, queue, heard>>
    BY <1>2, Zenon DEF ReadChunk
  <2>2. PICK text \in Appended(chunk) : str' = str \o text
    BY <2>1
  <2>3. text \in Seq(Byte)
    BY <1>a, AppendedType
  <2>4. str' \in Seq(Byte)
    BY <1>a, <2>2, <2>3, ConcatProperties
  <2> QED
    BY <1>a, <2>1, <2>4 DEF ParsesStream
<1>3. CASE ReadEnd
  <2> DEFINE parsed == Parse(string_buffer, str)
             whole == heard \o str
  <2>1. /\ string_buffer' = parsed.kept
        /\ queue' = queue \o parsed.messages
        /\ heard' = whole
        /\ str' = <<>>
        /\ UNCHANGED chunk
    BY <1>3, Zenon DEF ReadEnd
  <2>2. Streamed(heard).kept = string_buffer /\ Streamed(heard).messages = queue
    BY <1>a DEF ParsesStream, State
  <2>3. Streamed(whole) = Before(queue, parsed)
    BY <1>a, <2>2, ParseContinues
  <2>4. whole \in Seq(Byte)
    BY <1>a, ConcatProperties
  <2>5. Streamed(whole) \in ParserState
    BY <1>a, <2>4, ParseContinues
  <2> HIDE DEF parsed, whole
  <2>6. Before(queue, parsed) = State(string_buffer', queue')
    BY <2>1 DEF Before, State
  <2>7. State(string_buffer', queue') \in ParserState
    BY <2>3, <2>5, <2>6
  <2>8. string_buffer' \in Seq(Byte) /\ queue' \in Seq(Texts)
    BY <2>7 DEF State, ParserState
  <2>9. ParsesStream'
    BY <2>1, <2>3, <2>6 DEF ParsesStream
  <2> QED
    BY <1>a, <2>1, <2>4, <2>8, <2>9
<1>4. CASE UNCHANGED picoReader
  <2>1. UNCHANGED <<chunk, str, string_buffer, queue, heard>>
    BY <1>4 DEF picoReader
  <2> QED
    BY <1>a, <2>1 DEF ParsesStream
<1>5. ReadChunkByte \/ ReadChunk \/ ReadEnd \/ UNCHANGED picoReader
  BY Zenon DEF LinkNext, PicoSend, ReadStart, EspSend, WireByte, Glitch, UartStep, Receive,
     EspArrive, EspGlitch, EspRead, EspFlush, linkVars
<1> QED
  BY <1>1, <1>2, <1>3, <1>4, <1>5

(* What the ESP extracts is typed.                                         *)
LEMMA ExtractedType ==
  ASSUME NEW data \in Seq(Byte)
  PROVE  Extracted(data) \in Seq(Texts)
<1>0. Len(data) \in Nat
  BY LenProperties
<1>1. PICK E : /\ E = [k \in 1 .. Len(data) + 1 |-> ExtractedAt(data, k, E)]
               /\ Extracted(data) = E[1]
  BY <1>0, ExtractedUnfolds
<1> DEFINE n == Len(data) + 1
           Good == {i \in 1 .. n : E[i] \in Seq(Texts)}
<1>2. n \in Nat /\ 1 \in 1 .. n
  BY <1>0
<1>3. ASSUME NEW i \in 1 .. n, \A j \in i + 1 .. n : j \in Good
      PROVE  i \in Good
  <2> DEFINE end == FirstOf(data, ";", i)
             sub == SubSeq(data, FirstOf(data, "$", i), end - 1)
  <2>1. E[i] = ExtractedAt(data, i, E)
    BY <1>1
  <2>2. \/ E[i] = <<>>
        \/ end <= Len(data) /\ E[i] = Converted(sub) \o E[end + 1]
    <3>1. end \in Int
      <4>1. end \in i .. Len(data) + 1
        BY FirstOfProperties
      <4> HIDE DEF end
      <4> QED
        BY <1>0, <4>1
    <3>2. ~(end > Len(data)) => end <= Len(data)
      <4> HIDE DEF end
      <4> QED
        BY <1>0, <3>1
    <3> QED
      BY <2>1, <3>2, Zenon DEF ExtractedAt
  <2>3. end \in i .. Len(data) + 1
    BY FirstOfProperties
  <2> HIDE DEF end, sub
  <2>4. CASE E[i] = <<>>
    BY <2>4, EmptySeq
  <2>5. CASE end <= Len(data) /\ E[i] = Converted(sub) \o E[end + 1]
    <3>1. end + 1 \in i + 1 .. n
      BY <1>0, <2>3, <2>5
    <3>2. E[end + 1] \in Seq(Texts)
      BY <1>3, <3>1
    <3>3. Converted(sub) \in Seq(Texts)
      BY ConvertedType
    <3> DEFINE first == Converted(sub)
               others == E[end + 1]
    <3> HIDE DEF first, others
    <3>4. first \in Seq(Texts) /\ others \in Seq(Texts)
      BY <3>2, <3>3 DEF first, others
    <3>5. first \o others \in Seq(Texts)
      BY <3>4, ConcatProperties
    <3> QED
      BY <2>5, <3>5, Zenon DEF first, others
  <2> QED
    BY <2>2, <2>4, <2>5
<1>4. \A i \in 1 .. n : i \in Good
  <2> HIDE DEF Good, n
  <2> QED
    BY <1>2, <1>3, GoingDown
<1> QED
  BY <1>1, <1>2, <1>4

(* The texts to send, and the bytes on their way to the Pico.              *)
LEMMA WireStep ==
  ASSUME LinkInv, [LinkNext]_linkVars
  PROVE  to_pico' \in Seq(Byte) /\ PlanOK'
<1>a. /\ to_pico \in Seq(Byte) /\ plan.pico \in Seq(Texts) /\ plan.esp \in Seq(Texts)
      /\ tried \in Nat /\ said \in Nat
  BY DEF LinkInv, LinkTypeOK, PlanOK
<1>1. CASE PicoSend
  BY <1>1, <1>a DEF PicoSend, PlanOK
<1>2. CASE EspSend
  <2>1. /\ said < Len(plan.esp) /\ to_pico' = to_pico \o Framed(plan.esp[said + 1])
        /\ said' = said + 1 /\ UNCHANGED <<plan, tried>>
    BY <1>2 DEF EspSend
  <2>2. said + 1 \in 1 .. Len(plan.esp)
    BY <1>a, <2>1, LenProperties
  <2>3. plan.esp[said + 1] \in Texts
    BY <1>a, <2>2, ElementOfSeq
  <2>4. Framed(plan.esp[said + 1]) \in Seq(Byte)
    BY <2>3, FramedType
  <2>5. to_pico' \in Seq(Byte)
    BY <1>a, <2>1, <2>4, ConcatProperties
  <2> QED
    BY <1>a, <2>1, <2>5 DEF PlanOK
<1>3. CASE UNCHANGED plans /\ (UNCHANGED to_pico \/ (to_pico # <<>> /\ to_pico' = Tail(to_pico)))
  <2>1. UNCHANGED <<plan, tried, said>>
    BY <1>3 DEF plans
  <2>2. to_pico' \in Seq(Byte)
    BY <1>a, <1>3, HeadTailProperties
  <2> QED
    BY <1>a, <2>1, <2>2 DEF PlanOK
<1>4. \/ PicoSend \/ EspSend
      \/ UNCHANGED plans /\ (UNCHANGED to_pico \/ (to_pico # <<>> /\ to_pico' = Tail(to_pico)))
  BY DEF LinkNext, ReadStart, ReadChunkByte, ReadChunk, ReadEnd, WireByte, Glitch, UartStep,
     Receive, EspArrive, EspGlitch, EspRead, EspFlush, linkVars
<1> QED
  BY <1>1, <1>2, <1>3, <1>4

(* The ESP's receive buffer, its events, and what it extracted.            *)
LEMMA EspSideStep ==
  ASSUME LinkInv, [LinkNext]_linkVars
  PROVE  /\ esp_buffer' \in Seq(Byte) /\ esp_got' \in Seq(Texts)
         /\ events' \in Seq({"data", "other"}) /\ Len(events') <= EventQueueSize
         /\ taken' \in 0 .. Len(line')
<1> DEFINE Types == {"data", "other"}
<1>a. /\ esp_buffer \in Seq(Byte) /\ esp_got \in Seq(Texts) /\ events \in Seq(Types)
      /\ Len(events) <= EventQueueSize /\ taken \in 0 .. Len(line) /\ line \in Seq(Byte)
      /\ EventQueueSize \in Nat /\ Len(events) \in Nat
  BY LinkAssumption, LenProperties DEF LinkInv, LinkTypeOK, UartTypeOK, FlowTypeOK
<1>b. Len(line') >= Len(line) /\ Len(line) \in Nat /\ Len(line') \in Nat
  <2>1. UartTypeOK
    BY DEF LinkInv, LinkTypeOK
  <2> QED
    BY <2>1, LinkUartStep, LineGrows
<1>c. taken \in 0 .. Len(line')
  BY <1>a, <1>b
<1>d. ASSUME NEW event \in Types
      PROVE  Post(event) \in Seq(Types) /\ Len(Post(event)) <= EventQueueSize
  <2>1. Append(events, event) \in Seq(Types) /\ Len(Append(events, event)) = Len(events) + 1
    <3> HIDE DEF Types
    <3> QED
      BY <1>a, <1>d, AppendProperties
  <2> HIDE DEF Types
  <2> QED
    BY <1>a, <2>1 DEF Post
<1>e. "data" \in Types /\ "other" \in Types
  OBVIOUS
<1>f. ASSUME events # <<>>
      PROVE  Tail(events) \in Seq(Types) /\ Len(Tail(events)) <= EventQueueSize
  <2>1. Tail(events) \in Seq(Types) /\ Len(Tail(events)) = Len(events) - 1
    <3> HIDE DEF Types
    <3> QED
      BY <1>a, <1>f, HeadTailProperties
  <2> HIDE DEF Types
  <2> QED
    BY <1>a, <2>1
<1>g. <<>> \in Seq(Types) /\ Len(<<>>) <= EventQueueSize /\ <<>> \in Seq(Byte)
  BY <1>a, EmptySeq
<1> HIDE DEF Types
<1>1. CASE EspArrive
  <2>1. /\ taken < Len(line) /\ taken' = taken + 1
        /\ \/ esp_buffer' = Append(esp_buffer, line[taken + 1]) /\ events' = Post("data")
           \/ UNCHANGED esp_buffer /\ events' = Post("other")
        /\ UNCHANGED esp_got
    BY <1>1 DEF EspArrive
  <2>2. taken + 1 \in 1 .. Len(line) /\ taken + 1 \in 0 .. Len(line')
    BY <1>a, <1>b, <2>1
  <2>3. line[taken + 1] \in Byte
    BY <1>a, <2>2, ElementOfSeq
  <2>4. esp_buffer' \in Seq(Byte)
    <3>1. Append(esp_buffer, line[taken + 1]) \in Seq(Byte)
      BY <1>a, <2>3, AppendProperties
    <3> QED
      BY <1>a, <2>1, <3>1
  <2>5. events' \in Seq(Types) /\ Len(events') <= EventQueueSize
    BY <1>d, <1>e, <2>1
  <2> QED
    BY <1>a, <2>1, <2>2, <2>4, <2>5 DEF Types
<1>2. CASE EspGlitch
  <2>1. events' = Post("other") /\ UNCHANGED <<taken, esp_buffer, esp_got>>
    BY <1>2 DEF EspGlitch
  <2>2. events' \in Seq(Types) /\ Len(events') <= EventQueueSize
    BY <1>d, <1>e, <2>1
  <2> QED
    BY <1>a, <1>c, <2>1, <2>2 DEF Types
<1>3. CASE EspRead
  <2>1. /\ events # <<>> /\ events' = Tail(events)
        /\ esp_got' = esp_got \o Extracted(esp_buffer) /\ esp_buffer' = <<>>
        /\ UNCHANGED taken
    BY <1>3 DEF EspRead
  <2>2. esp_got' \in Seq(Texts)
    <3>1. Extracted(esp_buffer) \in Seq(Texts)
      BY <1>a, ExtractedType
    <3> QED
      BY <1>a, <2>1, <3>1, ConcatProperties
  <2>3. events' \in Seq(Types) /\ Len(events') <= EventQueueSize
    BY <1>f, <2>1
  <2> QED
    BY <1>c, <1>g, <2>1, <2>2, <2>3 DEF Types
<1>4. CASE EspFlush
  BY <1>4, <1>a, <1>c, <1>g DEF EspFlush, Types
<1>5. CASE UNCHANGED espReader
  BY <1>5, <1>a, <1>c DEF espReader, Types
<1>6. EspArrive \/ EspGlitch \/ EspRead \/ EspFlush \/ UNCHANGED espReader
  BY Zenon DEF LinkNext, PicoSend, ReadStart, ReadChunkByte, ReadChunk, ReadEnd, EspSend,
     WireByte, Glitch, UartStep, Receive, linkVars
<1> QED
  BY <1>1, <1>2, <1>3, <1>4, <1>5, <1>6

(* The link starts and goes on so.                                         *)
LEMMA LinkInitInv ==
  ASSUME NEW pico_texts \in Seq(Texts), NEW esp_texts \in Seq(Texts), NEW disturbances,
         LinkInit(pico_texts, esp_texts, disturbances)
  PROVE  LinkInv
<1>1. UartTypeOK /\ Len(line) \in Nat
  <2>1. UartInit
    BY DEF LinkInit
  <2>2. UartTypeOK
    BY <2>1, UartInitInv DEF UartInv
  <2> QED
    BY <2>2, LenProperties DEF UartTypeOK, FlowTypeOK
<1>2. /\ chunk = <<>> /\ str = <<>> /\ string_buffer = <<>> /\ queue = <<>>
      /\ heard = <<>> /\ to_pico = <<>> /\ esp_buffer = <<>> /\ events = <<>>
      /\ esp_got = <<>> /\ taken = 0
  BY DEF LinkInit
<1>3. LinkTypeOK
  <2>1. EventQueueSize \in Nat
    BY LinkAssumption, Zenon
  <2>2. Len(events) <= EventQueueSize /\ taken \in 0 .. Len(line)
    BY <1>1, <1>2, <2>1
  <2> QED
    BY <1>1, <1>2, <2>2, EmptySeq, Zenon DEF LinkTypeOK
<1>4. PlanOK
  BY DEF LinkInit, PlanOK
<1>5. ParsesStream
  <2>1. <<>> \in Seq(Byte) /\ Len(<<>>) = 0
    BY EmptySeq
  <2>2. Streamed(<<>>) = Nothing
    BY <2>1, StreamingUnfolds DEF Streamed
  <2> QED
    BY <1>2, <2>2 DEF ParsesStream, Nothing, State
<1> QED
  BY <1>3, <1>4, <1>5 DEF LinkInv

(* Every step keeps it.                                                    *)
LEMMA LinkInvStep == LinkInv /\ [LinkNext]_linkVars => LinkInv'
<1> SUFFICES ASSUME LinkInv, [LinkNext]_linkVars PROVE LinkInv'
  OBVIOUS
<1>1. LinkTypeOK'
  BY LinkUartTypes, ReaderStep, WireStep, EspSideStep, Zenon DEF LinkTypeOK
<1> QED
  BY <1>1, ReaderStep, WireStep DEF LinkInv

(* So it is always, whatever is sent and whatever the wire does.           *)
THEOREM LinkInvariant == LinkSpec => []LinkInv
<1>1. (\E pico_texts, esp_texts \in Seq(Texts), disturbances \in Nat :
         LinkInit(pico_texts, esp_texts, disturbances)) => LinkInv
  BY LinkInitInv
<1> QED
  BY <1>1, LinkInvStep, PTL DEF LinkSpec

(* The types of the link's state hold in every reachable state.            *)
THEOREM LinkTypeCorrect == LinkSpec => []LinkTypeOK
<1>1. LinkInv => LinkTypeOK
  BY DEF LinkInv
<1> QED
  BY LinkInvariant, <1>1, PTL

(* Wherever reads cut the stream, and whatever was lost or added, parse()  *)
(* finds what a parser of the whole stream finds: for texts and chunks of  *)
(* any length (commbridge.cpp:73-104).                                     *)
THEOREM CutsNeverMatter == LinkSpec => []CutsDoNotMatter
<1>1. LinkInv => CutsDoNotMatter
  BY DEF LinkInv, ParsesStream, State, CutsDoNotMatter
<1> QED
  BY LinkInvariant, <1>1, PTL

(* The link uses the UART as PicoUart says a program does, so that what is *)
(* proved of the UART holds under the link.                                *)
THEOREM LinkUsesUart == LinkSpec => UartSpec
<1>1. (\E pico_texts, esp_texts \in Seq(Texts), disturbances \in Nat :
         LinkInit(pico_texts, esp_texts, disturbances)) => UartInit
  BY DEF LinkInit
<1>2. LinkInv /\ [LinkNext]_linkVars => [UartNext]_uartVars
  BY LinkUartStep
<1> QED
  BY <1>1, <1>2, LinkInvariant, PTL DEF LinkSpec, UartSpec

----------------------------------------------------------------------------
(* What one sequence of bytes has of the texts of another: all its texts,  *)
(* at places that keep their order.                                        *)
Texted(s) == {i \in 1 .. Len(s) : s[i] \in Texts}
Places(f, s, t) ==
  /\ f \in [Texted(s) -> 1 .. Len(t)]
  /\ \A i \in Texted(s) : t[f[i]] = s[i]
  /\ \A i, j \in Texted(s) : i < j => f[i] < f[j]
Within(s, t) == \E f : Places(f, s, t)

(* A sequence has its own texts, in their order.                           *)
LEMMA WithinItself ==
  ASSUME NEW s \in Seq(Byte)
  PROVE  Within(s, s)
<1> DEFINE f == [i \in Texted(s) |-> i]
<1>1. Places(f, s, s)
  BY DEF Places, Texted
<1> QED
  BY <1>1 DEF Within

(* What is within a part of a whole is within the whole.                   *)
LEMMA WithinTransitive ==
  ASSUME NEW s \in Seq(Byte), NEW t \in Seq(Byte), NEW u \in Seq(Byte),
         Within(s, t), Within(t, u)
  PROVE  Within(s, u)
<1>1. PICK f : Places(f, s, t)
  BY DEF Within
<1>2. PICK g : Places(g, t, u)
  BY DEF Within
<1>3. ASSUME NEW i \in Texted(s)
      PROVE  /\ f[i] \in Texted(t) /\ g[f[i]] \in 1 .. Len(u)
             /\ u[g[f[i]]] = s[i]
  <2>1. f[i] \in 1 .. Len(t) /\ t[f[i]] = s[i] /\ s[i] \in Texts
    BY <1>1, <1>3 DEF Places, Texted
  <2>2. f[i] \in Texted(t)
    BY <2>1 DEF Texted
  <2> QED
    BY <1>2, <2>1, <2>2 DEF Places
<1> DEFINE h == [i \in Texted(s) |-> g[f[i]]]
<1>4. h \in [Texted(s) -> 1 .. Len(u)]
  BY <1>3
<1>5. \A i \in Texted(s) : u[h[i]] = s[i]
  BY <1>3
<1>6. ASSUME NEW i \in Texted(s), NEW j \in Texted(s), i < j
      PROVE  h[i] < h[j]
  <2>1. f[i] < f[j]
    BY <1>1, <1>6 DEF Places
  <2>2. g[f[i]] < g[f[j]]
    BY <1>2, <1>3, <2>1 DEF Places
  <2> QED
    BY <2>2
<1> HIDE DEF h
<1>7. Places(h, s, u)
  BY <1>4, <1>5, <1>6 DEF Places
<1> QED
  BY <1>7 DEF Within

(* Where there is no text, there is nothing to find.                       *)
LEMMA WithinAnything ==
  ASSUME NEW s \in Seq(Byte), NEW t \in Seq(Byte), \A i \in 1 .. Len(s) : s[i] \notin Texts
  PROVE  Within(s, t)
<1>1. Texted(s) = {}
  BY DEF Texted
<1> DEFINE f == [i \in {} |-> 0]
<1>2. Places(f, s, t)
  BY <1>1 DEF Places
<1> QED
  BY <1>2 DEF Within

(* No bytes are within any.                                                *)
LEMMA EmptyWithin ==
  ASSUME NEW t \in Seq(Byte)
  PROVE  Within(<<>>, t)
<1>1. <<>> \in Seq(Byte) /\ Len(<<>>) = 0
  BY EmptySeq
<1>2. \A i \in 1 .. Len(<<>>) : <<>>[i] \notin Texts
  BY <1>1
<1> QED
  BY <1>1, <1>2, WithinAnything

(* What holds of the parts holds of the whole.                             *)
LEMMA WithinCat ==
  ASSUME NEW a \in Seq(Byte), NEW b \in Seq(Byte), NEW c \in Seq(Byte), NEW d \in Seq(Byte),
         Within(a, c), Within(b, d)
  PROVE  Within(Cat(a, b), Cat(c, d))
<1>1. PICK f : Places(f, a, c)
  BY DEF Within
<1>2. PICK g : Places(g, b, d)
  BY DEF Within
<1> DEFINE ab == Cat(a, b)
           cd == Cat(c, d)
           m == Len(a)
           n == Len(c)
           h == [i \in Texted(ab) |-> IF i <= m THEN f[i] ELSE n + g[i - m]]
<1>3. /\ m \in Nat /\ Len(b) \in Nat /\ ab \in Seq(Byte) /\ Len(ab) = m + Len(b)
      /\ \A i \in 1 .. m + Len(b) : ab[i] = IF i <= m THEN a[i] ELSE b[i - m]
  BY CatProperties
<1>4. /\ n \in Nat /\ Len(d) \in Nat /\ cd \in Seq(Byte) /\ Len(cd) = n + Len(d)
      /\ \A i \in 1 .. n + Len(d) : cd[i] = IF i <= n THEN c[i] ELSE d[i - n]
  BY CatProperties
<1> HIDE DEF ab, cd, m, n
<1>5. ASSUME NEW i \in Texted(ab), i <= m
      PROVE  /\ i \in Texted(a) /\ h[i] = f[i]
             /\ h[i] \in 1 .. n /\ cd[h[i]] = ab[i]
  <2>0. i \in 1 .. Len(ab) /\ ab[i] \in Texts
    BY <1>5 DEF Texted
  <2>1. i \in 1 .. m + Len(b) /\ ab[i] = a[i] /\ ab[i] \in Texts /\ i \in 1 .. m
    BY <1>3, <1>5, <2>0
  <2>2. i \in Texted(a)
    BY <2>1 DEF Texted, m
  <2>3. f[i] \in 1 .. n /\ c[f[i]] = a[i]
    BY <1>1, <2>2 DEF Places, n
  <2>4. f[i] \in 1 .. n + Len(d) /\ f[i] <= n
    BY <1>4, <2>3
  <2>5. cd[f[i]] = c[f[i]]
    BY <1>4, <2>4
  <2>6. h[i] = f[i]
    BY <1>5
  <2> QED
    BY <2>1, <2>2, <2>3, <2>5, <2>6
<1>6. ASSUME NEW i \in Texted(ab), ~(i <= m)
      PROVE  /\ i \in Nat /\ i - m \in Texted(b) /\ h[i] = n + g[i - m]
             /\ h[i] \in n + 1 .. n + Len(d) /\ cd[h[i]] = ab[i]
  <2>0. i \in 1 .. Len(ab) /\ ab[i] \in Texts
    BY <1>6 DEF Texted
  <2>1. i \in 1 .. m + Len(b) /\ ab[i] = b[i - m] /\ ab[i] \in Texts /\ i - m \in 1 .. Len(b)
    BY <1>3, <1>6, <2>0
  <2>2. i - m \in Texted(b)
    BY <2>1 DEF Texted
  <2> DEFINE k == g[i - m]
  <2>3. k \in 1 .. Len(d) /\ d[k] = b[i - m]
    BY <1>2, <2>2 DEF Places
  <2>4. h[i] = n + k
    BY <1>6
  <2> HIDE DEF k, h
  <2>5. /\ n + k \in n + 1 .. n + Len(d) /\ n + k \in 1 .. n + Len(d)
          /\ ~(n + k <= n) /\ (n + k) - n = k
    BY <1>4, <2>3
  <2>6. cd[n + k] = d[k]
    BY <1>4, <2>5
  <2> QED
    BY <2>1, <2>2, <2>3, <2>4, <2>5, <2>6 DEF k
<1>7. h \in [Texted(ab) -> 1 .. Len(cd)]
  <2>1. ASSUME NEW i \in Texted(ab)
        PROVE  h[i] \in 1 .. Len(cd)
    <3> HIDE DEF h
    <3>1. CASE i <= m
      BY <1>4, <1>5, <3>1
    <3>2. CASE ~(i <= m)
      BY <1>4, <1>6, <3>2
    <3> QED
      BY <3>1, <3>2
  <2>2. h = [i \in Texted(ab) |-> h[i]]
    OBVIOUS
  <2> HIDE DEF h
  <2> QED
    BY <2>1, <2>2
<1>8. \A i \in Texted(ab) : cd[h[i]] = ab[i]
  <2> HIDE DEF h
  <2> QED
    BY <1>5, <1>6
<1>9. ASSUME NEW i \in Texted(ab), NEW j \in Texted(ab), i < j
      PROVE  h[i] < h[j]
  <2> HIDE DEF h
  <2>0. i \in Nat /\ j \in Nat
    BY <1>3 DEF Texted
  <2>1. CASE j <= m
    <3>1. i <= m
      BY <1>3, <1>9, <2>0, <2>1
    <3> QED
      BY <1>1, <1>5, <1>9, <2>1, <3>1 DEF Places
  <2>2. CASE i <= m /\ ~(j <= m)
    <3>1. h[i] \in 1 .. n /\ h[j] \in n + 1 .. n + Len(d)
      BY <1>5, <1>6, <2>2
    <3> QED
      BY <1>4, <3>1
  <2>3. CASE ~(i <= m) /\ ~(j <= m)
    <3>1. /\ i - m \in Texted(b) /\ h[i] = n + g[i - m]
          /\ j - m \in Texted(b) /\ h[j] = n + g[j - m]
      BY <1>6, <2>3
    <3>2. i - m < j - m
      BY <1>3, <1>9, <2>0
    <3>3. g[i - m] < g[j - m] /\ g[i - m] \in 1 .. Len(d) /\ g[j - m] \in 1 .. Len(d)
      BY <1>2, <3>1, <3>2 DEF Places
    <3> QED
      BY <1>4, <3>1, <3>3
  <2> QED
    BY <2>1, <2>2, <2>3
<1> HIDE DEF h
<1>10. Places(h, ab, cd)
  BY <1>7, <1>8, <1>9 DEF Places
<1> QED
  BY <1>10 DEF Within, ab, cd

(* A part of a part.                                                       *)
LEMMA PartWithin ==
  ASSUME NEW s \in Seq(Byte), NEW i \in 1 .. Len(s) + 1, NEW j \in 0 .. Len(s),
         NEW m \in i .. Len(s) + 1, NEW n \in 0 .. j
  PROVE  /\ SubSeq(s, m, n) \in Seq(Byte) /\ SubSeq(s, i, j) \in Seq(Byte)
         /\ Within(SubSeq(s, m, n), SubSeq(s, i, j))
<1>0. /\ Len(s) \in Nat /\ i \in Nat /\ j \in Nat /\ m \in Nat /\ n \in Nat
      /\ 1 <= i /\ i <= m /\ n <= j /\ j <= Len(s)
  BY LenProperties
<1>1. ASSUME NEW k \in 1 .. Len(s)
      PROVE  s[k] \in Byte
  BY ElementOfSeq
<1> DEFINE a == SubSeq(s, m, n)
           b == SubSeq(s, i, j)
<1>2. /\ b \in Seq(Byte) /\ Len(b) = (IF i <= j THEN j - i + 1 ELSE 0)
      /\ \A k \in 1 .. j - i + 1 : b[k] = s[i + k - 1]
  <2>1. \A k \in i .. j : s[k] \in Byte
    BY <1>0, <1>1
  <2> QED
    BY <1>0, <2>1, SubSeqProperties
<1>3. /\ a \in Seq(Byte) /\ Len(a) = (IF m <= n THEN n - m + 1 ELSE 0)
      /\ \A k \in 1 .. n - m + 1 : a[k] = s[m + k - 1]
  <2>1. \A k \in m .. n : s[k] \in Byte
    BY <1>0, <1>1
  <2> QED
    BY <1>0, <2>1, SubSeqProperties
<1> HIDE DEF a, b
<1> DEFINE f == [k \in Texted(a) |-> k + (m - i)]
<1>4. ASSUME NEW k \in Texted(a)
      PROVE  k \in Nat /\ k + (m - i) \in 1 .. Len(b) /\ b[k + (m - i)] = a[k]
  <2>1. k \in 1 .. n - m + 1
    BY <1>0, <1>3, <1>4 DEF Texted
  <2>2. k + (m - i) \in 1 .. j - i + 1 /\ i + (k + (m - i)) - 1 = m + k - 1 /\ i <= j
    BY <1>0, <2>1
  <2> QED
    BY <1>2, <1>3, <2>1, <2>2
<1>5. f \in [Texted(a) -> 1 .. Len(b)] /\ \A k \in Texted(a) : b[f[k]] = a[k]
  BY <1>4
<1>6. \A k, l \in Texted(a) : k < l => f[k] < f[l]
  <2>1. m - i \in Int
    BY <1>0
  <2> QED
    BY <1>4, <2>1
<1> HIDE DEF f
<1>7. Places(f, a, b)
  BY <1>5, <1>6 DEF Places
<1> QED
  BY <1>2, <1>3, <1>7 DEF Within, a, b

(* What is left when a byte is taken.                                      *)
LEMMA TailWithin ==
  ASSUME NEW s \in Seq(Byte), s # <<>>
  PROVE  Tail(s) \in Seq(Byte) /\ Within(Tail(s), s)
<1>1. Tail(s) = SubSeq(s, 2, Len(s)) /\ SubSeq(s, 1, Len(s)) = s
  BY TailIsSubSeq, SubSeqFull
<1>2. Len(s) \in Nat \ {0}
  BY EmptySeq, LenProperties
<1>3. /\ 1 \in 1 .. Len(s) + 1 /\ Len(s) \in 0 .. Len(s) /\ 2 \in 1 .. Len(s) + 1
  BY <1>2
<1>4. /\ SubSeq(s, 2, Len(s)) \in Seq(Byte)
      /\ Within(SubSeq(s, 2, Len(s)), SubSeq(s, 1, Len(s)))
  BY <1>3, PartWithin
<1> QED
  BY <1>1, <1>4, Zenon

(* One byte more is one more sequence.                                     *)
LEMMA AppendIsCat ==
  ASSUME NEW s \in Seq(Byte), NEW b \in Byte
  PROVE  <<b>> \in Seq(Byte) /\ Append(s, b) = Cat(s, <<b>>) /\ Append(s, b) \in Seq(Byte)
BY AppendIsConcat, AppendProperties DEF Cat

(* Nothing joined to a sequence.                                           *)
LEMMA CatEmpty ==
  ASSUME NEW s \in Seq(Byte)
  PROVE  Cat(s, <<>>) = s /\ Cat(<<>>, s) = s /\ <<>> \in Seq(Byte)
BY ConcatEmptySeq, EmptySeq DEF Cat

(* Joined bytes are bytes.                                                 *)
LEMMA CatType ==
  ASSUME NEW s \in Seq(Byte), NEW t \in Seq(Byte)
  PROVE  Cat(s, t) \in Seq(Byte)
BY ConcatProperties DEF Cat

(* A sequence is within a longer one.                                      *)
LEMMA WithinLonger ==
  ASSUME NEW s \in Seq(Byte), NEW t \in Seq(Byte)
  PROVE  Within(s, Cat(s, t))
<1>1. Within(s, s) /\ Within(<<>>, t) /\ <<>> \in Seq(Byte)
  BY WithinItself, EmptyWithin, EmptySeq
<1>2. Within(Cat(s, <<>>), Cat(s, t))
  BY <1>1, WithinCat
<1> QED
  BY <1>2, CatEmpty

(* A sequence of texts is a sequence of bytes.                             *)
LEMMA TextsAreBytes == Seq(Texts) \subseteq Seq(Byte)
<1>1. Texts \subseteq Byte
  BY Delimiters, Zenon
<1> QED
  BY <1>1, SeqMonotonic

(* The other bytes of a message are no texts.                              *)
LEMMA NoTexts == "$" \notin Texts /\ End \notin Texts /\ Nul \notin Texts /\ Junk \notin Texts
BY LinkAssumption, Zenon DEF End

(* The message around a text has that text and no other.                   *)
LEMMA FramedWithin ==
  ASSUME NEW text \in Texts
  PROVE  Within(Framed(text), <<text>>)
<1> DEFINE a == <<"$", text, End>>
           f == [i \in {2} |-> 1]
<1>1. Len(a) = 3 /\ a[1] = "$" /\ a[2] = text /\ a[3] = End
  BY DEF a
<1> HIDE DEF a
<1>2. Texted(a) = {2}
  BY <1>1, NoTexts DEF Texted
<1>3. Places(f, a, <<text>>)
  BY <1>1, <1>2 DEF Places
<1> QED
  BY <1>3, Zenon DEF Within, Framed, End, a

(* A conversion invents no text.                                           *)
LEMMA ConvertedWithin ==
  ASSUME NEW s \in Seq(Byte)
  PROVE  Within(Converted(s), s)
<1>1. CASE \E text \in Texts : s = <<"$", text>>
  <2>1. PICK text \in Texts : s = <<"$", text>>
    BY <1>1
  <2>2. Len(s) = 2 /\ s[2] = text
    BY <2>1
  <2> DEFINE a == <<text>>
             f == [i \in {1} |-> 2]
  <2>3. Converted(s) = a
    BY <1>1, <2>2 DEF Converted
  <2>4. Len(a) = 1 /\ a[1] = text
    OBVIOUS
  <2> HIDE DEF a
  <2>5. Texted(a) = {1}
    BY <2>4 DEF Texted
  <2>6. Places(f, a, s)
    BY <2>2, <2>4, <2>5 DEF Places
  <2> QED
    BY <2>3, <2>6 DEF Within
<1>2. CASE ~ \E text \in Texts : s = <<"$", text>>
  <2>1. Converted(s) = <<>>
    BY <1>2 DEF Converted
  <2> QED
    BY <2>1, EmptyWithin
<1> QED
  BY <1>1, <1>2

(* A chunk adds no text of its own, even where memory after it is read.    *)
LEMMA AppendedWithin ==
  ASSUME NEW c \in Seq(Byte), NEW text \in Appended(c)
  PROVE  Within(text, c)
<1> DEFINE nul == FirstOf(c, Nul, 1)
<1>0. Len(c) \in Nat /\ 1 \in 1 .. Len(c) + 1 /\ Len(c) \in 0 .. Len(c)
  BY LenProperties
<1>1. nul \in 1 .. Len(c) + 1
  BY <1>0, FirstOfProperties
<1>2. \A b \in {Junk, "$", End} : b \in Byte /\ b \notin Texts
  BY LinkAssumption, NoTexts, Zenon DEF End
<1>3. \/ nul <= Len(c) /\ text = SubSeq(c, 1, nul - 1)
      \/ text = c
      \/ \E b \in {Junk, "$", End} : text = Append(c, b)
  BY Zenon DEF Appended, End
<1> HIDE DEF nul
<1>4. CASE nul <= Len(c) /\ text = SubSeq(c, 1, nul - 1)
  <2>1. nul - 1 \in 0 .. Len(c)
    BY <1>0, <1>1, <1>4
  <2>2. Within(SubSeq(c, 1, nul - 1), SubSeq(c, 1, Len(c)))
    BY <1>0, <2>1, PartWithin
  <2>3. SubSeq(c, 1, Len(c)) = c
    BY SubSeqFull
  <2> QED
    BY <1>4, <2>2, <2>3, Zenon
<1>5. CASE \E b \in {Junk, "$", End} : text = Append(c, b)
  <2>1. PICK b \in {Junk, "$", End} : text = Append(c, b)
    BY <1>5
  <2>2. b \in Byte /\ b \notin Texts
    BY <1>2
  <2>3. <<b>> \in Seq(Byte) /\ text = Cat(c, <<b>>)
    BY <2>1, <2>2, AppendIsCat
  <2>4. \A i \in 1 .. Len(<<b>>) : <<b>>[i] \notin Texts
    BY <2>2
  <2>5. Within(<<b>>, <<>>) /\ Within(c, c) /\ <<>> \in Seq(Byte)
    BY <2>3, <2>4, WithinAnything, WithinItself, EmptySeq
  <2>6. Within(Cat(c, <<b>>), Cat(c, <<>>))
    BY <2>3, <2>5, WithinCat
  <2> QED
    BY <2>3, <2>6, CatEmpty
<1> QED
  BY <1>3, <1>4, <1>5, WithinItself, Zenon

(* What the parser has found is what it was given, in its order.           *)
LEMMA HeardWithin ==
  ASSUME NEW kept \in Seq(Byte), NEW messages \in Seq(Texts), NEW b \in Byte,
         NEW before \in Seq(Byte), Within(Cat(messages, kept), before)
  PROVE  LET after == Heard(State(kept, messages), b)
         IN Within(Cat(after.messages, after.kept), Append(before, b))
<1> DEFINE one == <<b>>
           after == Heard(State(kept, messages), b)
<1>a. messages \in Seq(Byte) /\ <<>> \in Seq(Byte)
  BY TextsAreBytes, EmptySeq
<1>b. one \in Seq(Byte) /\ Append(before, b) = Cat(before, one)
  BY AppendIsCat
<1> HIDE DEF one
<1>c. Cat(before, one) \in Seq(Byte) /\ Cat(messages, kept) \in Seq(Byte)
  BY <1>a, <1>b, CatType
<1>d. Within(before, Cat(before, one))
  BY <1>b, WithinLonger
<1>e. Within(Cat(messages, kept), Cat(before, one))
  BY <1>c, <1>d, WithinTransitive
<1>f. Within(Cat(Cat(messages, kept), one), Cat(before, one))
  BY <1>b, <1>c, WithinItself, WithinCat
<1>1. CASE kept = <<>> /\ b = "$"
  <2>1. after = State(one, messages)
    BY <1>1 DEF Heard, State, one
  <2>2. Cat(messages, kept) = messages
    BY <1>1, <1>a, CatEmpty
  <2>3. after.messages = messages /\ after.kept = one
    BY <2>1 DEF State
  <2> QED
    BY <1>b, <1>f, <2>2, <2>3
<1>2. CASE kept = <<>> /\ b # "$"
  <2>1. after.messages = messages /\ after.kept = kept
    BY <1>2 DEF Heard, State
  <2> QED
    BY <1>b, <1>e, <2>1
<1>3. CASE kept # <<>> /\ b = End
  <2> DEFINE c == Converted(kept)
  <2>1. after.messages = Cat(messages, c) /\ after.kept = <<>>
    BY <1>3 DEF Heard, State, End, Cat
  <2>2. c \in Seq(Byte) /\ Within(c, kept)
    BY ConvertedType, ConvertedWithin, TextsAreBytes
  <2> HIDE DEF c
  <2>3. Cat(messages, c) \in Seq(Byte)
    BY <1>a, <2>2, CatType
  <2>4. Within(Cat(messages, c), Cat(messages, kept))
    BY <1>a, <2>2, WithinItself, WithinCat
  <2>5. Within(Cat(messages, c), Cat(before, one))
    BY <1>c, <1>e, <2>3, <2>4, WithinTransitive
  <2>6. Cat(Cat(messages, c), <<>>) = Cat(messages, c)
    BY <2>3, CatEmpty
  <2> QED
    BY <1>b, <2>1, <2>5, <2>6
<1>4. CASE kept # <<>> /\ b # End
  <2>1. after.messages = messages /\ after.kept = Append(kept, b)
    BY <1>4 DEF Heard, State, End
  <2>2. Cat(messages, Append(kept, b)) = Append(Cat(messages, kept), b)
    BY <1>a, AppendToConcat DEF Cat
  <2>3. Append(Cat(messages, kept), b) = Cat(Cat(messages, kept), one)
    BY <1>c, AppendIsCat DEF one
  <2> QED
    BY <1>b, <1>f, <2>1, <2>2, <2>3
<1> QED
  BY <1>1, <1>2, <1>3, <1>4

(* Nor does the parser of the whole stream.                                *)
LEMMA StreamedWithin ==
  ASSUME NEW bytes \in Seq(Byte)
  PROVE  Within(Cat(Streamed(bytes).messages, Streamed(bytes).kept), bytes)
<1> DEFINE n == Len(bytes)
           run == Streaming(bytes)
           Upto(k) == SubSeq(bytes, 1, k)
           Good == {k \in 0 .. n : Within(Cat(run[k].messages, run[k].kept), Upto(k))}
<1>0. n \in Nat
  BY LenProperties
<1>1. run[0] = Nothing /\ Follows(run, bytes)
  BY StreamingUnfolds
<1>2. \A k \in 0 .. n : run[k] \in ParserState
  <2>1. Nothing \in ParserState
    BY EmptySeq, StateType DEF Nothing, State
  <2> HIDE DEF run
  <2> QED
    BY <1>1, <2>1, RunType
<1> HIDE DEF run
<1>a. ASSUME NEW k \in 0 .. n
      PROVE  Upto(k) \in Seq(Byte)
  <2>1. \A i \in 1 .. k : bytes[i] \in Byte
    BY <1>0, ElementOfSeq
  <2> QED
    BY <1>0, <2>1, SubSeqProperties
<1>3. 0 \in Good
  <2>1. run[0].messages = <<>> /\ run[0].kept = <<>>
    BY <1>1 DEF Nothing
  <2>2. Cat(<<>>, <<>>) = <<>> /\ <<>> \in Seq(Byte)
    BY CatEmpty, EmptySeq
  <2>3. 0 \in 0 .. n
    BY <1>0
  <2>4. Upto(0) \in Seq(Byte)
    BY <1>a, <2>3
  <2> HIDE DEF Upto
  <2>5. Within(<<>>, Upto(0))
    BY <2>4, EmptyWithin
  <2> QED
    BY <2>1, <2>2, <2>3, <2>5
<1>4. ASSUME NEW k \in 0 .. n - 1, k \in Good
      PROVE  k + 1 \in Good
  <2> DEFINE b == bytes[k + 1]
             kept == run[k].kept
             messages == run[k].messages
             before == Upto(k)
  <2>1. k \in 0 .. n /\ k + 1 \in 1 .. n /\ k + 1 \in 0 .. n /\ (k + 1) - 1 = k
    BY <1>0
  <2>2. b \in Byte
    BY <2>1, ElementOfSeq
  <2>3. run[k + 1] = Heard(run[k], b)
    BY <1>1, <2>1 DEF Follows
  <2>4. kept \in Seq(Byte) /\ messages \in Seq(Texts) /\ run[k] = State(kept, messages)
    BY <1>2, <2>1 DEF ParserState, State
  <2>5. before \in Seq(Byte)
    BY <1>a, <2>1
  <2>6. Upto(k + 1) = Append(before, b)
    <3>1. 1 \in 1 .. Len(bytes) /\ k + 1 \in 1 .. Len(bytes)
      BY <1>0, <2>1
    <3>2. SubSeq(bytes, 1, k + 1) = SubSeq(bytes, 1, (k + 1) - 1) \o <<bytes[k + 1]>>
      BY <3>1, SubSeqRecursiveSecond
    <3>3. Append(before, b) = before \o <<b>>
      <4> HIDE DEF before, b
      <4> QED
        BY <2>2, <2>5, AppendIsConcat
    <3> QED
      BY <2>1, <3>2, <3>3
  <2>7. Within(Cat(messages, kept), before)
    BY <1>4
  <2> HIDE DEF b, kept, messages, before, Upto
  <2> DEFINE after == Heard(State(kept, messages), b)
  <2>8. Within(Cat(after.messages, after.kept), Append(before, b))
    BY <2>2, <2>4, <2>5, <2>7, HeardWithin
  <2>9. run[k + 1] = after
    BY <2>3, <2>4
  <2> HIDE DEF after
  <2> QED
    BY <2>1, <2>6, <2>8, <2>9
<1>5. n \in Good
  <2> HIDE DEF Good
  <2>1. \A k \in 0 .. n : k \in Good
    BY <1>0, <1>3, <1>4, GoingUp
  <2> QED
    BY <1>0, <2>1
<1>6. Upto(n) = bytes
  BY SubSeqFull
<1>7. Within(Cat(run[n].messages, run[n].kept), Upto(n))
  BY <1>5
<1> HIDE DEF Upto, Good
<1> QED
  BY <1>6, <1>7 DEF Streamed, run, n

(* The same of the ESP's parser.                                           *)
LEMMA ExtractedWithin ==
  ASSUME NEW data \in Seq(Byte)
  PROVE  Within(Extracted(data), data)
<1>0. Len(data) \in Nat
  BY LenProperties
<1>1. PICK E : /\ E = [k \in 1 .. Len(data) + 1 |-> ExtractedAt(data, k, E)]
               /\ Extracted(data) = E[1]
  BY <1>0, ExtractedUnfolds
<1> DEFINE n == Len(data) + 1
           From(i) == SubSeq(data, i, Len(data))
           Good == {i \in 1 .. n : E[i] \in Seq(Byte) /\ Within(E[i], From(i))}
<1>2. n \in Nat /\ 1 \in 1 .. n
  BY <1>0
<1>a. ASSUME NEW i \in 1 .. n
      PROVE  From(i) \in Seq(Byte)
  <2>1. /\ i \in 1 .. Len(data) + 1 /\ Len(data) \in 0 .. Len(data)
        /\ i \in i .. Len(data) + 1
    BY <1>0
  <2> QED
    BY <2>1, PartWithin
<1>3. ASSUME NEW i \in 1 .. n, \A j \in i + 1 .. n : j \in Good
      PROVE  i \in Good
  <2> DEFINE start == FirstOf(data, "$", i)
             end == FirstOf(data, ";", i)
             sub == SubSeq(data, start, end - 1)
  <2>1. E[i] = ExtractedAt(data, i, E)
    BY <1>1
  <2>2. start \in i .. Len(data) + 1 /\ end \in i .. Len(data) + 1
    BY FirstOfProperties
  <2>3. E[i] = IF end > Len(data) \/ start > end \/ end - start + 1 > LongestCommand
               THEN <<>>
               ELSE Converted(sub) \o E[end + 1]
    BY <2>1, Zenon DEF ExtractedAt
  <2> HIDE DEF start, end
  <2>4. CASE end > Len(data) \/ start > end \/ end - start + 1 > LongestCommand
    <3>1. E[i] = <<>>
      BY <2>3, <2>4
    <3>2. From(i) \in Seq(Byte)
      BY <1>a
    <3> HIDE DEF From
    <3> QED
      BY <3>1, <3>2, EmptyWithin, EmptySeq
  <2>5. CASE ~(end > Len(data) \/ start > end \/ end - start + 1 > LongestCommand)
    <3>1. E[i] = Converted(sub) \o E[end + 1]
      BY <2>3, <2>5
    <3>2. end + 1 \in i + 1 .. n /\ end + 1 \in 1 .. n
      BY <1>0, <2>2, <2>5
    <3>3. E[end + 1] \in Seq(Byte) /\ Within(E[end + 1], From(end + 1))
      BY <1>3, <3>2
    <3>4. /\ i \in 1 .. Len(data) + 1 /\ end \in 0 .. Len(data)
          /\ start \in i .. Len(data) + 1 /\ end - 1 \in 0 .. end
          /\ end \in i - 1 .. Len(data) /\ Len(data) \in end .. Len(data)
      BY <1>0, <2>2, <2>5
    <3> DEFINE first == SubSeq(data, i, end)
    <3>5. sub \in Seq(Byte) /\ first \in Seq(Byte) /\ Within(sub, first)
      BY <3>4, PartWithin
    <3>6. first \o From(end + 1) = From(i)
      BY <3>4, ConcatAdjacentSubSeq
    <3>7. From(end + 1) \in Seq(Byte)
      BY <1>a, <3>2
    <3> DEFINE c == Converted(sub)
    <3> HIDE DEF sub, first, From
    <3>8. c \in Seq(Byte) /\ Within(c, sub)
      BY <3>5, ConvertedType, ConvertedWithin, TextsAreBytes
    <3> HIDE DEF c
    <3>9. Within(c, first)
      BY <3>5, <3>8, WithinTransitive
    <3>10. Within(Cat(c, E[end + 1]), Cat(first, From(end + 1)))
      BY <3>3, <3>5, <3>7, <3>8, <3>9, WithinCat
    <3>11. Cat(c, E[end + 1]) \in Seq(Byte)
      BY <3>3, <3>8, CatType
    <3>12. E[i] = Cat(c, E[end + 1]) /\ Cat(first, From(end + 1)) = From(i)
      BY <3>1, <3>6, Zenon DEF Cat, c
    <3> QED
      BY <3>10, <3>11, <3>12
  <2> QED
    BY <2>4, <2>5
<1>4. \A i \in 1 .. n : i \in Good
  <2> HIDE DEF Good, n
  <2> QED
    BY <1>2, <1>3, GoingDown
<1>5. E[1] \in Seq(Byte) /\ Within(E[1], From(1))
  BY <1>2, <1>4
<1>6. From(1) = data
  BY SubSeqFull
<1> QED
  BY <1>1, <1>5, <1>6, Zenon

(* What a sequence of texts has within another is a subsequence of it.     *)
LEMMA WithinIsSubsequence ==
  ASSUME NEW s \in Seq(Texts), NEW t, Within(s, t)
  PROVE  Subsequence(s, t)
<1>1. PICK f : Places(f, s, t)
  BY DEF Within
<1>2. Len(s) \in Nat /\ Texted(s) = 1 .. Len(s)
  BY LenProperties, ElementOfSeq DEF Texted
<1>3. f \in [1 .. Len(s) -> 1 .. Len(t)]
  BY <1>1, <1>2 DEF Places
<1>4. ASSUME NEW i \in 1 .. Len(s)
      PROVE  s[i] = t[f[i]] /\ (i > 1 => f[i - 1] < f[i])
  <2>1. s[i] = t[f[i]]
    BY <1>1, <1>2 DEF Places
  <2>2. ASSUME i > 1
        PROVE  f[i - 1] < f[i]
    <3>1. i - 1 \in 1 .. Len(s) /\ i - 1 < i
      BY <1>2, <2>2
    <3> QED
      BY <1>1, <1>2, <3>1 DEF Places
  <2> QED
    BY <2>1, <2>2
<1> QED
  BY <1>3, <1>4 DEF Subsequence

----------------------------------------------------------------------------
(* The receive ring, as the transmit ring above.                           *)
LEMMA RxPut ==
  ASSUME Rx!RingTypeOK, NEW b \in Byte, Rx!Put(b)
  PROVE  Rx!RingTypeOK' /\ Rx!Contents' = Append(Rx!Contents, b)
<1>1. RxP!RingTypeOK /\ RxP!Put(b)
  BY DEF Rx!RingTypeOK, Rx!Put, Rx!Slots, Rx!Following,
         RxP!RingTypeOK, RxP!Put, RxP!Slots, RxP!Following
<1>2. RxP!RingTypeOK' /\ RxP!Contents' = Append(RxP!Contents, b)
  BY <1>1, RxP!PutAppends, RingAssumption DEF RxP!RingAssumption
<1> QED
  BY <1>2 DEF Rx!RingTypeOK, RxP!RingTypeOK, Rx!Slots, RxP!Slots, Rx!Contents,
     RxP!Contents, Rx!Count, RxP!Count, Rx!Slot, RxP!Slot

(* What is taken from the receive ring is its oldest byte, and the others *)
(* stay.                                                                   *)
LEMMA RxGet ==
  ASSUME Rx!RingTypeOK, Rx!Get, ~ Rx!empty
  PROVE  /\ Rx!RingTypeOK'
         /\ Rx!Contents # <<>>
         /\ Rx!Contents' = Tail(Rx!Contents)
         /\ Rx!Oldest = Head(Rx!Contents)
<1>1. RxP!RingTypeOK /\ RxP!Get
  BY DEF Rx!RingTypeOK, Rx!Get, Rx!Slots, Rx!Following,
         RxP!RingTypeOK, RxP!Get, RxP!Slots, RxP!Following
<1>2. /\ RxP!RingTypeOK'
      /\ RxP!Contents # <<>>
      /\ RxP!Contents' = Tail(RxP!Contents)
      /\ RxP!Oldest = Head(RxP!Contents)
  BY <1>1, RxP!GetTakesOldest, RingAssumption DEF RxP!RingAssumption, Rx!empty
<1> QED
  BY <1>2 DEF Rx!RingTypeOK, RxP!RingTypeOK, Rx!Slots, RxP!Slots, Rx!Contents,
     RxP!Contents, Rx!Count, RxP!Count, Rx!Slot, RxP!Slot, Rx!Oldest, RxP!Oldest

(* The contents of the receive ring are a sequence of bytes, empty when   *)
(* the ring is.                                                            *)
LEMMA RxContents ==
  Rx!RingTypeOK => /\ Rx!Contents \in Seq(Byte)
                   /\ Rx!empty <=> Rx!Contents = <<>>
<1> SUFFICES ASSUME Rx!RingTypeOK
             PROVE  /\ Rx!Contents \in Seq(Byte)
                    /\ Rx!empty <=> Rx!Contents = <<>>
  OBVIOUS
<1>1. RxP!RingTypeOK
  BY DEF Rx!RingTypeOK, RxP!RingTypeOK, Rx!Slots, RxP!Slots
<1>2. RxP!ContentsOK
  BY <1>1, RxP!ContentsTypeCorrect, RingAssumption DEF RxP!RingAssumption
<1>3. RxP!Contents \in Seq(Byte) /\ (rx_head = rx_tail <=> RxP!Contents = <<>>)
  BY <1>2, EmptySeq DEF RxP!ContentsOK
<1> QED
  BY <1>3 DEF Rx!Contents, RxP!Contents, Rx!Count, RxP!Count, Rx!Slot, RxP!Slot, Rx!empty

----------------------------------------------------------------------------
(* What is on its way to the Pico, from what it has parsed to the wire,    *)
(* and what is on its way from it.                                         *)
UpToChunk == Cat(Cat(heard, str), chunk)
UpToRing == Cat(UpToChunk, Rx!Contents)
UpToFifo == Cat(UpToRing, rx_fifo)
Coming == Cat(UpToFifo, to_pico)
AtEsp == Cat(esp_got, esp_buffer)
UpToLine == Cat(AtEsp, SubSeq(accepted, taken + 1, Len(accepted)))
Leaving == Cat(UpToLine, out)

NothingInventedInv ==
  /\ Within(Coming, SubSeq(plan.esp, 1, said)) /\ said <= Len(plan.esp)
  /\ Within(Leaving, SubSeq(plan.pico, 1, tried)) /\ tried <= Len(plan.pico)

(* What follows a part does not matter.                                    *)
LEMMA WithinChain ==
  ASSUME NEW a \in Seq(Byte), NEW b \in Seq(Byte), NEW c \in Seq(Byte), Within(a, b)
  PROVE  Within(Cat(a, c), Cat(b, c))
BY WithinItself, WithinCat

(* One more text is sent.                                                  *)
LEMMA SentGrows ==
  ASSUME NEW texts \in Seq(Texts), NEW n \in Nat, n < Len(texts)
  PROVE  /\ SubSeq(texts, 1, n) \in Seq(Byte)
         /\ texts[n + 1] \in Texts /\ <<texts[n + 1]>> \in Seq(Byte)
         /\ SubSeq(texts, 1, n + 1) = Cat(SubSeq(texts, 1, n), <<texts[n + 1]>>)
<1>0. /\ Len(texts) \in Nat /\ n + 1 \in 1 .. Len(texts) /\ 1 \in 1 .. Len(texts)
      /\ (n + 1) - 1 = n
  BY LenProperties
<1>1. \A i \in 1 .. n : texts[i] \in Texts
  BY <1>0, ElementOfSeq
<1>2. SubSeq(texts, 1, n) \in Seq(Texts)
  BY <1>0, <1>1, SubSeqProperties
<1>3. texts[n + 1] \in Texts
  BY <1>0, ElementOfSeq
<1>4. <<texts[n + 1]>> \in Seq(Texts)
  BY <1>3
<1>5. SubSeq(texts, 1, n + 1) = SubSeq(texts, 1, (n + 1) - 1) \o <<texts[n + 1]>>
  BY <1>0, SubSeqRecursiveSecond
<1> QED
  BY <1>0, <1>2, <1>3, <1>4, <1>5, TextsAreBytes, Zenon DEF Cat

(* All on the way to the Pico are sequences of bytes.                      *)
LinkFlows ==
  /\ heard \in Seq(Byte) /\ str \in Seq(Byte) /\ chunk \in Seq(Byte)
  /\ Rx!Contents \in Seq(Byte) /\ rx_fifo \in Seq(Byte) /\ to_pico \in Seq(Byte)
  /\ UpToChunk \in Seq(Byte) /\ UpToRing \in Seq(Byte) /\ UpToFifo \in Seq(Byte)
  /\ Coming \in Seq(Byte)

(* The types say so.                                                       *)
LEMMA FlowTypes == LinkTypeOK => LinkFlows
<1> SUFFICES ASSUME LinkTypeOK PROVE LinkFlows
  OBVIOUS
<1>1. /\ heard \in Seq(Byte) /\ str \in Seq(Byte) /\ chunk \in Seq(Byte)
      /\ rx_fifo \in Seq(Byte) /\ to_pico \in Seq(Byte) /\ Rx!RingTypeOK
  BY DEF LinkTypeOK, UartTypeOK, FlowTypeOK
<1>2. Rx!Contents \in Seq(Byte)
  BY <1>1, RxContents
<1>3. Cat(heard, str) \in Seq(Byte)
  BY <1>1, CatType
<1>4. UpToChunk \in Seq(Byte)
  BY <1>1, <1>3, CatType DEF UpToChunk
<1>5. UpToRing \in Seq(Byte)
  BY <1>2, <1>4, CatType DEF UpToRing
<1>6. UpToFifo \in Seq(Byte)
  BY <1>1, <1>5, CatType DEF UpToFifo
<1>7. Coming \in Seq(Byte)
  BY <1>1, <1>6, CatType DEF Coming
<1> QED
  BY <1>1, <1>2, <1>4, <1>5, <1>6, <1>7 DEF LinkFlows

(* A byte that moves on stays where it is in the whole.                    *)
LEMMA MovesOn ==
  ASSUME NEW a \in Seq(Byte), NEW b \in Seq(Byte), NEW c \in Seq(Byte), c # <<>>
  PROVE  Cat(Cat(a, Append(b, Head(c))), Tail(c)) = Cat(Cat(a, b), c)
<1>1. Head(c) \in Byte /\ Tail(c) \in Seq(Byte)
  BY HeadTailProperties
<1>2. Append(b, Head(c)) \in Seq(Byte)
  BY <1>1, AppendProperties
<1> DEFINE d == Append(b, Head(c))
           e == Tail(c)
<1>3. d \in Seq(Byte) /\ e \in Seq(Byte) /\ Cat(d, e) = Cat(b, c)
  BY <1>1, <1>2, MoveHead DEF Cat
<1> HIDE DEF d, e
<1>4. Cat(Cat(a, d), e) = Cat(Cat(a, b), c)
  BY <1>3, Regroup
<1> QED
  BY <1>4 DEF d, e

(* The joined sequences joined the other way.                              *)
LEMMA CatAssociative ==
  ASSUME NEW a \in Seq(Byte), NEW b \in Seq(Byte), NEW c \in Seq(Byte)
  PROVE  Cat(Cat(a, b), c) = Cat(a, Cat(b, c))
BY ConcatAssociative DEF Cat

(* A byte taken from the ring is in the chunk.                             *)
LEMMA RingToChunk ==
  ASSUME heard \in Seq(Byte), str \in Seq(Byte), chunk \in Seq(Byte),
         Rx!Contents \in Seq(Byte), Rx!Contents # <<>>,
         chunk' = Append(chunk, Head(Rx!Contents)),
         Rx!Contents' = Tail(Rx!Contents), UNCHANGED <<heard, str>>
  PROVE  UpToRing' = UpToRing
<1> DEFINE read == Cat(heard, str)
<1>1. read \in Seq(Byte)
  BY CatType
<1>2. UpToRing = Cat(Cat(read, chunk), Rx!Contents)
  BY DEF UpToRing, UpToChunk
<1>3. UpToRing' = Cat(Cat(read, Append(chunk, Head(Rx!Contents))), Tail(Rx!Contents))
  BY DEF UpToRing, UpToChunk
<1> HIDE DEF read
<1> DEFINE c == Rx!Contents
<1>4. c \in Seq(Byte) /\ c # <<>>
  OBVIOUS
<1> HIDE DEF c
<1>5. Cat(Cat(read, Append(chunk, Head(c))), Tail(c)) = Cat(Cat(read, chunk), c)
  BY <1>1, <1>4, MovesOn
<1> QED
  BY <1>2, <1>3, <1>5 DEF c

(* No step but a message sent adds a text to what comes.                   *)
LEMMA ComingStep ==
  ASSUME LinkInv, LinkFlows, LinkFlows', [LinkNext]_linkVars
  PROVE  EspSend \/ Within(Coming', Coming)
<1> USE DEF LinkFlows
<1>0. <<>> \in Seq(Byte) /\ Rx!RingTypeOK
  BY EmptySeq DEF LinkInv, LinkTypeOK, UartTypeOK
<1>r. UNCHANGED rxRing => UNCHANGED Rx!Contents
  BY DEF rxRing, Rx!Contents, Rx!Count, Rx!Slot
<1>a. UNCHANGED rx_fifo /\ Within(UpToRing', UpToRing) => Within(UpToFifo', UpToFifo)
  BY WithinChain DEF UpToFifo
<1>b. UNCHANGED to_pico /\ Within(UpToFifo', UpToFifo) => Within(Coming', Coming)
  BY WithinChain DEF Coming
<1>c. UNCHANGED Rx!Contents /\ Within(UpToChunk', UpToChunk) => Within(UpToRing', UpToRing)
  BY WithinChain DEF UpToRing
<1>1. CASE ReadChunkByte
  <2>1. /\ ~ Rx!empty /\ Rx!Get /\ chunk' = Append(chunk, Rx!Oldest)
        /\ UNCHANGED <<heard, str, rx_fifo, to_pico>>
    BY <1>1 DEF ReadChunkByte, ReadByte
  <2>2. /\ Rx!Contents # <<>> /\ Rx!Contents' = Tail(Rx!Contents)
        /\ chunk' = Append(chunk, Head(Rx!Contents))
    BY <1>0, <2>1, RxGet
  <2>5. UpToRing' = UpToRing
    BY <2>1, <2>2, RingToChunk
  <2> QED
    BY <1>a, <1>b, <2>1, <2>5, WithinItself
<1>2. CASE ReadChunk
  <2>1. /\ \E text \in Appended(chunk) : str' = str \o text
        /\ chunk' = <<>>
        /\ UNCHANGED <<heard, rxRing, rx_fifo, to_pico>>
    BY <1>2, Zenon DEF ReadChunk, uartVars
  <2>2. PICK text \in Appended(chunk) : str' = str \o text
    BY <2>1
  <2>3. text \in Seq(Byte) /\ Within(text, chunk)
    BY AppendedType, AppendedWithin
  <2>4. str' = Cat(str, text)
    BY <2>2 DEF Cat
  <2>5. Within(str', Cat(str, chunk)) /\ Cat(str, chunk) \in Seq(Byte)
    BY <2>3, <2>4, WithinItself, WithinCat, CatType
  <2>6. Within(Cat(heard, str'), Cat(heard, Cat(str, chunk)))
    BY <2>5, WithinItself, WithinCat
  <2>7. Cat(heard, Cat(str, chunk)) = UpToChunk
    <3>0. heard \in Seq(Byte) /\ str \in Seq(Byte) /\ chunk \in Seq(Byte)
      OBVIOUS
    <3>1. Cat(Cat(heard, str), chunk) = Cat(heard, Cat(str, chunk))
      BY <3>0, CatAssociative, SMTT(30)
    <3> QED
      BY <3>1 DEF UpToChunk
  <2>8. UpToChunk' = Cat(heard, str')
    <3>1. Cat(heard, str') \in Seq(Byte)
      BY CatType
    <3> QED
      BY <2>1, <3>1, CatEmpty DEF UpToChunk
  <2> QED
    BY <1>a, <1>b, <1>c, <1>r, <2>1, <2>6, <2>7, <2>8
<1>3. CASE ReadEnd
  <2>1. heard' = Cat(heard, str) /\ str' = <<>> /\ UNCHANGED <<chunk, rxRing, rx_fifo, to_pico>>
    BY <1>3, Zenon DEF ReadEnd, ReadCall, Cat
  <2>2. Cat(heard', str') = Cat(heard, str)
    BY <2>1, CatEmpty
  <2>3. UpToChunk' = UpToChunk
    BY <2>1, <2>2 DEF UpToChunk
  <2> QED
    BY <1>a, <1>b, <1>c, <1>r, <2>1, <2>3, WithinItself
<1>4. CASE Receive
  <2>1. /\ rx_fifo # <<>> /\ rx_fifo' = Tail(rx_fifo)
        /\ Rx!Put(Head(rx_fifo)) \/ UNCHANGED rxRing
        /\ UNCHANGED <<heard, str, chunk, to_pico>>
    BY <1>4 DEF Receive, IrqReceive, Rx!Refuse, Rx!ringVars, rxRing, picoReader
  <2>2. UpToChunk' = UpToChunk
    BY <2>1 DEF UpToChunk
  <2>3. CASE Rx!Put(Head(rx_fifo))
    <3>1. Head(rx_fifo) \in Byte
      BY <2>1, HeadTailProperties
    <3>2. Rx!Contents' = Append(Rx!Contents, Head(rx_fifo))
      BY <1>0, <2>3, <3>1, RxPut
    <3>3. UpToFifo' = UpToFifo
      BY <2>1, <2>2, <3>2, MovesOn DEF UpToFifo, UpToRing
    <3> QED
      BY <1>b, <2>1, <3>3, WithinItself
  <2>4. CASE UNCHANGED rxRing
    <3>1. UpToRing' = UpToRing
      BY <1>r, <2>2, <2>4 DEF UpToRing
    <3>2. Within(rx_fifo', rx_fifo)
      BY <2>1, TailWithin
    <3>3. Within(UpToFifo', UpToFifo)
      BY <3>1, <3>2, WithinItself, WithinCat DEF UpToFifo
    <3> QED
      BY <1>b, <2>1, <3>3
  <2> QED
    BY <2>1, <2>3, <2>4
<1>5. CASE WireByte
  <2>1. /\ to_pico # <<>> /\ to_pico' = Tail(to_pico)
        /\ rx_fifo' = Append(rx_fifo, Head(to_pico)) \/ UNCHANGED rx_fifo
        /\ UNCHANGED <<heard, str, chunk, rxRing>>
    BY <1>5 DEF WireByte, Arrive, picoReader
  <2>2. UpToRing' = UpToRing
    BY <1>r, <2>1 DEF UpToRing, UpToChunk
  <2>3. CASE rx_fifo' = Append(rx_fifo, Head(to_pico))
    <3>1. Coming' = Coming
      BY <2>1, <2>2, <2>3, MovesOn DEF Coming, UpToFifo
    <3> QED
      BY <3>1, WithinItself
  <2>4. CASE UNCHANGED rx_fifo
    <3>1. UpToFifo' = UpToFifo
      BY <2>2, <2>4 DEF UpToFifo
    <3>2. Within(to_pico', to_pico)
      BY <2>1, TailWithin
    <3> QED
      BY <3>1, <3>2, WithinItself, WithinCat DEF Coming
  <2> QED
    BY <2>1, <2>3, <2>4
<1>6. CASE Glitch
  <2>1. /\ UNCHANGED to_pico \/ (to_pico # <<>> /\ to_pico' = Tail(to_pico))
        /\ rx_fifo' = Append(rx_fifo, Nul) \/ UNCHANGED rx_fifo
        /\ UNCHANGED <<heard, str, chunk, rxRing>>
    BY <1>6 DEF Glitch, Arrive, picoReader
  <2>2. UpToRing' = UpToRing
    BY <1>r, <2>1 DEF UpToRing, UpToChunk
  <2>3. Within(rx_fifo', rx_fifo)
    <3>1. CASE rx_fifo' = Append(rx_fifo, Nul)
      <4>1. Nul \in Byte /\ Nul \notin Texts
        BY RingAssumption, NoTexts
      <4>2. <<Nul>> \in Seq(Byte) /\ Append(rx_fifo, Nul) = Cat(rx_fifo, <<Nul>>)
        BY <4>1, AppendIsCat
      <4>3. \A i \in 1 .. Len(<<Nul>>) : <<Nul>>[i] \notin Texts
        BY <4>1
      <4>4. Within(<<Nul>>, <<>>)
        BY <1>0, <4>2, <4>3, WithinAnything
      <4>5. Within(Cat(rx_fifo, <<Nul>>), Cat(rx_fifo, <<>>))
        BY <1>0, <4>2, <4>4, WithinItself, WithinCat
      <4> QED
        BY <3>1, <4>2, <4>5, CatEmpty
    <3>2. CASE UNCHANGED rx_fifo
      BY <3>2, WithinItself
    <3> QED
      BY <2>1, <3>1, <3>2
  <2>4. Within(UpToFifo', UpToFifo)
    BY <2>2, <2>3, WithinItself, WithinCat DEF UpToFifo
  <2>5. Within(to_pico', to_pico)
    BY <2>1, TailWithin, WithinItself
  <2> QED
    BY <2>4, <2>5, WithinCat DEF Coming
<1>7. CASE UNCHANGED <<heard, str, chunk, rxRing, rx_fifo, to_pico>>
  <2>1. Coming' = Coming
    BY <1>r, <1>7 DEF Coming, UpToFifo, UpToRing, UpToChunk
  <2> QED
    BY <2>1, WithinItself
<1>8. \/ ReadChunkByte \/ ReadChunk \/ ReadEnd \/ Receive \/ WireByte \/ Glitch \/ EspSend
      \/ UNCHANGED <<heard, str, chunk, rxRing, rx_fifo, to_pico>>
  BY DEF LinkNext, PicoSend, Send, ReadStart, ReadCall, UartStep, Shift, Interrupt, IrqReceived,
     IrqTransmit, TxMove, IrqEnd, Write, Fill, Filled, Enable, Prime, Primed, EspArrive,
     EspGlitch, EspRead, EspFlush, linkVars, uartVars, picoReader
<1> QED
  BY <1>1, <1>2, <1>3, <1>4, <1>5, <1>6, <1>7, <1>8

(* What is left of a sequence after its first bytes.                       *)
LEMMA RestAppend ==
  ASSUME NEW s \in Seq(Byte), NEW b \in Byte, NEW k \in 0 .. Len(s)
  PROVE  /\ SubSeq(s, k + 1, Len(s)) \in Seq(Byte)
         /\ SubSeq(Append(s, b), k + 1, Len(Append(s, b))) = Append(SubSeq(s, k + 1, Len(s)), b)
<1> DEFINE n == Len(s)
           t == Append(s, b)
           a == SubSeq(s, k + 1, n)
           c == SubSeq(t, k + 1, n + 1)
<1>0. n \in Nat /\ k \in Nat /\ k <= n
  BY LenProperties
<1>1. /\ t \in Seq(Byte) /\ Len(t) = n + 1 /\ t[n + 1] = b
      /\ \A i \in 1 .. n : t[i] = s[i]
  BY AppendProperties
<1> HIDE DEF t
<1>2. /\ a \in Seq(Byte) /\ Len(a) = n - k
      /\ \A i \in 1 .. n - k : a[i] = s[k + i]
  <2>1. \A i \in k + 1 .. n : s[i] \in Byte
    BY <1>0, ElementOfSeq
  <2>2. /\ a \in Seq(Byte) /\ Len(a) = (IF k + 1 <= n THEN n - (k + 1) + 1 ELSE 0)
        /\ \A i \in 1 .. n - (k + 1) + 1 : a[i] = s[(k + 1) + i - 1]
    <3>1. k + 1 \in Int /\ n \in Int
      BY <1>0
    <3> QED
      BY <2>1, <3>1, SubSeqProperties
  <2> HIDE DEF a
  <2> QED
    BY <1>0, <2>2, SMTT(60)
<1>3. /\ c \in Seq(Byte) /\ Len(c) = n - k + 1
      /\ \A i \in 1 .. n - k + 1 : c[i] = t[k + i]
  <2>1. \A i \in k + 1 .. n + 1 : t[i] \in Byte
    BY <1>0, <1>1, ElementOfSeq
  <2>2. /\ c \in Seq(Byte) /\ Len(c) = (IF k + 1 <= n + 1 THEN (n + 1) - (k + 1) + 1 ELSE 0)
        /\ \A i \in 1 .. (n + 1) - (k + 1) + 1 : c[i] = t[(k + 1) + i - 1]
    <3>1. k + 1 \in Int /\ n + 1 \in Int
      BY <1>0
    <3> QED
      BY <2>1, <3>1, SubSeqProperties
  <2> HIDE DEF c
  <2> QED
    BY <1>0, <2>2, SMTT(60)
<1> HIDE DEF a, c
<1>4. /\ Append(a, b) \in Seq(Byte) /\ Len(Append(a, b)) = n - k + 1
      /\ Append(a, b)[n - k + 1] = b
      /\ \A i \in 1 .. n - k : Append(a, b)[i] = a[i]
  <2>1. /\ Append(a, b) \in Seq(Byte) /\ Len(Append(a, b)) = Len(a) + 1
        /\ Append(a, b)[Len(a) + 1] = b
        /\ \A i \in 1 .. Len(a) : Append(a, b)[i] = a[i]
    BY <1>2, AppendProperties
  <2> QED
    BY <1>2, <2>1
<1>5. ASSUME NEW i \in 1 .. n - k + 1
      PROVE  c[i] = Append(a, b)[i]
  <2>1. CASE i = n - k + 1
    <3>1. k + i = n + 1
      BY <1>0, <2>1
    <3> QED
      BY <1>1, <1>3, <1>4, <2>1, <3>1
  <2>2. CASE i # n - k + 1
    <3>1. i \in 1 .. n - k /\ k + i \in 1 .. n
      BY <1>0, <2>2
    <3> QED
      BY <1>1, <1>2, <1>3, <1>4, <3>1
  <2> QED
    BY <2>1, <2>2
<1>6. c = Append(a, b)
  BY <1>3, <1>4, <1>5, SeqEqual
<1> QED
  BY <1>1, <1>2, <1>6 DEF a, c, t

(* The next byte of what is left, and what is left then.                   *)
LEMMA RestHead ==
  ASSUME NEW s \in Seq(Byte), NEW k \in Nat, k < Len(s)
  PROVE  /\ SubSeq(s, k + 1, Len(s)) \in Seq(Byte) /\ SubSeq(s, k + 1, Len(s)) # <<>>
         /\ Head(SubSeq(s, k + 1, Len(s))) = s[k + 1]
         /\ Tail(SubSeq(s, k + 1, Len(s))) = SubSeq(s, (k + 1) + 1, Len(s))
<1>0. k + 1 \in 1 .. Len(s) /\ Len(s) \in k + 1 .. Len(s) /\ Len(s) \in Nat
  BY LenProperties
<1>1. /\ SubSeq(s, k + 1, Len(s)) \in Seq(Byte)
      /\ Len(SubSeq(s, k + 1, Len(s))) = Len(s) - (k + 1) + 1
  <2>1. \A i \in k + 1 .. Len(s) : s[i] \in Byte
    BY <1>0, ElementOfSeq
  <2> QED
    BY <1>0, <2>1, SubSeqProperties
<1>2. SubSeq(s, k + 1, Len(s)) # <<>>
  <2> DEFINE r == SubSeq(s, k + 1, Len(s))
  <2>1. Len(r) = Len(s) - (k + 1) + 1
    BY <1>1
  <2> HIDE DEF r
  <2>2. Len(r) # 0
    BY <1>0, <2>1
  <2>3. r # <<>>
    BY <2>2
  <2> QED
    BY <2>3 DEF r
<1> QED
  BY <1>0, <1>1, <1>2, HeadTailOfSubSeq

(* The line is the beginning of what was accepted.                         *)
LEMMA LineIsAccepted ==
  ASSUME UartTypeOK, Conserved
  PROVE  /\ accepted \in Seq(Byte) /\ Len(line) \in Nat /\ Len(line) <= Len(accepted)
         /\ \A i \in 1 .. Len(line) : line[i] = accepted[i]
<1>1. line \in Seq(Byte) /\ tx_fifo \in Seq(Byte) /\ Tx!Contents \in Seq(Byte)
  BY TxContents DEF UartTypeOK, FlowTypeOK
<1> DEFINE t == Tx!Contents
<1>2. t \in Seq(Byte) /\ accepted = Cat(Cat(line, tx_fifo), t)
  BY <1>1 DEF Conserved, Cat
<1> HIDE DEF t
<1>3. accepted = Cat(line, Cat(tx_fifo, t)) /\ Cat(tx_fifo, t) \in Seq(Byte)
  BY <1>1, <1>2, CatAssociative, CatType
<1> DEFINE u == Cat(tx_fifo, t)
<1> HIDE DEF u
<1>4. /\ Len(line) \in Nat /\ Len(u) \in Nat /\ Cat(line, u) \in Seq(Byte)
      /\ Len(Cat(line, u)) = Len(line) + Len(u)
      /\ \A i \in 1 .. Len(line) + Len(u) :
           Cat(line, u)[i] = IF i <= Len(line) THEN line[i] ELSE u[i - Len(line)]
  BY <1>1, <1>3, CatProperties DEF u
<1>5. accepted = Cat(line, u)
  BY <1>3 DEF u
<1> QED
  BY <1>4, <1>5

(* All on the way to the ESP are, and its driver sees what was accepted.   *)
EspFlows ==
  /\ esp_got \in Seq(Byte) /\ esp_buffer \in Seq(Byte) /\ accepted \in Seq(Byte)
  /\ out \in Seq(Byte) /\ AtEsp \in Seq(Byte) /\ UpToLine \in Seq(Byte)
  /\ SubSeq(accepted, taken + 1, Len(accepted)) \in Seq(Byte) /\ Leaving \in Seq(Byte)
  /\ taken \in 0 .. Len(accepted)
  /\ taken < Len(line) => taken < Len(accepted) /\ line[taken + 1] = accepted[taken + 1]

(* The types say so.                                                       *)
LEMMA EspFlowTypes == LinkTypeOK /\ Conserved => EspFlows
<1> SUFFICES ASSUME LinkTypeOK, Conserved PROVE EspFlows
  OBVIOUS
<1>1. /\ esp_got \in Seq(Byte) /\ esp_buffer \in Seq(Byte) /\ out \in Seq(Byte)
      /\ taken \in 0 .. Len(line) /\ UartTypeOK
  BY TextsAreBytes DEF LinkTypeOK, UartTypeOK, FlowTypeOK
<1>2. /\ accepted \in Seq(Byte) /\ Len(line) \in Nat /\ Len(line) <= Len(accepted)
      /\ \A i \in 1 .. Len(line) : line[i] = accepted[i]
  BY <1>1, LineIsAccepted
<1>3. /\ taken \in 0 .. Len(accepted)
      /\ taken < Len(line) => taken < Len(accepted) /\ line[taken + 1] = accepted[taken + 1]
  <2>1. Len(accepted) \in Nat
    BY <1>2, LenProperties
  <2>2. taken < Len(line) => taken + 1 \in 1 .. Len(line)
    BY <1>1, <1>2
  <2> QED
    BY <1>1, <1>2, <2>1, <2>2
<1>4. SubSeq(accepted, taken + 1, Len(accepted)) \in Seq(Byte)
  <2>1. Len(accepted) \in Nat
    BY <1>2, LenProperties
  <2>2. \A i \in taken + 1 .. Len(accepted) : accepted[i] \in Byte
    BY <1>2, <1>3, <2>1, ElementOfSeq
  <2>3. taken + 1 \in Int /\ Len(accepted) \in Int
    BY <1>3, <2>1
  <2> QED
    BY <2>2, <2>3, SubSeqProperties
<1>5. AtEsp \in Seq(Byte)
  BY <1>1, CatType DEF AtEsp
<1>6. UpToLine \in Seq(Byte)
  BY <1>4, <1>5, CatType DEF UpToLine
<1>7. Leaving \in Seq(Byte)
  BY <1>1, <1>6, CatType DEF Leaving
<1> QED
  BY <1>1, <1>2, <1>3, <1>4, <1>5, <1>6, <1>7 DEF EspFlows

(* A byte write() has taken is still on its way.                           *)
LEMMA FillKeeps ==
  ASSUME EspFlows, EspFlows', Fill, UNCHANGED <<esp_got, esp_buffer, taken>>
  PROVE  Leaving' = Leaving
<1> DEFINE rest == SubSeq(accepted, taken + 1, Len(accepted))
<1>1. /\ out # <<>> /\ out' = Tail(out) /\ accepted' = Append(accepted, Head(out))
      /\ AtEsp' = AtEsp /\ taken' = taken
  BY DEF Fill, AtEsp
<1>2. /\ AtEsp \in Seq(Byte) /\ accepted \in Seq(Byte) /\ out \in Seq(Byte)
      /\ taken \in 0 .. Len(accepted)
  BY DEF EspFlows
<1>3. Head(out) \in Byte
  BY <1>1, <1>2, HeadTailProperties
<1>4. rest \in Seq(Byte) /\ rest' = Append(rest, Head(out))
  BY <1>1, <1>2, <1>3, RestAppend
<1>5. UpToLine = Cat(AtEsp, rest) /\ UpToLine' = Cat(AtEsp', rest')
  BY DEF UpToLine
<1> HIDE DEF rest
<1>6. Leaving' = Cat(Cat(AtEsp, Append(rest, Head(out))), Tail(out))
  BY <1>1, <1>4, <1>5 DEF Leaving
<1>7. Cat(Cat(AtEsp, Append(rest, Head(out))), Tail(out)) = Cat(Cat(AtEsp, rest), out)
  BY <1>1, <1>2, <1>4, MovesOn
<1> QED
  BY <1>5, <1>6, <1>7 DEF Leaving

(* A byte the driver takes is kept or lost.                                *)
LEMMA EspArriveKeeps ==
  ASSUME EspFlows, EspFlows', EspArrive
  PROVE  Within(Leaving', Leaving)
<1> DEFINE rest == SubSeq(accepted, taken + 1, Len(accepted))
<1>1. /\ taken < Len(line) /\ taken' = taken + 1 /\ UNCHANGED <<esp_got, accepted, out>>
      /\ esp_buffer' = Append(esp_buffer, line[taken + 1]) \/ UNCHANGED esp_buffer
  BY DEF EspArrive, uartVars
<1>2. /\ AtEsp \in Seq(Byte) /\ accepted \in Seq(Byte) /\ out \in Seq(Byte)
      /\ esp_got \in Seq(Byte) /\ esp_buffer \in Seq(Byte)
      /\ UpToLine \in Seq(Byte) /\ UpToLine' \in Seq(Byte)
      /\ taken \in Nat /\ taken < Len(accepted) /\ line[taken + 1] = accepted[taken + 1]
  BY <1>1 DEF EspFlows
<1>3. /\ rest \in Seq(Byte) /\ rest # <<>> /\ Head(rest) = accepted[taken + 1]
      /\ Tail(rest) = SubSeq(accepted, (taken + 1) + 1, Len(accepted))
  BY <1>2, RestHead
<1>4. rest' = Tail(rest)
  BY <1>1, <1>3
<1>5. /\ UpToLine = Cat(Cat(esp_got, esp_buffer), rest)
      /\ UpToLine' = Cat(Cat(esp_got', esp_buffer'), rest')
  BY DEF UpToLine, AtEsp
<1> HIDE DEF rest
<1>6. Within(UpToLine', UpToLine)
  <2>1. CASE esp_buffer' = Append(esp_buffer, line[taken + 1])
    <3>1. UpToLine' = Cat(Cat(esp_got, Append(esp_buffer, Head(rest))), Tail(rest))
      BY <1>1, <1>2, <1>3, <1>4, <1>5, <2>1
    <3>2. UpToLine' = UpToLine
      BY <1>2, <1>3, <1>5, <3>1, MovesOn
    <3> QED
      BY <1>2, <3>2, WithinItself
  <2>2. CASE UNCHANGED esp_buffer
    <3>1. Within(Tail(rest), rest) /\ Tail(rest) \in Seq(Byte)
      BY <1>3, TailWithin
    <3>2. Within(Cat(AtEsp, Tail(rest)), Cat(AtEsp, rest))
      BY <1>2, <1>3, <3>1, WithinItself, WithinCat
    <3> QED
      BY <1>1, <1>4, <1>5, <2>2, <3>2 DEF AtEsp
  <2> QED
    BY <1>1, <2>1, <2>2
<1>7. Within(Cat(UpToLine', out), Cat(UpToLine, out))
  BY <1>2, <1>6, WithinChain
<1> QED
  BY <1>1, <1>7 DEF Leaving

(* The ESP takes messages out of its buffer, and loses the rest.           *)
LEMMA EspTakesOut ==
  ASSUME EspFlows, EspFlows', EspRead \/ EspFlush
  PROVE  Within(Leaving', Leaving)
<1>1. /\ esp_got' = Cat(esp_got, Extracted(esp_buffer)) \/ UNCHANGED esp_got
      /\ esp_buffer' = <<>> /\ UNCHANGED <<taken, accepted, out>>
  BY DEF EspRead, EspFlush, uartVars, Cat
<1>2. /\ AtEsp \in Seq(Byte) /\ AtEsp' \in Seq(Byte) /\ out \in Seq(Byte)
      /\ esp_got \in Seq(Byte) /\ esp_got' \in Seq(Byte) /\ esp_buffer \in Seq(Byte)
      /\ UpToLine \in Seq(Byte) /\ UpToLine' \in Seq(Byte)
      /\ SubSeq(accepted, taken + 1, Len(accepted)) \in Seq(Byte)
  BY DEF EspFlows
<1>3. Within(AtEsp', AtEsp)
  <2>1. AtEsp' = esp_got'
    BY <1>1, <1>2, CatEmpty DEF AtEsp
  <2>2. CASE esp_got' = Cat(esp_got, Extracted(esp_buffer))
    <3>1. Extracted(esp_buffer) \in Seq(Byte) /\ Within(Extracted(esp_buffer), esp_buffer)
      BY <1>2, ExtractedType, ExtractedWithin, TextsAreBytes
    <3>2. Within(Cat(esp_got, Extracted(esp_buffer)), Cat(esp_got, esp_buffer))
      BY <1>2, <3>1, WithinItself, WithinCat
    <3> QED
      BY <2>1, <2>2, <3>2 DEF AtEsp
  <2>3. CASE UNCHANGED esp_got
    <3>1. Within(esp_got, Cat(esp_got, esp_buffer))
      BY <1>2, WithinLonger
    <3> QED
      BY <2>1, <2>3, <3>1 DEF AtEsp
  <2> QED
    BY <1>1, <2>2, <2>3
<1>4. Within(UpToLine', UpToLine)
  <2> DEFINE rest == SubSeq(accepted, taken + 1, Len(accepted))
  <2>1. rest' = rest /\ rest \in Seq(Byte)
    BY <1>1, <1>2
  <2>2. UpToLine = Cat(AtEsp, rest) /\ UpToLine' = Cat(AtEsp', rest')
    BY DEF UpToLine
  <2> HIDE DEF rest
  <2>3. Within(Cat(AtEsp', rest), Cat(AtEsp, rest))
    BY <1>2, <1>3, <2>1, WithinChain
  <2> QED
    BY <2>1, <2>2, <2>3
<1>5. Within(Cat(UpToLine', out), Cat(UpToLine, out))
  BY <1>2, <1>4, WithinChain
<1> QED
  BY <1>1, <1>5 DEF Leaving

(* No step but a message sent adds a text to what leaves.                  *)
LEMMA LeavingStep ==
  ASSUME EspFlows, EspFlows', [LinkNext]_linkVars
  PROVE  PicoSend \/ Within(Leaving', Leaving)
<1>1. /\ Leaving \in Seq(Byte) /\ UpToLine \in Seq(Byte) /\ out \in Seq(Byte)
  BY DEF EspFlows
<1>2. CASE Fill /\ UNCHANGED <<esp_got, esp_buffer, taken>>
  BY <1>1, <1>2, FillKeeps, WithinItself
<1>3. CASE Filled /\ UNCHANGED <<esp_got, esp_buffer, taken>>
  <2>1. out' = <<>> /\ UpToLine' = UpToLine
    BY <1>3 DEF Filled, UpToLine, AtEsp
  <2>2. Leaving' = UpToLine
    BY <1>1, <2>1, CatEmpty DEF Leaving
  <2>3. Within(UpToLine, Cat(UpToLine, out))
    BY <1>1, WithinLonger
  <2> QED
    BY <2>2, <2>3 DEF Leaving
<1>4. CASE EspArrive
  BY <1>4, EspArriveKeeps
<1>5. CASE EspRead \/ EspFlush
  BY <1>5, EspTakesOut
<1>6. CASE UNCHANGED <<esp_got, esp_buffer, taken, accepted, out>>
  <2>1. Leaving' = Leaving
    BY <1>6 DEF Leaving, UpToLine, AtEsp
  <2> QED
    BY <1>1, <2>1, WithinItself
<1>7. \/ PicoSend \/ EspArrive \/ EspRead \/ EspFlush
      \/ Fill /\ UNCHANGED <<esp_got, esp_buffer, taken>>
      \/ Filled /\ UNCHANGED <<esp_got, esp_buffer, taken>>
      \/ UNCHANGED <<esp_got, esp_buffer, taken, accepted, out>>
  BY DEF LinkNext, ReadStart, ReadChunkByte, ReadByte, ReadChunk, ReadEnd, ReadCall, EspSend,
     WireByte, Glitch, Arrive, UartStep, Shift, Interrupt, IrqReceived, IrqTransmit, TxMove,
     IrqEnd, Write, Enable, Prime, Primed, Receive, IrqReceive, EspGlitch, linkVars, uartVars,
     espReader
<1> QED
  BY <1>2, <1>3, <1>4, <1>5, <1>6, <1>7

(* What was sent is texts, and so bytes.                                   *)
LEMMA SentTypes ==
  ASSUME PlanOK, said <= Len(plan.esp), tried <= Len(plan.pico)
  PROVE  /\ SubSeq(plan.esp, 1, said) \in Seq(Byte)
         /\ SubSeq(plan.pico, 1, tried) \in Seq(Byte)
<1>1. /\ plan.pico \in Seq(Texts) /\ plan.esp \in Seq(Texts)
      /\ tried \in Nat /\ said \in Nat
  BY DEF PlanOK
<1>2. Len(plan.esp) \in Nat /\ Len(plan.pico) \in Nat
  BY <1>1, LenProperties
<1>3. /\ \A i \in 1 .. said : plan.esp[i] \in Texts
      /\ \A i \in 1 .. tried : plan.pico[i] \in Texts
  BY <1>1, <1>2, ElementOfSeq
<1>4. SubSeq(plan.esp, 1, said) \in Seq(Texts)
  BY <1>1, <1>3, SubSeqProperties
<1>5. SubSeq(plan.pico, 1, tried) \in Seq(Texts)
  BY <1>1, <1>3, SubSeqProperties
<1> QED
  BY <1>4, <1>5, TextsAreBytes, Zenon

(* What was sent grows by the texts that come and leave.                   *)
LEMMA NothingInventedStep ==
  ASSUME LinkInv, LinkInv', Conserved, Conserved', NothingInventedInv, [LinkNext]_linkVars
  PROVE  NothingInventedInv'
<1>1. LinkFlows /\ EspFlows /\ PlanOK /\ LinkTypeOK
  BY FlowTypes, EspFlowTypes DEF LinkInv
<1>2. LinkFlows' /\ EspFlows'
  <2>1. (LinkTypeOK => LinkFlows)' /\ (LinkTypeOK /\ Conserved => EspFlows)'
    BY FlowTypes, EspFlowTypes, PTL
  <2> QED
    BY <2>1 DEF LinkInv
<1>3. /\ Coming \in Seq(Byte) /\ Coming' \in Seq(Byte) /\ UpToFifo \in Seq(Byte)
      /\ Leaving \in Seq(Byte) /\ Leaving' \in Seq(Byte) /\ UpToLine \in Seq(Byte)
      /\ to_pico \in Seq(Byte) /\ out \in Seq(Byte)
  BY <1>1, <1>2 DEF LinkFlows, EspFlows
<1>4. /\ plan.pico \in Seq(Texts) /\ plan.esp \in Seq(Texts) /\ tried \in Nat /\ said \in Nat
  BY <1>1 DEF PlanOK
<1>5. /\ Within(Coming, SubSeq(plan.esp, 1, said)) /\ said <= Len(plan.esp)
      /\ Within(Leaving, SubSeq(plan.pico, 1, tried)) /\ tried <= Len(plan.pico)
  BY DEF NothingInventedInv
<1>6. SubSeq(plan.esp, 1, said) \in Seq(Byte) /\ SubSeq(plan.pico, 1, tried) \in Seq(Byte)
  BY <1>1, <1>5, SentTypes
<1>7. Within(Coming', SubSeq(plan.esp, 1, said)') /\ (said <= Len(plan.esp))'
  <2>1. CASE EspSend
    <3> DEFINE x == plan.esp[said + 1]
               sent == SubSeq(plan.esp, 1, said)
    <3>1. /\ said < Len(plan.esp) /\ to_pico' = Cat(to_pico, Framed(x)) /\ said' = said + 1
          /\ UNCHANGED <<plan, uartVars, picoReader>>
      BY <2>1, Zenon DEF EspSend, Cat
    <3>2. /\ x \in Texts /\ <<x>> \in Seq(Byte)
          /\ SubSeq(plan.esp, 1, said + 1) = Cat(sent, <<x>>)
      BY <1>4, <3>1, SentGrows
    <3>3. Framed(x) \in Seq(Byte) /\ Within(Framed(x), <<x>>)
      BY <3>2, FramedType, FramedWithin
    <3>4. UpToFifo' = UpToFifo
      BY <3>1 DEF UpToFifo, UpToRing, UpToChunk, Rx!Contents, Rx!Count, Rx!Slot, uartVars,
         rxRing, picoReader
    <3>5. sent \in Seq(Byte) /\ Within(Coming, sent)
      BY <1>5, <1>6
    <3> DEFINE f == Framed(x)
               one == <<x>>
    <3>6. /\ f \in Seq(Byte) /\ one \in Seq(Byte) /\ Within(f, one) /\ to_pico' = Cat(to_pico, f)
          /\ SubSeq(plan.esp, 1, said)' = Cat(sent, one)
      BY <3>1, <3>2, <3>3
    <3> HIDE DEF f, one, sent, x
    <3>7. Coming' = Cat(UpToFifo, Cat(to_pico, f))
      BY <3>4, <3>6 DEF Coming
    <3>8. Cat(UpToFifo, Cat(to_pico, f)) = Cat(Coming, f)
      BY <1>3, <3>6, CatAssociative DEF Coming
    <3>9. Within(Cat(Coming, f), Cat(sent, one))
      BY <1>3, <3>5, <3>6, WithinCat
    <3>10. (said <= Len(plan.esp))'
      <4>1. Len(plan.esp) \in Nat
        BY <1>4, LenProperties
      <4> QED
        BY <1>4, <3>1, <4>1
    <3> QED
      BY <3>6, <3>7, <3>8, <3>9, <3>10
  <2>2. CASE ~ EspSend
    <3>1. UNCHANGED <<plan, said>>
      BY <2>2 DEF LinkNext, PicoSend, ReadStart, ReadChunkByte, ReadChunk, ReadEnd, WireByte,
         Glitch, UartStep, Receive, EspArrive, EspGlitch, EspRead, EspFlush, plans, linkVars
    <3>2. Within(Coming', Coming)
      BY <1>1, <1>2, <2>2, ComingStep
    <3>3. Within(Coming', SubSeq(plan.esp, 1, said))
      BY <1>3, <1>5, <1>6, <3>2, WithinTransitive
    <3> QED
      BY <1>5, <3>1, <3>3
  <2> QED
    BY <2>1, <2>2
<1>8. Within(Leaving', SubSeq(plan.pico, 1, tried)') /\ (tried <= Len(plan.pico))'
  <2>1. CASE PicoSend
    <3> DEFINE x == plan.pico[tried + 1]
               sent == SubSeq(plan.pico, 1, tried)
    <3>1. /\ tried < Len(plan.pico) /\ out' = Framed(x) /\ tried' = tried + 1
          /\ UNCHANGED <<plan, accepted, espReader>>
      BY <2>1 DEF PicoSend, Send
    <3>2. /\ x \in Texts /\ <<x>> \in Seq(Byte)
          /\ SubSeq(plan.pico, 1, tried + 1) = Cat(sent, <<x>>)
      BY <1>4, <3>1, SentGrows
    <3>3. Framed(x) \in Seq(Byte) /\ Within(Framed(x), <<x>>)
      BY <3>2, FramedType, FramedWithin
    <3>4. UpToLine' = UpToLine
      BY <3>1 DEF UpToLine, AtEsp, espReader
    <3>5. sent \in Seq(Byte) /\ Within(Leaving, sent)
      BY <1>5, <1>6
    <3> DEFINE f == Framed(x)
               one == <<x>>
    <3>6. /\ f \in Seq(Byte) /\ one \in Seq(Byte) /\ Within(f, one) /\ out' = f
          /\ SubSeq(plan.pico, 1, tried)' = Cat(sent, one)
      BY <3>1, <3>2, <3>3
    <3> HIDE DEF f, one, sent, x
    <3>7. Leaving' = Cat(UpToLine, f)
      BY <3>4, <3>6 DEF Leaving
    <3>8. Within(UpToLine, Leaving)
      BY <1>3, WithinLonger DEF Leaving
    <3>9. Within(UpToLine, sent)
      BY <1>3, <3>5, <3>8, WithinTransitive
    <3>10. Within(Cat(UpToLine, f), Cat(sent, one))
      BY <1>3, <3>5, <3>6, <3>9, WithinCat
    <3>11. (tried <= Len(plan.pico))'
      <4>1. Len(plan.pico) \in Nat
        BY <1>4, LenProperties
      <4> QED
        BY <1>4, <3>1, <4>1
    <3> QED
      BY <3>6, <3>7, <3>10, <3>11
  <2>2. CASE ~ PicoSend
    <3>1. UNCHANGED <<plan, tried>>
      BY <2>2 DEF LinkNext, EspSend, ReadStart, ReadChunkByte, ReadChunk, ReadEnd, WireByte,
         Glitch, UartStep, Receive, EspArrive, EspGlitch, EspRead, EspFlush, plans, linkVars
    <3>2. Within(Leaving', Leaving)
      BY <1>1, <1>2, <2>2, LeavingStep
    <3>3. Within(Leaving', SubSeq(plan.pico, 1, tried))
      BY <1>3, <1>5, <1>6, <3>2, WithinTransitive
    <3> QED
      BY <1>5, <3>1, <3>3
  <2> QED
    BY <2>1, <2>2
<1> QED
  BY <1>7, <1>8 DEF NothingInventedInv

(* Nothing is on its way when the link starts.                             *)
LEMMA NothingInventedInit ==
  ASSUME NEW pico_texts \in Seq(Texts), NEW esp_texts \in Seq(Texts), NEW disturbances,
         LinkInit(pico_texts, esp_texts, disturbances)
  PROVE  NothingInventedInv
<1>0. <<>> \in Seq(Byte) /\ Len(<<>>) = 0 /\ Cat(<<>>, <<>>) = <<>> /\ Within(<<>>, <<>>)
  BY EmptySeq, CatEmpty, EmptyWithin
<1>1. /\ heard = <<>> /\ str = <<>> /\ chunk = <<>> /\ rx_fifo = <<>> /\ to_pico = <<>>
      /\ esp_got = <<>> /\ esp_buffer = <<>> /\ accepted = <<>> /\ out = <<>>
      /\ taken = 0 /\ said = 0 /\ tried = 0
      /\ plan.pico = pico_texts /\ plan.esp = esp_texts
  BY DEF LinkInit, UartInit
<1>2. Rx!Contents = <<>>
  <2>1. Rx!RingTypeOK /\ Rx!empty
    BY UartInitInv DEF LinkInit, UartInit, UartInv, UartTypeOK, Rx!RingInit, Rx!empty
  <2> QED
    BY <2>1, RxContents
<1>3. Coming = <<>>
  BY <1>0, <1>1, <1>2 DEF Coming, UpToFifo, UpToRing, UpToChunk
<1>4. Leaving = <<>>
  <2>1. SubSeq(<<>>, 0 + 1, 0) = <<>>
    BY SubSeqEmpty
  <2>2. SubSeq(accepted, taken + 1, Len(accepted)) = <<>>
    BY <1>0, <1>1, <2>1
  <2> QED
    BY <1>0, <1>1, <2>2 DEF Leaving, UpToLine, AtEsp
<1>5. SubSeq(esp_texts, 1, 0) = <<>> /\ SubSeq(pico_texts, 1, 0) = <<>>
  BY SubSeqEmpty
<1>6. Len(esp_texts) \in Nat /\ Len(pico_texts) \in Nat
  BY LenProperties
<1>7. Within(Coming, SubSeq(plan.esp, 1, said)) /\ said <= Len(plan.esp)
  <2>1. SubSeq(plan.esp, 1, said) = <<>> /\ 0 <= Len(esp_texts)
    BY <1>1, <1>5, <1>6
  <2> QED
    BY <1>0, <1>1, <1>3, <2>1
<1>8. Within(Leaving, SubSeq(plan.pico, 1, tried)) /\ tried <= Len(plan.pico)
  <2>1. SubSeq(plan.pico, 1, tried) = <<>> /\ 0 <= Len(pico_texts)
    BY <1>1, <1>5, <1>6
  <2> QED
    BY <1>0, <1>1, <1>4, <2>1
<1> QED
  BY <1>7, <1>8 DEF NothingInventedInv

(* What was parsed is within what was heard, that within what comes, and   *)
(* that within what was sent; the messages of the ESP likewise.            *)
LEMMA NothingInventedHolds ==
  LinkInv /\ Conserved /\ NothingInventedInv => NothingInvented
<1> SUFFICES ASSUME LinkInv, Conserved, NothingInventedInv
             PROVE  NothingInvented
  OBVIOUS
<1>1. LinkFlows /\ EspFlows /\ PlanOK /\ LinkTypeOK
  BY FlowTypes, EspFlowTypes DEF LinkInv
<1>2. /\ queue \in Seq(Texts) /\ esp_got \in Seq(Texts) /\ string_buffer \in Seq(Byte)
      /\ queue \in Seq(Byte) /\ esp_got \in Seq(Byte)
  BY <1>1, TextsAreBytes DEF LinkTypeOK
<1>3. /\ SubSeq(plan.esp, 1, said) \in Seq(Byte)
      /\ SubSeq(plan.pico, 1, tried) \in Seq(Byte)
  BY <1>1, SentTypes DEF NothingInventedInv
<1>4. Within(queue, Coming)
  <2>1. /\ heard \in Seq(Byte) /\ str \in Seq(Byte) /\ chunk \in Seq(Byte)
        /\ Rx!Contents \in Seq(Byte) /\ rx_fifo \in Seq(Byte) /\ to_pico \in Seq(Byte)
        /\ UpToChunk \in Seq(Byte) /\ UpToRing \in Seq(Byte) /\ UpToFifo \in Seq(Byte)
        /\ Coming \in Seq(Byte) /\ Cat(heard, str) \in Seq(Byte)
        /\ Cat(queue, string_buffer) \in Seq(Byte)
    BY <1>1, <1>2, CatType DEF LinkFlows
  <2>2. Within(queue, Cat(queue, string_buffer))
    BY <1>2, WithinLonger
  <2>3. Within(Cat(queue, string_buffer), heard)
    <3>1. Streamed(heard).messages = queue /\ Streamed(heard).kept = string_buffer
      BY DEF LinkInv, ParsesStream, State
    <3> QED
      BY <2>1, <3>1, StreamedWithin
  <2>4. Within(heard, Cat(heard, str)) /\ Within(Cat(heard, str), UpToChunk)
    BY <2>1, WithinLonger DEF UpToChunk
  <2>5. Within(UpToChunk, UpToRing) /\ Within(UpToRing, UpToFifo) /\ Within(UpToFifo, Coming)
    BY <2>1, WithinLonger DEF UpToRing, UpToFifo, Coming
  <2>6. Within(queue, heard)
    BY <1>2, <2>1, <2>2, <2>3, WithinTransitive
  <2>7. Within(queue, UpToChunk)
    <3>1. Within(heard, UpToChunk)
      BY <2>1, <2>4, WithinTransitive
    <3> QED
      BY <1>2, <2>1, <2>6, <3>1, WithinTransitive
  <2>8. Within(queue, UpToFifo)
    <3>1. Within(UpToChunk, UpToFifo)
      BY <2>1, <2>5, WithinTransitive
    <3> QED
      BY <1>2, <2>1, <2>7, <3>1, WithinTransitive
  <2> QED
    BY <1>2, <2>1, <2>5, <2>8, WithinTransitive
<1>5. Within(esp_got, Leaving)
  <2>1. /\ esp_buffer \in Seq(Byte) /\ out \in Seq(Byte) /\ AtEsp \in Seq(Byte)
        /\ UpToLine \in Seq(Byte) /\ Leaving \in Seq(Byte)
        /\ SubSeq(accepted, taken + 1, Len(accepted)) \in Seq(Byte)
    BY <1>1 DEF EspFlows
  <2>2. Within(esp_got, AtEsp) /\ Within(AtEsp, UpToLine) /\ Within(UpToLine, Leaving)
    BY <1>2, <2>1, WithinLonger DEF AtEsp, UpToLine, Leaving
  <2>3. Within(esp_got, UpToLine)
    BY <1>2, <2>1, <2>2, WithinTransitive
  <2> QED
    BY <1>2, <2>1, <2>2, <2>3, WithinTransitive
<1>6. Coming \in Seq(Byte) /\ Leaving \in Seq(Byte)
  BY <1>1 DEF LinkFlows, EspFlows
<1>7. Within(queue, SubSeq(plan.esp, 1, said))
  <2>1. Within(Coming, SubSeq(plan.esp, 1, said))
    BY DEF NothingInventedInv
  <2> QED
    BY <1>2, <1>3, <1>4, <1>6, <2>1, WithinTransitive
<1>8. Within(esp_got, SubSeq(plan.pico, 1, tried))
  <2>1. Within(Leaving, SubSeq(plan.pico, 1, tried))
    BY DEF NothingInventedInv
  <2> QED
    BY <1>2, <1>3, <1>5, <1>6, <2>1, WithinTransitive
<1>9. Subsequence(queue, SubSeq(plan.esp, 1, said))
  BY <1>2, <1>7, WithinIsSubsequence
<1>10. Subsequence(esp_got, SubSeq(plan.pico, 1, tried))
  BY <1>2, <1>8, WithinIsSubsequence
<1> QED
  BY <1>9, <1>10 DEF NothingInvented

(* Neither side ever takes for a message what was not sent, nor one twice, *)
(* nor two in the other order: for rings, FIFOs, chunks and plans of any   *)
(* size and any disturbances (commbridge.cpp:73-104, tasks.cpp).           *)
THEOREM NeverInvented == LinkSpec => []NothingInvented
<1>1. (\E pico_texts, esp_texts \in Seq(Texts), disturbances \in Nat :
         LinkInit(pico_texts, esp_texts, disturbances)) => NothingInventedInv
  BY NothingInventedInit
<1>2. LinkInv /\ LinkInv' /\ Conserved /\ Conserved' /\ NothingInventedInv
         /\ [LinkNext]_linkVars => NothingInventedInv'
  <2> SUFFICES ASSUME LinkInv, LinkInv', Conserved, Conserved', NothingInventedInv,
                      [LinkNext]_linkVars
               PROVE  NothingInventedInv'
    OBVIOUS
  <2> QED
    BY NothingInventedStep, Zenon
<1>3. LinkSpec => []Conserved
  BY LinkUsesUart, NothingLost, PTL
<1>4. LinkSpec => []NothingInventedInv
  BY <1>1, <1>2, <1>3, LinkInvariant, PTL DEF LinkSpec
<1>5. LinkInv /\ Conserved /\ NothingInventedInv => NothingInvented
  BY NothingInventedHolds
<1> QED
  BY <1>3, <1>4, <1>5, LinkInvariant, PTL
=============================================================================

------------------------------ MODULE PicoUart ------------------------------
(***************************************************************************)
(* One UART of the Pico (PicoUart.cpp): two ring buffers shared by the     *)
(* main loop and the interrupt handler, and the FIFOs of the hardware.     *)
(* The handler runs to its end before the loop goes on; the hardware moves *)
(* bytes at any time.                                                      *)
(***************************************************************************)
EXTENDS Bytes

CONSTANTS
  FifoDepth,   \* bytes a FIFO of the hardware holds, 32 in the RP2040
  Watermark    \* the transmit interrupt rises as its FIFO falls to this level

ASSUME UartAssumption ==
  /\ Size # 1
  /\ FifoDepth \in Nat
  /\ Watermark \in Nat
  /\ Watermark < FifoDepth

VARIABLES
  tx_head, tx_tail, tx_buffer,   \* the ring the loop fills, RingBuffer tx
  rx_head, rx_tail, rx_buffer,   \* the ring the handler fills, RingBuffer rx
  tx_fifo, rx_fifo,              \* the FIFOs of the hardware
  txim,      \* the transmit interrupt is enabled (UARTIMSC)
  txris,     \* and this is its raw state (UARTRIS)
  enabled,   \* irq_set_enabled(irqn, ...)
  handler,   \* where the interrupt handler is, "none" if it does not run
  loop,      \* where the main loop is
  out,       \* bytes write() has still to put into the ring
  accepted,  \* bytes write() has put there, ever (history)
  line       \* bytes that have left on the wire, ever (history)

txRing == <<tx_head, tx_tail, tx_buffer>>
rxRing == <<rx_head, rx_tail, rx_buffer>>
uartVars == <<txRing, rxRing, tx_fifo, rx_fifo, txim, txris, enabled, handler,
              loop, out, accepted, line>>

Tx == INSTANCE RingBuffer WITH head <- tx_head, tail <- tx_tail, buffer <- tx_buffer
Rx == INSTANCE RingBuffer WITH head <- rx_head, tail <- rx_tail, buffer <- rx_buffer

UartInit ==
  /\ Tx!RingInit
  /\ Rx!RingInit
  /\ tx_fifo = <<>> /\ rx_fifo = <<>>
  /\ txim = FALSE /\ txris = FALSE
  /\ enabled = TRUE
  /\ handler = "none" /\ loop = "idle"
  /\ out = <<>> /\ accepted = <<>> /\ line = <<>>

----------------------------------------------------------------------------
(* The hardware.                                                           *)
writable == Len(tx_fifo) < FifoDepth

(* A byte leaves; the interrupt rises on the transition through the level. *)
Shift ==
  /\ tx_fifo # <<>>
  /\ line' = Append(line, Head(tx_fifo))
  /\ tx_fifo' = Tail(tx_fifo)
  /\ txris' = (txris \/ Len(tx_fifo) - 1 = Watermark)
  /\ UNCHANGED <<txRing, rxRing, rx_fifo, txim, enabled, handler, loop, out, accepted>>

(* A byte arrives; a full FIFO loses it.                                   *)
Arrive(b) ==
  /\ rx_fifo' = IF Len(rx_fifo) < FifoDepth THEN Append(rx_fifo, b) ELSE rx_fifo
  /\ UNCHANGED <<txRing, rxRing, tx_fifo, txim, txris, enabled, handler, loop,
                 out, accepted, line>>

----------------------------------------------------------------------------
(* uart_irq_tx, run by the handler and by write(): one turn of its loop,   *)
(* and its end, which disables the interrupt if nothing is left.           *)
TxMove ==
  /\ ~ Tx!empty
  /\ writable
  /\ tx_fifo' = Append(tx_fifo, Tx!Oldest)
  /\ Tx!Get
  /\ txris' = (txris /\ Len(tx_fifo) + 1 <= Watermark)
  /\ UNCHANGED <<rxRing, rx_fifo, txim, enabled, handler, loop, out, accepted, line>>

(* Mutant: the interrupt is disabled although bytes wait in the ring.      *)
TxStopAlways ==
  /\ Tx!empty \/ ~ writable
  /\ txim' = FALSE

TxStop ==
  /\ Tx!empty \/ ~ writable
  /\ txim' = (txim /\ ~ Tx!empty)

(* pico_uart0_handler: receive, then transmit.                             *)
Interrupt ==
  /\ handler = "none"
  /\ enabled
  /\ rx_fifo # <<>> \/ (txim /\ txris)
  /\ handler' = "rx"
  /\ UNCHANGED <<txRing, rxRing, tx_fifo, rx_fifo, txim, txris, enabled, loop,
                 out, accepted, line>>

(* uart_irq_rx: what put() refuses is lost.                                *)
IrqReceive ==
  /\ handler = "rx"
  /\ rx_fifo # <<>>
  /\ Rx!Put(Head(rx_fifo)) \/ Rx!Refuse
  /\ rx_fifo' = Tail(rx_fifo)
  /\ UNCHANGED <<txRing, tx_fifo, txim, txris, enabled, handler, loop, out,
                 accepted, line>>

IrqReceived ==
  /\ handler = "rx"
  /\ rx_fifo = <<>>
  /\ handler' = "tx"
  /\ UNCHANGED <<txRing, rxRing, tx_fifo, rx_fifo, txim, txris, enabled, loop,
                 out, accepted, line>>

IrqTransmit == handler = "tx" /\ TxMove

IrqEnd ==
  /\ handler = "tx"
  /\ TxStop
  /\ handler' = "none"
  /\ UNCHANGED <<txRing, rxRing, tx_fifo, rx_fifo, txris, enabled, loop, out,
                 accepted, line>>

----------------------------------------------------------------------------
(* The main loop, which stands still while the handler runs.               *)
At(point) == loop = point /\ handler = "none"

(* send(str): write() begins.                                              *)
Send ==
  /\ At("idle")
  /\ out' \in Seq(Byte)
  /\ loop' = "fill"
  /\ UNCHANGED <<txRing, rxRing, tx_fifo, rx_fifo, txim, txris, enabled, handler,
                 accepted, line>>

(* Mutant: a byte put() refuses counts as accepted.                        *)
FillRegardless ==
  /\ At("fill")
  /\ out # <<>>
  /\ Tx!Put(Head(out)) \/ Tx!Refuse
  /\ out' = Tail(out)
  /\ accepted' = Append(accepted, Head(out))
  /\ UNCHANGED <<rxRing, tx_fifo, rx_fifo, txim, txris, enabled, handler, loop, line>>

(* One turn of the loop that fills the ring, with interrupts enabled.      *)
Fill ==
  /\ At("fill")
  /\ out # <<>>
  /\ Tx!Put(Head(out))
  /\ out' = Tail(out)
  /\ accepted' = Append(accepted, Head(out))
  /\ UNCHANGED <<rxRing, tx_fifo, rx_fifo, txim, txris, enabled, handler, loop, line>>

(* What does not fit is dropped: send() ignores the count write() returns. *)
Filled ==
  /\ At("fill")
  /\ out = <<>> \/ Tx!full
  /\ out' = <<>>
  /\ enabled' = FALSE
  /\ loop' = "enable"
  /\ UNCHANGED <<txRing, rxRing, tx_fifo, rx_fifo, txim, txris, handler, accepted, line>>

(* Mutant: the FIFO does not get its initial filling.                      *)
EnableWithoutFilling ==
  /\ At("enable")
  /\ txim' = TRUE
  /\ loop' = "idle"
  /\ enabled' = TRUE
  /\ UNCHANGED <<txRing, rxRing, tx_fifo, rx_fifo, txris, handler, out, accepted, line>>

(* With interrupts disabled: if the transmit interrupt is off, it is       *)
(* enabled and the FIFO gets its initial filling.                          *)
Enable ==
  /\ At("enable")
  /\ txim' = TRUE
  /\ loop' = IF txim THEN "idle" ELSE "prime"
  /\ enabled' = txim
  /\ UNCHANGED <<txRing, rxRing, tx_fifo, rx_fifo, txris, handler, out, accepted, line>>

Prime == At("prime") /\ TxMove

Primed ==
  /\ At("prime")
  /\ TxStop
  /\ enabled' = TRUE
  /\ loop' = "idle"
  /\ UNCHANGED <<txRing, rxRing, tx_fifo, rx_fifo, txris, handler, out, accepted, line>>

(* One turn of the loop of read(): the oldest received byte is taken.      *)
ReadByte ==
  /\ At("read")
  /\ ~ Rx!empty
  /\ Rx!Get
  /\ UNCHANGED <<txRing, tx_fifo, rx_fifo, txim, txris, enabled, handler, loop,
                 out, accepted, line>>

ReadCall(from, to) ==
  /\ At(from)
  /\ loop' = to
  /\ UNCHANGED <<txRing, rxRing, tx_fifo, rx_fifo, txim, txris, enabled, handler,
                 out, accepted, line>>

----------------------------------------------------------------------------
Handler == Interrupt \/ IrqReceive \/ IrqReceived \/ IrqTransmit \/ IrqEnd
Write == Fill \/ Filled \/ Enable \/ Prime \/ Primed

(* A user of the UART alone: any bytes are sent, received and read.        *)
UartNext ==
  \/ Shift
  \/ \E b \in Byte : Arrive(b)
  \/ Handler
  \/ Send
  \/ Write
  \/ ReadCall("idle", "read") \/ ReadByte \/ ReadCall("read", "idle")

UartSpec == UartInit /\ [][UartNext]_uartVars

FlowTypeOK ==
  /\ tx_fifo \in Seq(Byte) /\ rx_fifo \in Seq(Byte) /\ out \in Seq(Byte)
  /\ accepted \in Seq(Byte) /\ line \in Seq(Byte)
  /\ txim \in BOOLEAN /\ txris \in BOOLEAN /\ enabled \in BOOLEAN
  /\ handler \in {"none", "rx", "tx"}
  /\ loop \in {"idle", "fill", "enable", "prime", "read"}

UartTypeOK == Tx!RingTypeOK /\ Rx!RingTypeOK /\ FlowTypeOK

(* Both rings are bounded FIFOs although the loop and the interrupt        *)
(* handler work on them at the same time, write() before it disables       *)
(* interrupts (PicoUart.cpp:105) and read() without doing so (88).         *)
RingsAreFifos == Tx!ImplementsFifo /\ Rx!ImplementsFifo

(* Every byte write() has accepted is on the wire, in the FIFO or in the   *)
(* ring, in the order it was accepted: the handler may interrupt write()   *)
(* anywhere and neither loses, repeats nor reorders a byte.                *)
Conserved == accepted = line \o tx_fifo \o Tx!Contents

(* No wake-up is lost: whenever bytes wait in the ring and neither write() *)
(* nor the handler is about to see to them, the transmit interrupt is      *)
(* enabled, and it is raised or will be as the FIFO falls (write enables   *)
(* it at 112-117, uart_irq_tx disables it at 182-185).                     *)
NoLostWakeup ==
  (~ Tx!empty /\ handler = "none" /\ loop \in {"idle", "read"})
    => txim /\ (txris \/ Len(tx_fifo) > Watermark)
=============================================================================

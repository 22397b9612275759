----------------------------- MODULE SerialLink -----------------------------
(***************************************************************************)
(* Messages as bytes: the Pico's CommBridge over its UART, the wire, and   *)
(* the ESP's uart_read_task.  A message is three tokens, its "$", the rest *)
(* of its text with the CRC, and its ";": enough to lose, cut and join     *)
(* messages wherever the code can.                                         *)
(***************************************************************************)
EXTENDS PicoUart, SequencesExt

CONSTANTS
  Texts,           \* texts of messages between "$" and ";", CRC included
  Junk,            \* a byte that belongs to no message
  ChunkSize,       \* RBUFFER_SIZE, 64 in the code
  EventQueueSize,  \* EVENT_QUEUE_SIZE, 5 in the code
  EspBufferSize,   \* UART_RING_BUFFER_SIZE, 512 in the code
  LongestCommand   \* LONGEST_COMMAND_LENGTH, 256 in the code

ASSUME LinkAssumption ==
  /\ {"$", ";", Junk} \cup Texts \subseteq Byte
  /\ Texts \cap {"$", ";", Nul, Junk} = {}
  /\ ChunkSize \in Nat /\ EventQueueSize \in Nat /\ EspBufferSize \in Nat
  /\ LongestCommand \in Nat

VARIABLES
  chunk,           \* rbuffer of CommBridge::read
  str,             \* the text read so far
  string_buffer,   \* the incomplete message kept between two reads
  queue,           \* messages the Pico has parsed, ever
  heard,           \* text handed to parse(), ever (history)
  plan,            \* the texts each side has to send
  tried, said,     \* how many of them the Pico and the ESP have sent
  to_pico,         \* bytes of the ESP on their way to the Pico
  intact,          \* no byte was lost or damaged on the way to the Pico (history)
  taken,           \* how many bytes of line the ESP's driver has seen
  esp_buffer,      \* the driver's receive buffer
  events,          \* uart_event_queue
  esp_got,         \* messages the ESP has extracted, ever
  glitches         \* disturbances still to come (a bound)

picoReader == <<chunk, str, string_buffer, queue, heard>>
espReader == <<taken, esp_buffer, events, esp_got>>
plans == <<plan, tried, said>>
linkVars == <<uartVars, picoReader, espReader, plans, to_pico, intact, glitches>>

Framed(text) == <<"$", text, ";">>

----------------------------------------------------------------------------
(* The Pico.                                                               *)

(* Mutant: the CRC is not compared.                                        *)
ConvertedUnchecked(s) == IF Len(s) >= 2 THEN <<s[2]>> ELSE <<>>

(* convert_to_message: a text whose CRC fits, after its "$".               *)
Converted(s) ==
  IF \E text \in Texts : s = <<"$", text>> THEN <<s[2]>> ELSE <<>>

(* The first b in s from a position on, or the position after the end.     *)
FirstOf(s, b, from) == Min({k \in from .. Len(s) : s[k] = b} \cup {Len(s) + 1})

Nothing == [kept |-> <<>>, messages |-> <<>>]
Before(messages, parsed) ==
  [kept |-> parsed.kept, messages |-> messages \o parsed.messages]

(* One turn of the loop of parse with nothing kept, from position i on:    *)
(* skip to the first "$"; keep what has no ";" yet; otherwise convert what *)
(* precedes the ";", and go on after it.                                   *)
ParsedAt(text, i, parsed) ==
  LET start == FirstOf(text, "$", i)
      end == FirstOf(text, ";", start)
  IN IF start > Len(text) THEN Nothing
     ELSE IF end > Len(text)
     THEN [kept |-> SubSeq(text, start, Len(text)), messages |-> <<>>]
     ELSE Before(Converted(SubSeq(text, start, end - 1)), parsed[end + 1])

Parsed(text) ==
  LET parsed[i \in 1 .. Len(text) + 1] == ParsedAt(text, i, parsed) IN parsed

(* parse: what is kept is completed first, whatever it is followed by.     *)
Parse(kept, text) ==
  LET end == FirstOf(text, ";", 1)
  IN IF kept = <<>> THEN Parsed(text)[1]
     ELSE IF end > Len(text) THEN [kept |-> kept \o text, messages |-> <<>>]
     ELSE Before(Converted(kept \o SubSeq(text, 1, end - 1)), Parsed(text)[end + 1])

(* str += (char * )rbuffer: the text of a chunk ends at its first zero     *)
(* byte; a full chunk without one has no end of its own, and what follows  *)
(* it in memory is appended.                                               *)
Appended(c) ==
  LET nul == FirstOf(c, Nul, 1)
  IN IF nul <= Len(c) THEN {SubSeq(c, 1, nul - 1)}
     ELSE IF Len(c) < ChunkSize THEN {c}
     ELSE {c} \cup {Append(c, b) : b \in {Junk, "$", ";"}}

PicoSend ==
  /\ tried < Len(plan.pico)
  /\ out' = Framed(plan.pico[tried + 1])
  /\ Send
  /\ tried' = tried + 1
  /\ UNCHANGED <<picoReader, espReader, plan, said, to_pico, intact, glitches>>

ReadStart ==
  /\ ReadCall("idle", "read")
  /\ UNCHANGED <<picoReader, espReader, plans, to_pico, intact, glitches>>

ReadChunkByte ==
  /\ Len(chunk) < ChunkSize
  /\ ReadByte
  /\ chunk' = Append(chunk, Rx!Oldest)
  /\ UNCHANGED <<str, string_buffer, queue, heard, espReader, plans, to_pico,
                 intact, glitches>>

(* Mutant: a chunk replaces what was read before it.                       *)
ReadChunkReplaces ==
  /\ At("read")
  /\ chunk # <<>>
  /\ Rx!empty \/ Len(chunk) = ChunkSize
  /\ str' \in Appended(chunk)
  /\ intact' = (intact /\ str' = chunk)
  /\ chunk' = <<>>
  /\ UNCHANGED <<uartVars, string_buffer, queue, heard, espReader, plans,
                 to_pico, glitches>>

ReadChunk ==
  /\ At("read")
  /\ chunk # <<>>
  /\ Rx!empty \/ Len(chunk) = ChunkSize
  /\ \E text \in Appended(chunk) :
       /\ str' = str \o text
       /\ intact' = (intact /\ text = chunk)
  /\ chunk' = <<>>
  /\ UNCHANGED <<uartVars, string_buffer, queue, heard, espReader, plans,
                 to_pico, glitches>>

(* Mutant: the incomplete message is not kept for the next read.           *)
ReadEndForgetting ==
  /\ chunk = <<>>
  /\ Rx!empty
  /\ ReadCall("read", "idle")
  /\ queue' = queue \o Parse(<<>>, str).messages
  /\ string_buffer' = <<>>
  /\ heard' = heard \o str
  /\ str' = <<>>
  /\ UNCHANGED <<chunk, espReader, plans, to_pico, intact, glitches>>

(* read_and_parse: a call of read that got nothing ends the reading.       *)
ReadEnd ==
  /\ chunk = <<>>
  /\ Rx!empty
  /\ ReadCall("read", "idle")
  /\ LET parsed == Parse(string_buffer, str)
     IN /\ string_buffer' = parsed.kept
        /\ queue' = queue \o parsed.messages
  /\ heard' = heard \o str
  /\ str' = <<>>
  /\ UNCHANGED <<chunk, espReader, plans, to_pico, intact, glitches>>

----------------------------------------------------------------------------
(* The wire towards the Pico, and what can disturb it.                     *)
EspSend ==
  /\ said < Len(plan.esp)
  /\ to_pico' = to_pico \o Framed(plan.esp[said + 1])
  /\ said' = said + 1
  /\ UNCHANGED <<uartVars, picoReader, espReader, plan, tried, intact, glitches>>

WireByte ==
  /\ to_pico # <<>>
  /\ Arrive(Head(to_pico))
  /\ to_pico' = Tail(to_pico)
  /\ intact' = (intact /\ Len(rx_fifo) < FifoDepth)
  /\ UNCHANGED <<picoReader, espReader, plans, glitches>>

(* A break reads as a zero byte; it may also swallow the byte on the wire. *)
Glitch ==
  /\ glitches > 0
  /\ glitches' = glitches - 1
  /\ Arrive(Nul)
  /\ to_pico' \in {to_pico} \cup (IF to_pico = <<>> THEN {} ELSE {Tail(to_pico)})
  /\ intact' = FALSE
  /\ UNCHANGED <<picoReader, espReader, plans>>

UartStep ==
  /\ Shift \/ Interrupt \/ IrqReceived \/ IrqTransmit \/ IrqEnd \/ Write
  /\ UNCHANGED <<picoReader, espReader, plans, to_pico, intact, glitches>>

Receive ==
  /\ IrqReceive
  /\ intact' = (intact /\ ~ Rx!full)
  /\ UNCHANGED <<picoReader, espReader, plans, to_pico, glitches>>

----------------------------------------------------------------------------
(* The ESP.                                                                *)
(* Mutant: the queue has no end.                                           *)
PostUnbounded(event) == Append(events, event)

Post(event) == IF Len(events) < EventQueueSize THEN Append(events, event) ELSE events

(* The driver takes a byte from the wire and posts an event; a full buffer *)
(* loses the byte and posts an event of another type.                      *)
EspArrive ==
  /\ taken < Len(line)
  /\ taken' = taken + 1
  /\ IF Len(esp_buffer) < EspBufferSize
     THEN esp_buffer' = Append(esp_buffer, line[taken + 1]) /\ events' = Post("data")
     ELSE UNCHANGED esp_buffer /\ events' = Post("other")
  /\ UNCHANGED <<uartVars, picoReader, esp_got, plans, to_pico, intact, glitches>>

(* Noise the driver reports as a break, a parity or a frame error.         *)
EspGlitch ==
  /\ glitches > 0
  /\ glitches' = glitches - 1
  /\ events' = Post("other")
  /\ UNCHANGED <<uartVars, picoReader, taken, esp_buffer, esp_got, plans,
                 to_pico, intact>>

(* extract_msg_from_uart_buffer until it fails, from position i on: the    *)
(* first "$" and the first ";"; a ";" before the "$" ends it, and so does  *)
(* a message that is too long.  What precedes the "$" stays in the buffer  *)
(* and has neither.                                                        *)
ExtractedAt(data, i, extracted) ==
  LET start == FirstOf(data, "$", i)
      end == FirstOf(data, ";", i)
  IN IF end > Len(data) \/ start > end \/ end - start + 1 > LongestCommand THEN <<>>
     ELSE Converted(SubSeq(data, start, end - 1)) \o extracted[end + 1]

Extracted(data) ==
  LET extracted[i \in 1 .. Len(data) + 1] == ExtractedAt(data, i, extracted)
  IN extracted[1]

(* uart_read_task, UART_DATA: all that has come is read, and what is no    *)
(* whole message is thrown away with the read.                             *)
EspRead ==
  /\ events # <<>>
  /\ Head(events) = "data"
  /\ events' = Tail(events)
  /\ esp_got' = esp_got \o Extracted(esp_buffer)
  /\ esp_buffer' = <<>>
  /\ UNCHANGED <<uartVars, picoReader, taken, plans, to_pico, intact, glitches>>

(* uart_read_task, any other event: input and events are dropped.          *)
EspFlush ==
  /\ events # <<>>
  /\ Head(events) = "other"
  /\ events' = <<>>
  /\ esp_buffer' = <<>>
  /\ UNCHANGED <<uartVars, picoReader, taken, esp_got, plans, to_pico, intact, glitches>>

----------------------------------------------------------------------------
LinkInit(pico_texts, esp_texts, disturbances) ==
  /\ UartInit
  /\ chunk = <<>> /\ str = <<>> /\ string_buffer = <<>> /\ queue = <<>> /\ heard = <<>>
  /\ plan = [pico |-> pico_texts, esp |-> esp_texts] /\ tried = 0 /\ said = 0
  /\ to_pico = <<>> /\ intact = TRUE /\ glitches = disturbances
  /\ taken = 0 /\ esp_buffer = <<>> /\ events = <<>> /\ esp_got = <<>>

PicoLoop == ReadStart \/ ReadChunkByte \/ ReadChunk

LinkNext ==
  \/ PicoSend \/ ReadStart \/ ReadChunkByte \/ ReadChunk \/ ReadEnd
  \/ EspSend \/ WireByte \/ Glitch \/ UartStep \/ Receive
  \/ EspArrive \/ EspGlitch \/ EspRead \/ EspFlush

(* Any texts to send, any number of disturbances.                          *)
LinkSpec ==
  /\ \E pico_texts, esp_texts \in Seq(Texts), disturbances \in Nat :
       LinkInit(pico_texts, esp_texts, disturbances)
  /\ [][LinkNext]_linkVars

(* What the loop is in the middle of goes on, interrupts are served, bytes *)
(* travel, and the loop reads again and again.                             *)
LinkFairness ==
  /\ WF_linkVars(PicoLoop)
  /\ []<>~(At("read") /\ chunk = <<>> /\ Rx!empty)
  /\ WF_linkVars(UartStep)
  /\ WF_linkVars(Receive)
  /\ WF_linkVars(EspSend)
  /\ WF_linkVars(WireByte)
  /\ WF_linkVars(EspArrive)

LinkTypeOK ==
  /\ UartTypeOK
  /\ {chunk, str, string_buffer, heard, to_pico, esp_buffer} \subseteq Seq(Byte)
  /\ {queue, esp_got} \subseteq Seq(Texts)
  /\ events \in Seq({"data", "other"}) /\ Len(events) <= EventQueueSize
  /\ taken \in 0 .. Len(line)

(* A parser that looks at one byte at a time and keeps everything from a   *)
(* "$" to the next ";": what parse() promises of a stream.                 *)
Heard(st, b) ==
  IF st.kept = <<>>
  THEN IF b = "$" THEN [kept |-> <<b>>, messages |-> st.messages] ELSE st
  ELSE IF b = ";"
  THEN [kept |-> <<>>, messages |-> st.messages \o Converted(st.kept)]
  ELSE [kept |-> Append(st.kept, b), messages |-> st.messages]

StreamedAt(bytes, n, after) ==
  IF n = 0 THEN Nothing ELSE Heard(after[n - 1], bytes[n])

Streaming(bytes) ==
  LET after[n \in 0 .. Len(bytes)] == StreamedAt(bytes, n, after) IN after

Streamed(bytes) == Streaming(bytes)[Len(bytes)]

(* Wherever reads cut the stream, and whatever bytes were lost or added,   *)
(* parse() finds the messages a parser of the whole stream finds, and      *)
(* keeps what that one would keep (commbridge.cpp:73-104, string_buffer).  *)
CutsDoNotMatter ==
  At("idle") => /\ queue = Streamed(heard).messages
                /\ string_buffer = Streamed(heard).kept

(* Neither side ever takes something for a message that was not sent, or   *)
(* one twice, or two in the other order, whatever the wire, the rings and  *)
(* the reads lose, cut or join.                                            *)
Subsequence(s, t) ==
  \E f \in [1 .. Len(s) -> 1 .. Len(t)] :
    \A i \in 1 .. Len(s) : s[i] = t[f[i]] /\ (i > 1 => f[i - 1] < f[i])

NothingInvented ==
  /\ Subsequence(queue, SubSeq(plan.esp, 1, said))
  /\ Subsequence(esp_got, SubSeq(plan.pico, 1, tried))

(* What write() accepted leaves on the wire in the end, however the loop,  *)
(* the handler and the hardware interleave.                                *)
AllSent == <>[](line = accepted)

(* A message of the ESP is parsed in the end if no byte was lost or        *)
(* damaged on the way to the Pico: however the loop and the handler        *)
(* interleave and however the reads cut it.                                *)
AllParsed == <>[](~ intact \/ queue = plan.esp)
=============================================================================

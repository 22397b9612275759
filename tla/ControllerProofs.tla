-------------------------- MODULE ControllerProofs --------------------------
(***************************************************************************)
(* Lemmas about the main loop of the Pico (PicoController), for any ESP at *)
(* the other end of the line and any user: the types of its variables.     *)
(* PicoProofs uses them with an unconstrained ESP, StargazerProofs with    *)
(* the tasks of the real one.                                              *)
(***************************************************************************)
EXTENDS PicoController, SequenceTheorems, FiniteSetTheorems, FunctionTheorems, TLAPS

(* The steps of the Pico, of its user and of the line.                     *)
ConfigAction ==
  \/ \E t \in Times : ConfigTime(t)
  \/ ConfigCoord
  \/ \E type \in {"WIFI", "SERVER", "API"} : ConfigSend(type)
  \/ ConfigTrace
  \/ \E id \in Ids, position \in Positions : ConfigInstruction(id, position)

Arrival == \E m \in Incoming : Arrive(m)

ControllerAction == Loop \/ Hardware \/ ConfigAction \/ Arrival

----------------------------------------------------------------------------
(* Counting: how many elements of a queue belong to a set.                 *)
Occurrences(q, S) == {k \in 1 .. Len(q) : q[k] \in S}
Count(q, S) == Cardinality(Occurrences(q, S))
Bit(condition) == IF condition THEN 1 ELSE 0

(* A count is a number, of a finite set, and zero for an empty queue.      *)
LEMMA CountIsNatural ==
  ASSUME NEW T, NEW q \in Seq(T), NEW S
  PROVE  /\ Count(q, S) \in Nat /\ IsFiniteSet(Occurrences(q, S))
         /\ Count(q, S) > 0 => Occurrences(q, S) # {}
         /\ Occurrences(q, S) # {} => Count(q, S) > 0
<1>1. Len(q) \in Nat
  BY LenProperties
<1>2. IsFiniteSet(1 .. Len(q))
  BY <1>1, FS_Interval
<1>3. IsFiniteSet(Occurrences(q, S))
  BY <1>2, FS_Subset DEF Occurrences
<1>4. Count(q, S) \in Nat
  BY <1>3, FS_CardinalityType DEF Count
<1>5. Count(q, S) = 0 <=> Occurrences(q, S) = {}
  BY <1>3, FS_EmptySet DEF Count
<1> QED
  BY <1>3, <1>4, <1>5

(* An empty queue holds none.                                              *)
LEMMA CountEmpty ==
  ASSUME NEW S
  PROVE  Count(<<>>, S) = 0
BY FS_EmptySet DEF Count, Occurrences

(* No more occurrences than in a set that holds more.                      *)
LEMMA CountMonotonic ==
  ASSUME NEW T, NEW q \in Seq(T), NEW S, NEW U, S \subseteq U
  PROVE  Count(q, S) <= Count(q, U)
<1>1. Occurrences(q, S) \subseteq Occurrences(q, U)
  BY DEF Occurrences
<1> QED
  BY <1>1, CountIsNatural, FS_Subset DEF Count

(* No more of them when each has one of its own in another queue.          *)
LEMMA CountInjection ==
  ASSUME NEW T, NEW q \in Seq(T), NEW r \in Seq(T), NEW S,
         NEW f, f \in [Occurrences(q, S) -> Occurrences(r, S)],
         \A a, b \in Occurrences(q, S) : f[a] = f[b] => a = b
  PROVE  Count(q, S) <= Count(r, S)
<1>1. f \in Injection(Occurrences(q, S), Occurrences(r, S))
  BY Fun_IsInj
<1> QED
  BY <1>1, CountIsNatural, FS_Injection DEF Count

(* The occurrences in a joined queue are those in its parts.               *)
LEMMA CountConcat ==
  ASSUME NEW T, NEW q \in Seq(T), NEW r \in Seq(T), NEW S
  PROVE  Count(q \o r, S) = Count(q, S) + Count(r, S)
<1> DEFINE n == Len(q)
           A == Occurrences(q, S)
           B == Occurrences(r, S)
           C == {k \in n + 1 .. n + Len(r) : r[k - n] \in S}
           f == [k \in B |-> n + k]
<1>1. /\ n \in Nat /\ Len(r) \in Nat
      /\ q \o r \in Seq(T)
      /\ Len(q \o r) = n + Len(r)
      /\ \A i \in 1 .. n + Len(r) : (q \o r)[i] = IF i <= n THEN q[i] ELSE r[i - n]
  BY ConcatProperties, LenProperties
<1>2. IsFiniteSet(A) /\ IsFiniteSet(B) /\ Cardinality(A) \in Nat /\ Cardinality(B) \in Nat
  BY CountIsNatural DEF Count
<1>3. Occurrences(q \o r, S) = A \cup C
  <2>1. ASSUME NEW k \in Occurrences(q \o r, S)
        PROVE  k \in A \cup C
    BY <1>1, <2>1 DEF Occurrences
  <2>2. ASSUME NEW k \in A
        PROVE  k \in Occurrences(q \o r, S)
    BY <1>1, <2>2 DEF Occurrences
  <2>3. ASSUME NEW k \in C
        PROVE  k \in Occurrences(q \o r, S)
    BY <1>1, <2>3 DEF Occurrences
  <2> QED
    BY <2>1, <2>2, <2>3
<1>4. A \cap C = {}
  BY <1>1 DEF Occurrences
<1>5. f \in Bijection(B, C)
  <2>1. f \in [B -> C]
    BY <1>1 DEF Occurrences
  <2>2. \A a, b \in B : f[a] = f[b] => a = b
    BY <1>1 DEF Occurrences
  <2>3. ASSUME NEW c \in C
        PROVE  \E b \in B : f[b] = c
    <3>1. c - n \in B
      BY <1>1 DEF Occurrences
    <3>2. f[c - n] = c
      BY <1>1, <3>1
    <3> QED
      BY <3>1, <3>2
  <2> HIDE DEF f, B, C
  <2> QED
    BY <2>1, <2>2, <2>3, Fun_IsBij
<1>6. ExistsBijection(B, C)
  BY <1>5, Fun_ExistsBij
<1>7. IsFiniteSet(C) /\ Cardinality(C) = Cardinality(B)
  BY <1>2, <1>6, FS_Bijection
<1> HIDE DEF A, B, C
<1>8. Cardinality(A \cup C) = Cardinality(A) + Cardinality(C) - Cardinality(A \cap C)
  BY <1>2, <1>7, FS_Union
<1>9. Cardinality(A \cap C) = 0
  BY <1>4, FS_EmptySet
<1> QED
  BY <1>2, <1>3, <1>7, <1>8, <1>9 DEF Count, A, B

(* A queue of one element holds one if the element belongs to the set.     *)
LEMMA CountOne ==
  ASSUME NEW T, NEW e \in T, NEW S
  PROVE  <<e>> \in Seq(T) /\ Count(<<e>>, S) = Bit(e \in S)
<1>1. Len(<<e>>) = 1 /\ <<e>>[1] = e
  OBVIOUS
<1>2. Occurrences(<<e>>, S) = IF e \in S THEN {1} ELSE {}
  BY <1>1 DEF Occurrences
<1>3. /\ e \in S => Count(<<e>>, S) = 1
      /\ e \notin S => Count(<<e>>, S) = 0
  <2>1. Cardinality({1}) = 1 /\ Cardinality({}) = 0
    BY FS_EmptySet, FS_Singleton
  <2> QED
    BY <1>2, <2>1 DEF Count
<1> QED
  BY <1>3 DEF Bit

(* One more at the end, one less at the front.                             *)
LEMMA CountAppend ==
  ASSUME NEW T, NEW q \in Seq(T), NEW e \in T, NEW S
  PROVE  Count(Append(q, e), S) = Count(q, S) + Bit(e \in S)
<1>1. <<e>> \in Seq(T) /\ Count(<<e>>, S) = Bit(e \in S)
  BY CountOne
<1>2. Append(q, e) = q \o <<e>>
  BY <1>1, AppendIsConcat
<1> DEFINE one == <<e>>
<1>3. one \in Seq(T) /\ Count(one, S) = Bit(e \in S) /\ Append(q, e) = q \o one
  BY <1>1, <1>2
<1> HIDE DEF one
<1>4. Count(q \o one, S) = Count(q, S) + Count(one, S)
  BY <1>3, CountConcat
<1> QED
  BY <1>3, <1>4

(* Taking the head of a queue takes one away if the head belongs to the    *)
(* set.                                                                    *)
LEMMA CountTail ==
  ASSUME NEW T, NEW q \in Seq(T), q # <<>>, NEW S
  PROVE  Count(q, S) = Bit(Head(q) \in S) + Count(Tail(q), S)
<1>1. Head(q) \in T /\ Tail(q) \in Seq(T)
  BY HeadTailProperties
<1>2. <<Head(q)>> \in Seq(T) /\ Count(<<Head(q)>>, S) = Bit(Head(q) \in S)
  BY <1>1, CountOne
<1>3. q = <<Head(q)>> \o Tail(q)
  <2> DEFINE joined == <<Head(q)>> \o Tail(q)
  <2>1. /\ Len(q) \in Nat /\ Len(q) # 0
        /\ Len(Tail(q)) = Len(q) - 1
        /\ \A i \in 1 .. Len(Tail(q)) : Tail(q)[i] = q[i + 1]
    BY HeadTailProperties, LenProperties, EmptySeq
  <2>2. Len(<<Head(q)>>) = 1 /\ <<Head(q)>>[1] = q[1]
    BY <2>1
  <2>3. /\ joined \in Seq(T)
        /\ Len(joined) = Len(<<Head(q)>>) + Len(Tail(q))
        /\ \A i \in 1 .. Len(<<Head(q)>>) + Len(Tail(q)) :
              joined[i] = IF i <= Len(<<Head(q)>>) THEN <<Head(q)>>[i]
                          ELSE Tail(q)[i - Len(<<Head(q)>>)]
    BY <1>1, <1>2, ConcatProperties
  <2> HIDE DEF joined
  <2>4. Len(joined) = Len(q)
    BY <2>1, <2>2, <2>3
  <2>5. \A i \in 1 .. Len(q) : joined[i] = q[i]
    <3>1. ASSUME NEW i \in 1 .. Len(q)
          PROVE  joined[i] = q[i]
      <4>1. CASE i = 1
        BY <4>1, <2>1, <2>2, <2>3
      <4>2. CASE i # 1
        BY <4>2, <2>1, <2>2, <2>3
      <4> QED
        BY <4>1, <4>2
    <3> QED
      BY <3>1
  <2>6. joined = q
    BY <2>3, <2>4, <2>5, SeqEqual
  <2> QED
    BY <2>6 DEF joined
<1> DEFINE one == <<Head(q)>>
<1>4. /\ one \in Seq(T) /\ Count(one, S) = Bit(Head(q) \in S)
      /\ q = one \o Tail(q)
  BY <1>2, <1>3
<1> HIDE DEF one
<1>5. Count(one \o Tail(q), S) = Count(one, S) + Count(Tail(q), S)
  BY <1>1, <1>4, CountConcat
<1> QED
  BY <1>4, <1>5

(* A part holds no more than the whole.                                    *)
LEMMA CountPart ==
  ASSUME NEW T, NEW q \in Seq(T), NEW k \in 0 .. Len(q), NEW S
  PROVE  Count(SubSeq(q, 1, k), S) <= Count(q, S)
<1> DEFINE part == SubSeq(q, 1, k)
<1>1. Len(q) \in Nat
  BY LenProperties
<1>2. \A i \in 1 .. k : q[i] \in T
  BY <1>1, ElementOfSeq
<1>3. /\ part \in Seq(T) /\ Len(part) = k
      /\ \A i \in 1 .. k : part[i] = q[i]
  <2>1. /\ part \in Seq(T) /\ Len(part) = IF 1 <= k THEN k - 1 + 1 ELSE 0
        /\ \A i \in 1 .. k - 1 + 1 : part[i] = q[1 + i - 1]
    BY <1>1, <1>2, SubSeqProperties
  <2> QED
    BY <1>1, <2>1
<1> HIDE DEF part
<1>4. Occurrences(part, S) \subseteq Occurrences(q, S)
  BY <1>1, <1>3 DEF Occurrences
<1>5. Count(part, S) <= Count(q, S)
  BY <1>3, <1>4, CountIsNatural, FS_Subset DEF Count
<1> QED
  BY <1>5 DEF part

----------------------------------------------------------------------------
(* Lemmas about the operators the model is built from.                     *)

(* std::sort loses no command and adds none (the vector of commands is     *)
(* sorted at controller.cpp:163 and 314).                                  *)
LEMMA SortedProperties ==
  ASSUME NEW s \in Seq(Command), NEW r \in Sorted(s)
  PROVE  /\ r \in Seq(Command)
         /\ Len(r) = Len(s)
         /\ \A k \in 1 .. Len(s) : \E i \in 1 .. Len(r) : r[i] = s[k]
<1> DEFINE n == Len(s)
<1>1. PICK p \in [1 .. n -> 1 .. n] :
        /\ \A k \in 1 .. n : \E i \in 1 .. n : p[i] = k
        /\ r = [i \in 1 .. n |-> s[p[i]]]
  BY DEF Sorted
<1>2. n \in Nat /\ \A k \in 1 .. n : s[k] \in Command
  BY ElementOfSeq, LenProperties
<1>3. r \in [1 .. n -> Command]
  BY <1>1, <1>2
<1>4. r \in Seq(Command)
  BY <1>2, <1>3, SeqDef
<1>5. Len(r) = n
  BY <1>2, <1>3, <1>4, LenProperties
<1> QED
  BY <1>1, <1>2, <1>4, <1>5

(* Sorting neither loses nor doubles.                                      *)
LEMMA CountSorted ==
  ASSUME NEW s \in Seq(Command), NEW r \in Sorted(s), NEW S
  PROVE  Count(r, S) <= Count(s, S)
<1> DEFINE n == Len(s)
<1>1. PICK p \in [1 .. n -> 1 .. n] :
        /\ \A k \in 1 .. n : \E i \in 1 .. n : p[i] = k
        /\ r = [i \in 1 .. n |-> s[p[i]]]
  BY DEF Sorted
<1>2. n \in Nat /\ r \in Seq(Command) /\ Len(r) = n
  BY LenProperties, SortedProperties
<1>3. p \in Surjection(1 .. n, 1 .. n)
  BY <1>1, Fun_IsSurj
<1>4. p \in Injection(1 .. n, 1 .. n)
  BY <1>2, <1>3, FS_Interval, FS_SurjSameCardinalityImpliesInj
<1>5. \A a, b \in 1 .. n : p[a] = p[b] => a = b
  BY <1>4, Fun_InjectionProperties, ZenonT(60)
<1> DEFINE f == [k \in Occurrences(r, S) |-> p[k]]
<1>6. f \in [Occurrences(r, S) -> Occurrences(s, S)]
  BY <1>1, <1>2 DEF Occurrences
<1>7. \A a, b \in Occurrences(r, S) : f[a] = f[b] => a = b
  BY <1>2, <1>5 DEF Occurrences
<1> HIDE DEF f
<1> QED
  BY <1>2, <1>6, <1>7, CountInjection

(* The messages the program makes itself are messages.                     *)
LEMMA MessageTypeCorrect ==
  /\ response(TRUE) \in Message
  /\ response(FALSE) \in Message
  /\ datetime_request \in Message
  /\ device_status \in Message
  /\ diagnostics \in Message
BY DEF Message, Msg, MessageTypes, response, datetime_request, device_status,
       diagnostics

(* Every message of the ESP is a message.                                  *)
LEMMA IncomingTypeCorrect ==
  \A m \in Incoming : m \in Message /\ (m.type = "INSTRUCTIONS" => m \in Instruction)
                      /\ (m.type = "DATETIME" => m.val \in Times)
BY MaxTimeAssumption
   DEF Incoming, Instruction, Message, MessageTypes, Times, Positions, NOW,
       Timed, Bad, Malformed

(* Every element of a well-typed queue, the first in particular, is of the *)
(* type of the queue.                                                      *)
LEMMA HeadTypeCorrect ==
  ASSUME NEW S, NEW s \in Seq(S), s # <<>>
  PROVE  Head(s) \in S /\ Tail(s) \in Seq(S)
BY HeadTailProperties

----------------------------------------------------------------------------
(* Type correctness, one group of variables at a time.  Every round of the *)
(* main loop leaves a state, a point and flags that the switch knows.      *)
LEMMA LoopTypeCorrect ==
  ASSUME ControllerTypeOK, ControllerAction
  PROVE  LoopTypeOK'
<1> USE DEF Points, States, captureVars, traceVars, loopVars, Case
<1>a. LoopTypeOK /\ MaxTrace \in Nat
  BY ControllerAssumption DEF ControllerTypeOK
<1>b. send_msg_queue \in Seq(Message) /\ commands \in Seq(Command)
  BY DEF ControllerTypeOK, QueueTypeOK
<1>1. CASE InitRead
  BY <1>a, <1>1, ZenonT(60) DEF LoopTypeOK, InitRead
<1>2. CASE InitLocate
  BY <1>a, <1>2, ZenonT(60) DEF LoopTypeOK, InitLocate
<1>3. CASE ReceiveAny
  <2>1. PICK type : Receive(type)
    BY <1>3 DEF ReceiveAny, ReceiveResponse, ReceiveDatetime,
       ReceiveDeviceStatus, ReceiveInstructions, ReceiveUnexpected
  <2>2. state' \in States
    BY <1>a, <1>3 DEF LoopTypeOK, ReceiveAny, ReceiveResponse,
       ReceiveDatetime, ReceiveDeviceStatus, ReceiveInstructions,
       ReceiveUnexpected
  <2> QED
    BY <1>a, <2>1, <2>2 DEF LoopTypeOK, Receive, AfterMessage, DrainPoints
<1>4. CASE SanitizeSkip
  BY <1>a, <1>4 DEF LoopTypeOK, SanitizeSkip, SanitizeUnchanged, Switch
<1>5. CASE SanitizeDiscard
  BY <1>a, <1>5 DEF LoopTypeOK, SanitizeDiscard, SanitizeUnchanged, Switch
<1>6. CASE SanitizeArm
  BY <1>a, <1>6 DEF LoopTypeOK, SanitizeArm, SanitizeUnchanged, Switch
<1>7. CASE CommRead
  <2>1. send_msg_queue # <<>> => Head(send_msg_queue).type \in MessageTypes
    <3>1. send_msg_queue # <<>> => Head(send_msg_queue) \in Message
      BY <1>b, HeadTypeCorrect
    <3> QED
      BY <3>1 DEF Message
  <2> QED
    BY <1>a, <1>7, <2>1 DEF LoopTypeOK, CommRead, NextState
<1>8. CASE CommProcess
  BY <1>a, <1>8 DEF LoopTypeOK, CommProcess
<1>9. CASE InstrAny
  <2>1. InstrProcess /\ now_commands' \in {now_commands, now_commands + 1}
    BY <1>9 DEF InstrAny, InstrIgnored, InstrRejected, InstrImpossible,
       InstrNow, InstrTimed
  <2> QED
    BY <1>a, <2>1 DEF LoopTypeOK, InstrProcess
<1>10. CASE MotorCalibrate
  BY <1>a, <1>10 DEF LoopTypeOK, MotorCalibrate
<1>11. CASE MotorControlEarly
  BY <1>a, <1>11 DEF LoopTypeOK, MotorControlEarly, MotorControlStep, Decrement
<1>12. CASE MotorControlLate
  BY <1>a, <1>12 DEF LoopTypeOK, MotorControlLate, MotorControlStep, Decrement
<1>13. CASE MotorControlTurn
  <2>1. Head(commands).id \in Ids
    <3>1. Head(commands) \in Command
      BY <1>b, <1>13, HeadTypeCorrect DEF MotorControlTurn
    <3> QED
      BY <3>1 DEF Command
  <2> QED
    BY <1>a, <1>13, <2>1 DEF LoopTypeOK, MotorControlTurn, MotorControlStep,
       Decrement
<1>14. CASE MotorControlEmpty
  BY <1>a, <1>14 DEF LoopTypeOK, MotorControlEmpty, MotorControlStep, Decrement
<1>15. CASE MotorWait
  BY <1>a, <1>15 DEF LoopTypeOK, MotorWait
<1>16. CASE MotorOff
  BY <1>a, <1>16 DEF LoopTypeOK, MotorOff
<1>17. CASE Sleep
  BY <1>a, <1>17 DEF LoopTypeOK, Sleep
<1>18. CASE TraceStart
  <2>1. state' \in States
    BY <1>a, <1>18 DEF LoopTypeOK, TraceStart
  <2>2. trace_hours' \in 0 .. MaxTrace
    BY <1>a, <1>18 DEF LoopTypeOK, TraceStart
  <2>3. trace_started' \in BOOLEAN /\ trace_pause' \in BOOLEAN
    BY <1>a, <1>18 DEF LoopTypeOK, TraceStart
  <2> QED
    BY <1>a, <1>18, <2>1, <2>2, <2>3 DEF LoopTypeOK, TraceStart, TraceStep
<1>19. CASE TraceHold
  BY <1>a, <1>19 DEF LoopTypeOK, TraceHold, TraceStep
<1>20. CASE TraceTurn
  BY <1>a, <1>20 DEF LoopTypeOK, TraceTurn, TraceStep
<1>21. CASE TraceEnd
  BY <1>a, <1>21 DEF LoopTypeOK, TraceEnd, TraceStep
<1>22. CASE ConfigAnswered
  BY <1>a, <1>22 DEF LoopTypeOK, ConfigAnswered
<1>23. CASE ConfigGivenUp
  BY <1>a, <1>23 DEF LoopTypeOK, ConfigGivenUp
<1>24. CASE Hardware
  BY <1>a, <1>24 DEF LoopTypeOK, Hardware, Second, AlarmIrq, OptoIrq, MotorsReach, Unmoved
<1>25. CASE ConfigAction
  <2>1. CASE \/ \E t \in Times : ConfigTime(t)
             \/ \E id \in Ids, position \in Positions : ConfigInstruction(id, position)
    BY <1>a, <2>1 DEF LoopTypeOK, ConfigTime, ConfigInstruction
  <2>2. CASE ConfigCoord
    BY <1>a, <2>2 DEF LoopTypeOK, ConfigCoord
  <2>3. CASE \E type \in {"WIFI", "SERVER", "API"} : ConfigSend(type)
    BY <1>a, <2>3 DEF LoopTypeOK, ConfigSend
  <2>4. CASE ConfigTrace
    BY <1>a, <2>4 DEF LoopTypeOK, ConfigTrace
  <2> QED
    BY <1>25, <2>1, <2>2, <2>3, <2>4 DEF ConfigAction
<1>26. CASE Arrival
  BY <1>a, <1>26 DEF LoopTypeOK, Arrival, Arrive, Unmoved
<1> QED
  BY <1>1, <1>2, <1>3, <1>4, <1>5, <1>6, <1>7, <1>8, <1>9, <1>10, <1>11,
     <1>12, <1>13, <1>14, <1>15, <1>16, <1>17, <1>18, <1>19, <1>20, <1>21,
     <1>22, <1>23, <1>24, <1>25, <1>26
     DEF ControllerAction, Loop, Sanitize, MotorControlAny, Trace

(* Only well-formed messages and commands enter the queues, the vector of  *)
(* commands and the two directions of the UART.                            *)
LEMMA QueueTypeCorrect ==
  ASSUME ControllerTypeOK, ControllerAction
  PROVE  QueueTypeOK'
<1>1. /\ QueueTypeOK
      /\ now \in Times
      /\ current_command \in Ids \cup {NoId}
  BY DEF ControllerTypeOK, LoopTypeOK, ClockTypeOK
<1>2. ASSUME NEW m \in Message
      PROVE  /\ Transmit(m) => to_esp' \in Seq(Message)
             /\ Send(m) => send_msg_queue' \in Seq(Message)
  <2>1. to_esp \in Seq(Message) /\ send_msg_queue \in Seq(Message)
    BY <1>1 DEF QueueTypeOK
  <2>2. /\ Append(to_esp, m) \in Seq(Message)
        /\ Append(send_msg_queue, m) \in Seq(Message)
    BY <2>1, AppendProperties
  <2> QED
    BY <2>1, <2>2 DEF Transmit, Send
<1>3. ASSUME NEW id \in Ids \cup {NoId}, NEW status \in Statuses,
             Report(id, status)
      PROVE  send_msg_queue' \in Seq(Message)
  <2>1. cmd_status(id, status) \in Message /\ picture(id) \in Message
    BY DEF Message, MessageTypes, Statuses, Calculated, Impossible, Rejected,
       PictureFailed, Requested, cmd_status, picture, Msg
  <2> QED
    BY <1>2, <1>3, <2>1 DEF Report
<1>4. CASE InitRead
  <2>1. to_esp' \in Seq(Message)
    BY <1>1, <1>2, <1>4, MessageTypeCorrect DEF InitRead, QueueTypeOK
  <2>2. msg_queue' \in Seq(Incoming)
    BY <1>1, <1>4, ConcatProperties DEF InitRead, QueueTypeOK
  <2> QED
    BY <1>1, <1>4, <2>1, <2>2 DEF InitRead, QueueTypeOK
<1>5. CASE InitLocate
  <2>1. send_msg_queue' \in Seq(Message)
    BY <1>1, <1>2, <1>5, MessageTypeCorrect DEF InitLocate, QueueTypeOK
  <2> QED
    BY <1>1, <1>5, <2>1 DEF InitLocate, linkVars, QueueTypeOK
<1>6. CASE ReceiveAny
  <2>1. /\ Head(msg_queue) \in Incoming
        /\ msg_queue' \in Seq(Incoming)
        /\ UNCHANGED <<commands, from_esp>>
    BY <1>1, <1>6, HeadTypeCorrect DEF QueueTypeOK, ReceiveAny,
       ReceiveResponse, ReceiveDatetime, ReceiveDeviceStatus,
       ReceiveInstructions, ReceiveUnexpected, Receive, AfterMessage
  <2>2. send_msg_queue' \in Seq(Message) /\ to_esp' \in Seq(Message)
    BY <1>1, <1>2, <1>6, MessageTypeCorrect DEF QueueTypeOK, ReceiveAny,
       ReceiveResponse, ReceiveDatetime, ReceiveDeviceStatus,
       ReceiveInstructions, ReceiveUnexpected
  <2>3. instr_msg_queue' \in Seq(Instruction)
    <3>1. CASE ReceiveInstructions
      BY <1>1, <2>1, <3>1, IncomingTypeCorrect DEF ReceiveInstructions,
         Receive, QueueTypeOK
    <3> QED
      BY <1>1, <1>6, <3>1 DEF QueueTypeOK, ReceiveAny, ReceiveResponse,
         ReceiveDatetime, ReceiveDeviceStatus, ReceiveUnexpected
  <2> QED
    BY <1>1, <2>1, <2>2, <2>3 DEF QueueTypeOK
<1>7. CASE Sanitize
  <2>1. ASSUME NEW s \in Sorted(commands), commands # <<>>
        PROVE  /\ s \in Seq(Command)
               /\ Head(s) \in Command
               /\ Tail(s) \in Seq(Command)
    BY <1>1, <2>1, SortedProperties, EmptySeq, HeadTypeCorrect DEF QueueTypeOK
  <2>2. commands' \in Seq(Command)
    BY <1>1, <1>7, <2>1 DEF Sanitize, SanitizeSkip, SanitizeDiscard,
       SanitizeArm, QueueTypeOK
  <2>3. send_msg_queue' \in Seq(Message)
    <3>1. CASE SanitizeDiscard
      <4>1. PICK s \in Sorted(commands) : Report(Head(s).id, Impossible)
        BY <3>1 DEF SanitizeDiscard
      <4>2. Head(s).id \in Ids \cup {NoId} /\ Impossible \in Statuses
        BY <2>1, <3>1 DEF SanitizeDiscard, Command, Statuses
      <4> QED
        BY <1>3, <4>1, <4>2
    <3> QED
      BY <1>1, <1>7, <3>1 DEF Sanitize, SanitizeSkip, SanitizeArm,
         SilentCommands, QueueTypeOK
  <2> QED
    BY <1>1, <1>7, <2>2, <2>3 DEF Sanitize, SanitizeSkip, SanitizeDiscard,
       SanitizeArm, SanitizeUnchanged, linkVars, QueueTypeOK
<1>8. CASE CommRead
  <2>1. msg_queue' \in Seq(Incoming) /\ from_esp' \in Seq(Incoming)
    BY <1>1, <1>8, ConcatProperties, EmptySeq DEF CommRead, QueueTypeOK
  <2>2. send_msg_queue' \in Seq(Message) /\ to_esp' \in Seq(Message)
    <3>1. CASE send_msg_queue = <<>>
      BY <1>1, <1>8, <3>1 DEF CommRead, QueueTypeOK
    <3>2. CASE send_msg_queue # <<>>
      <4>1. /\ Head(send_msg_queue) \in Message
            /\ Tail(send_msg_queue) \in Seq(Message)
        BY <1>1, <3>2, HeadTypeCorrect DEF QueueTypeOK
      <4> QED
        BY <1>2, <1>8, <3>2, <4>1 DEF CommRead
    <3> QED
      BY <3>1, <3>2
  <2> QED
    BY <1>1, <1>8, <2>1, <2>2 DEF CommRead, QueueTypeOK
<1>9. CASE CommProcess \/ ConfigGivenUp
  BY <1>1, <1>9 DEF CommProcess, ConfigGivenUp, linkVars, QueueTypeOK
<1>10. CASE ConfigAnswered
  <2>1. msg_queue' \in Seq(Incoming) /\ from_esp' \in Seq(Incoming)
    BY <1>1, <1>10, ConcatProperties, EmptySeq DEF ConfigAnswered, QueueTypeOK
  <2> QED
    BY <1>1, <1>10, <2>1 DEF ConfigAnswered, QueueTypeOK
<1>11. CASE InstrAny
  <2>1. /\ InstrProcess
        /\ Head(instr_msg_queue) \in Instruction
        /\ instr_msg_queue' \in Seq(Instruction)
    BY <1>1, <1>11, HeadTypeCorrect DEF QueueTypeOK, InstrAny, InstrIgnored,
       InstrRejected, InstrImpossible, InstrNow, InstrTimed, InstrProcess
  <2>2. Head(instr_msg_queue).id \in Ids
    BY <2>1 DEF Instruction
  <2>3. send_msg_queue' \in Seq(Message)
    <3>1. CASE InstrIgnored
      BY <1>1, <3>1 DEF InstrIgnored, SilentCommands, QueueTypeOK
    <3>2. CASE ~InstrIgnored
      <4>1. PICK status \in Statuses : Report(Head(instr_msg_queue).id, status)
        BY <1>11, <3>2 DEF InstrAny, InstrRejected, InstrImpossible, InstrNow,
           InstrTimed, Statuses
      <4> QED
        BY <1>3, <2>2, <4>1
    <3> QED
      BY <3>1, <3>2
  <2>4. ASSUME NEW t \in Times,
               commands' \in Sorted(Append(commands,
                               [id |-> Head(instr_msg_queue).id, time |-> t]))
        PROVE  commands' \in Seq(Command)
    <3>1. [id |-> Head(instr_msg_queue).id, time |-> t] \in Command
      BY <2>2 DEF Command
    <3>2. Append(commands, [id |-> Head(instr_msg_queue).id, time |-> t])
            \in Seq(Command)
      BY <1>1, <3>1, AppendProperties DEF QueueTypeOK
    <3> QED
      BY <2>4, <3>2, SortedProperties
  <2>5. commands' \in Seq(Command)
    <3>1. CASE InstrIgnored \/ InstrRejected \/ InstrImpossible
      BY <1>1, <3>1 DEF InstrIgnored, InstrRejected, InstrImpossible, QueueTypeOK
    <3>2. CASE InstrNow
      BY <1>1, <2>4, <3>2 DEF InstrNow
    <3>3. CASE InstrTimed
      BY <2>4, <3>3 DEF InstrTimed
    <3> QED
      BY <1>11, <3>1, <3>2, <3>3 DEF InstrAny
  <2> QED
    BY <1>1, <2>1, <2>3, <2>5 DEF InstrProcess, linkVars, QueueTypeOK
<1>12. CASE MotorCalibrate \/ MotorOff \/ Sleep
  BY <1>1, <1>12 DEF MotorCalibrate, MotorOff, Sleep, SilentCommands, linkVars,
     QueueTypeOK
<1>13. CASE MotorControlEarly
  BY <1>1, <1>13 DEF MotorControlEarly, MotorControlStep, SilentCommands,
     linkVars, QueueTypeOK
<1>14. CASE MotorControlLate
  <2>1. send_msg_queue' \in Seq(Message)
    BY <1>1, <1>3, <1>14 DEF MotorControlLate, Statuses
  <2>2. commands' \in Seq(Command)
    <3>1. /\ Len(commands) \in Nat
          /\ \A k \in 1 .. Len(commands) : commands[k] \in Command
          /\ commands = [k \in 1 .. Len(commands) |-> commands[k]]
      BY <1>1, LenProperties, ElementOfSeq DEF QueueTypeOK
    <3>2. commands' \in [1 .. Len(commands) -> Command]
      BY <1>1, <1>14, <3>1 DEF MotorControlLate, Command
    <3> QED
      BY <3>1, <3>2, SeqDef
  <2> QED
    BY <1>1, <1>14, <2>1, <2>2 DEF MotorControlLate, MotorControlStep, linkVars,
       QueueTypeOK
<1>15. CASE MotorControlTurn
  <2>1. commands' \in Seq(Command)
    BY <1>1, <1>15, HeadTypeCorrect DEF MotorControlTurn, QueueTypeOK
  <2> QED
    BY <1>1, <1>15, <2>1 DEF MotorControlTurn, MotorControlStep,
       SilentCommands, linkVars, QueueTypeOK
<1>16. CASE MotorControlEmpty
  <2>1. send_msg_queue' \in Seq(Message)
    BY <1>2, <1>16, MessageTypeCorrect DEF MotorControlEmpty
  <2> QED
    BY <1>1, <1>16, <2>1 DEF MotorControlEmpty, MotorControlStep, linkVars,
       QueueTypeOK
<1>17. CASE MotorWait
  <2>1. send_msg_queue' \in Seq(Message)
    <3>1. CASE isRunning
      BY <1>1, <1>17, <3>1 DEF MotorWait, SilentCommands, QueueTypeOK
    <3>2. CASE ~isRunning
      BY <1>1, <1>3, <1>17, <3>2 DEF MotorWait, Statuses
    <3> QED
      BY <3>1, <3>2
  <2> QED
    BY <1>1, <1>17, <2>1 DEF MotorWait, linkVars, QueueTypeOK
<1>18. CASE Trace
  BY <1>1, <1>18 DEF Trace, TraceStart, TraceHold, TraceTurn, TraceEnd,
     TraceStep, SilentCommands, linkVars, QueueTypeOK
<1>19. CASE Hardware
  BY <1>1, <1>19 DEF Hardware, Second, AlarmIrq, OptoIrq, MotorsReach, Unmoved,
     linkVars, QueueTypeOK
<1>20. ASSUME NEW m \in Incoming, Arrive(m)
       PROVE  QueueTypeOK'
  <2>1. from_esp' \in Seq(Incoming)
    BY <1>1, <1>20, AppendProperties DEF Arrive, QueueTypeOK
  <2> QED
    BY <1>1, <1>20, <2>1 DEF Arrive, Unmoved, QueueTypeOK
<1>21. CASE ConfigAction
  <2>1. CASE \E id \in Ids, position \in Positions : ConfigInstruction(id, position)
    <3>1. PICK id \in Ids, position \in Positions :
            ConfigInstruction(id, position)
      BY <2>1
    <3>2. Msg("INSTRUCTIONS", id, position) \in Instruction
      BY DEF Msg, Instruction
    <3>3. instr_msg_queue' \in Seq(Instruction)
      BY <1>1, <3>1, <3>2, AppendProperties DEF ConfigInstruction, QueueTypeOK
    <3> QED
      BY <1>1, <3>1, <3>3 DEF ConfigInstruction, linkVars, QueueTypeOK
  <2>2. CASE \E type \in {"WIFI", "SERVER", "API"} : ConfigSend(type)
    <3>1. PICK type \in {"WIFI", "SERVER", "API"} : ConfigSend(type)
      BY <2>2
    <3>2. Msg(type, NoId, 0) \in Message
      BY DEF Msg, Message, MessageTypes
    <3>3. to_esp' \in Seq(Message)
      BY <1>2, <3>1, <3>2 DEF ConfigSend
    <3> QED
      BY <1>1, <3>1, <3>3 DEF ConfigSend, QueueTypeOK
  <2> QED
    BY <1>1, <1>21, <2>1, <2>2 DEF ConfigAction, ConfigTime, ConfigCoord,
       ConfigTrace, linkVars, QueueTypeOK
<1> QED
  BY <1>4, <1>5, <1>6, <1>7, <1>8, <1>9, <1>10, <1>11, <1>12, <1>13, <1>14,
     <1>15, <1>16, <1>17, <1>18, <1>19, <1>20, <1>21
     DEF ControllerAction, Arrival, Loop, MotorControlAny

(* The reports made are of known commands and carry known statuses.        *)
LEMMA ToldTypeCorrect ==
  ASSUME ControllerTypeOK, ControllerAction
  PROVE  ToldTypeOK'
<1>1. ToldTypeOK /\ current_command \in Ids \cup {NoId}
  BY DEF ControllerTypeOK, LoopTypeOK
<1>2. ASSUME NEW id \in Ids \cup {NoId}, NEW status \in Statuses,
             Report(id, status)
      PROVE  ToldTypeOK'
  BY <1>1, <1>2 DEF Report, ToldTypeOK
<1>3. CASE SanitizeDiscard
  <2>1. PICK s \in Sorted(commands) :
          commands # <<>> /\ Report(Head(s).id, Impossible)
    BY <1>3 DEF SanitizeDiscard
  <2>2. commands \in Seq(Command)
    BY DEF ControllerTypeOK, QueueTypeOK
  <2>3. s \in Seq(Command) /\ s # <<>>
    BY <2>1, <2>2, SortedProperties, EmptySeq
  <2>4. Head(s) \in Command
    BY <2>3, HeadTypeCorrect
  <2>5. Head(s).id \in Ids
    BY <2>4 DEF Command
  <2> QED
    BY <1>2, <2>1, <2>5 DEF Statuses
<1>4. CASE InstrAny
  <2>1. instr_msg_queue \in Seq(Instruction)
    BY DEF ControllerTypeOK, QueueTypeOK
  <2>2. Head(instr_msg_queue) \in Instruction
    BY <1>4, <2>1, HeadTypeCorrect DEF InstrAny, InstrIgnored, InstrRejected,
       InstrImpossible, InstrNow, InstrTimed, InstrProcess
  <2>3. Head(instr_msg_queue).id \in Ids
    BY <2>2 DEF Instruction
  <2>4. CASE InstrIgnored
    BY <1>1, <2>4 DEF InstrIgnored, SilentCommands, ToldTypeOK
  <2>5. CASE ~InstrIgnored
    BY <1>2, <1>4, <2>3, <2>5 DEF InstrAny, InstrRejected, InstrImpossible,
       InstrNow, InstrTimed, Statuses
  <2> QED
    BY <2>4, <2>5
<1>5. CASE MotorControlLate
  BY <1>1, <1>2, <1>5 DEF MotorControlLate, Statuses
<1>6. CASE MotorWait
  BY <1>1, <1>2, <1>6 DEF MotorWait, SilentCommands, Statuses, ToldTypeOK
<1>7. CASE ReceiveAny
  BY <1>1, <1>7 DEF ReceiveAny, ReceiveResponse, ReceiveDatetime,
     ReceiveDeviceStatus, ReceiveInstructions, ReceiveUnexpected, Receive,
     ToldTypeOK
<1>8. CASE \/ InitRead \/ InitLocate \/ SanitizeSkip \/ SanitizeArm \/ CommRead
           \/ CommProcess \/ ConfigAnswered \/ ConfigGivenUp
  BY <1>1, <1>8 DEF InitRead, InitLocate, SanitizeSkip, SanitizeArm, CommRead,
     CommProcess, ConfigAnswered, ConfigGivenUp, SilentCommands, ToldTypeOK
<1>9. CASE \/ MotorCalibrate \/ MotorControlEarly \/ MotorControlTurn
           \/ MotorControlEmpty \/ MotorOff \/ Sleep \/ Trace
  BY <1>1, <1>9 DEF MotorCalibrate, MotorControlEarly, MotorControlTurn,
     MotorControlEmpty, MotorOff, Sleep, Trace, TraceStart, TraceHold, TraceTurn,
     TraceEnd, TraceStep, SilentCommands, ToldTypeOK
<1>10. CASE Hardware \/ ConfigAction \/ Arrival
  BY <1>1, <1>10 DEF Hardware, Second, AlarmIrq, OptoIrq, MotorsReach, Unmoved,
     ConfigAction, Arrival, Arrive, ConfigInstruction, ConfigTime, ConfigCoord,
     ConfigSend, ConfigTrace, ToldTypeOK
<1> QED
  BY <1>3, <1>4, <1>5, <1>6, <1>7, <1>8, <1>9, <1>10
     DEF ControllerAction, Loop, Sanitize, MotorControlAny

(* The clock and its alarm stay within the modelled period.                *)
LEMMA ClockTypeCorrect ==
  ASSUME ControllerTypeOK, ControllerAction
  PROVE  ClockTypeOK'
<1>1. ClockTypeOK /\ MaxTime \in Nat
  BY MaxTimeAssumption DEF ControllerTypeOK
<1>2. commands \in Seq(Command)
  BY DEF ControllerTypeOK, QueueTypeOK
<1>3. CASE UNCHANGED clockVars
  BY <1>1, <1>3 DEF clockVars, ClockTypeOK
<1>4. ASSUME NEW t \in Times, AddAlarm(t) \/ ClockUpdate(t)
      PROVE  ClockTypeOK'
  BY <1>1, <1>4 DEF AddAlarm, ClockUpdate, ClockTypeOK
<1>5. ASSUME NEW s \in Seq(Command), s # <<>>
      PROVE  Head(s).time \in Times
  <2>1. Head(s) \in Command
    BY <1>5, HeadTypeCorrect
  <2> QED
    BY <2>1 DEF Command
<1>6. CASE ReceiveDatetime
  <2>1. msg_queue \in Seq(Incoming)
    BY DEF ControllerTypeOK, QueueTypeOK
  <2>2. Head(msg_queue) \in Incoming
    BY <1>6, <2>1, HeadTypeCorrect DEF ReceiveDatetime, Receive
  <2>3. Head(msg_queue).val \in Times
    BY <1>6, <2>2, IncomingTypeCorrect DEF ReceiveDatetime, Receive
  <2> QED
    BY <1>4, <1>6, <2>3 DEF ReceiveDatetime
<1>7. CASE SanitizeArm
  <2>1. PICK s \in Sorted(commands) : commands # <<>> /\ AddAlarm(Head(s).time)
    BY <1>7 DEF SanitizeArm
  <2>2. s \in Seq(Command) /\ s # <<>>
    BY <1>2, <2>1, SortedProperties, EmptySeq
  <2> QED
    BY <1>4, <1>5, <2>1, <2>2
<1>8. CASE InstrTimed
  <2>1. commands' \in Seq(Command)
    BY QueueTypeCorrect DEF QueueTypeOK
  <2>2. PICK t \in Times :
          commands' \in Sorted(Append(commands,
            [id |-> Head(instr_msg_queue).id, time |-> t]))
    BY <1>8 DEF InstrTimed
  <2>3. Head(instr_msg_queue).id \in Ids
    <3>1. instr_msg_queue \in Seq(Instruction)
      BY DEF ControllerTypeOK, QueueTypeOK
    <3>2. Head(instr_msg_queue) \in Instruction
      BY <1>8, <3>1, HeadTypeCorrect DEF InstrTimed, InstrProcess
    <3> QED
      BY <3>2 DEF Instruction
  <2>4. [id |-> Head(instr_msg_queue).id, time |-> t] \in Command
    BY <1>1, <2>2, <2>3 DEF Command, ClockTypeOK, Times
  <2> DEFINE added == Append(commands, [id |-> Head(instr_msg_queue).id, time |-> t])
  <2>5. added \in Seq(Command) /\ Len(added) # 0
    BY <1>2, <2>4, AppendProperties, LenProperties
  <2> HIDE DEF added
  <2>6. commands' # <<>>
    BY <2>2, <2>5, SortedProperties, EmptySeq DEF added
  <2> QED
    BY <1>4, <1>5, <1>8, <2>1, <2>6 DEF InstrTimed
<1>9. CASE MotorControlEarly
  BY <1>2, <1>4, <1>5, <1>9 DEF MotorControlEarly
<1>10. CASE Sleep
  BY <1>1, <1>10 DEF Sleep, ClearAlarm, clockVars, ClockTypeOK
<1>11. CASE ConfigAction
  <2>1. CASE \E t \in Times : ConfigTime(t)
    <3>1. PICK t \in Times : ClockUpdate(t)
      BY <2>1 DEF ConfigTime
    <3> QED
      BY <1>4, <3>1
  <2> QED
    BY <1>3, <1>11, <2>1 DEF ConfigAction, ConfigCoord, ConfigSend, ConfigTrace,
       ConfigInstruction
<1>12. CASE Hardware
  <2>1. CASE Second
    <3>1. now' \in Times /\ alarm' \in Times \cup {NoAlarm}
      BY <1>1, <2>1 DEF Second, Tick, ClockTypeOK, Times
    <3>2. synced' \in BOOLEAN /\ alarm_wakeup' \in BOOLEAN
      BY <1>1, <2>1 DEF Second, Tick, ClockTypeOK
    <3> QED
      BY <3>1, <3>2 DEF ClockTypeOK
  <2>2. CASE AlarmIrq
    BY <1>1, <2>2 DEF AlarmIrq, AlarmMatch, ClockTypeOK
  <2> QED
    BY <1>3, <1>12, <2>1, <2>2 DEF Hardware, OptoIrq, MotorsReach
<1>13. CASE \/ InitRead \/ InitLocate \/ ReceiveResponse \/ ReceiveDeviceStatus
            \/ ReceiveInstructions \/ ReceiveUnexpected \/ SanitizeSkip
            \/ SanitizeDiscard \/ CommRead \/ CommProcess
  BY <1>3, <1>13 DEF InitRead, InitLocate, ReceiveResponse,
     ReceiveDeviceStatus, ReceiveInstructions, ReceiveUnexpected,
     SanitizeSkip, SanitizeDiscard, CommRead, CommProcess
<1>14. CASE \/ InstrIgnored \/ InstrRejected \/ InstrImpossible \/ InstrNow
            \/ MotorCalibrate \/ MotorControlLate \/ MotorControlTurn
            \/ MotorControlEmpty \/ MotorWait \/ MotorOff \/ Trace
            \/ ConfigAnswered \/ ConfigGivenUp
  BY <1>3, <1>14 DEF InstrIgnored, InstrRejected, InstrImpossible, InstrNow,
     MotorCalibrate, MotorControlLate, MotorControlTurn, MotorControlEmpty,
     MotorWait, MotorOff, Trace, TraceStart, TraceHold, TraceTurn, TraceEnd,
     TraceStep, ConfigAnswered, ConfigGivenUp
<1>15. CASE Arrival
  BY <1>3, <1>15 DEF Arrival, Arrive
<1> QED
  BY <1>6, <1>7, <1>8, <1>9, <1>10, <1>11, <1>12, <1>13, <1>14, <1>15
     DEF ControllerAction, Loop, ReceiveAny, Sanitize, InstrAny, MotorControlAny

(* The axes are aimed at a command and keep well-formed calibration flags. *)
LEMMA MotorTypeCorrect ==
  ASSUME ControllerTypeOK, ControllerAction
  PROVE  MotorTypeOK'
<1>1. MotorTypeOK /\ CalTicks \in Nat
  BY MotorAssumption DEF ControllerTypeOK
<1>2. CASE UNCHANGED motorVars
  BY <1>1, <1>2 DEF motorVars, MotorTypeOK
<1>3. CASE Calibrate
  <2>1. CASE isCalibrating
    BY <1>2, <1>3, <2>1 DEF Calibrate
  <2>2. CASE ~isCalibrating
    <3>1. cal_left' \in 0 .. CalTicks
      BY <1>1, <1>3, <2>2 DEF Calibrate
    <3>2. calibrated' \in SUBSET Axes /\ calibrating' \in SUBSET Axes
      BY <1>3, <2>2 DEF Calibrate
    <3>3. turning' \in BOOLEAN /\ aim' \in Ids \cup {NoId}
      BY <1>3, <2>2 DEF Calibrate
    <3> QED
      BY <3>1, <3>2, <3>3 DEF MotorTypeOK
  <2> QED
    BY <2>1, <2>2
<1>4. ASSUME NEW id \in Ids \cup {NoId}, TurnTo(id)
      PROVE  MotorTypeOK'
  <2>1. aim' \in Ids \cup {NoId} /\ turning' \in BOOLEAN
    BY <1>4 DEF TurnTo
  <2>2. /\ calibrated' \in SUBSET Axes
        /\ calibrating' \in SUBSET Axes
        /\ cal_left' \in 0 .. CalTicks
    BY <1>1, <1>4 DEF TurnTo, MotorTypeOK
  <2> QED
    BY <2>1, <2>2 DEF MotorTypeOK
<1>5. CASE Off
  <2>1. calibrated' \in SUBSET Axes /\ calibrating' \in SUBSET Axes
    BY <1>1, <1>5 DEF Off, MotorTypeOK
  <2>2. turning' \in BOOLEAN /\ UNCHANGED <<aim, cal_left>>
    BY <1>1, <1>5 DEF Off, MotorTypeOK
  <2> QED
    BY <1>1, <2>1, <2>2 DEF MotorTypeOK
<1>6. CASE MotorControlTurn
  <2>1. current_command' \in Ids \cup {NoId}
    BY LoopTypeCorrect DEF LoopTypeOK
  <2> QED
    BY <1>4, <1>6, <2>1 DEF MotorControlTurn
<1>7. CASE Hardware
  <2>1. CASE Second
    BY <1>1, <2>1 DEF Second, Decrement, MotorTypeOK
  <2>2. CASE \E axis \in Axes : OptoIrq(axis)
    BY <1>1, <2>2 DEF OptoIrq, Opto, MotorTypeOK
  <2>3. CASE MotorsReach
    BY <1>1, <2>3 DEF MotorsReach, TurnDone, MotorTypeOK
  <2> QED
    BY <1>2, <1>7, <2>1, <2>2, <2>3 DEF Hardware, AlarmIrq
<1>8. CASE Trace
  <2>1. CASE TraceTurn
    BY <1>4, <2>1 DEF TraceTurn
  <2> QED
    BY <1>2, <1>5, <1>8, <2>1 DEF Trace, TraceStart, TraceHold, TraceEnd
<1>9. CASE \/ MotorCalibrate \/ MotorControlEarly \/ MotorControlLate
           \/ MotorControlEmpty \/ MotorOff
  BY <1>3, <1>5, <1>9 DEF MotorCalibrate, MotorControlEarly, MotorControlLate,
     MotorControlEmpty, MotorOff
<1>10. CASE ReceiveAny
  BY <1>2, <1>10 DEF ReceiveAny, ReceiveResponse, ReceiveDatetime,
     ReceiveDeviceStatus, ReceiveInstructions, ReceiveUnexpected, Receive
<1>11. CASE \/ InitRead \/ InitLocate \/ Sanitize \/ CommRead \/ CommProcess
            \/ ConfigAnswered \/ ConfigGivenUp
  BY <1>2, <1>11 DEF InitRead, InitLocate, Sanitize, SanitizeSkip,
     SanitizeDiscard, SanitizeArm, SanitizeUnchanged, CommRead, CommProcess,
     ConfigAnswered, ConfigGivenUp
<1>12. CASE InstrAny \/ MotorWait \/ Sleep
  BY <1>2, <1>12 DEF InstrAny, InstrIgnored, InstrRejected, InstrImpossible,
     InstrNow, InstrTimed, InstrProcess, MotorWait, Sleep
<1>13. CASE ConfigAction \/ Arrival
  BY <1>2, <1>13 DEF ConfigAction, Arrival, Arrive, ConfigInstruction, ConfigTime,
     ConfigCoord, ConfigSend, ConfigTrace
<1> QED
  BY <1>6, <1>7, <1>8, <1>9, <1>10, <1>11, <1>12, <1>13
     DEF ControllerAction, Loop, MotorControlAny

(* Together: every step keeps the types of the Pico's variables, and they  *)
(* are right when it starts.                                               *)
LEMMA ControllerTypeStep ==
  ASSUME ControllerTypeOK, ControllerAction
  PROVE  ControllerTypeOK'
BY LoopTypeCorrect, QueueTypeCorrect, ToldTypeCorrect, ClockTypeCorrect,
   MotorTypeCorrect DEF ControllerTypeOK

(* A step that leaves the Pico alone keeps its types.                      *)
LEMMA ControllerTypeStutter ==
  ASSUME ControllerTypeOK, UNCHANGED vars
  PROVE  ControllerTypeOK'
BY DEF vars, ControllerTypeOK, LoopTypeOK, QueueTypeOK, ToldTypeOK, ClockTypeOK,
   MotorTypeOK, loopVars, captureVars, traceVars, linkVars, clockVars, motorVars

(* The types hold when the Pico is switched on.                            *)
LEMMA ControllerTypeInitially == ControllerInit => ControllerTypeOK
<1> SUFFICES ASSUME ControllerInit PROVE ControllerTypeOK
  OBVIOUS
<1>1. ClockTypeOK
  <2>1. ClockInit
    BY DEF ControllerInit
  <2>2. 0 \in Times
    BY MaxTimeAssumption DEF Times
  <2> QED
    BY <2>1, <2>2 DEF ClockInit, ClockTypeOK
<1>2. MotorTypeOK
  <2>1. MotorInit
    BY DEF ControllerInit
  <2> QED
    <3>1. 0 \in 0 .. CalTicks
      BY MotorAssumption
    <3> QED
      BY <2>1, <3>1 DEF MotorInit, MotorTypeOK
<1>3. LoopTypeOK
  <2>1. pc = "boot" /\ state = "COMM_READ" /\ last_sent = "UNASSIGNED"
    BY DEF ControllerInit
  <2>2. now_commands = 0 /\ trace_hours = 0 /\ current_command = NoId
    BY DEF ControllerInit
  <2>3. \A flag \in {initialized, double_check, check_motor,
                     waiting_for_camera, trace_started, trace_pause, fix} :
          flag \in BOOLEAN
    BY DEF ControllerInit
  <2> QED
    BY <2>1, <2>2, <2>3, ControllerAssumption DEF LoopTypeOK, Points, States,
       MessageTypes
<1>4. QueueTypeOK
  BY EmptySeq DEF ControllerInit, LinkInit, QueueTypeOK
<1>5. ToldTypeOK
  BY DEF ControllerInit, ToldTypeOK
<1> QED
  BY <1>1, <1>2, <1>3, <1>4, <1>5 DEF ControllerTypeOK
----------------------------------------------------------------------------
(* The chances of a command to be served: its instruction on the line, in  *)
(* the inbox or among the instructions, the command in the vector, the     *)
(* motors that turn for it, and its end, which is final.                   *)

InstructionsOf(id) == [type : {"INSTRUCTIONS"}, id : {id}, val : Positions]
CommandsOf(id) == [id : {id}, time : Times]

OnLine(id) == Count(from_esp, InstructionsOf(id))
InInbox(id) == Count(msg_queue, InstructionsOf(id))
AsInstruction(id) == Count(instr_msg_queue, InstructionsOf(id))
InVector(id) == Count(commands, CommandsOf(id))
InMotors(id) == Bit(check_motor /\ current_command = id)
Ended(id) == Bit(Impossible \in told[id]) + Bit(Requested \in told[id])

Chances(id) ==
  OnLine(id) + InInbox(id) + AsInstruction(id) + InVector(id) + InMotors(id)
    + Ended(id)

(* The picture is asked for by the command the motors turn for.            *)
WaitsForMotors == state = "MOTOR_WAIT" => check_motor

(* MOTOR_WAIT is entered together with check_motor, and nothing clears the *)
(* flag without leaving the state.                                         *)
LEMMA WaitsForMotorsStep ==
  ASSUME WaitsForMotors, ControllerAction
  PROVE  WaitsForMotors'
<1> USE DEF WaitsForMotors, captureVars, loopVars
<1>1. CASE InitRead \/ InitLocate
  BY <1>1 DEF InitRead, InitLocate
<1>2. CASE ReceiveAny
  BY <1>2 DEF ReceiveAny, ReceiveResponse, ReceiveDatetime, ReceiveDeviceStatus,
     ReceiveInstructions, ReceiveUnexpected, Receive
<1>3. CASE Sanitize
  BY <1>3 DEF Sanitize, SanitizeSkip, SanitizeDiscard, SanitizeArm, SanitizeUnchanged
<1>4. CASE CommRead
  BY <1>4 DEF CommRead, NextState
<1>5. CASE CommProcess \/ ConfigAnswered \/ ConfigGivenUp
  BY <1>5 DEF CommProcess, ConfigAnswered, ConfigGivenUp
<1>6. CASE InstrAny
  BY <1>6 DEF InstrAny, InstrIgnored, InstrRejected, InstrImpossible, InstrNow,
     InstrTimed, InstrProcess
<1>7. CASE MotorCalibrate \/ MotorWait \/ MotorOff \/ Sleep
  BY <1>7 DEF MotorCalibrate, MotorWait, MotorOff, Sleep
<1>8. CASE MotorControlAny
  BY <1>8 DEF MotorControlAny, MotorControlEarly, MotorControlLate,
     MotorControlTurn, MotorControlEmpty, MotorControlStep
<1>9. CASE Trace
  BY <1>9 DEF Trace, TraceStart, TraceHold, TraceTurn, TraceEnd, TraceStep, Case
<1>10. CASE Hardware \/ Arrival
  BY <1>10 DEF Hardware, Second, AlarmIrq, OptoIrq, MotorsReach, Arrival, Arrive, Unmoved
<1>11. CASE ConfigAction
  BY <1>11 DEF ConfigAction, ConfigTime, ConfigCoord, ConfigSend, ConfigTrace,
     ConfigInstruction
<1> QED
  BY <1>1, <1>2, <1>3, <1>4, <1>5, <1>6, <1>7, <1>8, <1>9, <1>10, <1>11
     DEF ControllerAction, Loop

(* Every summand of the chances is a small number.                         *)
LEMMA ChancesAreNatural ==
  ASSUME ControllerTypeOK, NEW id \in Ids
  PROVE  /\ OnLine(id) \in Nat /\ InInbox(id) \in Nat /\ AsInstruction(id) \in Nat
         /\ InVector(id) \in Nat /\ InMotors(id) \in 0 .. 1 /\ Ended(id) \in 0 .. 2
<1>1. /\ from_esp \in Seq(Incoming) /\ msg_queue \in Seq(Incoming)
      /\ instr_msg_queue \in Seq(Instruction) /\ commands \in Seq(Command)
  BY DEF ControllerTypeOK, QueueTypeOK
<1>2. /\ OnLine(id) \in Nat /\ InInbox(id) \in Nat
  BY <1>1, CountIsNatural DEF OnLine, InInbox
<1>3. AsInstruction(id) \in Nat
  BY <1>1, CountIsNatural DEF AsInstruction
<1>4. InVector(id) \in Nat
  BY <1>1, CountIsNatural DEF InVector
<1> QED
  BY <1>2, <1>3, <1>4 DEF InMotors, Ended, Bit

(* A command in the vector gets another time and stays the same command.   *)
LEMMA CountRetimed ==
  ASSUME commands \in Seq(Command), now \in Times, NEW id,
         commands' = [commands EXCEPT ![1].time = now]
  PROVE  InVector(id)' = InVector(id)
<1>1. /\ Len(commands) \in Nat
      /\ \A k \in 1 .. Len(commands) : commands[k] \in Command
      /\ commands = [k \in 1 .. Len(commands) |-> commands[k]]
  BY LenProperties, ElementOfSeq
<1>2. /\ DOMAIN commands' = 1 .. Len(commands)
      /\ \A k \in 1 .. Len(commands) : commands'[k] \in Command
                                       /\ commands'[k].id = commands[k].id
  BY <1>1 DEF Command
<1>3. Len(commands') = Len(commands)
  BY <1>1, <1>2, LenProperties
<1>4. \A c \in Command : c \in CommandsOf(id) <=> c.id = id
  BY DEF Command, CommandsOf
<1>5. Occurrences(commands', CommandsOf(id)) = Occurrences(commands, CommandsOf(id))
  BY <1>1, <1>2, <1>3, <1>4 DEF Occurrences
<1> QED
  BY <1>5 DEF InVector, Count

(* A command that is put into the vector is one more chance of its own.    *)
LEMMA CountScheduled ==
  ASSUME commands \in Seq(Command), NEW c \in Command, NEW id,
         commands' \in Sorted(Append(commands, c))
  PROVE  InVector(id)' <= InVector(id) + Bit(c.id = id)
<1>1. Append(commands, c) \in Seq(Command)
  BY AppendProperties
<1>2. Count(commands', CommandsOf(id)) <= Count(Append(commands, c), CommandsOf(id))
  BY <1>1, CountSorted
<1>3. Count(Append(commands, c), CommandsOf(id)) = Count(commands, CommandsOf(id)) + Bit(c \in CommandsOf(id))
  BY CountAppend
<1>4. c \in CommandsOf(id) <=> c.id = id
  BY DEF Command, CommandsOf
<1> QED
  BY <1>2, <1>3, <1>4 DEF InVector

(* The first command that leaves the vector is one less.                   *)
LEMMA CountTaken ==
  ASSUME NEW s \in Seq(Command), s # <<>>, NEW id
  PROVE  /\ Head(s).id \in Ids
         /\ Count(s, CommandsOf(id)) = Bit(Head(s).id = id) + Count(Tail(s), CommandsOf(id))
<1>1. Head(s) \in Command
  BY HeadTypeCorrect
<1>2. Head(s) \in CommandsOf(id) <=> Head(s).id = id
  BY <1>1 DEF Command, CommandsOf
<1>3. Count(s, CommandsOf(id)) = Bit(Head(s) \in CommandsOf(id)) + Count(Tail(s), CommandsOf(id))
  BY CountTail
<1> QED
  BY <1>1, <1>2, <1>3 DEF Command

(* A report that ends a command, and one that does not.                    *)
LEMMA CountReported ==
  ASSUME ToldTypeOK, NEW id \in Ids, NEW c \in Ids \cup {NoId}, NEW s \in Statuses,
         Report(c, s)
  PROVE  /\ Ended(id)' <= Ended(id) + Bit(c = id)
         /\ s \notin {Impossible, Requested} => Ended(id)' = Ended(id)
<1>1. told'[id] = IF c = id THEN told[id] \cup {s} ELSE told[id]
  BY DEF Report, ToldTypeOK
<1>2. Impossible # Requested
  BY DEF Impossible, Requested
<1>3. CASE c = id
  BY <1>1, <1>2, <1>3 DEF Ended, Bit
<1>4. CASE c # id
  BY <1>1, <1>4 DEF Ended, Bit
<1> QED
  BY <1>3, <1>4

(* What has arrived moves to the inbox.                                    *)
LEMMA CountParsed ==
  ASSUME ControllerTypeOK, NEW id,
         msg_queue' = msg_queue \o from_esp, from_esp' = <<>>
  PROVE  OnLine(id)' = 0 /\ InInbox(id)' = InInbox(id) + OnLine(id)
<1>1. from_esp \in Seq(Incoming) /\ msg_queue \in Seq(Incoming)
  BY DEF ControllerTypeOK, QueueTypeOK
<1>2. Count(<<>>, InstructionsOf(id)) = 0
  BY CountEmpty
<1>3. Count(msg_queue \o from_esp, InstructionsOf(id))
        = Count(msg_queue, InstructionsOf(id)) + Count(from_esp, InstructionsOf(id))
  BY <1>1, CountConcat
<1> QED
  BY <1>2, <1>3 DEF OnLine, InInbox

(* No step of the main loop gives a command another chance.                *)
LEMMA ChancesFall ==
  ASSUME ControllerTypeOK, WaitsForMotors, NEW id \in Ids, Loop \/ Hardware
  PROVE  Chances(id)' <= Chances(id)
<1> USE DEF linkVars, captureVars
<1>a. ControllerTypeOK'
  BY ControllerTypeStep DEF ControllerAction
<1>b. /\ commands \in Seq(Command) /\ instr_msg_queue \in Seq(Instruction)
      /\ msg_queue \in Seq(Incoming) /\ from_esp \in Seq(Incoming)
      /\ now \in Times /\ ToldTypeOK /\ current_command \in Ids \cup {NoId}
  BY DEF ControllerTypeOK, QueueTypeOK, ClockTypeOK, LoopTypeOK
<1>c. /\ OnLine(id) \in Nat /\ InInbox(id) \in Nat /\ AsInstruction(id) \in Nat
      /\ InVector(id) \in Nat /\ InMotors(id) \in 0 .. 1 /\ Ended(id) \in 0 .. 2
  BY ChancesAreNatural
<1>d. /\ OnLine(id)' \in Nat /\ InInbox(id)' \in Nat /\ AsInstruction(id)' \in Nat
      /\ InVector(id)' \in Nat /\ InMotors(id)' \in 0 .. 1 /\ Ended(id)' \in 0 .. 2
  <2>1. /\ from_esp' \in Seq(Incoming) /\ msg_queue' \in Seq(Incoming)
        /\ instr_msg_queue' \in Seq(Instruction) /\ commands' \in Seq(Command)
    BY <1>a DEF ControllerTypeOK, QueueTypeOK
  <2>2. OnLine(id)' \in Nat /\ InInbox(id)' \in Nat
    BY <2>1, CountIsNatural DEF OnLine, InInbox
  <2>3. AsInstruction(id)' \in Nat
    BY <2>1, CountIsNatural DEF AsInstruction
  <2>4. InVector(id)' \in Nat
    BY <2>1, CountIsNatural DEF InVector
  <2> QED
    BY <2>2, <2>3, <2>4 DEF InMotors, Ended, Bit
<1>e. /\ UNCHANGED from_esp => OnLine(id)' = OnLine(id)
      /\ UNCHANGED msg_queue => InInbox(id)' = InInbox(id)
      /\ UNCHANGED instr_msg_queue => AsInstruction(id)' = AsInstruction(id)
      /\ UNCHANGED commands => InVector(id)' = InVector(id)
      /\ UNCHANGED <<check_motor, current_command>> => InMotors(id)' = InMotors(id)
      /\ UNCHANGED told => Ended(id)' = Ended(id)
  BY DEF OnLine, InInbox, AsInstruction, InVector, InMotors, Ended
<1>f. \A c : Bit(c) \in 0 .. 1
  BY DEF Bit
<1>1. CASE UNCHANGED <<from_esp, msg_queue, instr_msg_queue, commands,
                       check_motor, current_command, told>>
  BY <1>1, <1>c, <1>e DEF Chances
<1>2. CASE InitRead \/ CommRead \/ ConfigAnswered
  <2>1. /\ msg_queue' = msg_queue \o from_esp /\ from_esp' = <<>>
        /\ UNCHANGED <<instr_msg_queue, commands, check_motor, current_command, told>>
    BY <1>2 DEF InitRead, CommRead, ConfigAnswered
  <2> QED
    BY <1>c, <1>e, <2>1, CountParsed DEF Chances
<1>3. CASE ReceiveAny
  <2>1. /\ msg_queue # <<>> /\ msg_queue' = Tail(msg_queue)
        /\ UNCHANGED <<from_esp, commands, check_motor, current_command, told>>
        /\ \/ UNCHANGED instr_msg_queue
           \/ /\ instr_msg_queue' = Append(instr_msg_queue, Head(msg_queue))
              /\ Head(msg_queue).type = "INSTRUCTIONS"
    BY <1>3 DEF ReceiveAny, ReceiveResponse, ReceiveDatetime, ReceiveDeviceStatus,
       ReceiveInstructions, ReceiveUnexpected, Receive, AfterMessage
  <2>2. InInbox(id) = Bit(Head(msg_queue) \in InstructionsOf(id)) + InInbox(id)'
    BY <1>b, <2>1, CountTail DEF InInbox
  <2>3. AsInstruction(id)' <= AsInstruction(id) + Bit(Head(msg_queue) \in InstructionsOf(id))
    <3>1. CASE UNCHANGED instr_msg_queue
      BY <1>c, <1>e, <1>f, <3>1
    <3>2. CASE /\ instr_msg_queue' = Append(instr_msg_queue, Head(msg_queue))
               /\ Head(msg_queue).type = "INSTRUCTIONS"
      <4>1. Head(msg_queue) \in Incoming
        BY <1>b, <2>1, HeadTypeCorrect
      <4>2. Head(msg_queue) \in Instruction
        BY <3>2, <4>1, IncomingTypeCorrect
      <4>3. AsInstruction(id)' = AsInstruction(id) + Bit(Head(msg_queue) \in InstructionsOf(id))
        BY <1>b, <3>2, <4>2, CountAppend DEF AsInstruction
      <4> QED
        BY <1>c, <1>f, <4>3
    <3> QED
      BY <2>1, <3>1, <3>2
  <2>4. Bit(Head(msg_queue) \in InstructionsOf(id)) \in 0 .. 1
    BY <1>f
  <2>5. /\ OnLine(id)' = OnLine(id) /\ InVector(id)' = InVector(id)
        /\ InMotors(id)' = InMotors(id) /\ Ended(id)' = Ended(id)
    BY <1>e, <2>1
  <2> QED
    BY <1>c, <1>d, <2>2, <2>3, <2>4, <2>5 DEF Chances
<1>4. CASE Sanitize
  <2>1. UNCHANGED <<from_esp, msg_queue, instr_msg_queue, check_motor, current_command>>
    BY <1>4 DEF Sanitize, SanitizeSkip, SanitizeDiscard, SanitizeArm, SanitizeUnchanged
  <2>2. CASE SanitizeSkip
    BY <1>1, <2>1, <2>2 DEF SanitizeSkip, SilentCommands
  <2>3. CASE SanitizeArm
    <3>1. commands' \in Sorted(commands) /\ UNCHANGED told
      BY <2>3 DEF SanitizeArm, SilentCommands
    <3>2. InVector(id)' <= InVector(id)
      BY <1>b, <3>1, CountSorted DEF InVector
    <3> QED
      BY <1>c, <1>d, <1>e, <2>1, <3>1, <3>2 DEF Chances
  <2>4. CASE SanitizeDiscard
    <3>1. PICK s \in Sorted(commands) :
            commands # <<>> /\ Report(Head(s).id, Impossible) /\ commands' = Tail(s)
      BY <2>4 DEF SanitizeDiscard
    <3>2. s \in Seq(Command) /\ s # <<>>
      BY <1>b, <3>1, SortedProperties, EmptySeq
    <3>3. Count(s, CommandsOf(id)) <= InVector(id)
      BY <1>b, CountSorted DEF InVector
    <3>4. /\ Head(s).id \in Ids
          /\ Count(s, CommandsOf(id)) = Bit(Head(s).id = id) + InVector(id)'
      BY <3>1, <3>2, CountTaken DEF InVector
    <3>5. Ended(id)' <= Ended(id) + Bit(Head(s).id = id)
      BY <1>b, <3>1, <3>4, CountReported DEF Statuses
    <3>6. Bit(Head(s).id = id) \in 0 .. 1
      BY <1>f
    <3> QED
      BY <1>c, <1>d, <1>e, <2>1, <3>3, <3>4, <3>5, <3>6 DEF Chances
  <2> QED
    BY <1>4, <2>2, <2>3, <2>4 DEF Sanitize
<1>5. CASE InstrAny
  <2> DEFINE m == Head(instr_msg_queue)
  <2>1. /\ instr_msg_queue # <<>> /\ instr_msg_queue' = Tail(instr_msg_queue)
        /\ UNCHANGED <<from_esp, msg_queue, check_motor, current_command>>
    BY <1>5 DEF InstrAny, InstrIgnored, InstrRejected, InstrImpossible, InstrNow,
       InstrTimed, InstrProcess
  <2>2. m \in Instruction
    BY <1>b, <2>1, HeadTypeCorrect
  <2>3. m.id \in Ids /\ (m \in InstructionsOf(id) <=> m.id = id)
    BY <2>2 DEF Instruction, InstructionsOf
  <2>4. AsInstruction(id) = Bit(m.id = id) + AsInstruction(id)'
    BY <1>b, <2>1, <2>3, CountTail DEF AsInstruction
  <2>5. Bit(m.id = id) \in 0 .. 1
    BY <1>f
  <2>6. CASE InstrIgnored
    BY <1>c, <1>d, <1>e, <2>1, <2>4, <2>5, <2>6, SMTT(60)
       DEF Chances, InstrIgnored, SilentCommands
  <2>7. CASE InstrRejected \/ InstrImpossible
    <3>1. PICK s \in Statuses : Report(m.id, s)
      BY <2>7 DEF InstrRejected, InstrImpossible, Statuses
    <3>2. UNCHANGED commands
      BY <2>7 DEF InstrRejected, InstrImpossible
    <3>3. Ended(id)' <= Ended(id) + Bit(m.id = id)
      BY <1>b, <2>3, <3>1, CountReported
    <3>4. /\ OnLine(id)' = OnLine(id) /\ InInbox(id)' = InInbox(id)
          /\ InVector(id)' = InVector(id) /\ InMotors(id)' = InMotors(id)
      BY <1>e, <2>1, <3>2
    <3> HIDE DEF m
    <3> QED
      BY <1>c, <1>d, <2>4, <2>5, <3>3, <3>4 DEF Chances
  <2>8. CASE InstrNow \/ InstrTimed
    <3>1. PICK t \in Times : commands' \in Sorted(Append(commands, [id |-> m.id, time |-> t]))
      BY <1>b, <2>8, MaxTimeAssumption DEF InstrNow, InstrTimed, Times
    <3>2. Report(m.id, Calculated)
      BY <2>8 DEF InstrNow, InstrTimed
    <3>3. Ended(id)' = Ended(id)
      BY <1>b, <2>3, <3>2, CountReported DEF Statuses, Calculated, Impossible, Requested
    <3>4. InVector(id)' <= InVector(id) + Bit(m.id = id)
      <4> DEFINE c == [id |-> m.id, time |-> t]
      <4>1. c \in Command /\ c.id = m.id
        BY <2>3 DEF Command
      <4>2. commands' \in Sorted(Append(commands, c))
        BY <3>1
      <4> HIDE DEF c
      <4> QED
        BY <1>b, <4>1, <4>2, CountScheduled
    <3>5. /\ OnLine(id)' = OnLine(id) /\ InInbox(id)' = InInbox(id)
          /\ InMotors(id)' = InMotors(id)
      BY <1>e, <2>1
    <3> HIDE DEF m
    <3> QED
      BY <1>c, <1>d, <2>4, <2>5, <3>3, <3>4, <3>5 DEF Chances
  <2> QED
    BY <1>5, <2>6, <2>7, <2>8 DEF InstrAny
<1>6. CASE MotorControlAny
  <2>1. UNCHANGED <<from_esp, msg_queue, instr_msg_queue>>
    BY <1>6 DEF MotorControlAny, MotorControlEarly, MotorControlLate,
       MotorControlTurn, MotorControlEmpty, MotorControlStep
  <2>2. CASE MotorControlEarly \/ MotorControlEmpty
    BY <1>1, <2>1, <2>2 DEF MotorControlEarly, MotorControlEmpty, SilentCommands
  <2>3. CASE MotorControlLate
    <3>1. /\ Report(current_command, PictureFailed)
          /\ commands' = [commands EXCEPT ![1].time = now]
          /\ UNCHANGED <<check_motor, current_command>>
      BY <2>3 DEF MotorControlLate
    <3>2. Ended(id)' = Ended(id)
      BY <1>b, <3>1, CountReported DEF Statuses, PictureFailed, Impossible, Requested
    <3>3. InVector(id)' = InVector(id)
      BY <1>b, <3>1, CountRetimed
    <3> QED
      BY <1>c, <1>e, <2>1, <3>1, <3>2, <3>3 DEF Chances
  <2>4. CASE MotorControlTurn
    <3>1. /\ commands # <<>> /\ commands' = Tail(commands)
          /\ current_command' = Head(commands).id
          /\ UNCHANGED told
      BY <2>4 DEF MotorControlTurn, SilentCommands
    <3>2. InVector(id) = Bit(Head(commands).id = id) + InVector(id)'
      BY <1>b, <3>1, CountTaken DEF InVector
    <3>3. InMotors(id)' <= Bit(Head(commands).id = id)
      BY <3>1 DEF InMotors, Bit
    <3>4. Bit(Head(commands).id = id) \in 0 .. 1
      BY <1>f
    <3> QED
      BY <1>c, <1>d, <1>e, <2>1, <3>1, <3>2, <3>3, <3>4, SMTT(60) DEF Chances
  <2> QED
    BY <1>6, <2>2, <2>3, <2>4 DEF MotorControlAny
<1>7. CASE MotorWait
  <2>1. UNCHANGED <<from_esp, msg_queue, instr_msg_queue, commands, current_command>>
    BY <1>7 DEF MotorWait
  <2>2. CASE isRunning
    BY <1>1, <1>7, <2>1, <2>2 DEF MotorWait, SilentCommands
  <2>3. CASE ~isRunning
    <3>1. check_motor /\ ~check_motor' /\ Report(current_command, Requested)
      BY <1>7, <2>3 DEF MotorWait, Case, WaitsForMotors
    <3>2. InMotors(id) = Bit(current_command = id) /\ InMotors(id)' = 0
      BY <3>1 DEF InMotors, Bit
    <3>3. Ended(id)' <= Ended(id) + Bit(current_command = id)
      BY <1>b, <3>1, CountReported DEF Statuses
    <3> QED
      BY <1>c, <1>d, <1>e, <2>1, <3>2, <3>3 DEF Chances
  <2> QED
    BY <2>2, <2>3
<1>8. CASE InitLocate \/ CommProcess \/ ConfigGivenUp
  BY <1>1, <1>8 DEF InitLocate, CommProcess, ConfigGivenUp
<1>9. CASE MotorCalibrate \/ MotorOff \/ Sleep
  BY <1>1, <1>9 DEF MotorCalibrate, MotorOff, Sleep, SilentCommands
<1>10. CASE Trace
  BY <1>1, <1>10 DEF Trace, TraceStart, TraceHold, TraceTurn, TraceEnd, TraceStep,
     SilentCommands
<1>11. CASE Hardware
  BY <1>1, <1>11 DEF Hardware, Second, AlarmIrq, OptoIrq, MotorsReach, Unmoved
<1> QED
  BY <1>2, <1>3, <1>4, <1>5, <1>6, <1>7, <1>8, <1>9, <1>10, <1>11 DEF Loop

(* The line and the user give a command a chance by naming it, and no      *)
(* other of their steps does.                                              *)
LEMMA ChancesRise ==
  ASSUME ControllerTypeOK, NEW id \in Ids, NEW m \in Incoming, Arrive(m)
  PROVE  Chances(id)' = Chances(id) + Bit(m \in InstructionsOf(id))
<1>1. from_esp \in Seq(Incoming)
  BY DEF ControllerTypeOK, QueueTypeOK
<1>2. OnLine(id)' = OnLine(id) + Bit(m \in InstructionsOf(id))
  BY <1>1, CountAppend DEF Arrive, OnLine
<1>3. /\ InInbox(id)' = InInbox(id) /\ AsInstruction(id)' = AsInstruction(id)
      /\ InVector(id)' = InVector(id) /\ InMotors(id)' = InMotors(id)
      /\ Ended(id)' = Ended(id)
  BY DEF Arrive, Unmoved, captureVars, InInbox, AsInstruction, InVector, InMotors, Ended
<1>4. Bit(m \in InstructionsOf(id)) \in Int
  BY DEF Bit
<1> QED
  BY <1>2, <1>3, <1>4, ChancesAreNatural DEF Chances

----------------------------------------------------------------------------
(* What is said of a command, in which order.  It is on its way to the     *)
(* vector until its first report; the vector holds only commands whose     *)
(* time was reported; and the command served last was photographed, or the *)
(* motors still turn for it, which is why the report of a late command,    *)
(* made in its name, always follows the request of its picture.            *)

Coming(id) == OnLine(id) + InInbox(id) + AsInstruction(id)

LifeInv(id) ==
  /\ Coming(id) > 0 => told[id] = {}
  /\ InVector(id) > 0 => Calculated \in told[id]
  /\ current_command = id =>
       Calculated \in told[id] /\ (check_motor \/ Requested \in told[id])

HistoryInv ==
  /\ state = "MOTOR_CONTROL" => ~check_motor
  /\ \A id \in Ids : LifeInv(id)

(* The report s of c, and where c is when it is made.                      *)
Says(c, s) ==
  /\ told' = [told EXCEPT ![c] = @ \cup {s}]
  /\ c \in Ids =>
       \/ /\ told[c] = {} /\ Coming(c) > 0
          /\ s \in {Rejected, Impossible, Calculated}
       \/ /\ Calculated \in told[c] /\ Ended(c) = 0
          /\ InVector(c) > 0 \/ InMotors(c) > 0
          /\ s \in {Impossible, Requested}
       \/ Requested \in told[c] /\ s = PictureFailed

(* A command with one chance at most is in one place at most.              *)
LEMMA OnePlace ==
  ASSUME ControllerTypeOK, NEW id \in Ids, LifeInv(id), Chances(id) <= 1
  PROVE  /\ Coming(id) \in Nat /\ InVector(id) \in Nat
         /\ Coming(id) > 0 =>
              InVector(id) = 0 /\ Ended(id) = 0 /\ current_command # id
         /\ InVector(id) > 0 =>
              Coming(id) = 0 /\ Ended(id) = 0 /\ current_command # id
         /\ current_command = id => Coming(id) = 0 /\ InVector(id) = 0
         /\ current_command = id /\ check_motor => Ended(id) = 0
<1>1. /\ OnLine(id) \in Nat /\ InInbox(id) \in Nat /\ AsInstruction(id) \in Nat
      /\ InVector(id) \in Nat /\ InMotors(id) \in 0 .. 1 /\ Ended(id) \in 0 .. 2
  BY ChancesAreNatural
<1>2. Coming(id) \in Nat /\ Coming(id) + InVector(id) + InMotors(id) + Ended(id) <= 1
  BY <1>1 DEF Coming, Chances
<1>3. current_command = id => InMotors(id) = 1 \/ Ended(id) >= 1
  BY DEF LifeInv, InMotors, Ended, Bit
<1>4. current_command = id /\ check_motor => InMotors(id) = 1
  BY DEF InMotors, Bit
<1> QED
  BY <1>1, <1>2, <1>3, <1>4

(* instr_process takes an instruction of the command it is about.          *)
LEMMA InstructionTaken ==
  ASSUME ControllerTypeOK, ControllerTypeOK', InstrAny, NEW id \in Ids
  PROVE  /\ Head(instr_msg_queue).id \in Ids
         /\ Coming(id)' \in Nat
         /\ Coming(id) = Bit(Head(instr_msg_queue).id = id) + Coming(id)'
<1> DEFINE m == Head(instr_msg_queue)
<1>1. /\ instr_msg_queue # <<>> /\ instr_msg_queue' = Tail(instr_msg_queue)
      /\ UNCHANGED <<from_esp, msg_queue>>
  BY DEF InstrAny, InstrIgnored, InstrRejected, InstrImpossible, InstrNow,
     InstrTimed, InstrProcess, linkVars
<1>2. instr_msg_queue \in Seq(Instruction) /\ instr_msg_queue' \in Seq(Instruction)
  BY DEF ControllerTypeOK, QueueTypeOK
<1>3. m \in Instruction
  BY <1>1, <1>2, HeadTypeCorrect
<1>4. m.id \in Ids /\ (m \in InstructionsOf(id) <=> m.id = id)
  BY <1>3 DEF Instruction, InstructionsOf
<1>5. AsInstruction(id) = Bit(m.id = id) + AsInstruction(id)'
  BY <1>1, <1>2, <1>4, CountTail DEF AsInstruction
<1>6. AsInstruction(id)' \in Nat
  BY <1>2, CountIsNatural DEF AsInstruction
<1>7. OnLine(id)' = OnLine(id) /\ InInbox(id)' = InInbox(id)
  BY <1>1 DEF OnLine, InInbox
<1>8. OnLine(id) \in Nat /\ InInbox(id) \in Nat
  BY ChancesAreNatural
<1> HIDE DEF m
<1>9. Bit(m.id = id) \in 0 .. 1
  BY DEF Bit
<1>10. /\ Coming(id)' \in Nat
       /\ Coming(id) = Bit(m.id = id) + Coming(id)'
  BY <1>5, <1>6, <1>7, <1>8, <1>9 DEF Coming
<1> QED
  BY <1>4, <1>10 DEF m

(* No step of the main loop makes an instruction.                          *)
LEMMA ComingFalls ==
  ASSUME ControllerTypeOK, ControllerTypeOK', NEW id \in Ids, Loop \/ Hardware
  PROVE  Coming(id)' \in Nat /\ Coming(id)' <= Coming(id)
<1> USE DEF linkVars
<1>a. /\ instr_msg_queue \in Seq(Instruction) /\ msg_queue \in Seq(Incoming)
      /\ OnLine(id) \in Nat /\ InInbox(id) \in Nat /\ AsInstruction(id) \in Nat
  BY ChancesAreNatural DEF ControllerTypeOK, QueueTypeOK
<1>b. /\ OnLine(id)' \in Nat /\ InInbox(id)' \in Nat /\ AsInstruction(id)' \in Nat
  <2>1. /\ from_esp' \in Seq(Incoming) /\ msg_queue' \in Seq(Incoming)
        /\ instr_msg_queue' \in Seq(Instruction)
    BY DEF ControllerTypeOK, QueueTypeOK
  <2>2. OnLine(id)' \in Nat /\ InInbox(id)' \in Nat
    BY <2>1, CountIsNatural DEF OnLine, InInbox
  <2>3. AsInstruction(id)' \in Nat
    BY <2>1, CountIsNatural DEF AsInstruction
  <2> QED
    BY <2>2, <2>3
<1>e. /\ UNCHANGED from_esp => OnLine(id)' = OnLine(id)
      /\ UNCHANGED msg_queue => InInbox(id)' = InInbox(id)
      /\ UNCHANGED instr_msg_queue => AsInstruction(id)' = AsInstruction(id)
  BY DEF OnLine, InInbox, AsInstruction
<1>1. CASE UNCHANGED <<from_esp, msg_queue, instr_msg_queue>>
  BY <1>1, <1>b, <1>e DEF Coming
<1>2. CASE InitRead \/ CommRead \/ ConfigAnswered
  <2>1. /\ msg_queue' = msg_queue \o from_esp /\ from_esp' = <<>>
        /\ UNCHANGED instr_msg_queue
    BY <1>2 DEF InitRead, CommRead, ConfigAnswered
  <2> QED
    BY <1>a, <1>b, <1>e, <2>1, CountParsed DEF Coming
<1>3. CASE ReceiveAny
  <2>1. /\ msg_queue # <<>> /\ msg_queue' = Tail(msg_queue)
        /\ UNCHANGED from_esp
        /\ \/ UNCHANGED instr_msg_queue
           \/ /\ instr_msg_queue' = Append(instr_msg_queue, Head(msg_queue))
              /\ Head(msg_queue).type = "INSTRUCTIONS"
    BY <1>3 DEF ReceiveAny, ReceiveResponse, ReceiveDatetime, ReceiveDeviceStatus,
       ReceiveInstructions, ReceiveUnexpected, Receive, AfterMessage
  <2>2. InInbox(id) = Bit(Head(msg_queue) \in InstructionsOf(id)) + InInbox(id)'
    BY <1>a, <2>1, CountTail DEF InInbox
  <2>3. Bit(Head(msg_queue) \in InstructionsOf(id)) \in 0 .. 1
    BY DEF Bit
  <2>4. AsInstruction(id)' <= AsInstruction(id) + Bit(Head(msg_queue) \in InstructionsOf(id))
    <3>1. CASE UNCHANGED instr_msg_queue
      BY <1>a, <1>e, <2>3, <3>1
    <3>2. CASE /\ instr_msg_queue' = Append(instr_msg_queue, Head(msg_queue))
               /\ Head(msg_queue).type = "INSTRUCTIONS"
      <4>1. Head(msg_queue) \in Incoming
        BY <1>a, <2>1, HeadTypeCorrect
      <4>2. Head(msg_queue) \in Instruction
        BY <3>2, <4>1, IncomingTypeCorrect
      <4>3. AsInstruction(id)' = AsInstruction(id) + Bit(Head(msg_queue) \in InstructionsOf(id))
        BY <1>a, <3>2, <4>2, CountAppend DEF AsInstruction
      <4> QED
        BY <1>a, <2>3, <4>3
    <3> QED
      BY <2>1, <3>1, <3>2
  <2>5. OnLine(id)' = OnLine(id)
    BY <1>e, <2>1
  <2> QED
    BY <1>a, <1>b, <2>2, <2>3, <2>4, <2>5, SMTT(60) DEF Coming
<1>4. CASE InstrAny
  <2>1. Coming(id)' \in Nat /\ Coming(id) = Bit(Head(instr_msg_queue).id = id) + Coming(id)'
    BY <1>4, InstructionTaken
  <2>2. Bit(Head(instr_msg_queue).id = id) \in 0 .. 1
    BY DEF Bit
  <2> QED
    BY <2>1, <2>2
<1>5. CASE Sanitize
  BY <1>1, <1>5 DEF Sanitize, SanitizeSkip, SanitizeDiscard, SanitizeArm, SanitizeUnchanged
<1>6. CASE MotorControlAny
  BY <1>1, <1>6 DEF MotorControlAny, MotorControlEarly, MotorControlLate,
     MotorControlTurn, MotorControlEmpty, MotorControlStep
<1>7. CASE InitLocate \/ CommProcess \/ ConfigGivenUp
  BY <1>1, <1>7 DEF InitLocate, CommProcess, ConfigGivenUp
<1>8. CASE MotorCalibrate \/ MotorWait \/ MotorOff \/ Sleep
  BY <1>1, <1>8 DEF MotorCalibrate, MotorWait, MotorOff, Sleep
<1>9. CASE Trace
  BY <1>1, <1>9 DEF Trace, TraceStart, TraceHold, TraceTurn, TraceEnd, TraceStep
<1>10. CASE Hardware
  BY <1>1, <1>10 DEF Hardware, Second, AlarmIrq, OptoIrq, MotorsReach, Unmoved
<1> QED
  BY <1>2, <1>3, <1>4, <1>5, <1>6, <1>7, <1>8, <1>9, <1>10 DEF Loop

(* Every step of the Pico keeps the order, and says no more than one thing *)
(* of no more than one command.                                            *)
LEMMA LivesStep ==
  ASSUME ControllerTypeOK, ControllerTypeOK', WaitsForMotors, HistoryInv,
         \A id \in Ids : Chances(id) <= 1, Loop \/ Hardware
  PROVE  /\ \A id \in Ids : LifeInv(id)'
         /\ UNCHANGED told \/ \E c \in Ids \cup {NoId}, s \in Statuses : Says(c, s)
<1> USE DEF linkVars, captureVars
<1>a. /\ commands \in Seq(Command) /\ commands' \in Seq(Command) /\ now \in Times
      /\ ToldTypeOK /\ current_command \in Ids \cup {NoId}
  BY DEF ControllerTypeOK, QueueTypeOK, ClockTypeOK, LoopTypeOK
<1>b. ASSUME NEW id \in Ids
      PROVE  /\ InVector(id) \in Nat /\ InVector(id)' \in Nat
             /\ Coming(id) \in Nat /\ Coming(id)' \in Nat /\ Coming(id)' <= Coming(id)
  <2>1. LifeInv(id)
    BY DEF HistoryInv
  <2>2. InVector(id)' \in Nat
    BY <1>a, CountIsNatural DEF InVector
  <2> QED
    BY <2>1, <2>2, OnePlace, ComingFalls
<1>c. ASSUME NEW id \in Ids, told'[id] = told[id], UNCHANGED current_command,
             current_command = id => UNCHANGED check_motor,
             InVector(id)' <= InVector(id)
      PROVE  LifeInv(id)'
  <2>1. LifeInv(id)
    BY DEF HistoryInv
  <2>2. Coming(id)' > 0 => Coming(id) > 0
    BY <1>b
  <2>3. InVector(id)' > 0 => InVector(id) > 0
    BY <1>b, <1>c
  <2> QED
    BY <1>c, <2>1, <2>2, <2>3 DEF LifeInv
<1>d. ASSUME NEW c \in Ids \cup {NoId}, NEW s \in Statuses, Report(c, s)
      PROVE  /\ told' = [told EXCEPT ![c] = @ \cup {s}]
             /\ told'[c] = told[c] \cup {s}
             /\ \A id \in Ids : id # c => told'[id] = told[id]
  BY <1>a, <1>d DEF Report, ToldTypeOK
<1>e. ASSUME NEW id \in Ids
      PROVE  /\ Coming(id) > 0 =>
                  InVector(id) = 0 /\ Ended(id) = 0 /\ current_command # id
             /\ InVector(id) > 0 =>
                  Coming(id) = 0 /\ Ended(id) = 0 /\ current_command # id
             /\ current_command = id => Coming(id) = 0 /\ InVector(id) = 0
             /\ current_command = id /\ check_motor => Ended(id) = 0
  BY OnePlace DEF HistoryInv
<1>1. CASE UNCHANGED <<told, current_command, check_motor, commands>>
  <2>1. \A id \in Ids : InVector(id)' = InVector(id)
    BY <1>1 DEF InVector
  <2>2. ASSUME NEW id \in Ids PROVE LifeInv(id)'
    BY <1>1, <1>b, <1>c, <2>1
  <2> QED
    BY <1>1, <2>2
<1>2. CASE SanitizeArm
  <2>1. /\ commands' \in Sorted(commands)
        /\ UNCHANGED <<told, current_command, check_motor>>
    BY <1>2 DEF SanitizeArm, SilentCommands, SanitizeUnchanged
  <2>2. ASSUME NEW id \in Ids PROVE LifeInv(id)'
    <3>1. InVector(id)' <= InVector(id)
      BY <1>a, <2>1, CountSorted DEF InVector
    <3> QED
      BY <1>c, <2>1, <3>1
  <2> QED
    BY <2>1, <2>2
<1>3. CASE SanitizeDiscard
  <2>1. PICK s \in Sorted(commands) :
          commands # <<>> /\ Report(Head(s).id, Impossible) /\ commands' = Tail(s)
    BY <1>3 DEF SanitizeDiscard
  <2>2. s \in Seq(Command) /\ s # <<>>
    BY <1>a, <2>1, SortedProperties, EmptySeq
  <2> DEFINE c == Head(s).id
  <2>3. c \in Ids
    BY <2>2, CountTaken
  <2>4. ASSUME NEW id \in Ids
        PROVE  Bit(c = id) + InVector(id)' <= InVector(id)
    <3>1. Count(s, CommandsOf(id)) = Bit(c = id) + InVector(id)'
      BY <2>1, <2>2, CountTaken DEF InVector
    <3>2. Count(s, CommandsOf(id)) <= InVector(id)
      BY <1>a, CountSorted DEF InVector
    <3> QED
      BY <3>1, <3>2
  <2>5. Impossible \in Statuses /\ Report(c, Impossible)
    BY <2>1 DEF Statuses
  <2> HIDE DEF c
  <2>6. UNCHANGED <<current_command, check_motor>>
    BY <1>3 DEF SanitizeDiscard, SanitizeUnchanged
  <2>7. InVector(c) > 0
    BY <1>b, <2>3, <2>4 DEF Bit
  <2>8. /\ Coming(c) = 0 /\ Ended(c) = 0 /\ current_command # c
        /\ Calculated \in told[c]
    BY <1>e, <2>3, <2>7 DEF HistoryInv, LifeInv
  <2>9. Says(c, Impossible)
    BY <1>d, <2>3, <2>5, <2>7, <2>8 DEF Says
  <2>10. LifeInv(c)'
    <3>1. ~(Coming(c)' > 0)
      BY <1>b, <2>3, <2>8
    <3>2. Calculated \in told'[c]
      BY <1>d, <2>3, <2>5, <2>8
    <3> QED
      BY <2>6, <2>8, <3>1, <3>2 DEF LifeInv
  <2>11. ASSUME NEW id \in Ids, id # c PROVE LifeInv(id)'
    <3>1. InVector(id)' <= InVector(id)
      BY <1>b, <2>4, <2>11 DEF Bit
    <3> QED
      BY <1>c, <1>d, <2>3, <2>5, <2>6, <2>11, <3>1
  <2> QED
    BY <2>3, <2>5, <2>9, <2>10, <2>11
<1>4. CASE InstrAny
  <2>0. PICK c \in Ids : c = Head(instr_msg_queue).id
    <3>1. instr_msg_queue # <<>> /\ instr_msg_queue \in Seq(Instruction)
      BY <1>4 DEF InstrAny, InstrIgnored, InstrRejected, InstrImpossible, InstrNow,
         InstrTimed, InstrProcess, ControllerTypeOK, QueueTypeOK
    <3>2. Head(instr_msg_queue) \in Instruction
      BY <3>1, HeadTypeCorrect
    <3> QED
      BY <3>2 DEF Instruction
  <2>1. \A id \in Ids : Coming(id)' \in Nat /\ Coming(id) = Bit(c = id) + Coming(id)'
    BY <1>4, <2>0, InstructionTaken
  <2>2. UNCHANGED <<current_command, check_motor>>
    BY <1>4 DEF InstrAny, InstrIgnored, InstrRejected, InstrImpossible, InstrNow,
       InstrTimed, InstrProcess
  <2>3. CASE InstrIgnored
    BY <1>1, <2>2, <2>3 DEF InstrIgnored, SilentCommands
  <2>4. CASE ~InstrIgnored
    <3>1. PICK s \in {Rejected, Impossible, Calculated} :
            /\ Report(c, s)
            /\ s # Calculated => UNCHANGED commands
            /\ s = Calculated => InstrNow \/ InstrTimed
      <4>1. Rejected # Calculated /\ Impossible # Calculated
        BY DEF Rejected, Calculated, Impossible
      <4> QED
        BY <1>4, <2>0, <2>4, <4>1 DEF InstrAny, InstrRejected, InstrImpossible, InstrNow, InstrTimed
    <3>2. s \in Statuses
      BY <3>1 DEF Statuses
    <3>3. ASSUME NEW id \in Ids
          PROVE  InVector(id)' <= InVector(id) + Bit(c = id /\ s = Calculated)
      <4>1. CASE s # Calculated
        <5>1. InVector(id)' = InVector(id)
          BY <3>1, <4>1 DEF InVector
        <5> QED
          BY <1>b, <4>1, <5>1 DEF Bit
      <4>2. CASE s = Calculated
        <5>1. PICK t \in Times : commands' \in Sorted(Append(commands, [id |-> c, time |-> t]))
          BY <1>a, <2>0, <3>1, <4>2, MaxTimeAssumption DEF InstrNow, InstrTimed, Times
        <5> DEFINE d == [id |-> c, time |-> t]
        <5>2. d \in Command /\ d.id = c /\ commands' \in Sorted(Append(commands, d))
          BY <5>1 DEF Command
        <5> HIDE DEF d
        <5>3. InVector(id)' <= InVector(id) + Bit(d.id = id)
          BY <1>a, <5>2, CountScheduled
        <5>4. Bit(d.id = id) = Bit(c = id /\ s = Calculated)
          BY <4>2, <5>2 DEF Bit
        <5> QED
          BY <5>3, <5>4
      <4> QED
        BY <4>1, <4>2
    <3>4. Coming(c) > 0 /\ Coming(c)' = 0
      <4>1. Coming(c) + InVector(c) + InMotors(c) + Ended(c) <= 1
        BY ChancesAreNatural DEF Chances, Coming
      <4>2. InVector(c) \in Nat /\ InMotors(c) \in 0 .. 1 /\ Ended(c) \in 0 .. 2
        BY ChancesAreNatural
      <4>3. Bit(c = c) = 1
        BY DEF Bit
      <4>4. Coming(c)' \in Nat /\ Coming(c) = Bit(c = c) + Coming(c)'
        BY <2>1
      <4> QED
        BY <4>1, <4>2, <4>3, <4>4
    <3>5. told[c] = {} /\ InVector(c) = 0 /\ current_command # c
      BY <1>e, <3>4 DEF HistoryInv, LifeInv
    <3>6. Says(c, s)
      BY <1>d, <3>1, <3>2, <3>4, <3>5 DEF Says
    <3>7. LifeInv(c)'
      <4>1. ~(Coming(c)' > 0)
        BY <3>4
      <4>2. InVector(c)' > 0 => s = Calculated
        <5>1. InVector(c)' \in Nat /\ InVector(c)' <= InVector(c) + Bit(c = c /\ s = Calculated)
          BY <1>b, <3>3
        <5> QED
          BY <3>5, <5>1 DEF Bit
      <4>3. InVector(c)' > 0 => Calculated \in told'[c]
        BY <1>d, <3>1, <3>2, <4>2
      <4> QED
        BY <2>2, <3>5, <4>1, <4>3 DEF LifeInv
    <3>8. ASSUME NEW id \in Ids, id # c PROVE LifeInv(id)'
      <4>1. InVector(id)' <= InVector(id)
        BY <1>b, <3>3, <3>8 DEF Bit
      <4> QED
        BY <1>c, <1>d, <2>2, <3>1, <3>2, <3>8, <4>1
    <3> QED
      BY <3>2, <3>6, <3>7, <3>8
  <2> QED
    BY <2>3, <2>4
<1>5. CASE MotorControlLate
  <2>1. /\ Report(current_command, PictureFailed)
        /\ commands' = [commands EXCEPT ![1].time = now]
        /\ UNCHANGED <<check_motor, current_command>>
        /\ state = "MOTOR_CONTROL" /\ PictureFailed \in Statuses
    BY <1>5 DEF MotorControlLate, MotorControlStep, Case, Statuses
  <2>2. \A id \in Ids : InVector(id)' = InVector(id)
    BY <1>a, <2>1, CountRetimed
  <2>3. ASSUME current_command \in Ids
        PROVE  /\ Calculated \in told[current_command]
               /\ Requested \in told[current_command]
    BY <2>1, <2>3 DEF HistoryInv, LifeInv
  <2>4. Says(current_command, PictureFailed)
    BY <1>a, <1>d, <2>1, <2>3 DEF Says
  <2>5. ASSUME NEW id \in Ids PROVE LifeInv(id)'
    <3>1. CASE id # current_command
      BY <1>a, <1>b, <1>c, <1>d, <2>1, <2>2, <3>1
    <3>2. CASE id = current_command
      <4>1. ~(Coming(id)' > 0)
        BY <1>b, <1>e, <3>2
      <4>2. Calculated \in told'[id] /\ Requested \in told'[id]
        BY <1>a, <1>d, <2>1, <2>3, <3>2
      <4> QED
        BY <4>1, <4>2 DEF LifeInv
    <3> QED
      BY <3>1, <3>2
  <2> QED
    BY <1>a, <2>1, <2>4, <2>5
<1>6. CASE MotorControlTurn
  <2>1. /\ commands # <<>> /\ commands' = Tail(commands)
        /\ current_command' = Head(commands).id /\ check_motor' = TRUE
        /\ UNCHANGED told
    BY <1>6 DEF MotorControlTurn, SilentCommands
  <2> DEFINE c == Head(commands).id
  <2>2. c \in Ids
    BY <1>a, <2>1, CountTaken
  <2>3. \A id \in Ids : InVector(id) = Bit(c = id) + InVector(id)'
    BY <1>a, <2>1, CountTaken DEF InVector
  <2>4. current_command' = c
    BY <2>1
  <2> HIDE DEF c
  <2>5. ASSUME NEW id \in Ids PROVE LifeInv(id)'
    <3>1. InVector(id) = Bit(c = id) + InVector(id)' /\ Bit(c = id) \in 0 .. 1
      BY <2>3 DEF Bit
    <3>2. InVector(id)' > 0 => InVector(id) > 0
      BY <1>b, <3>1
    <3>3. c = id => InVector(id) > 0
      BY <1>b, <3>1 DEF Bit
    <3>4. Coming(id)' > 0 => Coming(id) > 0
      BY <1>b
    <3>5. LifeInv(id)
      BY DEF HistoryInv
    <3> QED
      BY <2>1, <2>4, <3>2, <3>3, <3>4, <3>5 DEF LifeInv
  <2> QED
    BY <2>1, <2>5
<1>7. CASE MotorWait
  <2>1. CASE isRunning
    BY <1>1, <1>7, <2>1 DEF MotorWait, SilentCommands
  <2>2. CASE ~isRunning
    <3>1. /\ check_motor /\ Report(current_command, Requested)
          /\ UNCHANGED <<commands, current_command>> /\ Requested \in Statuses
      BY <1>7, <2>2 DEF MotorWait, Case, WaitsForMotors, Statuses
    <3>2. \A id \in Ids : InVector(id)' = InVector(id)
      BY <3>1 DEF InVector
    <3>3. ASSUME current_command \in Ids
          PROVE  /\ Calculated \in told[current_command]
                 /\ Ended(current_command) = 0 /\ InMotors(current_command) > 0
      BY <1>e, <3>1, <3>3 DEF HistoryInv, LifeInv, InMotors, Bit
    <3>4. Says(current_command, Requested)
      BY <1>a, <1>d, <3>1, <3>3 DEF Says
    <3>5. ASSUME NEW id \in Ids PROVE LifeInv(id)'
      <4>1. CASE id # current_command
        <5>1. told'[id] = told[id]
          BY <1>a, <1>d, <3>1, <4>1
        <5>2. InVector(id)' <= InVector(id)
          BY <1>b, <3>2
        <5> QED
          BY <1>c, <3>1, <4>1, <5>1, <5>2
      <4>2. CASE id = current_command
        <5>1. ~(Coming(id)' > 0)
          BY <1>b, <1>e, <4>2
        <5>2. Calculated \in told'[id] /\ Requested \in told'[id]
          BY <1>a, <1>d, <3>1, <3>3, <4>2
        <5> QED
          BY <5>1, <5>2 DEF LifeInv
      <4> QED
        BY <4>1, <4>2
    <3> QED
      BY <1>a, <3>1, <3>4, <3>5
  <2> QED
    BY <2>1, <2>2
<1>8. CASE SanitizeSkip \/ MotorControlEarly \/ MotorControlEmpty
  BY <1>1, <1>8 DEF SanitizeSkip, SanitizeUnchanged, MotorControlEarly,
     MotorControlEmpty, SilentCommands
<1>9. CASE InitRead \/ InitLocate \/ CommRead \/ CommProcess \/ ConfigAnswered \/ ConfigGivenUp
  BY <1>1, <1>9 DEF InitRead, InitLocate, CommRead, CommProcess, ConfigAnswered, ConfigGivenUp
<1>10. CASE ReceiveAny
  BY <1>1, <1>10 DEF ReceiveAny, ReceiveResponse, ReceiveDatetime, ReceiveDeviceStatus,
     ReceiveInstructions, ReceiveUnexpected, Receive
<1>11. CASE MotorCalibrate \/ MotorOff \/ Sleep
  BY <1>1, <1>11 DEF MotorCalibrate, MotorOff, Sleep, SilentCommands
<1>12. CASE Trace
  BY <1>1, <1>12 DEF Trace, TraceStart, TraceHold, TraceTurn, TraceEnd, TraceStep,
     SilentCommands
<1>13. CASE Hardware
  BY <1>1, <1>13 DEF Hardware, Second, AlarmIrq, OptoIrq, MotorsReach, Unmoved
<1> QED
  BY <1>2, <1>3, <1>4, <1>5, <1>6, <1>7, <1>8, <1>9, <1>10, <1>11, <1>12, <1>13
     DEF Loop, Sanitize, MotorControlAny

(* MOTOR_CONTROL is entered only while no motor is awaited.                *)
LEMMA ControlAtRestStep ==
  ASSUME state = "MOTOR_CONTROL" => ~check_motor, ControllerAction
  PROVE  state' = "MOTOR_CONTROL" => ~check_motor'
<1> USE DEF captureVars, loopVars
<1>1. CASE InitRead \/ InitLocate
  BY <1>1 DEF InitRead, InitLocate
<1>2. CASE ReceiveAny
  BY <1>2 DEF ReceiveAny, ReceiveResponse, ReceiveDatetime, ReceiveDeviceStatus,
     ReceiveInstructions, ReceiveUnexpected, Receive
<1>3. CASE Sanitize
  BY <1>3 DEF Sanitize, SanitizeSkip, SanitizeDiscard, SanitizeArm, SanitizeUnchanged
<1>4. CASE CommRead
  BY <1>4 DEF CommRead, NextState
<1>5. CASE CommProcess \/ ConfigAnswered \/ ConfigGivenUp
  BY <1>5 DEF CommProcess, ConfigAnswered, ConfigGivenUp
<1>6. CASE InstrAny
  BY <1>6 DEF InstrAny, InstrIgnored, InstrRejected, InstrImpossible, InstrNow,
     InstrTimed, InstrProcess
<1>7. CASE MotorCalibrate \/ MotorWait \/ MotorOff \/ Sleep
  BY <1>7 DEF MotorCalibrate, MotorWait, MotorOff, Sleep
<1>8. CASE MotorControlAny
  BY <1>8 DEF MotorControlAny, MotorControlEarly, MotorControlLate,
     MotorControlTurn, MotorControlEmpty
<1>9. CASE Trace
  BY <1>9 DEF Trace, TraceStart, TraceHold, TraceTurn, TraceEnd, TraceStep, Case
<1>10. CASE Hardware \/ Arrival
  BY <1>10 DEF Hardware, Second, AlarmIrq, OptoIrq, MotorsReach, Arrival, Arrive, Unmoved
<1>11. CASE ConfigAction
  BY <1>11 DEF ConfigAction, ConfigTime, ConfigCoord, ConfigSend, ConfigTrace,
     ConfigInstruction
<1> QED
  BY <1>1, <1>2, <1>3, <1>4, <1>5, <1>6, <1>7, <1>8, <1>9, <1>10, <1>11
     DEF ControllerAction, Loop

(* The strengthening is kept by every step of the loop.                    *)
LEMMA HistoryStep ==
  ASSUME ControllerTypeOK, ControllerTypeOK', WaitsForMotors, HistoryInv,
         \A id \in Ids : Chances(id) <= 1, Loop \/ Hardware
  PROVE  /\ HistoryInv'
         /\ UNCHANGED told \/ \E c \in Ids \cup {NoId}, s \in Statuses : Says(c, s)
<1>1. /\ \A id \in Ids : LifeInv(id)'
      /\ UNCHANGED told \/ \E c \in Ids \cup {NoId}, s \in Statuses : Says(c, s)
  BY LivesStep
<1>2. state' = "MOTOR_CONTROL" => ~check_motor'
  BY ControlAtRestStep DEF HistoryInv, ControllerAction
<1> QED
  BY <1>1, <1>2 DEF HistoryInv

(* A step that says nothing and leaves the vector and the motors alone     *)
(* keeps it if the commands it gives an instruction of are new.            *)
LEMMA HistoryQuiet ==
  ASSUME HistoryInv, UNCHANGED <<told, current_command, check_motor, commands>>,
         state' \in {state, "SLEEP", "TRACE"},
         \A id \in Ids : Coming(id)' > 0 => Coming(id) > 0 \/ told[id] = {}
  PROVE  HistoryInv'
<1>1. \A id \in Ids : InVector(id)' = InVector(id)
  BY DEF InVector
<1>2. ASSUME NEW id \in Ids PROVE LifeInv(id)'
  <2>1. LifeInv(id)
    BY DEF HistoryInv
  <2> QED
    BY <1>1, <2>1 DEF LifeInv
<1>3. state' = "MOTOR_CONTROL" => ~check_motor'
  BY DEF HistoryInv
<1> QED
  BY <1>2, <1>3 DEF HistoryInv

(* It holds as long as nothing was said or received, and after a restart.  *)
LEMMA HistoryEmpty ==
  ASSUME state # "MOTOR_CONTROL", current_command = NoId, from_esp = <<>>,
         msg_queue = <<>>, instr_msg_queue = <<>>, commands = <<>>
  PROVE  HistoryInv
<1>1. ASSUME NEW id \in Ids PROVE LifeInv(id)
  <2>1. OnLine(id) = 0 /\ InInbox(id) = 0 /\ AsInstruction(id) = 0 /\ InVector(id) = 0
    BY CountEmpty DEF OnLine, InInbox, AsInstruction, InVector
  <2> QED
    BY <2>1, ProtocolAssumption DEF LifeInv, Coming
<1> QED
  BY <1>1 DEF HistoryInv

(* What is said of a command is one more report of it.                     *)
LEMMA SaysReports ==
  ASSUME ToldTypeOK, NEW c \in Ids \cup {NoId}, NEW s, Says(c, s)
  PROVE  /\ c \in Ids => [id \in Ids |-> told[id]]'
                         = [[id \in Ids |-> told[id]] EXCEPT ![c] = @ \cup {s}]
         /\ c \notin Ids => [id \in Ids |-> told[id]]' = [id \in Ids |-> told[id]]
BY DEF ToldTypeOK, Says

----------------------------------------------------------------------------
(* One capture at a time.  The states of the main loop and the flags are   *)
(* set in different places: what makes them agree is that a state that     *)
(* starts a calibration or a turn is entered only from CHECK_QUEUES or     *)
(* from a sleep that was not cut short, both of which mean an idle Pico.   *)

AtRest == ~check_motor /\ ~waiting_for_camera
Still == calibrating = {} /\ aim = current_command

CaptureInv ==
  /\ ~trace_started /\ state # "TRACE"
  /\ pc \in DrainPoints \/ state = "MOTOR_OFF" => double_check
  /\ state = "SLEEP" /\ ~double_check => AtRest
  /\ state = "MOTOR_CALIBRATE" => AtRest
  /\ state = "MOTOR_CONTROL" => AtRest /\ calibrating = {}
  /\ state = "MOTOR_WAIT" => check_motor
  /\ check_motor => ~waiting_for_camera /\ Still
  /\ waiting_for_camera => ~turning /\ Still

(* The strengthening holds before the first round.                         *)
LEMMA CaptureInvInitially == ControllerInit => CaptureInv
BY DEF ControllerInit, MotorInit, CaptureInv, DrainPoints

(* A step of a release build preserves the strengthening, and so does one  *)
(* that leaves the Pico alone.                                             *)
LEMMA CaptureInvStep ==
  ASSUME ~DebugBuild, CaptureInv, ControllerAction
  PROVE  CaptureInv'
<1> USE DEF AtRest, Still, DrainPoints, captureVars, traceVars, loopVars,
        motorVars
<1>1. CASE InitRead
  BY <1>1 DEF CaptureInv, InitRead
<1>2. CASE InitLocate
  BY <1>2 DEF CaptureInv, InitLocate
<1>3. CASE ReceiveAny
  <2>1. PICK type : Receive(type)
    BY <1>3 DEF ReceiveAny, ReceiveResponse, ReceiveDatetime,
       ReceiveDeviceStatus, ReceiveInstructions, ReceiveUnexpected
  <2>2. state' \in {state, "MOTOR_OFF", "COMM_READ"}
    BY <1>3 DEF ReceiveAny, ReceiveResponse, ReceiveDatetime,
       ReceiveDeviceStatus, ReceiveInstructions, ReceiveUnexpected
  <2> QED
    BY <2>1, <2>2 DEF CaptureInv, Receive
<1>4. CASE Sanitize
  BY <1>4 DEF CaptureInv, Sanitize, SanitizeSkip, SanitizeDiscard, SanitizeArm,
     SanitizeUnchanged, Switch
<1>5. CASE CommRead
  BY <1>5 DEF CaptureInv, CommRead, Case, NextState, isCalibrating
<1>6. CASE CommProcess
  BY <1>6 DEF CaptureInv, CommProcess
<1>7. CASE InstrAny
  <2>1. InstrProcess
    BY <1>7 DEF InstrAny, InstrIgnored, InstrRejected, InstrImpossible,
       InstrNow, InstrTimed
  <2> QED
    BY <2>1 DEF CaptureInv, InstrProcess, Case
<1>8. CASE MotorCalibrate
  BY <1>8 DEF CaptureInv, MotorCalibrate, Case
<1>9. CASE MotorControlEarly
  BY <1>9 DEF CaptureInv, MotorControlEarly, MotorControlStep, Case, Off
<1>10. CASE MotorControlLate
  BY <1>10 DEF CaptureInv, MotorControlLate, MotorControlStep, Case, Off
<1>11. CASE MotorControlTurn
  BY <1>11 DEF CaptureInv, MotorControlTurn, MotorControlStep, Case, TurnTo
<1>12. CASE MotorControlEmpty
  BY <1>12 DEF CaptureInv, MotorControlEmpty, MotorControlStep, Case, Off
<1>13. CASE MotorWait
  BY <1>13 DEF CaptureInv, MotorWait, Case, isRunning
<1>14. CASE MotorOff
  BY <1>14 DEF CaptureInv, MotorOff, Case, Off
<1>15. CASE Sleep
  BY <1>15 DEF CaptureInv, Sleep, Case
<1>16. CASE Trace
  BY <1>16 DEF CaptureInv, Trace, TraceStart, TraceHold, TraceTurn, TraceEnd,
     TraceStep, Case
<1>17. CASE ConfigAnswered
  BY <1>17 DEF CaptureInv, ConfigAnswered
<1>18. CASE ConfigGivenUp
  BY <1>18 DEF CaptureInv, ConfigGivenUp
<1>19. CASE Hardware
  <2>1. CASE Second
    BY <2>1 DEF CaptureInv, Second, Unmoved
  <2>2. CASE AlarmIrq
    BY <2>2 DEF CaptureInv, AlarmIrq, Unmoved
  <2>3. CASE \E axis \in Axes : OptoIrq(axis)
    <3>1. PICK axis \in Axes : OptoIrq(axis)
      BY <2>3
    <3>2. calibrating # {}
      BY <3>1 DEF OptoIrq, Opto
    <3> QED
      BY <3>1, <3>2 DEF CaptureInv, OptoIrq, Opto, Unmoved
  <2>4. CASE MotorsReach
    BY <2>4 DEF CaptureInv, MotorsReach, TurnDone, Unmoved
  <2> QED
    BY <1>19, <2>1, <2>2, <2>3, <2>4 DEF Hardware
<1>20. CASE Arrival
  BY <1>20 DEF CaptureInv, Arrival, Arrive, Unmoved
<1>21. CASE ConfigAction
  <2>1. CASE \E id, position : ConfigInstruction(id, position)
    BY <2>1 DEF CaptureInv, ConfigInstruction
  <2>2. CASE \E t : ConfigTime(t)
    BY <2>2 DEF CaptureInv, ConfigTime
  <2>3. CASE ConfigCoord
    BY <2>3 DEF CaptureInv, ConfigCoord
  <2>4. CASE \E type : ConfigSend(type)
    BY <2>4 DEF CaptureInv, ConfigSend, ConfigPoint
  <2> QED
    BY <1>21, <2>1, <2>2, <2>3, <2>4 DEF ConfigAction, ConfigTrace
<1> QED
  BY <1>1, <1>2, <1>3, <1>4, <1>5, <1>6, <1>7, <1>8, <1>9, <1>10, <1>11,
     <1>12, <1>13, <1>14, <1>15, <1>16, <1>17, <1>18, <1>19, <1>20, <1>21
     DEF ControllerAction, Loop, MotorControlAny

(* A step that leaves the Pico alone keeps the strengthening.              *)
LEMMA CaptureInvStutter == CaptureInv /\ UNCHANGED vars => CaptureInv'
BY DEF CaptureInv, AtRest, Still, DrainPoints, captureVars, traceVars, loopVars,
       motorVars, vars
=============================================================================

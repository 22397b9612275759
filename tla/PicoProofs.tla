----------------------------- MODULE PicoProofs -----------------------------
(***************************************************************************)
(* Proofs about the Pico's main loop with an unconstrained ESP and user    *)
(* (PicoAlone), for every set of commands and every bound.                 *)
(***************************************************************************)
EXTENDS PicoAlone, ControllerProofs

(* The unconstrained ESP and user take no steps but those of the line and  *)
(* of config mode.                                                         *)
LEMMA NextIsController == Next => ControllerAction
<1>1. Msg("DATETIME", NoId, 0) \in Incoming
  BY MaxTimeAssumption DEF Msg, Incoming, Times
<1>2. \A id \in Ids, position \in Positions :
        Msg("INSTRUCTIONS", id, position) \in Incoming
  BY DEF Msg, Incoming, Instruction
<1>3. Answers \subseteq Incoming
  BY DEF Answers, Incoming, response, device_status, cmd_status, Msg, MessageTypes
<1>4. Environment => ConfigAction \/ Arrival
  BY <1>1, <1>2, <1>3 DEF Environment, EspInstruction, UserInstruction, EspTime,
     EspMessage, UserInput, ConfigAction, Arrival
<1> QED
  BY <1>4 DEF Next, PicoStep, ControllerAction

(* The type invariant, for every set of commands and every bound.          *)
THEOREM TypeCorrect == Spec => []TypeOK
<1>1. Init => TypeOK
  BY ControllerTypeInitially, AloneAssumption DEF Init, TypeOK
<1>2. TypeOK /\ [Next]_allVars => TypeOK'
  <2> SUFFICES ASSUME TypeOK, [Next]_allVars PROVE TypeOK'
    OBVIOUS
  <2>1. CASE Next
    <3>1. issued' \in SUBSET Ids /\ noise' \in 0 .. MaxNoise
      BY <2>1, AloneAssumption DEF TypeOK, Next, PicoStep, Environment,
         EspInstruction, UserInstruction, EspTime, EspMessage, UserInput,
         Issue, Noise
    <3> QED
      BY <2>1, <3>1, NextIsController, ControllerTypeStep DEF TypeOK
  <2>2. CASE UNCHANGED allVars
    BY <2>2, ControllerTypeStutter DEF allVars, TypeOK
  <2> QED
    BY <2>1, <2>2
<1> QED
  BY <1>1, <1>2, PTL DEF Spec

----------------------------------------------------------------------------
(* One capture at a time.                                                  *)

(* Whatever the ESP and the user do, a step keeps the strengthening.       *)
LEMMA NextKeepsCapture ==
  ASSUME ~DebugBuild, CaptureInv, [Next]_allVars
  PROVE  CaptureInv'
<1>1. CASE Next
  BY <1>1, NextIsController, CaptureInvStep
<1>2. CASE UNCHANGED allVars
  BY <1>2, CaptureInvStutter DEF allVars
<1> QED
  BY <1>1, <1>2

(* A release build never works on two pictures at once, whatever the ESP   *)
(* and the user send and whenever interrupts fall.                         *)
THEOREM OneCaptureAlways ==
  ASSUME ~DebugBuild
  PROVE  Spec => []OneCapture
<1>1. CaptureInv => OneCapture
  BY DEF CaptureInv, OneCapture
<1>2. CaptureInv /\ [Next]_allVars => CaptureInv'
  BY NextKeepsCapture
<1>3. Init => CaptureInv
  BY CaptureInvInitially DEF Init
<1> QED
  BY <1>1, <1>2, <1>3, PTL DEF Spec

(* A release build does not move the camera while it waits for a picture,  *)
(* which is the picture of the command the camera was aimed at.            *)
THEOREM CameraOnTargetAlways ==
  ASSUME ~DebugBuild
  PROVE  Spec => []CameraOnTarget
<1>1. CaptureInv => CameraOnTarget
  BY DEF CaptureInv, CameraOnTarget, Still, isRunning, isCalibrating
<1>2. CaptureInv /\ [Next]_allVars => CaptureInv'
  BY NextKeepsCapture
<1>3. Init => CaptureInv
  BY CaptureInvInitially DEF Init
<1> QED
  BY <1>1, <1>2, <1>3, PTL DEF Spec
----------------------------------------------------------------------------
(* No command is lost.                                                     *)

IdsOf(s) == {s[k].id : k \in 1 .. Len(s)}

(* Sorting the commands neither loses nor adds an identifier.              *)
LEMMA IdsOfSorted ==
  ASSUME NEW s \in Seq(Command), NEW r \in Sorted(s)
  PROVE  IdsOf(s) \subseteq IdsOf(r)
<1>1. ASSUME NEW k \in 1 .. Len(s)
      PROVE  s[k].id \in IdsOf(r)
  <2>1. PICK i \in 1 .. Len(r) : r[i] = s[k]
    BY SortedProperties
  <2> QED
    BY <2>1 DEF IdsOf
<1> QED
  BY <1>1 DEF IdsOf

(* Taking the first command out loses no identifier but its own.           *)
LEMMA IdsOfTail ==
  ASSUME NEW s \in Seq(Command), s # <<>>
  PROVE  IdsOf(s) \subseteq IdsOf(Tail(s)) \cup {Head(s).id}
<1>1. /\ Len(s) \in Nat
      /\ Len(Tail(s)) = Len(s) - 1
      /\ \A i \in 1 .. Len(Tail(s)) : Tail(s)[i] = s[i + 1]
      /\ Head(s) = s[1]
  BY HeadTailProperties, LenProperties
<1>2. ASSUME NEW k \in 1 .. Len(s), k # 1
      PROVE  s[k].id \in IdsOf(Tail(s))
  <2>1. k - 1 \in 1 .. Len(Tail(s)) /\ Tail(s)[k - 1] = s[k]
    BY <1>1, <1>2
  <2> QED
    BY <2>1 DEF IdsOf
<1> QED
  BY <1>1, <1>2 DEF IdsOf

(* A command put at the end adds its identifier and no other.              *)
LEMMA IdsOfAppend ==
  ASSUME NEW s \in Seq(Command), NEW c \in Command
  PROVE  IdsOf(s) \cup {c.id} \subseteq IdsOf(Append(s, c))
<1>1. /\ Len(s) \in Nat
      /\ Len(Append(s, c)) = Len(s) + 1
      /\ \A i \in 1 .. Len(s) : Append(s, c)[i] = s[i]
      /\ Append(s, c)[Len(s) + 1] = c
  BY AppendProperties, LenProperties
<1>2. IdsOf(s) \subseteq IdsOf(Append(s, c))
  BY <1>1 DEF IdsOf
<1>3. c.id \in IdsOf(Append(s, c))
  BY <1>1 DEF IdsOf
<1> QED
  BY <1>2, <1>3

(* A step of a release build loses no command.                             *)
LEMMA NotLostStep ==
  ASSUME TypeOK, TypeOK', CaptureInv, NotLost, [Next]_allVars
  PROVE  NotLost'
<1>1. /\ commands \in Seq(Command)
      /\ commands' \in Seq(Command)
      /\ told \in [Ids \cup {NoId} -> SUBSET Statuses]
      /\ current_command \in Ids \cup {NoId}
  BY DEF TypeOK, ControllerTypeOK, QueueTypeOK, LoopTypeOK, ToldTypeOK
<1>2. \A id \in Ids : Accepted(id) =>
        \/ id \in IdsOf(commands)
        \/ Aiming(id)
        \/ Impossible \in told[id]
        \/ Requested \in told[id]
  BY DEF NotLost, Waits, IdsOf, Discarded, Photographed
<1> SUFFICES ASSUME NEW id \in Ids, Accepted(id)'
             PROVE  \/ id \in IdsOf(commands')
                    \/ Aiming(id)'
                    \/ Impossible \in told'[id]
                    \/ Requested \in told'[id]
  BY DEF NotLost, Waits, IdsOf, Discarded, Photographed
<1>3. CASE UNCHANGED <<commands, check_motor, current_command, told>>
  BY <1>2, <1>3 DEF Accepted, Aiming
<1>4. ASSUME NEW c \in Ids \cup {NoId}, NEW status \in Statuses,
             Report(c, status)
      PROVE  /\ told[id] \subseteq told'[id]
             /\ status \in told'[c]
             /\ status # Calculated \/ c # id => (Accepted(id)' => Accepted(id))
  BY <1>1, <1>4 DEF Report, Accepted
<1>5. CASE SanitizeDiscard
  <2>1. PICK s \in Sorted(commands) :
          /\ commands # <<>>
          /\ Report(Head(s).id, Impossible)
          /\ commands' = Tail(s)
    BY <1>5 DEF SanitizeDiscard
  <2>2. s \in Seq(Command) /\ s # <<>>
    BY <1>1, <2>1, SortedProperties, EmptySeq
  <2>3. Head(s) \in Command
    BY <2>2, HeadTypeCorrect
  <2>4. Head(s).id \in Ids
    BY <2>3 DEF Command
  <2>5. IdsOf(commands) \subseteq IdsOf(commands') \cup {Head(s).id}
    BY <1>1, <2>1, <2>2, IdsOfSorted, IdsOfTail
  <2>6. /\ told[id] \subseteq told'[id]
        /\ Impossible \in told'[Head(s).id]
        /\ Accepted(id)
    BY <1>4, <2>1, <2>4 DEF Statuses, Impossible, Calculated
  <2> QED
    BY <1>2, <1>5, <2>5, <2>6 DEF SanitizeDiscard, SanitizeUnchanged,
       captureVars, Aiming
<1>6. CASE SanitizeArm
  <2>1. commands' \in Sorted(commands)
    BY <1>6 DEF SanitizeArm
  <2>2. IdsOf(commands) \subseteq IdsOf(commands')
    BY <1>1, <2>1, IdsOfSorted
  <2> QED
    BY <1>2, <1>6, <2>2 DEF SanitizeArm, SilentCommands, SanitizeUnchanged,
       captureVars, Accepted, Aiming
<1>7. CASE InstrAny
  <2>1. /\ InstrProcess
        /\ instr_msg_queue \in Seq(Instruction)
    BY <1>7 DEF InstrAny, InstrIgnored, InstrRejected, InstrImpossible,
       InstrNow, InstrTimed, TypeOK, ControllerTypeOK, QueueTypeOK
  <2>2. Head(instr_msg_queue) \in Instruction
    BY <2>1, HeadTypeCorrect DEF InstrProcess
  <2> DEFINE c == Head(instr_msg_queue).id
  <2>3. c \in Ids
    BY <2>2 DEF Instruction
  <2>4. UNCHANGED <<check_motor, current_command>>
    BY <2>1 DEF InstrProcess, captureVars
  <2> HIDE DEF c
  <2>5. CASE InstrIgnored
    BY <1>3, <2>4, <2>5 DEF InstrIgnored, SilentCommands
  <2>6. ASSUME NEW status \in Statuses, Report(c, status),
               status # Calculated, UNCHANGED commands
        PROVE  \/ id \in IdsOf(commands')
               \/ Aiming(id)'
               \/ Impossible \in told'[id]
               \/ Requested \in told'[id]
    BY <1>2, <1>4, <2>3, <2>4, <2>6 DEF Aiming
  <2>7. CASE InstrRejected
    BY <2>6, <2>7 DEF InstrRejected, Statuses, Rejected, Calculated, c
  <2>8. CASE InstrImpossible
    BY <2>6, <2>8 DEF InstrImpossible, Statuses, Impossible, Calculated, c
  <2>9. ASSUME NEW t \in Times, Report(c, Calculated),
               commands' \in Sorted(Append(commands, [id |-> c, time |-> t]))
        PROVE  \/ id \in IdsOf(commands')
               \/ Aiming(id)'
               \/ Impossible \in told'[id]
               \/ Requested \in told'[id]
    <3> DEFINE d == [id |-> c, time |-> t]
    <3>1. d \in Command /\ d.id = c
      BY <2>3 DEF Command
    <3> HIDE DEF d
    <3>2. commands' \in Sorted(Append(commands, d))
      BY <2>9 DEF d
    <3>3. Append(commands, d) \in Seq(Command)
      BY <1>1, <3>1, AppendProperties
    <3>4. IdsOf(commands) \cup {c} \subseteq IdsOf(commands')
      BY <1>1, <3>1, <3>2, <3>3, IdsOfAppend, IdsOfSorted
    <3>5. told[id] \subseteq told'[id] /\ (c # id => Accepted(id))
      BY <1>4, <2>3, <2>9 DEF Statuses
    <3> QED
      BY <1>2, <2>4, <3>4, <3>5 DEF Aiming
  <2>10. now \in Times
    BY DEF TypeOK, ControllerTypeOK, ClockTypeOK
  <2>11. CASE InstrNow
    BY <2>9, <2>10, <2>11 DEF InstrNow, c
  <2>12. CASE InstrTimed
    BY <2>9, <2>12 DEF InstrTimed, c
  <2> QED
    BY <1>7, <2>5, <2>7, <2>8, <2>11, <2>12 DEF InstrAny
<1>8. CASE MotorControlEarly \/ MotorControlEmpty
  BY <1>3, <1>8 DEF MotorControlEarly, MotorControlEmpty, SilentCommands
<1>9. CASE MotorControlLate
  <2>1. /\ Len(commands) \in Nat
        /\ \A k \in 1 .. Len(commands) : commands[k] \in Command
        /\ commands = [k \in 1 .. Len(commands) |-> commands[k]]
    BY <1>1, LenProperties, ElementOfSeq
  <2>2. /\ DOMAIN commands' = 1 .. Len(commands)
        /\ \A k \in 1 .. Len(commands) : commands'[k].id = commands[k].id
    BY <1>9, <2>1 DEF MotorControlLate, Command
  <2>3. Len(commands') = Len(commands)
    BY <1>1, <2>1, <2>2, LenProperties
  <2>4. IdsOf(commands') = IdsOf(commands)
    BY <2>2, <2>3 DEF IdsOf
  <2>5. told[id] \subseteq told'[id] /\ Accepted(id)
    BY <1>1, <1>4, <1>9 DEF MotorControlLate, Statuses, PictureFailed, Calculated
  <2> QED
    BY <1>2, <1>9, <2>4, <2>5 DEF MotorControlLate, Aiming
<1>10. CASE MotorControlTurn
  <2>1. ~check_motor
    BY <1>10 DEF CaptureInv, MotorControlTurn, MotorControlStep, Case, AtRest
  <2>2. IdsOf(commands) \subseteq IdsOf(commands') \cup {current_command'}
    BY <1>1, <1>10, IdsOfTail DEF MotorControlTurn
  <2> QED
    BY <1>2, <1>10, <2>1, <2>2 DEF MotorControlTurn, SilentCommands, Accepted,
       Aiming
<1>11. CASE MotorWait
  <2>1. CASE isRunning
    BY <1>3, <1>11, <2>1 DEF MotorWait, SilentCommands
  <2>2. CASE ~isRunning
    <3>1. /\ told[id] \subseteq told'[id]
          /\ Requested \in told'[current_command]
          /\ Accepted(id)
      BY <1>1, <1>4, <1>11, <2>2 DEF MotorWait, Statuses, Requested, Calculated
    <3> QED
      BY <1>2, <1>11, <3>1 DEF MotorWait, Aiming
  <2> QED
    BY <2>1, <2>2
<1>12. CASE ReceiveAny
  BY <1>3, <1>12 DEF ReceiveAny, ReceiveResponse, ReceiveDatetime,
     ReceiveDeviceStatus, ReceiveInstructions, ReceiveUnexpected, Receive,
     captureVars
<1>13. CASE InitRead \/ InitLocate \/ SanitizeSkip \/ CommRead \/ CommProcess
  BY <1>3, <1>13 DEF InitRead, InitLocate, SanitizeSkip, SanitizeUnchanged,
     CommRead, CommProcess, SilentCommands, captureVars
<1>14. CASE \/ MotorCalibrate \/ MotorOff \/ Sleep \/ Trace \/ ConfigAnswered
            \/ ConfigGivenUp
  BY <1>3, <1>14 DEF MotorCalibrate, MotorOff, Sleep, Trace, TraceStart,
     TraceHold, TraceTurn, TraceEnd, TraceStep, ConfigAnswered, ConfigGivenUp,
     SilentCommands, captureVars
<1>15. CASE Hardware
  BY <1>3, <1>15 DEF Hardware, Second, AlarmIrq, OptoIrq, MotorsReach, Unmoved,
     captureVars
<1>16. CASE Environment
  BY <1>3, <1>16 DEF Environment, EspInstruction, UserInstruction, EspTime,
     EspMessage, UserInput, Arrive, Unmoved, ConfigInstruction, ConfigTime,
     ConfigCoord, ConfigSend, ConfigTrace, captureVars
<1>17. CASE UNCHANGED allVars
  BY <1>3, <1>17 DEF allVars, vars, captureVars
<1> QED
  BY <1>5, <1>6, <1>7, <1>8, <1>9, <1>10, <1>11, <1>12, <1>13, <1>14, <1>15,
     <1>16, <1>17 DEF Next, PicoStep, Loop, Sanitize, MotorControlAny

(* A release build loses no command, however many there are and however    *)
(* instructions, pictures, discards and config sessions interleave.        *)
THEOREM NotLostAlways ==
  ASSUME ~DebugBuild
  PROVE  Spec => []NotLost
<1>1. Init => NotLost
  BY DEF Init, ControllerInit, NotLost, Accepted
<1>2. CaptureInv /\ [Next]_allVars => CaptureInv'
  BY NextKeepsCapture
<1>3. TypeOK /\ TypeOK' /\ CaptureInv /\ NotLost /\ [Next]_allVars => NotLost'
  BY NotLostStep
<1>4. Init => CaptureInv
  BY CaptureInvInitially DEF Init
<1> QED
  BY <1>1, <1>2, <1>3, <1>4, TypeCorrect, PTL DEF Spec

----------------------------------------------------------------------------
(* No command is served twice.                                             *)

(* An instruction a user types is a chance of the command it names.        *)
LEMMA ChancesTyped ==
  ASSUME ControllerTypeOK, NEW id \in Ids, NEW c \in Ids, NEW p \in Positions,
         ConfigInstruction(c, p)
  PROVE  Chances(id)' = Chances(id) + Bit(c = id)
<1> DEFINE m == Msg("INSTRUCTIONS", c, p)
<1>1. m \in Instruction /\ (m \in InstructionsOf(id) <=> c = id)
  BY DEF Msg, Instruction, InstructionsOf
<1>2. instr_msg_queue \in Seq(Instruction) /\ instr_msg_queue' = Append(instr_msg_queue, m)
  BY DEF ControllerTypeOK, QueueTypeOK, ConfigInstruction
<1> HIDE DEF m
<1>3. AsInstruction(id)' = AsInstruction(id) + Bit(c = id)
  BY <1>1, <1>2, CountAppend DEF AsInstruction
<1>4. /\ OnLine(id)' = OnLine(id) /\ InInbox(id)' = InInbox(id)
      /\ InVector(id)' = InVector(id) /\ InMotors(id)' = InMotors(id)
      /\ Ended(id)' = Ended(id)
  BY DEF ConfigInstruction, linkVars, captureVars, OnLine, InInbox, InVector,
     InMotors, Ended
<1>5. Bit(c = id) \in Int
  BY DEF Bit
<1> QED
  BY <1>3, <1>4, <1>5, ChancesAreNatural DEF Chances

(* The strengthening: a command whose instruction has not been given, and  *)
(* every place where it may be, make no more than one.                     *)
ServingInv ==
  /\ TypeOK
  /\ WaitsForMotors
  /\ \A id \in Ids : Bit(id \notin issued) + Chances(id) <= 1

(* The strengthening holds before the first instruction.                   *)
LEMMA ServingInvInitially == Init /\ TypeOK => ServingInv
<1> SUFFICES ASSUME Init, TypeOK PROVE ServingInv
  OBVIOUS
<1>1. WaitsForMotors
  BY DEF Init, ControllerInit, WaitsForMotors
<1>2. ASSUME NEW id \in Ids
      PROVE  Bit(id \notin issued) + Chances(id) <= 1
  <2>1. OnLine(id) = 0 /\ InInbox(id) = 0 /\ AsInstruction(id) = 0 /\ InVector(id) = 0
    BY CountEmpty DEF Init, ControllerInit, LinkInit, OnLine, InInbox, AsInstruction, InVector
  <2>2. InMotors(id) = 0 /\ Ended(id) = 0
    BY DEF Init, ControllerInit, InMotors, Ended, Bit
  <2> QED
    BY <2>1, <2>2 DEF Chances, Bit
<1> QED
  BY <1>1, <1>2 DEF ServingInv

(* Only giving the instruction of a command raises its chances, and that   *)
(* happens once.                                                           *)
LEMMA ServingInvStep ==
  ASSUME ServingInv, TypeOK', [Next]_allVars
  PROVE  ServingInv'
<1> USE DEF linkVars, captureVars, loopVars
<1>1. ControllerTypeOK /\ WaitsForMotors /\ issued \in SUBSET Ids
  BY DEF ServingInv, TypeOK
<1>2. WaitsForMotors'
  <2>1. CASE UNCHANGED allVars
    BY <1>1, <2>1 DEF allVars, vars, WaitsForMotors
  <2> QED
    BY <1>1, <2>1, NextIsController, WaitsForMotorsStep
<1> SUFFICES ASSUME NEW id \in Ids
             PROVE  Bit(id \notin issued') + Chances(id)' <= 1
  BY <1>2 DEF ServingInv
<1>3. /\ Bit(id \notin issued) + Chances(id) <= 1
      /\ Bit(id \notin issued) \in 0 .. 1 /\ Bit(id \notin issued') \in 0 .. 1
      /\ Chances(id) \in Nat
  <2>1. Chances(id) \in Nat
    BY <1>1, ChancesAreNatural DEF Chances
  <2> QED
    BY <2>1 DEF ServingInv, Bit
<1>4. CASE UNCHANGED <<from_esp, msg_queue, instr_msg_queue, commands,
                       check_motor, current_command, told, issued>>
  <2>1. Chances(id)' = Chances(id) /\ Bit(id \notin issued') = Bit(id \notin issued)
    BY <1>4 DEF Chances, OnLine, InInbox, AsInstruction, InVector, InMotors, Ended
  <2> QED
    BY <1>3, <2>1
<1>5. CASE PicoStep
  <2>1. Chances(id)' <= Chances(id)
    BY <1>1, <1>5, ChancesFall DEF PicoStep
  <2>2. Chances(id)' \in Int
    <3>1. /\ OnLine(id)' \in Int /\ InInbox(id)' \in Int /\ AsInstruction(id)' \in Int
          /\ InVector(id)' \in Int
      <4>1. /\ from_esp' \in Seq(Incoming) /\ msg_queue' \in Seq(Incoming)
            /\ instr_msg_queue' \in Seq(Instruction) /\ commands' \in Seq(Command)
        BY DEF TypeOK, ControllerTypeOK, QueueTypeOK
      <4>2. OnLine(id)' \in Nat /\ InInbox(id)' \in Nat
        BY <4>1, CountIsNatural DEF OnLine, InInbox
      <4>3. AsInstruction(id)' \in Nat
        BY <4>1, CountIsNatural DEF AsInstruction
      <4>4. InVector(id)' \in Nat
        BY <4>1, CountIsNatural DEF InVector
      <4> QED
        BY <4>2, <4>3, <4>4
    <3>2. InMotors(id)' \in Int /\ Ended(id)' \in Int
      BY DEF InMotors, Ended, Bit
    <3> QED
      BY <3>1, <3>2 DEF Chances
  <2>3. Bit(id \notin issued') = Bit(id \notin issued)
    BY <1>5 DEF PicoStep
  <2> QED
    BY <1>3, <2>1, <2>2, <2>3
<1>6. ASSUME NEW c \in Ids, Issue(c), Chances(id)' = Chances(id) + Bit(c = id)
      PROVE  Bit(id \notin issued') + Chances(id)' <= 1
  <2>1. Bit(id \notin issued) = Bit(id \notin issued') + Bit(c = id)
    BY <1>6 DEF Issue, Bit
  <2>2. Bit(c = id) \in 0 .. 1
    BY DEF Bit
  <2> QED
    BY <1>3, <1>6, <2>1, <2>2
<1>7. ASSUME NEW c \in Ids, NEW p \in Positions, EspInstruction(c, p)
      PROVE  Bit(id \notin issued') + Chances(id)' <= 1
  <2> DEFINE m == Msg("INSTRUCTIONS", c, p)
  <2>1. m \in Incoming /\ (m \in InstructionsOf(id) <=> c = id)
    BY DEF Msg, Incoming, Instruction, InstructionsOf
  <2>2. Arrive(m) /\ Issue(c)
    BY <1>7 DEF EspInstruction
  <2> HIDE DEF m
  <2>3. Chances(id)' = Chances(id) + Bit(c = id)
    BY <1>1, <2>1, <2>2, ChancesRise
  <2> QED
    BY <1>6, <2>2, <2>3
<1>8. ASSUME NEW c \in Ids, NEW p \in Positions, UserInstruction(c, p)
      PROVE  Bit(id \notin issued') + Chances(id)' <= 1
  BY <1>1, <1>6, <1>8, ChancesTyped DEF UserInstruction
<1>9. ASSUME NEW m \in Incoming, m.type # "INSTRUCTIONS", Arrive(m), UNCHANGED issued
      PROVE  Bit(id \notin issued') + Chances(id)' <= 1
  <2>1. m \notin InstructionsOf(id)
    BY <1>9 DEF InstructionsOf
  <2>2. Chances(id)' = Chances(id) + Bit(m \in InstructionsOf(id))
    BY <1>1, <1>9, ChancesRise
  <2>3. Bit(m \in InstructionsOf(id)) = 0
    BY <2>1 DEF Bit
  <2> QED
    BY <1>3, <1>9, <2>2, <2>3
<1>10. CASE EspTime
  <2>1. Msg("DATETIME", NoId, 0) \in Incoming /\ Msg("DATETIME", NoId, 0).type # "INSTRUCTIONS"
    BY MaxTimeAssumption DEF Msg, Incoming, Times
  <2> QED
    BY <1>9, <1>10, <2>1 DEF EspTime
<1>11. CASE \E m \in Answers : EspMessage(m)
  <2>1. \A m \in Answers : m \in Incoming /\ m.type # "INSTRUCTIONS"
    BY DEF Answers, Incoming, response, device_status, cmd_status, Msg, MessageTypes
  <2> QED
    BY <1>9, <1>11, <2>1 DEF EspMessage, Noise
<1>12. CASE UserInput
  BY <1>4, <1>12 DEF UserInput, Noise, ConfigTime, ConfigCoord, ConfigSend, ConfigTrace
<1>13. CASE UNCHANGED allVars
  BY <1>4, <1>13 DEF allVars, vars
<1> QED
  BY <1>5, <1>7, <1>8, <1>10, <1>11, <1>12, <1>13 DEF Next, Environment

(* What it says of the vector, the motors and the end of a command.        *)
LEMMA ServingInvSuffices == ServingInv => ServedOnce
<1> SUFFICES ASSUME ServingInv, NEW id \in Ids
             PROVE  Cardinality(Waits(id))
                      + Cardinality({stage \in {"aiming", "discarded", "photographed"} :
                          \/ stage = "aiming" /\ Aiming(id)
                          \/ stage = "discarded" /\ Discarded(id)
                          \/ stage = "photographed" /\ Photographed(id)}) <= 1
  BY DEF ServedOnce
<1> DEFINE Reached == {stage \in {"aiming", "discarded", "photographed"} :
                         \/ stage = "aiming" /\ Aiming(id)
                         \/ stage = "discarded" /\ Discarded(id)
                         \/ stage = "photographed" /\ Photographed(id)}
<1>1. ControllerTypeOK /\ commands \in Seq(Command)
  BY DEF ServingInv, TypeOK, ControllerTypeOK, QueueTypeOK
<1>2. Cardinality(Waits(id)) = InVector(id)
  <2>1. /\ \A k \in 1 .. Len(commands) : commands[k] \in Command
        /\ \A c \in Command : c \in CommandsOf(id) <=> c.id = id
    BY <1>1, ElementOfSeq DEF Command, CommandsOf
  <2>2. Waits(id) = Occurrences(commands, CommandsOf(id))
    BY <2>1 DEF Waits, Occurrences
  <2> QED
    BY <2>2 DEF InVector, Count
<1>3. InVector(id) + InMotors(id) + Ended(id) <= 1
  <2>1. /\ OnLine(id) \in Nat /\ InInbox(id) \in Nat /\ AsInstruction(id) \in Nat
        /\ InVector(id) \in Nat /\ InMotors(id) \in 0 .. 1 /\ Ended(id) \in 0 .. 2
    BY <1>1, ChancesAreNatural
  <2>2. Bit(id \notin issued) + Chances(id) <= 1 /\ Bit(id \notin issued) \in 0 .. 1
    BY DEF ServingInv, Bit
  <2> QED
    BY <2>1, <2>2 DEF Chances
<1>4. InVector(id) \in Nat
  BY <1>1, ChancesAreNatural
<1>5. Cardinality(Reached) <= InMotors(id) + Ended(id)
  <2>1. /\ "aiming" \in Reached => InMotors(id) = 1
        /\ "discarded" \in Reached => Bit(Impossible \in told[id]) = 1
        /\ "photographed" \in Reached => Bit(Requested \in told[id]) = 1
    BY DEF Aiming, Discarded, Photographed, InMotors, Bit
  <2>2. /\ InMotors(id) \in 0 .. 1 /\ Bit(Impossible \in told[id]) \in 0 .. 1
        /\ Bit(Requested \in told[id]) \in 0 .. 1
        /\ Ended(id) = Bit(Impossible \in told[id]) + Bit(Requested \in told[id])
    BY DEF InMotors, Ended, Bit
  <2>3. Reached \subseteq {"aiming", "discarded", "photographed"}
    OBVIOUS
  <2> HIDE DEF Reached
  <2>4. CASE Reached = {}
    BY <2>2, <2>4, FS_EmptySet
  <2>5. CASE Reached # {}
    <3>1. PICK stage \in {"aiming", "discarded", "photographed"} : stage \in Reached
      BY <2>3, <2>5
    <3>2. Reached = {stage}
      <4>1. /\ ~("aiming" \in Reached /\ "discarded" \in Reached)
            /\ ~("aiming" \in Reached /\ "photographed" \in Reached)
            /\ ~("discarded" \in Reached /\ "photographed" \in Reached)
        BY <1>3, <1>4, <2>1, <2>2
      <4> QED
        BY <2>3, <3>1, <4>1
    <3>3. Cardinality(Reached) = 1
      BY <3>2, FS_Singleton
    <3> QED
      BY <2>1, <2>2, <3>1, <3>3
  <2> QED
    BY <2>4, <2>5
<1>6. Cardinality(Reached) \in Nat
  <2>1. IsFiniteSet({"aiming", "discarded", "photographed"})
    <3>1. IsFiniteSet({"aiming"})
      BY FS_Singleton
    <3>2. IsFiniteSet({"aiming"} \cup {"discarded"})
      BY <3>1, FS_AddElement
    <3>3. IsFiniteSet(({"aiming"} \cup {"discarded"}) \cup {"photographed"})
      BY <3>2, FS_AddElement
    <3>4. ({"aiming"} \cup {"discarded"}) \cup {"photographed"}
            = {"aiming", "discarded", "photographed"}
      OBVIOUS
    <3> QED
      BY <3>3, <3>4
  <2>2. Reached \subseteq {"aiming", "discarded", "photographed"}
    OBVIOUS
  <2> HIDE DEF Reached
  <2> QED
    BY <2>1, <2>2, FS_Subset, FS_CardinalityType
<1>7. InMotors(id) \in Int /\ Ended(id) \in Int
  BY DEF InMotors, Ended, Bit
<1> HIDE DEF Reached
<1>8. Cardinality(Waits(id)) + Cardinality(Reached) <= 1
  BY <1>2, <1>3, <1>4, <1>5, <1>6, <1>7
<1> QED
  BY <1>8 DEF Reached

(* No command is served twice, in a debug build too: it waits at most once *)
(* and not while the motors turn for it, and once it was discarded or its  *)
(* picture asked for it is neither in the vector nor aimed at (main loop,  *)
(* sanitize_commands, motor_control and instr_process of controller.cpp).  *)
THEOREM ServedOnceAlways == Spec => []ServedOnce
<1>1. Init /\ TypeOK => ServingInv
  BY ServingInvInitially
<1>2. ServingInv /\ TypeOK' /\ [Next]_allVars => ServingInv'
  BY ServingInvStep
<1>3. ServingInv => ServedOnce
  BY ServingInvSuffices
<1> QED
  BY <1>1, <1>2, <1>3, TypeCorrect, PTL DEF Spec

----------------------------------------------------------------------------
(* What is said of a command: the refinement of CommandLife.               *)

(* The strengthening: nothing is said of a command that was not given out. *)
PromiseInv ==
  /\ ServingInv
  /\ HistoryInv
  /\ \A id \in Ids : id \notin issued => told[id] = {}

(* It holds before the first instruction.                                  *)
LEMMA PromiseInitially == Init /\ TypeOK => PromiseInv /\ Life!Init
<1> SUFFICES ASSUME Init, TypeOK PROVE PromiseInv /\ Life!Init
  OBVIOUS
<1>1. ServingInv
  BY ServingInvInitially
<1>2. HistoryInv
  BY HistoryEmpty DEF Init, ControllerInit, LinkInit
<1>3. issued = {} /\ \A id \in Ids : told[id] = {}
  BY DEF Init, ControllerInit
<1> QED
  BY <1>1, <1>2, <1>3 DEF PromiseInv, Life!Init, Life!NotSent

(* An instruction that arrives makes its command come, and no other.       *)
LEMMA ComingRises ==
  ASSUME ControllerTypeOK, NEW id \in Ids, NEW m, m \in Incoming, Arrive(m)
  PROVE  Coming(id)' = Coming(id) + Bit(m \in InstructionsOf(id))
<1>1. from_esp \in Seq(Incoming)
  BY DEF ControllerTypeOK, QueueTypeOK
<1>2. OnLine(id)' = OnLine(id) + Bit(m \in InstructionsOf(id))
  BY <1>1, CountAppend DEF Arrive, OnLine
<1>3. InInbox(id)' = InInbox(id) /\ AsInstruction(id)' = AsInstruction(id)
  BY DEF Arrive, Unmoved, InInbox, AsInstruction
<1>4. Bit(m \in InstructionsOf(id)) \in Int
  BY DEF Bit
<1> QED
  BY <1>2, <1>3, <1>4, ChancesAreNatural DEF Coming

(* The line and the user say nothing, and give new instructions only.      *)
LEMMA PromiseEnvironment ==
  ASSUME PromiseInv, Environment
  PROVE  /\ HistoryInv' /\ UNCHANGED told
         /\ UNCHANGED issued \/ \E c \in Ids : Issue(c)
<1> USE DEF linkVars, captureVars, loopVars
<1>a. ControllerTypeOK /\ HistoryInv /\ \A id \in Ids : id \notin issued => told[id] = {}
  BY DEF PromiseInv, ServingInv, TypeOK
<1>1. ASSUME UNCHANGED <<from_esp, msg_queue, instr_msg_queue, told, current_command>>,
             UNCHANGED <<check_motor, commands>>, state' \in {state, "SLEEP", "TRACE"}
      PROVE  HistoryInv' /\ UNCHANGED told
  <2>1. \A id \in Ids : Coming(id)' = Coming(id)
    BY <1>1 DEF Coming, OnLine, InInbox, AsInstruction
  <2> QED
    BY <1>1, <1>a, <2>1, HistoryQuiet
<1>2. ASSUME NEW m \in Incoming, Arrive(m),
             \A id \in Ids : m \in InstructionsOf(id) => told[id] = {}
      PROVE  HistoryInv' /\ UNCHANGED told
  <2>1. UNCHANGED <<told, current_command, check_motor, commands, state>>
    BY <1>2 DEF Arrive, Unmoved
  <2>2. ASSUME NEW id \in Ids
        PROVE  Coming(id)' > 0 => Coming(id) > 0 \/ told[id] = {}
    <3>1. Coming(id)' = Coming(id) + Bit(m \in InstructionsOf(id))
      BY <1>a, <1>2, ComingRises
    <3>2. Coming(id) \in Nat
      BY <1>a, ChancesAreNatural DEF Coming
    <3> QED
      BY <1>2, <3>1, <3>2 DEF Bit
  <2> QED
    BY <1>a, <2>1, <2>2, HistoryQuiet
<1>3. ASSUME NEW c \in Ids, NEW p \in Positions, EspInstruction(c, p)
      PROVE  HistoryInv' /\ UNCHANGED told
  <2> DEFINE m == Msg("INSTRUCTIONS", c, p)
  <2>1. m \in Incoming /\ Arrive(m) /\ \A id \in Ids : m \in InstructionsOf(id) => id = c
    BY <1>3 DEF EspInstruction, Msg, Incoming, Instruction, InstructionsOf
  <2>2. told[c] = {}
    BY <1>a, <1>3 DEF EspInstruction, Issue
  <2> HIDE DEF m
  <2> QED
    BY <1>2, <2>1, <2>2
<1>4. ASSUME NEW c \in Ids, NEW p \in Positions, UserInstruction(c, p)
      PROVE  HistoryInv' /\ UNCHANGED told
  <2> DEFINE m == Msg("INSTRUCTIONS", c, p)
  <2>1. m \in Instruction /\ \A id \in Ids : m \in InstructionsOf(id) => id = c
    BY DEF Msg, Instruction, InstructionsOf
  <2>2. /\ instr_msg_queue' = Append(instr_msg_queue, m)
        /\ UNCHANGED <<from_esp, msg_queue, told, current_command, check_motor>>
        /\ UNCHANGED <<commands, state>>
    BY <1>4 DEF UserInstruction, ConfigInstruction
  <2>3. told[c] = {}
    BY <1>a, <1>4 DEF UserInstruction, Issue
  <2> HIDE DEF m
  <2>4. ASSUME NEW id \in Ids
        PROVE  Coming(id)' > 0 => Coming(id) > 0 \/ told[id] = {}
    <3>1. instr_msg_queue \in Seq(Instruction)
      BY <1>a DEF ControllerTypeOK, QueueTypeOK
    <3>2. AsInstruction(id)' = AsInstruction(id) + Bit(m \in InstructionsOf(id))
      BY <2>1, <2>2, <3>1, CountAppend DEF AsInstruction
    <3>3. OnLine(id)' = OnLine(id) /\ InInbox(id)' = InInbox(id)
      BY <2>2 DEF OnLine, InInbox
    <3>4. OnLine(id) \in Nat /\ InInbox(id) \in Nat /\ AsInstruction(id) \in Nat
      BY <1>a, ChancesAreNatural
    <3> QED
      BY <2>1, <2>3, <3>2, <3>3, <3>4 DEF Coming, Bit
  <2> QED
    BY <1>a, <2>2, <2>4, HistoryQuiet
<1>5. ASSUME NEW m \in Incoming, m.type # "INSTRUCTIONS", Arrive(m)
      PROVE  HistoryInv' /\ UNCHANGED told
  BY <1>2, <1>5 DEF InstructionsOf
<1>6. CASE EspTime
  <2>1. Msg("DATETIME", NoId, 0) \in Incoming /\ Msg("DATETIME", NoId, 0).type # "INSTRUCTIONS"
    BY MaxTimeAssumption DEF Msg, Incoming, Times
  <2> QED
    BY <1>5, <1>6, <2>1 DEF EspTime
<1>7. CASE \E m \in Answers : EspMessage(m)
  <2>1. \A m \in Answers : m \in Incoming /\ m.type # "INSTRUCTIONS"
    BY DEF Answers, Incoming, response, device_status, cmd_status, Msg, MessageTypes
  <2> QED
    BY <1>5, <1>7, <2>1 DEF EspMessage, Noise
<1>8. CASE UserInput
  <2>1. ASSUME NEW t, ConfigTime(t)
        PROVE  HistoryInv' /\ UNCHANGED told
    <3>1. UNCHANGED <<from_esp, msg_queue, instr_msg_queue, told, current_command>>
      BY <2>1 DEF ConfigTime
    <3>2. UNCHANGED <<check_motor, commands, state>>
      BY <2>1 DEF ConfigTime
    <3> QED
      BY <1>1, <3>1, <3>2
  <2>2. ASSUME ConfigCoord
        PROVE  HistoryInv' /\ UNCHANGED told
    <3>1. UNCHANGED <<from_esp, msg_queue, instr_msg_queue, told, current_command>>
      BY <2>2 DEF ConfigCoord
    <3>2. UNCHANGED <<check_motor, commands, state>>
      BY <2>2 DEF ConfigCoord
    <3> QED
      BY <1>1, <3>1, <3>2
  <2>4. ASSUME ConfigTrace
        PROVE  HistoryInv' /\ UNCHANGED told
    <3>1. UNCHANGED <<from_esp, msg_queue, instr_msg_queue, told, current_command>>
      BY <2>4 DEF ConfigTrace
    <3>2. UNCHANGED <<check_motor, commands>> /\ state' = "TRACE"
      BY <2>4 DEF ConfigTrace
    <3> QED
      BY <1>1, <3>1, <3>2
  <2>3. ASSUME NEW type, ConfigSend(type)
        PROVE  HistoryInv' /\ UNCHANGED told
    <3>1. UNCHANGED <<from_esp, msg_queue, instr_msg_queue, told, current_command>>
      BY <2>3 DEF ConfigSend
    <3>2. UNCHANGED <<check_motor, commands, state>>
      BY <2>3 DEF ConfigSend
    <3> QED
      BY <1>1, <3>1, <3>2
  <2> QED
    <3>1. \/ \E t \in Times : ConfigTime(t)
          \/ ConfigCoord
          \/ \E type \in {"WIFI", "SERVER", "API"} : ConfigSend(type)
          \/ ConfigTrace
      BY <1>8 DEF UserInput
    <3>2. HistoryInv' /\ UNCHANGED told
      BY <2>1, <2>2, <2>3, <2>4, <3>1
    <3>3. UNCHANGED issued
      BY <1>8 DEF UserInput, Noise
    <3> QED
      BY <3>2, <3>3
<1>9. UNCHANGED issued \/ \E c \in Ids : Issue(c)
  BY DEF Environment, EspInstruction, UserInstruction, EspTime, EspMessage, UserInput, Noise
<1> QED
  BY <1>3, <1>4, <1>6, <1>7, <1>8, <1>9 DEF Environment

(* Every step keeps the strengthening and is a step of CommandLife, or     *)
(* none.                                                                   *)
LEMMA PromiseStep ==
  ASSUME PromiseInv, TypeOK, TypeOK', [Next]_allVars
  PROVE  PromiseInv' /\ [Life!Next]_(Life!lifeVars)
<1> DEFINE reports == [id \in Ids |-> told[id]]
           shown == [id \in Ids |-> IF id \in issued THEN 1 ELSE 0]
<1>a. /\ ControllerTypeOK /\ ControllerTypeOK' /\ WaitsForMotors /\ HistoryInv
      /\ ToldTypeOK /\ \A id \in Ids : id \notin issued => told[id] = {}
  BY DEF PromiseInv, ServingInv, TypeOK, ControllerTypeOK
<1>b. ServingInv'
  BY ServingInvStep DEF PromiseInv
<1>c. ASSUME NEW id \in Ids
      PROVE  /\ Chances(id) <= 1
             /\ Chances(id) > 0 => id \in issued
  <2>1. Bit(id \notin issued) + Chances(id) <= 1 /\ Bit(id \notin issued) \in 0 .. 1
    BY DEF PromiseInv, ServingInv, Bit
  <2>2. Chances(id) \in Nat
    BY <1>a, ChancesAreNatural DEF Chances
  <2> QED
    BY <2>1, <2>2 DEF Bit
<1>1. CASE PicoStep
  <2>1. (Loop \/ Hardware) /\ UNCHANGED issued
    BY <1>1 DEF PicoStep
  <2>2. /\ HistoryInv'
        /\ UNCHANGED told \/ \E c \in Ids \cup {NoId}, s \in Statuses : Says(c, s)
    BY <1>a, <1>c, <2>1, HistoryStep
  <2>3. CASE UNCHANGED told
    BY <1>a, <1>b, <2>1, <2>2, <2>3 DEF PromiseInv, Life!lifeVars
  <2>4. ASSUME NEW c \in Ids \cup {NoId}, NEW s \in Statuses, Says(c, s)
        PROVE  PromiseInv' /\ [Life!Next]_(Life!lifeVars)
    <3>1. CASE c \notin Ids
      <4>1. \A id \in Ids : told'[id] = told[id]
        BY <1>a, <2>4, <3>1 DEF Says, ToldTypeOK
      <4>2. reports' = reports
        BY <4>1
      <4> QED
        BY <1>a, <1>b, <2>1, <2>2, <4>1, <4>2 DEF PromiseInv, Life!lifeVars
    <3>2. CASE c \in Ids
      <4>1. reports' = [reports EXCEPT ![c] = @ \cup {s}] /\ shown' = shown
        BY <1>a, <2>1, <2>4, <3>2, SaysReports
      <4>2. c \in issued
        <5>1. OnLine(c) \in Nat /\ InInbox(c) \in Nat /\ AsInstruction(c) \in Nat
              /\ InVector(c) \in Nat /\ InMotors(c) \in 0 .. 1 /\ Ended(c) \in 0 .. 2
          BY <1>a, <3>2, ChancesAreNatural
        <5>2. Requested \in told[c] => Ended(c) > 0
          BY DEF Ended, Bit
        <5>3. Coming(c) > 0 \/ InVector(c) > 0 \/ InMotors(c) > 0 \/ Ended(c) > 0
          BY <2>4, <3>2, <5>2 DEF Says
        <5> QED
          BY <1>c, <3>2, <5>1, <5>3 DEF Chances, Coming
      <4>3. PromiseInv'
        <5>1. \A id \in Ids : id # c => told'[id] = told[id]
          BY <1>a, <2>4, <3>2 DEF Says, ToldTypeOK
        <5> QED
          BY <1>a, <1>b, <2>1, <2>2, <4>2, <5>1 DEF PromiseInv
      <4>4. Life!Reported(c, s)
        BY <4>1 DEF Life!Reported
      <4>5. reports[c] = told[c] /\ shown[c] = 1
        BY <3>2, <4>2
      <4>6. Life!Answer(c) \/ Life!EndOfWait(c) \/ Life!Blame(c)
        <5>1. CASE told[c] = {} /\ s \in {Rejected, Impossible, Calculated}
          BY <4>4, <4>5, <5>1 DEF Life!Answer, Life!NotSent, Life!Refused, Life!Hopeless,
             Life!Found, Rejected, Impossible, Calculated
        <5>2. CASE /\ Calculated \in told[c] /\ Ended(c) = 0
                   /\ s \in {Impossible, Requested}
          <6>1. Impossible \notin told[c] /\ Requested \notin told[c]
            BY <5>2 DEF Ended, Bit
          <6> QED
            BY <4>4, <4>5, <5>2, <6>1 DEF Life!EndOfWait, Life!Waiting, Life!Found,
               Life!Hopeless, Life!Photo, Impossible, Requested, Calculated
        <5>3. CASE Requested \in told[c] /\ s = PictureFailed
          BY <4>4, <4>5, <5>3 DEF Life!Blame, Life!Photo, Life!Failed, Requested, PictureFailed
        <5> QED
          BY <2>4, <3>2, <5>1, <5>2, <5>3 DEF Says
      <4> QED
        BY <3>2, <4>3, <4>6 DEF Life!Next
    <3> QED
      BY <3>1, <3>2
  <2> QED
    BY <2>2, <2>3, <2>4
<1>2. CASE Environment
  <2>1. /\ HistoryInv' /\ UNCHANGED told
        /\ UNCHANGED issued \/ \E c \in Ids : Issue(c)
    BY <1>2, PromiseEnvironment
  <2>2. issued \subseteq issued'
    BY <2>1 DEF Issue
  <2>3. PromiseInv'
    BY <1>a, <1>b, <2>1, <2>2 DEF PromiseInv
  <2>4. CASE UNCHANGED issued
    BY <2>1, <2>3, <2>4 DEF Life!lifeVars
  <2>5. ASSUME NEW c \in Ids, Issue(c)
        PROVE  Life!HandOut(c)
    <3>1. reports' = reports /\ shown' = [shown EXCEPT ![c] = 1]
      BY <2>1, <2>5 DEF Issue
    <3>2. shown[c] = 0 /\ reports[c] = {}
      BY <1>a, <2>5 DEF Issue
    <3> QED
      BY <3>1, <3>2 DEF Life!HandOut, Life!Shows, Life!NotSent, Life!Sent
  <2> QED
    BY <2>1, <2>3, <2>4, <2>5 DEF Life!Next
<1>3. CASE UNCHANGED allVars
  <2>1. UNCHANGED <<told, issued>>
    BY <1>3 DEF allVars, vars
  <2>2. HistoryInv'
    <3>1. UNCHANGED <<from_esp, msg_queue, instr_msg_queue, current_command, state>>
      BY <1>3 DEF allVars, vars, linkVars, captureVars, loopVars
    <3>2. UNCHANGED <<commands, check_motor>>
      BY <1>3 DEF allVars, vars, captureVars
    <3>3. \A id \in Ids : Coming(id)' = Coming(id)
      BY <3>1 DEF Coming, OnLine, InInbox, AsInstruction
    <3> QED
      BY <1>a, <2>1, <3>1, <3>2, <3>3, HistoryQuiet
  <2> QED
    BY <1>a, <1>b, <2>1, <2>2 DEF PromiseInv, Life!lifeVars
<1> QED
  BY <1>1, <1>2, <1>3 DEF Next

(* Whatever the ESP, the user and the interrupts do, in a debug build too, *)
(* every command is answered once, then photographed or discarded but not  *)
(* both, and the report of a failed picture follows the request of that    *)
(* picture (controller.cpp:165-168, 300-346, 713-722).                     *)
THEOREM PicoKeepsPromise == Spec => KeepsPromise
<1>1. Init /\ TypeOK => PromiseInv /\ Life!Init
  BY PromiseInitially
<1>2. PromiseInv /\ TypeOK /\ TypeOK' /\ [Next]_allVars => PromiseInv' /\ [Life!Next]_(Life!lifeVars)
  BY PromiseStep
<1> QED
  BY <1>1, <1>2, TypeCorrect, PTL DEF Spec, KeepsPromise, Life!Spec
=============================================================================

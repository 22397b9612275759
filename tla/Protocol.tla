------------------------------ MODULE Protocol ------------------------------
(***************************************************************************)
(* What the Pico and the ESP say to each other (common/src/message.cpp,    *)
(* UART_COMMS.md) and the two directions of the UART between them.         *)
(***************************************************************************)
EXTENDS Integers, Sequences

CONSTANTS
  Ids,           \* identifiers of the commands the web server hands out
  NoId,          \* the identifier of a zero-initialised Command
  LinkCapacity   \* messages the UART towards the ESP holds (a bound)

ASSUME ProtocolAssumption == NoId \notin Ids /\ LinkCapacity \in Nat

VARIABLES from_esp, to_esp   \* the two directions, as the Pico sees them

linkVars == <<from_esp, to_esp>>

LinkInit == from_esp = <<>> /\ to_esp = <<>>

----------------------------------------------------------------------------
(* Messages, by the names of common/src/message.hpp.                        *)
MessageTypes ==
  {"UNASSIGNED", "RESPONSE", "DATETIME", "DEVICE_STATUS", "INSTRUCTIONS",
   "CMD_STATUS", "PICTURE", "DIAGNOSTICS", "WIFI", "SERVER", "API"}

(* A message keeps its type, the command it is about, and one number: the  *)
(* boolean of a RESPONSE or DEVICE_STATUS, the position of INSTRUCTIONS,   *)
(* the timestamp of a DATETIME, the status of a CMD_STATUS.                *)
Message == [type : MessageTypes, id : Ids \cup {NoId}, val : Int]
Msg(type, id, val) == [type |-> type, id |-> id, val |-> val]

response(ok) == Msg("RESPONSE", NoId, IF ok THEN 1 ELSE 0)
datetime_request == Msg("DATETIME", NoId, 1)
device_status == Msg("DEVICE_STATUS", NoId, 1)
cmd_status(id, status) == Msg("CMD_STATUS", id, status)
picture(id) == Msg("PICTURE", id, 0)
diagnostics == Msg("DIAGNOSTICS", NoId, 2)

(* Positions of an instruction.  Bad stands for every value out of range   *)
(* or not a number, Malformed for a content of other than three fields.    *)
NOW == 4
Timed == 1
Bad == 0
Malformed == -1
Positions == {NOW, Timed, Bad, Malformed}

(* Statuses of a command (webserver/API.md).  Requested is no status but   *)
(* the PICTURE message that asks for the photograph.                       *)
Calculated == 2
Impossible == -2
Rejected == -1
PictureFailed == -3
Requested == 3
Statuses == {Calculated, Impossible, Rejected, PictureFailed, Requested}

----------------------------------------------------------------------------
(* commbridge->send: the message goes to the UART, which drops what does   *)
(* not fit.                                                                *)
Transmit(m) ==
  to_esp' = IF Len(to_esp) < LinkCapacity THEN Append(to_esp, m) ELSE to_esp
=============================================================================

---------------------------- MODULE CommandTable ----------------------------
(***************************************************************************)
(* The commands the web server keeps for one device, and what the requests *)
(* of the device do to them (webserver/src/api/commands.rs, upload.rs).    *)
(* One device sends one request at a time, so each handler is one step.    *)
(***************************************************************************)
EXTENDS Protocol

VARIABLE status   \* commands.status of each command

(* Statuses the table itself hands out (webserver/API.md).                 *)
Queued == 0
Fetched == 1
Uploaded == 3

TableTypeOK == status \in [Ids -> -3 .. 3]

TableInit == status = [id \in Ids |-> Queued]

(* Mutant: the command handed out is not marked.                           *)
FetchUnmarked(id) == status[id] = Queued /\ UNCHANGED status

(* fetch_command: any queued command, which is marked as fetched whether   *)
(* or not the answer reaches the device.                                   *)
Fetch(id) ==
  /\ status[id] = Queued
  /\ status' = [status EXCEPT ![id] = Fetched]

(* Mutant: the status of the command is not looked at.                     *)
AcceptableAlways(id, s) == id \in Ids /\ s \in -3 .. 2

(* respond_command accepts only statuses of a device, and only for a       *)
(* command that is not finished.                                           *)
Acceptable(id, s) == id \in Ids /\ s \in -3 .. 2 /\ status[id] \in 0 .. 2

(* Mutant: the update names no command.                                    *)
RespondAll(id, s) ==
  status' = IF Acceptable(id, s) THEN [i \in Ids |-> s] ELSE status

Respond(id, s) ==
  status' = IF Acceptable(id, s) THEN [status EXCEPT ![id] = s] ELSE status

(* upload_image: the command is finished, whatever its status was.         *)
Upload(id) ==
  status' = IF id \in Ids THEN [status EXCEPT ![id] = Uploaded] ELSE status
=============================================================================

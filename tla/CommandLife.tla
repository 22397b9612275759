---------------------------- MODULE CommandLife ----------------------------
(***************************************************************************)
(* What the system promises of every command, without the two devices, the *)
(* line and the queues: the reports made of it and what the website shows. *)
(* A command is given out once and answered once; one whose time was found *)
(* is either discarded or photographed, once; and the website shows        *)
(* nothing but what was reported, and changes it no more once it has ended *)
(* (but for the picture, which is shown whatever was shown before).        *)
(***************************************************************************)
EXTENDS Integers

CONSTANT Ids

VARIABLES
  reports,   \* of each command: what the Pico has said of it
  shown      \* of each command: its status on the website

lifeVars == <<reports, shown>>

(* The words of webserver/API.md; Photo stands for the request of the      *)
(* picture among the reports, and for the picture among what is shown.     *)
NotSent == 0
Sent == 1
Found == 2
Photo == 3
Refused == -1
Hopeless == -2
Failed == -3

Init == reports = [id \in Ids |-> {}] /\ shown = [id \in Ids |-> NotSent]

Reported(id, s) ==
  reports' = [reports EXCEPT ![id] = @ \cup {s}] /\ UNCHANGED shown

Shows(id, s) == shown' = [shown EXCEPT ![id] = s] /\ UNCHANGED reports

HandOut(id) == shown[id] = NotSent /\ reports[id] = {} /\ Shows(id, Sent)

(* The first report: refused, impossible, or a time found.                 *)
Answer(id) ==
  /\ shown[id] # NotSent /\ reports[id] = {}
  /\ \E s \in {Refused, Hopeless, Found} : Reported(id, s)

(* A time was found, and it is neither discarded nor photographed.         *)
Waiting(id) == Found \in reports[id] /\ reports[id] \cap {Hopeless, Photo} = {}

EndOfWait(id) == Waiting(id) /\ \E s \in {Hopeless, Photo} : Reported(id, s)

(* A picture is reported as failed.  Only a command whose picture was      *)
(* asked for is ever given this report, since it is made of the command    *)
(* served before the one that is late.                                     *)
Blame(id) == Photo \in reports[id] /\ Reported(id, Failed)

(* A report reaches the website, in any order, as long as nothing final is *)
(* shown; so may the picture, whatever is shown.                           *)
Show(id) ==
  /\ shown[id] \in {NotSent, Sent, Found}
  /\ \E s \in reports[id] \ {Photo} : Shows(id, s)

ShowPhoto(id) == Photo \in reports[id] /\ shown[id] # Photo /\ Shows(id, Photo)

Next ==
  \E id \in Ids :
    \/ HandOut(id) \/ Answer(id) \/ EndOfWait(id) \/ Blame(id)
    \/ Show(id) \/ ShowPhoto(id)

Spec == Init /\ [][Next]_lifeVars
=============================================================================

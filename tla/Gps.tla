--------------------------------- MODULE Gps ---------------------------------
(***************************************************************************)
(* The Pico's GPS (devices/gps.cpp): locate_position reads what the UART   *)
(* has received, wherever that cuts the sentences, and parse_output puts   *)
(* them together again.  A sentence is a sequence of tokens: its message   *)
(* id, the fields that matter, and the end of the line.  Between two calls *)
(* nobody reads, and the full ring buffer drops what arrives.              *)
(***************************************************************************)
EXTENDS Integers, Sequences, SequencesExt

CONSTANTS
  GpsRing,         \* tokens the ring buffer of UART 1 holds
  Reads,           \* reads of a call: 2 s, one every 250 ms
  LeastPerSleep,   \* tokens that arrive while locate_position sleeps,
  MostPerSleep     \* at least and at most

ASSUME GpsAssumption ==
  /\ GpsRing \in Nat /\ Reads \in Nat \ {0}
  /\ MostPerSleep \in 1..GpsRing /\ LeastPerSleep \in 0..MostPerSleep

VARIABLES
  receiver_on,     \* the receiver sends (external)
  next_token,      \* the token it sends next (external)
  in_view,         \* it has satellites enough for a fix (external)
  gps_rx,          \* UART 1's ring buffer
  locating,        \* where locate_position is: "away", "read", "parse", "sleep"
  reads_left,      \* reads before its timeout
  arrived,         \* tokens that arrived during this sleep
  output, gps_sentence, sentence_state,
  latitude, longitude, status, current_mode

receiverVars == <<receiver_on, next_token, in_view>>
locateVars == <<locating, reads_left, arrived>>
parseVars == <<output, gps_sentence, sentence_state>>
fixVars == <<latitude, longitude, status>>
gpsVars == <<receiverVars, gps_rx, locateVars, parseVars, fixVars, current_mode>>

(* What the receiver sends, over and over: another sentence, and one with  *)
(* a position, whose fields are empty until there is a fix.                *)
Cycle == <<"$GPRMC", "newline", "$GPGLL", "latitude", "longitude", "newline">>
MessageIds == {"$GPRMC", "$GPGLL"}
Sent == IF Cycle[next_token] \in {"latitude", "longitude"} /\ ~in_view THEN "empty"
        ELSE Cycle[next_token]

GpsInit ==
  /\ receiver_on \in BOOLEAN
  /\ next_token \in DOMAIN Cycle /\ in_view \in BOOLEAN
  /\ gps_rx = <<>>
  /\ locating = "away" /\ reads_left = 0 /\ arrived = 0
  /\ output = <<>> /\ gps_sentence = <<>> /\ sentence_state = "EMPTY"
  /\ latitude = "unset" /\ longitude = "unset" /\ status = FALSE
  /\ current_mode = "UNKNOWN"

----------------------------------------------------------------------------
(* External: the receiver.  While locate_position sleeps the ring does not *)
(* overflow: 250 ms at 9600 baud are less than it holds.                   *)
TokenArrives ==
  /\ receiver_on
  /\ locating = "away" \/ (locating = "sleep" /\ arrived < MostPerSleep)
  /\ next_token' = (next_token % Len(Cycle)) + 1
  /\ gps_rx' = IF Len(gps_rx) < GpsRing THEN Append(gps_rx, Sent) ELSE gps_rx
  /\ arrived' = IF locating = "sleep" THEN arrived + 1 ELSE 0
  /\ UNCHANGED <<receiver_on, in_view, locating, reads_left, parseVars, fixVars,
                 current_mode>>

SatellitesInView ==
  /\ receiver_on /\ ~in_view
  /\ in_view' = TRUE
  /\ UNCHANGED <<receiver_on, next_token, gps_rx, locateVars, parseVars, fixVars,
                 current_mode>>

----------------------------------------------------------------------------
(* The controller: init as long as there is no fix, then standby.          *)

FullOn ==
  /\ locating = "away" /\ ~status
  /\ current_mode # "FULL_ON"
  /\ current_mode' = "FULL_ON"
  /\ receiver_on' = TRUE
  /\ UNCHANGED <<next_token, in_view, gps_rx, locateVars, parseVars, fixVars>>

locate_position ==
  /\ locating = "away" /\ ~status
  /\ current_mode = "FULL_ON"
  /\ locating' = "read" /\ reads_left' = Reads
  /\ UNCHANGED <<receiverVars, gps_rx, arrived, parseVars, fixVars, current_mode>>

(* standby_mode empties the ring, not what parse_output keeps.             *)
Standby ==
  /\ locating = "away" /\ status
  /\ current_mode # "STANDBY"
  /\ current_mode' = "STANDBY"
  /\ receiver_on' = FALSE
  /\ gps_rx' = <<>>
  /\ UNCHANGED <<next_token, in_view, locateVars, parseVars, fixVars>>

(* Typed in by the user in config mode.                                    *)
set_coordinates ==
  /\ locating = "away"
  /\ latitude' = "typed" /\ longitude' = "typed" /\ status' = TRUE
  /\ UNCHANGED <<receiverVars, gps_rx, locateVars, parseVars, current_mode>>

----------------------------------------------------------------------------
ReadOutput ==
  /\ locating = "read"
  /\ output' = gps_rx
  /\ gps_rx' = <<>>
  /\ locating' = "parse"
  /\ reads_left' = reads_left - 1
  /\ UNCHANGED <<receiverVars, arrived, gps_sentence, sentence_state, fixVars, current_mode>>

Parsed ==
  /\ locating = "parse" /\ output = <<>>
  /\ locating' = "sleep" /\ arrived' = 0
  /\ UNCHANGED <<receiverVars, gps_rx, reads_left, parseVars, fixVars, current_mode>>

Slept ==
  /\ locating = "sleep"
  /\ arrived >= LeastPerSleep
  /\ locating' = IF ~status /\ reads_left > 0 THEN "read" ELSE "away"
  /\ arrived' = 0
  /\ UNCHANGED <<receiverVars, gps_rx, reads_left, parseVars, fixVars, current_mode>>

----------------------------------------------------------------------------
(* parse_output, one round of its loop per step.                           *)

HasLine(tokens) == Contains(tokens, "newline")
Line(tokens) == SubSeq(tokens, 1, SelectInSeq(tokens, LAMBDA t : t = "newline") - 1)
AfterLine(tokens) ==
  SubSeq(tokens, SelectInSeq(tokens, LAMBDA t : t = "newline") + 1, Len(tokens))

(* Up to the first "$", if there is one.                                   *)
FromDollar(tokens) ==
  LET first == SelectInSeq(tokens, LAMBDA t : t \in MessageIds)
  IN IF first = 0 THEN tokens ELSE SubSeq(tokens, first, Len(tokens))

(* parse_gpgll and nmea_to_decimal_deg: each field goes where its          *)
(* direction says.  What is empty, missing or no coordinate ends it, but   *)
(* what has been stored stays.                                             *)
IsCoordinate(s, i) == i <= Len(s) /\ s[i] \in {"latitude", "longitude"}
IsGpgll(s) == s # <<>> /\ s[1] = "$GPGLL"

parse_gpgll(s) ==
  LET first == IsGpgll(s) /\ IsCoordinate(s, 2)
      both == first /\ IsCoordinate(s, 3)
      stored == (IF first THEN {s[2]} ELSE {}) \cup (IF both THEN {s[3]} ELSE {})
  IN /\ latitude' = IF "latitude" \in stored THEN "received" ELSE latitude
     /\ longitude' = IF "longitude" \in stored THEN "received" ELSE longitude
     /\ status' = (status \/ both)

(* Only a sentence that contains $GPGLL is parsed: GPGGA is switched off.  *)
Complete(s) ==
  /\ IF Contains(s, "$GPGLL") THEN parse_gpgll(s) ELSE UNCHANGED fixVars
  /\ gps_sentence' = <<>>
  /\ sentence_state' = "EMPTY"

ParsingIn(state) ==
  /\ locating = "parse" /\ output # <<>>
  /\ sentence_state = state
  /\ UNCHANGED <<receiverVars, gps_rx, locateVars, current_mode>>

(* A line that is complete here is parsed in the next round, which is that *)
(* of the next call if nothing follows.                                    *)
ParseEmpty ==
  /\ ParsingIn("EMPTY")
  /\ LET rest == FromDollar(output)
     IN IF HasLine(rest)
          THEN /\ gps_sentence' = Line(rest)
               /\ output' = AfterLine(rest)
               /\ sentence_state' = "COMPLETE"
          ELSE /\ gps_sentence' = rest
               /\ output' = <<>>
               /\ sentence_state' = "INCOMPLETE"
  /\ UNCHANGED fixVars

(* Mutant: the next part of a sentence replaces the one before.            *)
ParseIncompleteReplaces ==
  /\ ParsingIn("INCOMPLETE")
  /\ IF HasLine(output)
       THEN /\ Complete(gps_sentence \o Line(output))
            /\ output' = AfterLine(output)
       ELSE /\ gps_sentence' = output
            /\ output' = <<>>
            /\ UNCHANGED <<sentence_state, fixVars>>

ParseIncomplete ==
  /\ ParsingIn("INCOMPLETE")
  /\ IF HasLine(output)
       THEN /\ Complete(gps_sentence \o Line(output))
            /\ output' = AfterLine(output)
       ELSE /\ gps_sentence' = gps_sentence \o output
            /\ output' = <<>>
            /\ UNCHANGED <<sentence_state, fixVars>>

ParseComplete ==
  /\ ParsingIn("COMPLETE")
  /\ Complete(gps_sentence)
  /\ UNCHANGED output

----------------------------------------------------------------------------
Parse == ParseEmpty \/ ParseIncomplete \/ ParseComplete
Locate == locate_position \/ ReadOutput \/ Parsed \/ Slept

GpsNext ==
  \/ TokenArrives \/ SatellitesInView
  \/ FullOn \/ Standby \/ set_coordinates
  \/ Locate \/ Parse

(* The receiver that is on keeps sending, and the main loop runs.          *)
GpsFairness ==
  /\ WF_gpsVars(TokenArrives)
  /\ WF_gpsVars(FullOn \/ Locate \/ Parse)

----------------------------------------------------------------------------
GpsTypeOK ==
  /\ Len(gps_rx) <= GpsRing /\ arrived \in 0..MostPerSleep /\ reads_left \in 0..Reads
  /\ locating \in {"away", "read", "parse", "sleep"}
  /\ sentence_state \in {"EMPTY", "INCOMPLETE", "COMPLETE"}

(* Once there are satellites enough the Pico finds a fix, wherever its     *)
(* reads cut the sentences and whatever the ring buffer has dropped        *)
(* between two calls of locate_position (gps.cpp:25-106).                  *)
FixFound == []<>(in_view => status)
=============================================================================

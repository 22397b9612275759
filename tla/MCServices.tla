----------------------------- MODULE MCServices -----------------------------
(***************************************************************************)
(* The parts of the system that share no state with the core model: the    *)
(* ESP's settings and network, the web server's tables and its accounts,   *)
(* the planet finder and the GPS.  One run checks them all; as they do not *)
(* interact, each initial state switches one of them on.                   *)
(***************************************************************************)
EXTENDS EspNetwork, WebServer, WebUsers, PlanetFinder, Gps

NetBudget(m, r, o, c) == [messages |-> m, resets |-> r, outages |-> o, card_faults |-> c]

(* The parts that are switched off, in a state that allows no step.        *)
NetOff ==
  /\ boot = "off" /\ mount_tries = 0
  /\ settings_file = NoFile /\ settings = [k \in Keys |-> Missing] /\ versions = {}
  /\ handler = [at |-> "idle", msg |-> Missing] /\ unsaved = TRUE
  /\ radio = "off" /\ config = <<Missing, Missing>> /\ wifi_events = <<>>
  /\ connected_bit = FALSE
  /\ wifi_mutex = "none" /\ connecting = [c \in Callers |-> "no"] /\ retries = 0
  /\ reconnect_timer = "none" /\ passed = <<Missing, Missing>> /\ replaced = {}
  /\ net_left = NetBudget(0, 0, 0, 0)

Budget(k, c, r, s) == [keys |-> k, commands |-> c, requests |-> r, restarts |-> s]

WebOff ==
  /\ keys = <<>> /\ commands = <<>> /\ images = {} /\ diagnostics = {} /\ image_files = {}
  /\ requests = [r \in Requests |-> Idle] /\ handed = {} /\ dropped = {}
  /\ left = Budget(0, 0, 0, 0)

UsersOff ==
  /\ database = "none" /\ server = "off" /\ users = <<>>
  /\ sessions = [p \in People |-> NoSession] /\ pages = [p \in People |-> NoPage]
  /\ passwords_left = 0 /\ restarts_left = 0 /\ cut_short = FALSE

SkyOff ==
  /\ body = <<>> /\ goal = "none" /\ search = "off" /\ start_date = NoDate
  /\ dates = <<>> /\ altitudes = <<>> /\ rounds = 0
  /\ found = <<NotFound, NotFound, NotFound>>
  /\ iter_dates = <<>> /\ iter_altitudes = <<>> /\ refinements = 0
  /\ trace_date = NoDate /\ trace_hours = 0 /\ points = <<>>

GpsOff ==
  /\ receiver_on = FALSE /\ next_token = 1 /\ in_view = FALSE
  /\ gps_rx = <<>> /\ locating = "off" /\ reads_left = 0 /\ arrived = 0
  /\ output = <<>> /\ gps_sentence = <<>> /\ sentence_state = "EMPTY"
  /\ latitude = "unset" /\ longitude = "unset" /\ status = FALSE
  /\ current_mode = "UNKNOWN"

ServicesInit ==
  \/ NetInit /\ WebOff /\ UsersOff /\ SkyOff /\ GpsOff
  \/ NetOff /\ WebInit /\ UsersOff /\ SkyOff /\ GpsOff
  \/ NetOff /\ WebOff /\ UsersInit /\ SkyOff /\ GpsOff
  \/ NetOff /\ WebOff /\ UsersOff /\ SkyInit /\ GpsOff
  \/ NetOff /\ WebOff /\ UsersOff /\ SkyOff /\ GpsInit

ServicesNext ==
  \/ NetNext /\ UNCHANGED <<webVars, userVars, skyVars, gpsVars>>
  \/ WebNext /\ UNCHANGED <<netVars, userVars, skyVars, gpsVars>>
  \/ UsersNext /\ UNCHANGED <<netVars, webVars, skyVars, gpsVars>>
  \/ SkyNext /\ UNCHANGED <<netVars, webVars, userVars, gpsVars>>
  \/ GpsNext /\ UNCHANGED <<netVars, webVars, userVars, skyVars>>

servicesVars == <<netVars, webVars, userVars, skyVars, gpsVars>>

ServicesSpec ==
  ServicesInit /\ [][ServicesNext]_servicesVars /\ NetFairness /\ GpsFairness

(* Every part keeps to its types; commands keep their keys, images and     *)
(* diagnoses what they refer to (the foreign keys of setup.rs).            *)
ServicesTypeOK ==
  /\ NetTypeOK /\ WebTypeOK
  /\ server # "off" => UsersTypeOK
  /\ search # "off" => SkyTypeOK
  /\ locating # "off" => GpsTypeOK

----------------------------------------------------------------------------
(* The values of the constants.                                            *)
MCMessages ==
  {[type |-> "WIFI", content |-> <<"home", "home">>],
   [type |-> "WIFI", content |-> <<"away", "">>],
   [type |-> "SERVER", content |-> <<"home", "home">>],
   [type |-> "API", content |-> <<"home">>]}
MCFile(value, certificate) ==
  Whole([k \in Keys |-> IF k = "WEB_CERTIFICATE" THEN certificate ELSE value])
MCFiles == {NoFile, MCFile("away", "pem")}
MCNetBudgets == {NetBudget(1, 1, 0, 1), NetBudget(1, 0, 1, 0)}
MCAccounts == {<<"home", "home">>}

MCReports == {-1, 2}
MCBudgets == {Budget(1, 1, 2, 1), Budget(1, 2, 2, 0), Budget(2, 2, 1, 0)}

MCDate(y, m, d, h, n) == [year |-> y, month |-> m, day |-> d, hour |-> h, min |-> n]
MCStarts ==
  {MCDate(2025, 3, 14, 20, 51), MCDate(2025, 4, 30, 18, 7), MCDate(2024, 2, 28, 21, 33),
   MCDate(2025, 12, 31, 12, 0)}
MCBody(period, phase, horizon) == [period |-> period, phase |-> phase, horizon |-> horizon]
MCBodies ==
  {MCBody(1440, 600, 720), MCBody(1436, 1000, 300), MCBody(1490, 311, 1300),
   MCBody(1440, 725, -100), MCBody(7000, 4300, 3501)}
=============================================================================

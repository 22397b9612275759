----------------------------- MODULE EspNetwork -----------------------------
(***************************************************************************)
(* The ESP's settings and its network: SDcardHandler (the card, the file   *)
(* settings.txt and its CRC), WirelessHandler (the driver's callbacks and  *)
(* connect()), and the code of tasks.cpp that uses them: init_task, the    *)
(* reconnect timer and the messages WIFI, SERVER and API of                *)
(* handle_uart_data_task.  Exceptions are disabled in this build: a        *)
(* missing key or a number that does not parse aborts, and the ESP boots.  *)
(***************************************************************************)
EXTENDS Naturals, Sequences

CONSTANTS
  SettingsMessages, \* messages [type, content] the Pico may send
  CardFiles,        \* what settings.txt may be when the ESP is first started
  AcceptedAccounts, \* pairs <<SSID, password>> the access point accepts
  MaxEvents,        \* bound: events waiting for the callbacks
  NetBudgets        \* bounds: [messages, resets, outages, card_faults]: messages about
                    \* settings, power cuts, losses of the link, saves that fail

ASSUME EventsAssumption == MaxEvents \in Nat \ {0}

VARIABLES
  settings_file,    \* settings.txt
  boot,             \* where init_task is
  mount_tries,      \* attempts to mount the card
  settings,         \* WirelessHandler::settings
  versions,         \* settings that whole messages have made (history)
  handler,          \* [at, msg]: where handle_uart_data_task is
  unsaved,          \* the last save failed or was cut off (history)
  radio,            \* the Wi-Fi driver
  config,           \* wifi_config the driver has
  wifi_events,      \* events posted and not yet handled
  connected_bit,    \* WIFI_CONNECTED_BIT
  wifi_mutex,       \* who holds it
  connecting,       \* [caller -> where its connect() is]
  retries,          \* retries of the holder of wifi_mutex
  reconnect_timer,  \* the timer of init_task
  passed,           \* what the timer's get_setting pointers pointed to
  replaced,         \* settings assigned while the timer holds pointers
  net_left          \* what is left of the budget

bootVars == <<settings_file, boot, mount_tries>>
settingVars == <<settings, versions, handler, unsaved>>
driverVars == <<radio, config, wifi_events, connected_bit>>
connectVars == <<wifi_mutex, connecting, retries>>
timerVars == <<reconnect_timer, passed, replaced>>
netVars == <<bootVars, settingVars, driverVars, connectVars, timerVars, net_left>>

Account == {"WIFI_SSID", "WIFI_PASSWORD"}
Server == {"WEB_DOMAIN", "WEB_PORT"}
Keys == Account \cup Server \cup {"WEB_TOKEN", "WEB_CERTIFICATE"}
Missing == "missing"
Callers == {"init", "handler", "timer"}

NoFile == [kind |-> "none"]
Torn(where) == [kind |-> "torn", cut |-> where]
Whole(map) == [kind |-> "whole", map |-> map]

NetInit ==
  /\ settings_file \in CardFiles
  /\ boot = "mount" /\ mount_tries = 0
  /\ settings = [k \in Keys |-> Missing]
  /\ versions = IF settings_file.kind = "whole" THEN {settings_file.map} ELSE {}
  /\ handler = [at |-> "idle", msg |-> Missing]
  /\ unsaved = TRUE
  /\ radio = "off" /\ config = <<Missing, Missing>> /\ wifi_events = <<>>
  /\ connected_bit = FALSE
  /\ wifi_mutex = "none"
  /\ connecting = [c \in Callers |-> "no"]
  /\ retries = 0
  /\ reconnect_timer = "none" /\ passed = <<Missing, Missing>> /\ replaced = {}
  /\ net_left \in NetBudgets

SpendNet(what) ==
  /\ net_left[what] > 0
  /\ net_left' = [net_left EXCEPT ![what] = @ - 1]

(* A reset, by esp_restart, abort or a power cut: only the card stays.     *)
Reset ==
  /\ boot' = "mount" /\ mount_tries' = 0
  /\ settings' = [k \in Keys |-> Missing]
  /\ handler' = [at |-> "idle", msg |-> Missing]
  /\ radio' = "off" /\ config' = <<Missing, Missing>> /\ wifi_events' = <<>>
  /\ connected_bit' = FALSE
  /\ wifi_mutex' = "none"
  /\ connecting' = [c \in Callers |-> "no"]
  /\ retries' = 0
  /\ reconnect_timer' = "none" /\ passed' = <<Missing, Missing>> /\ replaced' = {}

----------------------------------------------------------------------------
(* init_task: the card, the settings, the radio.                           *)

MountCard ==
  /\ boot = "mount"
  /\ boot' = "read"
  /\ mount_tries' = 0
  /\ UNCHANGED <<settings_file, settingVars, driverVars, connectVars, timerVars,
                 net_left>>

(* Three attempts, then esp_restart.                                       *)
MountFails ==
  /\ boot = "mount"
  /\ IF mount_tries < 2
       THEN /\ mount_tries' = mount_tries + 1
            /\ UNCHANGED <<settings_file, boot, settingVars, driverVars, connectVars,
                           timerVars>>
       ELSE Reset /\ UNCHANGED <<settings_file, versions, unsaved>>
  /\ UNCHANGED net_left

(* check_crc: without a comma there is no CRC.  What follows the last      *)
(* comma goes to stoi, which throws unless it starts with a digit: the     *)
(* file was cut right after the comma, or in the text after a comma of a   *)
(* setting.  Cut in the digits, the number does not fit.                   *)
CrcThrows(f) == f.kind = "torn" /\ f.cut = "after comma"
CrcFits(f) == f.kind = "whole"

ReadReturn(f) ==
  CASE f.kind = "none" -> 1
    [] f.kind # "none" /\ ~CrcFits(f) -> 3
    [] CrcFits(f) /\ \E k \in Keys \ {"WEB_CERTIFICATE"} : f.map[k] = Missing -> 4
    [] OTHER -> IF f.map["WEB_CERTIFICATE"] = Missing THEN 5 ELSE 0

ReadMap(f) == IF CrcFits(f) THEN f.map ELSE [k \in Keys |-> Missing]

(* Defaults for four of the six settings, or for the token alone.          *)
WithDefaults(f) ==
  LET defaulted == CASE ReadReturn(f) = 0 -> {}
                     [] ReadReturn(f) = 5 -> {"WEB_TOKEN"}
                     [] OTHER -> Account \cup Server
  IN [k \in Keys |-> IF k \in defaulted THEN "default" ELSE ReadMap(f)[k]]

ReadAborts ==
  /\ boot = "read"
  /\ CrcThrows(settings_file)
  /\ Reset
  /\ UNCHANGED <<settings_file, versions, unsaved, net_left>>

ReadSettings ==
  /\ boot = "read"
  /\ ~CrcThrows(settings_file)
  /\ settings' = WithDefaults(settings_file)
  /\ boot' = "radio"
  /\ UNCHANGED <<settings_file, mount_tries, versions, handler, unsaved, driverVars,
                 connectVars, timerVars, net_left>>

(* WirelessHandler::init; then init_task calls connect.                    *)
RadioInit ==
  /\ boot = "radio"
  /\ boot' = "connect"
  /\ connecting' = [connecting EXCEPT !["init"] = "lock"]
  /\ UNCHANGED <<settings_file, mount_tries, settingVars, driverVars, wifi_mutex,
                 retries, timerVars, net_left>>

RadioFails ==
  /\ boot = "radio"
  /\ Reset
  /\ UNCHANGED <<settings_file, versions, unsaved, net_left>>

(* The handlers are created, which puts an empty token where there is none *)
(* (get_setting is operator[]); then the tasks run and the ESP greets.     *)
StartTasks ==
  /\ boot = "connect"
  /\ connecting["init"] = "no"
  /\ boot' = "greet"
  /\ settings' = [settings EXCEPT !["WEB_TOKEN"] = IF @ = Missing THEN "" ELSE @]
  /\ versions' = versions \cup {settings'}
  /\ UNCHANGED <<settings_file, mount_tries, handler, unsaved, driverVars, connectVars,
                 timerVars, net_left>>

InitEnds ==
  /\ boot = "greet"
  /\ boot' = "run"
  /\ reconnect_timer' = IF connected_bit THEN "none" ELSE "started"
  /\ UNCHANGED <<settings_file, mount_tries, settingVars, driverVars, connectVars,
                 passed, replaced, net_left>>

PowerCut ==
  /\ SpendNet("resets")
  /\ Reset
  /\ settings_file' \in {settings_file}
       \cup (IF handler.at = "write" THEN {Torn("in text"), Torn("after comma")} ELSE {})
  /\ unsaved' = (unsaved \/ handler.at # "idle")
  /\ UNCHANGED <<versions>>

----------------------------------------------------------------------------
(* handle_uart_data_task: WIFI, SERVER and API.                            *)

Tasks == boot \in {"greet", "run"}
HandlerAt(point) == Tasks /\ handler.at = point

First(m) == CASE m.type = "WIFI" -> "WIFI_SSID"
              [] m.type = "SERVER" -> "WEB_DOMAIN"
              [] m.type = "API" -> "WEB_TOKEN"
Second(m) == CASE m.type = "WIFI" -> "WIFI_PASSWORD"
               [] m.type = "SERVER" -> "WEB_PORT"

(* set_setting refuses an empty value.                                     *)
Set(map, key, value) == IF value = "" THEN map ELSE [map EXCEPT ![key] = value]

(* What the whole message makes of the settings.                           *)
Effect(map, m) ==
  LET once == Set(map, First(m), m.content[1])
  IN IF m.type = "API" THEN once ELSE Set(once, Second(m), m.content[2])

(* The message is acknowledged before anything is done.                    *)
MessageArrives ==
  /\ HandlerAt("idle")
  /\ SpendNet("messages")
  /\ \E m \in SettingsMessages : handler' = [at |-> "set first", msg |-> m]
  /\ UNCHANGED <<bootVars, settings, versions, unsaved, driverVars, connectVars,
                 timerVars>>

Assign(key, value) ==
  /\ settings' = Set(settings, key, value)
  /\ replaced' = IF reconnect_timer = "running" /\ value # "" THEN replaced \cup {key}
                 ELSE replaced
  /\ UNCHANGED <<bootVars, unsaved, driverVars, connectVars, reconnect_timer, passed,
                 net_left>>

(* Mutant: the first half of a pair is saved before the second is set.     *)
SetFirstAndSave ==
  /\ HandlerAt("set first")
  /\ Assign(First(handler.msg), handler.msg.content[1])
  /\ versions' = versions \cup {Effect(settings, handler.msg)}
  /\ handler' = [handler EXCEPT !.at = "save"]

SetFirst ==
  /\ HandlerAt("set first")
  /\ Assign(First(handler.msg), handler.msg.content[1])
  /\ versions' = versions \cup {Effect(settings, handler.msg)}
  /\ handler' = [handler EXCEPT !.at = IF handler.msg.type = "API" THEN "save"
                                       ELSE "set second"]

SetSecond ==
  /\ HandlerAt("set second")
  /\ Assign(Second(handler.msg), handler.msg.content[2])
  /\ handler' = [handler EXCEPT !.at = "save"]
  /\ UNCHANGED versions

(* save_all_settings reads every key with at(), which throws for the       *)
(* certificate that the defaults do not have.                              *)
SaveAborts ==
  /\ HandlerAt("save")
  /\ \E k \in Keys : settings[k] = Missing
  /\ Reset
  /\ unsaved' = TRUE
  /\ UNCHANGED <<settings_file, versions, net_left>>

(* write_file opens with "w", which empties the file first.                *)
SaveOpens ==
  /\ HandlerAt("save")
  /\ \A k \in Keys : settings[k] # Missing
  /\ settings_file' = Torn("in text")
  /\ handler' = [handler EXCEPT !.at = "write"]
  /\ UNCHANGED <<boot, mount_tries, settings, versions, unsaved, driverVars, connectVars,
                 timerVars, net_left>>

(* What fclose returns is not looked at (sd-card.cpp:153): a file that     *)
(* fails there counts as saved, and is left out here.                      *)
SaveWrites ==
  /\ HandlerAt("write")
  /\ settings_file' = Whole(settings)
  /\ unsaved' = FALSE
  /\ handler' = [handler EXCEPT !.at = "apply"]
  /\ UNCHANGED <<boot, mount_tries, settings, versions, driverVars, connectVars,
                 timerVars, net_left>>

(* The file cannot be opened, or takes only part of the text: a diagnosis  *)
(* is queued, and the new settings are used all the same.                  *)
SaveFails ==
  /\ \/ HandlerAt("save") /\ settings_file' = settings_file
     \/ HandlerAt("write") /\ settings_file' \in {Torn("in text"), Torn("after comma")}
  /\ \A k \in Keys : settings[k] # Missing
  /\ SpendNet("card_faults")
  /\ unsaved' = TRUE
  /\ handler' = [handler EXCEPT !.at = "apply"]
  /\ UNCHANGED <<boot, mount_tries, settings, versions, driverVars, connectVars,
                 timerVars>>

(* WIFI connects; the others rebuild the text of the GET request.          *)
Apply ==
  /\ HandlerAt("apply")
  /\ IF handler.msg.type = "WIFI"
       THEN /\ connecting' = [connecting EXCEPT !["handler"] = "lock"]
            /\ handler' = [handler EXCEPT !.at = "connecting"]
       ELSE handler' = [at |-> "idle", msg |-> Missing] /\ UNCHANGED connecting
  /\ UNCHANGED <<bootVars, settings, versions, unsaved, driverVars, wifi_mutex, retries,
                 timerVars, net_left>>

Applied ==
  /\ HandlerAt("connecting")
  /\ connecting["handler"] = "no"
  /\ handler' = [at |-> "idle", msg |-> Missing]
  /\ UNCHANGED <<bootVars, settings, versions, unsaved, driverVars, connectVars,
                 timerVars, net_left>>

----------------------------------------------------------------------------
(* WirelessHandler::connect.                                               *)

SettingsAccount == <<settings["WIFI_SSID"], settings["WIFI_PASSWORD"]>>

(* What strncpy reads: the strings the caller passed.  The timer passes    *)
(* pointers it took before the mutex; a setting assigned since may be read *)
(* as it was, as it is, or as freed memory.                                *)
Read(caller, i, key) ==
  IF caller = "timer" /\ key \in replaced
    THEN {passed[i], settings[key], "junk"} ELSE {settings[key]}

(* esp_wifi_start posts START only to a radio that is off; a link that is  *)
(* up stays up on the old network.                                         *)
ConnectLocks(c) ==
  /\ connecting[c] = "lock"
  /\ wifi_mutex = "none"
  /\ wifi_mutex' = c
  /\ retries' = 0
  /\ config' \in {<<s, p>> : s \in Read(c, 1, "WIFI_SSID"), p \in Read(c, 2, "WIFI_PASSWORD")}
  /\ radio' = IF radio = "off" THEN "idle" ELSE radio
  /\ wifi_events' = IF radio = "off" THEN Append(wifi_events, "START") ELSE wifi_events
  /\ connecting' = [connecting EXCEPT ![c] = "wait"]
  /\ UNCHANGED <<bootVars, settingVars, connected_bit, timerVars, net_left>>

(* ESP_ERROR_CHECK of esp_wifi_set_config: the driver may refuse a new     *)
(* configuration while it connects.                                        *)
ConnectAborts(c) ==
  /\ connecting[c] = "lock"
  /\ wifi_mutex = "none"
  /\ radio = "connecting"
  /\ Reset
  /\ unsaved' = (unsaved \/ handler.at # "idle")
  /\ UNCHANGED <<settings_file, versions, net_left>>

Return(c) ==
  /\ wifi_mutex' = "none"
  /\ connecting' = [connecting EXCEPT ![c] = "no"]

(* The bit is not cleared by the wait, and may be that of the network      *)
(* before.                                                                 *)
ConnectReturns(c) ==
  /\ connecting[c] = "wait"
  /\ connected_bit
  /\ Return(c)
  /\ UNCHANGED <<bootVars, settingVars, driverVars, retries, timerVars, net_left>>

Post(e) ==
  /\ Len(wifi_events) < MaxEvents
  /\ wifi_events' = Append(wifi_events, e)

(* esp_wifi_disconnect and esp_wifi_connect after five seconds.  Once the  *)
(* link is up, its address and the callbacks take less than that.          *)
WaitTimesOut(c) ==
  /\ connecting[c] = "wait"
  /\ ~connected_bit
  /\ radio # "up"
  /\ IF radio = "connecting" THEN Post("DISCONNECTED") ELSE UNCHANGED wifi_events
  /\ radio' = "connecting"
  /\ UNCHANGED <<bootVars, settingVars, config, connected_bit, timerVars, net_left>>

(* Mutant: the retries are not counted.                                    *)
RetryUncounted(c) ==
  /\ WaitTimesOut(c)
  /\ UNCHANGED connectVars

Retry(c) ==
  /\ WaitTimesOut(c)
  /\ retries' = retries + 1
  /\ IF retries < 2 THEN UNCHANGED <<wifi_mutex, connecting>> ELSE Return(c)

----------------------------------------------------------------------------
(* The reconnect timer.                                                    *)

TimerRings ==
  /\ reconnect_timer = "started"
  /\ reconnect_timer' = "running"
  /\ passed' = SettingsAccount
  /\ replaced' = {}
  /\ connecting' = [connecting EXCEPT !["timer"] = "lock"]
  /\ UNCHANGED <<bootVars, settingVars, driverVars, wifi_mutex, retries, net_left>>

TimerEnds ==
  /\ reconnect_timer = "running"
  /\ connecting["timer"] = "no"
  /\ reconnect_timer' = IF connected_bit THEN "none" ELSE "started"
  /\ passed' = <<Missing, Missing>>
  /\ replaced' = {}
  /\ UNCHANGED <<bootVars, settingVars, driverVars, connectVars, net_left>>

----------------------------------------------------------------------------
(* The driver and the callbacks.                                           *)

DriverConnects ==
  /\ radio = "connecting"
  /\ config \in AcceptedAccounts
  /\ radio' = "up"
  /\ Post("GOT_IP")
  /\ UNCHANGED <<bootVars, settingVars, config, connected_bit, connectVars, timerVars,
                 net_left>>

DriverRefused ==
  /\ radio = "connecting"
  /\ config \notin AcceptedAccounts
  /\ radio' = "idle"
  /\ Post("DISCONNECTED")
  /\ UNCHANGED <<bootVars, settingVars, config, connected_bit, connectVars, timerVars,
                 net_left>>

LinkLost ==
  /\ radio \in {"connecting", "up"}
  /\ SpendNet("outages")
  /\ radio' = "idle"
  /\ Post("DISCONNECTED")
  /\ UNCHANGED <<bootVars, settingVars, config, connected_bit, connectVars, timerVars>>

(* Mutant: a lost link is left to the timer.                               *)
EventHandledNoRetry ==
  /\ wifi_events # <<>>
  /\ wifi_events' = Tail(wifi_events)
  /\ connected_bit' = CASE Head(wifi_events) = "GOT_IP" -> TRUE
                        [] Head(wifi_events) = "DISCONNECTED" -> FALSE
                        [] OTHER -> connected_bit
  /\ radio' = IF Head(wifi_events) = "START" /\ radio = "idle" THEN "connecting" ELSE radio
  /\ UNCHANGED <<bootVars, settingVars, config, connectVars, timerVars, net_left>>

(* ip_event_cb and wifi_event_cb: WIFI_RETRY_ATTEMPTS is always positive.  *)
(* esp_wifi_connect does nothing to a radio that connects or is up.        *)
EventHandled ==
  /\ wifi_events # <<>>
  /\ wifi_events' = Tail(wifi_events)
  /\ connected_bit' = CASE Head(wifi_events) = "GOT_IP" -> TRUE
                        [] Head(wifi_events) = "DISCONNECTED" -> FALSE
                        [] OTHER -> connected_bit
  /\ radio' = IF Head(wifi_events) # "GOT_IP" /\ radio = "idle" THEN "connecting" ELSE radio
  /\ UNCHANGED <<bootVars, settingVars, config, connectVars, timerVars, net_left>>

----------------------------------------------------------------------------
BootStep == \/ MountCard \/ MountFails \/ ReadAborts \/ ReadSettings
            \/ RadioInit \/ RadioFails \/ StartTasks \/ InitEnds
HandlerStep == \/ SetFirst \/ SetSecond \/ SaveAborts \/ SaveOpens \/ SaveWrites
               \/ SaveFails \/ Apply \/ Applied
ConnectStep(c) == \/ ConnectLocks(c) \/ ConnectAborts(c) \/ ConnectReturns(c) \/ Retry(c)
TimerStep == TimerRings \/ TimerEnds

NetNext ==
  \/ BootStep \/ PowerCut
  \/ MessageArrives \/ HandlerStep
  \/ \E c \in Callers : ConnectStep(c)
  \/ TimerStep
  \/ DriverConnects \/ DriverRefused \/ LinkLost \/ EventHandled

(* Tasks, callbacks and timer get the processor; a card that does not      *)
(* mount or a radio that does not start will, in the end.                  *)
(* An access point that accepts the account answers sooner or later,       *)
(* however often the attempt is broken off.                                *)
NetFairness ==
  /\ WF_netVars(MountCard) /\ SF_netVars(RadioInit)
  /\ WF_netVars(ReadAborts \/ ReadSettings \/ StartTasks \/ InitEnds)
  /\ WF_netVars(HandlerStep) /\ WF_netVars(TimerStep)
  /\ \A c \in Callers : SF_netVars(ConnectStep(c))
  /\ WF_netVars(EventHandled) /\ WF_netVars(DriverRefused)
  /\ SF_netVars(DriverConnects)

----------------------------------------------------------------------------
NetTypeOK ==
  /\ boot \in {"off", "mount", "read", "radio", "connect", "greet", "run"}
  /\ mount_tries \in 0..2 /\ retries \in 0..3
  /\ DOMAIN settings = Keys
  /\ radio \in {"off", "idle", "connecting", "up"}
  /\ Len(wifi_events) <= MaxEvents
  /\ wifi_mutex \in Callers \cup {"none"}
  /\ \A c \in Callers : connecting[c] = "wait" <=> wifi_mutex = c
  /\ reconnect_timer \in {"none", "started", "running"}

(* Whatever is cut off or fails, the settings file, when its CRC fits, and *)
(* the settings of an ESP between two messages are the work of whole       *)
(* messages, never of one half of a pair; and once a save has succeeded    *)
(* the file holds the very settings in use until the next message          *)
(* (sd-card.cpp save_all_settings, tasks.cpp WIFI, SERVER, API).           *)
WholeMessages ==
  /\ settings_file.kind = "whole" => settings_file.map \in versions
  /\ HandlerAt("idle") => settings \in versions
  /\ HandlerAt("idle") /\ ~unsaved => settings_file = Whole(settings)

(* Every boot ends with the tasks running, whatever card, network and      *)
(* power do, unless the file was cut right after a comma: then check_crc   *)
(* aborts in every boot (sd-card.cpp:385).                                 *)
Boots == []<>(boot \in {"off", "run"} \/ CrcThrows(settings_file))

(* An ESP whose settings the access point accepts is online for good once  *)
(* the link is no longer lost, by callback, retry or timer, unless the     *)
(* timer has left the driver with another account than the settings'       *)
(* (wireless.cpp connect and callbacks, tasks.cpp:200).                    *)
Online ==
  <>[](boot = "run" /\ SettingsAccount \in AcceptedAccounts)
    => <>[](connected_bit /\ radio = "up") \/ <>[](config # SettingsAccount)
=============================================================================

# Stargazer: models, checks and proofs

This directory holds TLA+ modules that model the Stargazer firmware and its web
server, the TLC configurations that check them on small instances, and theorems
about the Pico, the ESP, the server and the system they form that TLAPS proves
for every instance. `PROJECT.json` lists every run, theorem, known hazard and
finding, and maps each definition to the source lines it models.

## 1. The system

Three programs cooperate to photograph celestial objects:

```
   user --USB--> Pico  <---UART--->  ESP32-CAM  <---HTTP--->  web server
                  |                     |                       |
        motors, opto forks,        camera, SD card         SQLite, images
        RTC alarm, GPS
```

A command (an object, a position, an id) is created at the web server. The ESP
fetches it and sends INSTRUCTIONS to the Pico. The Pico computes when and where
to point, reports CMD_STATUS, sleeps until its alarm, calibrates the axes, turns
them, and sends PICTURE. The ESP waits ten seconds, takes the picture,
acknowledges it, and uploads the image. The Pico then releases the motors.

### Inventory

**Pico controller** (`pico/src/controller.cpp`)
- State: `state`, `commands` (sorted vector), `instr_msg_queue`,
  `send_msg_queue`, `msg_queue`, `last_sent`, `current_command`, the flags
  `check_motor`, `waiting_for_camera`, `double_check`, `trace_started`,
  `trace_pause`, the counter `now_commands`.
- Operations: a round of `run` (config mode, `sanitize_commands`, one case of
  the switch), `init`, `comm_process`, `instr_process`, `motor_control`,
  `trace`, `config_mode`.
- Hard: alarm, opto and UART interrupts between any two steps. Several flags and
  `state` encode one thing. Answers carry no reference to what they answer.
- Correct when: one capture at a time; the camera still while its picture is
  awaited; no accepted command lost or served twice; a trace ends; a wait ends.

**Pico clock** (`pico/src/hardware/clock.cpp`)
- State: RTC, `synced`, one alarm, `alarm_wakeup` (set by the interrupt).
- Operations: `update`, `add_alarm`, `clear_alarm`, `alarm_handler`.
- Hard: the alarm is re-armed in every round and may ring again in its second.

**Pico motors** (`pico/src/devices/motor-control.cpp`, `stepper-motor.cpp`)
- State: calibrated and calibrating flags per axis, motion, step counters.
- Operations: `calibrate`, `turn_to_coordinates`, `off`, `calibration_handler`.
- Hard: the forks' interrupts come one by one, and `off` may fall between them.

**Messages and UART** (`common/src`, `pico/src/commbridge.cpp`, `hardware/uart`)
- State: receive and transmit rings, `string_buffer`.
- Operations: conversion with CRC, parsing, buffered reads and writes.
- Hard: bytes lost by full rings, messages split over reads, rings shared by the
  loop and the interrupt handler.
- Correct when: what `write` accepts leaves in order and all of it leaves; nothing
  is taken for a message that was not sent; cuts between reads change nothing.

**Pico planet finder and dates** (`planet_finder.cpp`, `date_utils.cpp`)
- State of a search: three dates and altitudes, the times found, and a trace.
- Hard: dates wrap at the ends of days and months; "not found" is a year of -1
  that arithmetic goes on with.
- Correct when: a time that is found is a date, in the future, and the zenith is
  one; a trace has its points an hour apart.

**Pico GPS** (`devices/gps.cpp`)
- State: a sentence put together over several reads, the position, the mode.
- Hard: reads cut sentences anywhere, a full ring drops bytes.
- Correct when: a fix is found once there are satellites.

**ESP tasks** (`esp32-cam/src/tasks.cpp`, `espPicoUartCommHandler.cpp`)
- State: the received queue (5), the request queue (10), `waitingForResponse`
  and `espInitMsgSent` shared by tasks, the reused request, the response buffer.
- Operations: `init_task`, `uart_read_task`, `handle_uart_data_task`,
  `send_request_to_websrv_task`, two timers.
- Hard: two tasks wait on one flag; messages are discarded during a wait; queues
  overflow; a failing step leaves earlier steps done.
- Correct when: waits end, messages are handled, reports are true.

**ESP settings and Wi-Fi** (`sd-card.cpp`, `wireless.cpp`, `tasks.cpp`)
- State: `settings.txt` with its CRC, the settings in memory, the driver, its
  events, the connected bit, `wifi_mutex`, the reconnect timer.
- Operations: mounting, reading and saving settings; `connect`; two callbacks;
  the messages WIFI, SERVER and API.
- Hard: power cuts and failing writes; three callers of `connect`; callbacks and
  retries that break off each other's attempts; pointers into changing settings.
- Correct when: settings are never half of a message; every boot ends; an ESP
  with a good account is online in the end.

**ESP services** (`requestHandler`, `camera`, `jsonParser`, `timesync-lib`):
sockets, drivers, parsers.

**Web server: commands, images, keys** (`webserver/src/api`, `web`, `keys.rs`)
- State: tables of keys, commands, images and diagnostics, files of images.
- Operations: fetch, respond, upload, diagnostics; pages that make and remove keys
  and commands and list them; `check_images` at start-up.
- Hard: no handler uses a transaction, requests overlap, a restart cuts them
  short, and the numbers of removed rows come back.
- Correct when: a finished command stays finished, a completed one has its
  picture, a fetched one was handed out, and lists agree with their counts. (The
  code does not quite: see section 5 for the types of images and the filters.)

**Web server: users and sessions** (`webserver/src/auth`, `init/setup.rs`)
- State: the table of users, sessions, how far the first setup came.
- Correct when: there is always a superuser, and an account is its owner's.

**Not part of the running system's state**: Python prototypes, 3D models,
browser scripts, tests.

## 2. Modules

| module | models | used by |
|---|---|---|
| `Protocol` | message types and constructors, the two directions of the UART | all |
| `Clock` | RTC, alarm, its interrupt | `PicoController` |
| `MotorControl` | calibration, turning, opto interrupts | `PicoController` |
| `PicoController` | the Pico's loop and handlers | `PicoAlone`, `Stargazer` |
| `CommandLife` | what is promised of a command: its reports and what is shown (abstract) | `PicoAlone`, `Stargazer` |
| `PicoAlone` | the Pico with any ESP and any user | `PicoPrompt`, `PicoProofs` |
| `PicoPrompt` | the Pico with infinitely fast code and a friendly ESP | |
| `CommandTable` | statuses at the server and the device's requests | `EspTasks` |
| `EspTasks` | tasks, timers and queues of the ESP | `EspAlone`, `Stargazer` |
| `EspAlone` | the ESP and server with any Pico | |
| `Stargazer` | the whole system | |
| `ControllerProofs` | lemmas about `PicoController`: types, counting, chances, the history of a command, one capture | `PicoProofs`, `StargazerProofs` |
| `PicoProofs` | the theorems about `PicoAlone` | |
| `TaskProofs` | lemmas about `EspTasks`: what the queues carry, how a status changes | `EspProofs`, `StargazerProofs` |
| `EspProofs` | the theorems about `EspAlone` | |
| `StargazerProofs` | the theorems about `Stargazer` | |
| `Bytes` | the constants of a ring | `RingBuffer`, `PicoUart` |
| `BoundedFifo` | what a byte buffer promises (abstract) | `RingBuffer` |
| `RingBuffer` | `RingBuffer.cpp` | `PicoUart` |
| `PicoUart` | a UART: rings, interrupt handler, `write`, `read`, hardware FIFOs | `SerialLink` |
| `SerialLink` | messages as bytes: CommBridge, the wire, the ESP's driver and reader | |
| `RingProofs` | the theorems about `RingBuffer` | |
| `UartProofs` | the theorems about `PicoUart` and `SerialLink` | |
| `EspNetwork` | the ESP's boot, settings file and Wi-Fi | |
| `WebServer` | tables and files of the server, requests statement by statement | |
| `WebUsers` | accounts and sessions | |
| `ServicesProofs` | the theorems about `WebUsers`, `WebServer`, `EspNetwork`, `PlanetFinder` with `Dates`, and the types of `MCServices` | |
| `Dates` | `date_utils.cpp` and the number of a day | `PlanetFinder` |
| `PlanetFinder` | the search for rise, zenith and set, and traces | |
| `Gps` | `locate_position` and `parse_output` | |
| `MC*` | instances for TLC | |

### State and actions against the code

*One round of the Pico.* `pc` says which part of a round is next: `top`
(config mode, then `sanitize_commands`), `switch` (one case of the switch),
`drain` (the loop of `comm_process`, one message per step), `config` (waiting in
`config_wait_for_response`), `boot` and `locate` (the halves of `init`),
`initDrain` (`comm_process` called from `init`). Interrupts fall between these
steps. Code between two of these points touches shared state with the interrupts
only at its end or its beginning, so a finer grain shows nothing new.

*COMM_READ* falls through COMM_SEND and CHECK_QUEUES in the code and is one
action, `CommRead`. The order of CHECK_QUEUES is `NextState`.

*`waiting_for_response`* is not a variable of the model: the code assigns it
only FALSE (`controller.cpp:214`, `221`), so the branch at 211 to 216 never runs.

*Time* is a number of seconds. `Sorted` is `std::sort`, which may leave commands
of equal time in either order: both are tried. A command's coordinates are its
id; `aim` is the command whose coordinates the axes were last turned to. The time a
timed instruction gets may have passed already, as it does when a search crosses the
end of a month (`InstrTimed`).

*`told`* is a history variable: the reports made of each command. `Requested`
in it stands for the PICTURE message.

*A wait of the ESP* (`send_msg_and_wait_for_response`) is `BeginWait`, up to
`RETRIES` steps `Attempt`, and `EndWait`, with all other tasks free to run in
between. As in the code its success is judged by the number of attempts alone.
The ten seconds before a picture lie between `HandlePicture` and `TakePicture`.

*`handling`* and *`serving`* hold what a task works on while others run.
`response_buffer` is what the last HTTP answer left in the web task's buffer: a
bare JSON object (the status line has been cut off), a text with status 200,
another text with a status line, or nothing.

*Restarts.* `PicoRestarts` (in `Stargazer`) and `EspRestarts` (in `EspAlone`) put a
device's variables back to those of its start and lose what was in its buffers;
the server keeps its table.

*The UART.* `handler` is where the interrupt handler is and `loop` where the main
loop is; the loop stands still while the handler runs. The transmit interrupt is
raised by the transition of its FIFO through the level (`txris`), as in the
hardware, and not by the level itself: hence the initial filling in `write`
(`Prime`). `accepted` and `line` are histories. In `SerialLink` a message is three
tokens, its `$`, its text with the CRC, and its `;`; a text that is not one of
`Texts` stands for one whose CRC is wrong. `Appended` is `CommBridge::read`, whose
full chunk has no terminating zero: what follows in memory is any token. A message of
more than `LongestCommand` tokens ends the ESP's search for more (-4); in the run no
token is damaged on the way to the ESP without an event, and the three of a message are
never more, so that this branch is there for the proofs only.

*The ESP's settings.* A file is absent, whole, or torn: cut "in text", so that its
CRC does not fit, or "after comma", where `stoi` throws. `handler.at` follows the
code of a message: the first setting, the second, the save (open, write), what
comes of it. `connecting` has the place of each caller of `connect`.

*The server.* A request is a record in `requests`: which statement is next and
what it has read. `overtaken`, `reused`, `serial` and `handed` are histories that
say which request met a row that had changed, and which command was handed out;
`dropped` says whose image a restart took off the table with its file still there. A
path is the second and the command in its name, and its extension, one of the
`ImageTypes` devices send. A filter of the list is a type from 0 to 6 and a value;
`Listed` hands value and page to `get_commands` as the code does, the wrong way round
for types 5 and 6.

*Dates.* Records of five fields, computed as the code does; `day_number` is the
calendar (mktime) against which they are checked. Altitude is a triangle wave
over the number of the day and the time: the search sees only which of three
altitudes is higher and their signs.

*The GPS.* A sentence is its message id, two fields and the end of its line.

*Loss.* `Transmit` and `send_data` drop a message that does not fit, `ReadCut`
loses one in the middle of a read, `ReadWhileWaiting` discards one, `Enqueue`
drops what a full queue refuses.

## 3. Runs

"noise" is the number of messages and user inputs other than instructions.

| run | question | instance |
|---|---|---|
| `controller_safety` | Do the flags and the state of the Pico agree whatever arrives? | 2 commands (symmetric), seconds 0 to 2, noise 1, release build |
| `controller_trace` | Does a trace end? | 1 command, traces of up to 2 hours, noise 2, debug build |
| `timed_command` | Is a timed command kept during its calibration? (no) | 1 command, calibration of 2 s |
| `esp_tasks` | Do waits and queues of the ESP drain? Does a finished command stay finished? | 1 command, 2 messages, queues of 1 and 2, 2 retries, all failures, one restart of the ESP |
| `startup` | Does the handshake end, also after the Pico restarts? | queues and buffers of one message, one restart |
| `service` | Is what the server shows true, with one picture per command? | 2 commands, no polls, 2 rings of the timers, all failures, queues of 1 and 2 |
| `delivery` | Does an accepted command end with its picture? | 1 command, room for every message, no faults |
| `wrong_photo` | Does the camera stay on the target until the picture is taken? (no) | 2 commands for now |
| `camera_wedge` | Does the wait for a picture end? (no) | 2 commands for now, no faults |
| `false_alarm` | Is an accepted report taken as accepted? (no) | 1 command |
| `uart` | Do bytes and messages cross the UART whatever interleaves? | rings of 4, FIFOs of 2, four plans of up to 3 messages, one disturbance |
| `services` | Do the parts beside the core keep what they hold? | see below |

`services` has five initial families; each switches one module on, as the modules
share no variable:

- `EspNetwork`: no file or a whole one; one message out of four; either a power
  cut and a failing save, or a loss of the link.
- `WebServer`: two devices and one page at a time, up to two keys, two commands,
  two device requests and one restart, in three mixtures; images of a type that
  setup looks for (jpg) and of one that it does not (gif).
- `WebUsers`: two people, one name, four passwords, one restart.
- `PlanetFinder`: the code's own constants (10 minutes, 288 rounds, 120
  refinements), four starts (an ordinary day, the end of April, the end of
  February in a leap year, New Year's Eve), five bodies (two of about a day, one
  slow, one that never sets, one that is away for days), traces of up to 60 points.
- `Gps`: a ring of 4 tokens, 8 reads, 2 or 3 tokens per sleep.

What they show:

- `OneCapture`, `CameraOnTarget`: the Pico's own bookkeeping is right. It never
  moves the camera while *it believes* a picture is being taken. `wrong_photo`
  shows that this belief may be wrong: any ACK ends it.
- `NotLost`, `ServedOnce`: an accepted command is in exactly one place.
- `KeepsPromise` is the refinement of `CommandLife`: a command is handed out once and
  answered once; one whose time was found is discarded or photographed, not both; the
  website shows only what was reported and stops at the first final status, but for
  the picture. In `controller_safety` it is checked of the Pico with time that
  passes, where a late command blames the one served before (`controller.cpp:715`):
  the mapping takes a command as shown once its instruction was given. In `service`
  it is checked of the two devices and the server together.
- `TraceEnds`: progress of a trace. The one exception, a Pico that waits for a
  picture for ever, is what `camera_wedge` shows.
- `WaitEnds`, `Handled`: the shared flag is lowered again and the handler comes
  back to its queue, whichever task's timeout or ACK comes first.
- `EndIsFinal`: no late or stale report reopens a command.
- `StartsUp`: with the smallest buffers each side often drops what the other
  needs, and start-up still ends.
- `Truthful`, `OnePicture`: nothing on the way, however lossy, invents or
  multiplies. They hold with all failures switched on.
- `Delivered`: without loss and with one command the misattributed ACKs do no
  harm. With two they do (`camera_wedge`).

- `Conserved`, `NoLostWakeup`, `AllSent`: `write` fills the ring with interrupts
  enabled and the handler switches itself off, and still no byte is lost,
  reordered or left behind. `RingsAreFifos` is the refinement: each ring inside
  `PicoUart` implements `BoundedFifo`.
- `CutsDoNotMatter`: parsing piece by piece with `string_buffer` finds what a
  parser of the whole stream (`Streamed`, the reference definition) finds.
  `NothingInvented`: whatever is lost, cut or joined, what either side takes for
  messages is a subsequence of what was sent. `AllParsed`: an undamaged stream is
  parsed in full.
- `WholeMessages`: settings are those of whole messages, in memory and on the
  card. `Boots`, `Online`: progress, with one stated exception each.
- `CompletedHasPicture`, `FetchedWasHanded`, `OnceUnlessRace`, `ListingAgrees`: the
  tables against each other and against the files. The exceptions in them are
  narrow: a number that was reused, a request that was overtaken, an image whose
  row a restart dropped for its type, a filter by status or key with another value
  than the page. The last two are findings (section 5): without them both
  properties are violated, the first by a gif and a restart, the second by the first
  page of any status but 0.
- `AlwaysAdmin`, `OwnAccounts`: the pages, in any order and overlapping, neither
  remove the last superuser nor give an account to another person.
- `FoundDates`, `ZenithIsTop`: what the search finds, against the calendar.
- `FixFound`: wherever reads cut, a fix comes once there are satellites.

Every property of a passing run has a mutant in `PROJECT.json`: a plausible bug
in one mapped definition with which TLC finds that property violated.

### Bounds, and why they are enough

- Two commands: all misbehaviour concerns one command disturbing another.
- Three seconds: early, due, and more than a second late are distinct, with
  `Window` and `StaleAfter` at 1. In the code they are 300 s and 1 s; the models
  need only their order to the period. `timed_command` has `Window` 3 and
  `StaleAfter` 1, so that the discard is not due to the window.
- Queues of one or two entries instead of 5 and 10: overflow is reached at once.
- `MaxTime` 0 in the composed runs: all commands are for now, and alarms are left
  to the runs of the Pico alone.
- The types of the Pico and of the ESP are checked in the composed run `service`, which
  conjoins both invariants, and proved of each alone.
- Receive and link capacity: 1 where loss is to happen, 3 where one command's
  messages must all fit (`delivery`), 6 where two commands' must (`wrong_photo`,
  `camera_wedge`), so that neither counterexample rests on a lost message.
- Noise of one in `controller_safety`, beside two commands given by the server or
  by the user at any moment, every alarm, and rounds in any order with them.
- Deadlock is not checked: the clock stops at `MaxTime` and the environment runs
  out of commands, messages and timer rings, so every instance comes to rest.

- Restarts: one. A second finds a device in states the first can also find it in.
  In `startup` the Pico restarts after start-up only; `EspRestarts` comes at any
  step. The larger composed runs have none.
- `uart`: rings of 4 wrap and overflow with one message of three tokens; FIFOs of 2
  with a level of 1 have all transitions of the interrupt; chunks of 3 are filled
  exactly by a message; the event queue and the ESP's buffer overflow with two.
- `services`: a second message, key or request of a kind adds interleavings of the
  same statements only. Each mixture of a budget was chosen so that every action
  and every exception of a property occurs.

### Fairness

The Pico's loop never blocks for ever: `WF(Loop)`. Every FreeRTOS task that can
run is run: weak fairness per task. Moving axes reach their angle and
calibrating axes their fork. `TraceTurn` and `TraceEnd` are strongly fair: the
second of pause runs out while rounds go on, since every round takes time.
In `startup`, strong fairness stands for what the code repeats without end: the
Pico asks for the time every 20 s (`commbridge.cpp:139`), a GPS fix comes at
last, the timer for the time rings until the time is known. No fairness is
assumed of a user, of polls, or of failures, and no bound on how often they
come, except in `delivery` and `camera_wedge`, which have no failures.

`uart`: the hardware shifts and delivers, the handler runs when it is raised, the
loop goes on, and the ESP reads its events. `[]<>` that the loop of
`read_and_parse` has ended when nothing more arrives stands for the fairness of
that step. `EspNetwork`: tasks, callbacks and the timer get the processor (weak
fairness); a caller of `connect` gets the mutex sooner or later, a radio starts in
the end, and an access point that accepts the account answers sooner or later,
however often an attempt is broken off (strong fairness: these are the claims
about the outside that `Online` and `Boots` rest on). A link that is up has its
address before the five seconds of a wait are over. `Gps`: a receiver that is on
keeps sending, the loop keeps calling. Nothing is assumed of messages, power cuts,
outages or users.

## 4. Proofs

### The Pico's controller

`PicoProofs` proves about `PicoAlone`, for any set of commands, any period, any
capacity and any amount of noise:

| theorem | assumption beyond the constants' types |
|---|---|
| `TypeCorrect`: `[]TypeOK` | none |
| `OneCaptureAlways`: `[]OneCapture` | release build (`~DebugBuild`) |
| `CameraOnTargetAlways`: `[]CameraOnTarget` | release build |
| `NotLostAlways`: `[]NotLost` | release build |
| `ServedOnceAlways`: `[]ServedOnce` | none |
| `PicoKeepsPromise`: `KeepsPromise` | none |

`TypeCorrect` is inductive by itself and proved per group of variables. It needs
`SortedProperties`: sorting yields a sequence of the same commands.

`OneCapture` and `CameraOnTarget` are not inductive: they relate two flags,
which are set in cases of the switch that were chosen one or more rounds
earlier. `CaptureInv` adds what the states promise: SLEEP without
`double_check`, MOTOR_CALIBRATE and MOTOR_CONTROL mean that no capture is under
way, MOTOR_CONTROL that no axis calibrates, MOTOR_WAIT that `check_motor` is set,
and that a state overwritten by `comm_process` comes with `double_check`, so that
the following SLEEP cannot take an alarm for its own. That last conjunct is the
heart of it: an ACK or a config session may change `state` at any time, and only
`double_check` sends the loop through CHECK_QUEUES before it calibrates.

`NotLost` rests on `CaptureInv` and on lemmas about the ids in a sorted,
shortened or extended vector: when the motors finish for a command, its picture
is asked for before another command can become current.

`ServedOnce` is proved by counting. The *chances* of a command are the places from
which it may still be served or where it has been: instructions on the line, in
the inbox and in the instruction queue, entries of the vector, the motors turning
for it, and its ends in `told` (discarded, photographed). `ServingInv` says that
the chances, and one more while its instruction has not been given, never exceed
one. Every action moves a chance from one place to another or drops it:
`Chances` is a sum of counts over sequences (`Count`), and the lemmas of
`ControllerProofs` say what appending, taking the head, sorting and dropping do to a
count. The strengthening also needs that MOTOR_WAIT comes with `check_motor`
(`WaitsForMotors`), as otherwise a picture is asked for of a command nobody aimed at.

`PicoKeepsPromise` is a refinement, step by step. What the mapping needs is where a
command can be, given what was said of it (`HistoryInv`): a command whose
instruction is still on its way was never spoken of; one in the vector was told its
time; and `current_command` was told its time and either turns the motors or was
photographed. Together with the count of chances it follows that a command is in
one place only (`OnePlace`), so that a report made from a place is a step of
`CommandLife` (`LivesStep`, `Says`). The conjunct that is not obvious is that
MOTOR_CONTROL comes without `check_motor`: otherwise the report of a late command
could name one that is still waiting for its picture.

The assumption `~DebugBuild` is needed: with `debug_trace` a user replaces
`state` by TRACE during a capture, which calibrates and turns the motors. That is
outside what a release build can do.

### The UART

`RingProofs` proves of `RingBuffer`, for any size and any bytes, that it implements
`BoundedFifo` (`RingIsFifo`). The refinement mapping `Contents` is the slots from
`tail` to `head`. `PutAppends` and `GetTakesOldest` are the two facts that matter;
`FollowingSlot` replaces the modulo by two cases, which the provers can handle.

`UartProofs` proves of `PicoUart`, for rings and FIFOs of any size:

| theorem | statement |
|---|---|
| `UartTypeCorrect` | `[]UartTypeOK` |
| `NothingLost` | `[]Conserved` |
| `NeverStranded` | `[]NoLostWakeup` |
| `RingsRefineFifos` | `RingsAreFifos`, the refinement of both rings |

`Conserved` is inductive given the types: a byte moves from the end of one sequence
to the beginning of the next. `NoLostWakeup` is not: `WakeInv` adds that during
`Enable` and `Prime` interrupts are disabled and the handler does not run, and that
with the transmit interrupt enabled it is raised or the FIFO is above its level
everywhere else. Their conjunction is `UartInv`. The step that matters is
`Primed`: the initial filling ends with the FIFO full, above the level, or with
the ring empty, and then the interrupt is switched off. `RingsRefineFifos` cites
`RingIsFifo` through the instances.

### The messages on the link

`UartProofs` goes on to `SerialLink`, for any texts, any sizes of chunks, rings,
FIFOs and buffers, any plans and any number of disturbances (`LinkSpec`):

| theorem | statement |
|---|---|
| `LinkTypeCorrect` | `[]LinkTypeOK` |
| `CutsNeverMatter` | `[]CutsDoNotMatter` |
| `NeverInvented` | `[]NothingInvented` |
| `LinkUsesUart` | `LinkSpec => UartSpec` |

`LinkInv` says more than `CutsDoNotMatter`: at any time, and not only between two
reads, the state of the parser (`queue`, `string_buffer`) is that of the reference
parser `Streamed` after everything `heard` so far. What a step needs is
`ParseContinues`: `Parse` of a piece, from what was kept, ends where `Streamed` ends
that reads the piece byte by byte. Both parsers are recursive functions of a position
in a text of any length, so this is an induction over the text. The library's
induction theorems cannot be used (their predicate is an operator), so that each
induction is by the least position that fails, on a set: `LeastOf`, and from it
`GoingUp` and `GoingDown`. `OneMessage` is one turn of the loop of `parse`.

`NothingInvented` is not inductive: a message may be in any of six places on its way,
and be cut between two of them. `NothingInventedInv` joins the places to one sequence
(`Coming`: heard, read, chunk, ring, FIFO, wire; `Leaving`: got, driver's buffer, the
part of the line it has not seen, FIFO and ring, the rest of `out`) and says that its
texts are, in order, among those sent (`Within`). A step moves a byte within the
sequence, loses one, or adds one that is no text; a message sent adds its one text at
the end, and there alone. `Within` composes (`WithinTransitive`, `WithinCat`), both
parsers only take texts out (`StreamedWithin`, `ExtractedWithin`), and what a sequence
of texts has within another is a subsequence of it. For `Leaving` the proof needs
`Conserved`, which `LinkUsesUart` takes over from `NothingLost`: what the ESP has not
yet seen of the line is what is left of `accepted`.

### The ESP's tasks

`EspProofs` proves of `EspAlone`, for any commands, sizes of queues and number of
retries, with all failures and restarts, `EspTypeCorrect` (`[]TypeOK`, which bounds
both queues) and `EndIsFinalAlways` (the action property `EndIsFinal`). Both rest on
`TaskProofs`, which is stated for any two sets of messages and any set of requests
closed under what the tasks make of them (`Fits`): if the queues, the line and the
two tasks carry only members of these sets (`Carried`), a step of a task keeps it
so. `EspProofs` takes the sets of all messages and requests; `StargazerProofs` takes
the honest ones. `StatusStep` lists the ways a status can change: handed out,
reported by a request of the web task, or completed by an upload.

### The whole system

`StargazerProofs` proves of `Stargazer`, from power-on (`Spec`) and from the state
start-up leads to (`ReadySpec`), for any commands, capacities and polls, with and
without faults, timers and restarts of the Pico:

| theorem | statement |
|---|---|
| `SystemTypeCorrect` | `[]TypeOK` |
| `TruthfulAlways` | `[]Truthful` |
| `OnePictureAlways` | `[]OnePicture` |
| `KeepsPromiseAlways` | `KeepsPromise`, the refinement of `CommandLife` |
| `OneCaptureInSystem` | `[](OneCapture /\ CameraOnTarget)` of the Pico in the system, release build |

`Truthful` relates the server's table to the Pico's history, at the two ends of six
queues and variables. `SystemInv` says of everything in between that it is *honest*:
a message or a request that names a status of a command names one in `told`, and
one that carries a picture belongs to a command whose picture was asked for. The
argument has three parts: the Pico only says what it writes into `told`
(`PicoSays`), `told` only grows (`HonestGrows`), and no task of the ESP makes up or
alters what it passes on (`EspCarries`). A restart of the Pico empties queues and
leaves `told`, so it keeps the invariant.

`OnePicture` follows from `PictureInv`, for every command two sums: the queued
command at the server, the instructions on their way and the *chances* at the Pico
at most make one; and the copies of its picture, from the Pico's send queue to
the server's table, are none before it was asked for and one afterwards. The first
sum lets a picture be asked for once (`PicoCopies`), the second lets no copy be made
of it on the way (`EspCopies`). This is where the reuse of one request variable
(`tasks.cpp:676`) would show: `EspCopies` has a step per action of the tasks.

`KeepsPromiseAlways` joins the two: `HistoryInv` for the Pico's side, the sum of
`PictureInv` for the claim that a command the Pico can speak of is no longer queued,
and honesty for the website's side. `SaidInLife` maps a report to a step of the abstract
machine, `EspPromise` a change of the table: to the handing out, to one more report
shown, or to the picture. A restart of the Pico is a stutter, as it says nothing and
forgets what was coming.

`OneCaptureInSystem` uses `CaptureInv` again: the ESP reaches the variables it
speaks of only by messages, and `CaptureInvStep` holds whatever these are.

### ESP settings and Wi-Fi, web server, planet finder

`ServicesProofs` has a section for each of the four, and one for the types of all
five families of the run `services`.

*Accounts* (`WebUsers`), for any people, names and bounds. `AdminStays`,
`[]AlwaysAdmin`: `AdminInv` adds that only the row with number 1 is a superuser's,
that no request on its way removes that row (a superuser may not remove itself, and
there is no other), and how far the database is when the server starts.
`OwnAccountsAlways`, `[]OwnAccounts`: `OwnInv` adds that a session holds the hash of a
password of the person who has it, and that a request on its way that changes an
account was made by its owner, unless the account is marked as `renumbered`. That
exception is part of the property, and the invariant shows that it is the only one.

*Tables* (`WebServer`), for any devices, pages, keys, commands and budgets.

| theorem | statement | strengthening |
|---|---|---|
| `ReferencesHold` | `[]RowsOK` | rows refer to rows that exist; inductive |
| `CompletedHasPictureAlways` | `[]CompletedHasPicture` | `PicturesKept`: an upload past its file has the file, one past its row the row, and no row is without its file |
| `ListingAgreesAlways` | `[]ListingAgrees` | `RowsOK`: the join with the keys loses no row |
| `FetchedWasHandedAlways` | `[]FetchedWasHanded` | `Serials` and `Tracked` |
| `OnceUnlessRaceAlways` | `OnceUnlessRace` | `Serials` and `Tracked` |

`Tracked` says what a request between its two statements still knows: unless it was
overtaken, the command it has read is there and unchanged. `Serials` says that a
serial is given once, that a queued command was not handed out, and that a fetched
one was. `ListingAgrees` compares two computations, a count and a page cut out of
the sorted rows, with the arguments of the two as the code passes them. A row is on a page when its rank (the number of rows before it)
lies in the page's range; `RanksAreDense` shows that the ranks of n rows are exactly
0 to n - 1, as an injection of an n-element set into itself.

*Settings and Wi-Fi* (`EspNetwork`), for any messages and bounds.
`WholeMessagesAlways`, `[]WholeMessages`: `WholeInv` adds the one state in which the
settings are half of a message, between its two assignments, in which nothing
saves; and that a saved file has every setting, so that the next boot adds no
default. `NetTypeCorrect`, `[]NetTypeOK`, which bounds the retries and the queue of
events and makes the mutex exclusive: `ConnectInv` adds that a caller is in
`connect` only while its own task waits for it, so none enters twice.

*Planet finder* (`PlanetFinder`, `Dates`), for any times the clock may read, bodies,
samples, rounds and refinements. Three things have to be known of dates first.
`MinutesLater`: since no increment of `date_utils.cpp` changes the month, the minutes of
a month are a circle, and n increments of a minute lead to `Later(d, n)`, the date n
minutes on in that circle; `HourLater` says the same of an hour. `SameDay`:
`j2000_day`, the formula of the planet finder, gives the number `mktime` gives, by
taking a year apart into its cycles of 400, 100 and 4 years. `HoursBetween`: within a
month the narrowing of a difference to an int loses nothing.

`DatesInv` is the inductive invariant of a search: after so many rounds the three dates
are `Later` the start by a number of samples, and the altitudes are theirs; in a
refinement so are the minutes, the sample between is the highest of the three, and no
minute that has been passed was a peak; what was found lies within the search; the
points of a trace are hours apart. `FoundDatesAlways`, `[]FoundDates`, follows.
`ZenithIsTopAlways`, `[]ZenithIsTop`, needs one argument more (`PeakOnTheWay`): a
body that is never level has, somewhere between two samples with a higher one between
them, a minute above both its neighbours, so a refinement that covers two samples cannot
run out of minutes before it finds the peak, unless the month ends on the way, which
is the exception the property names. `LeastOf` and `UpTo` are induction in the form of
a least number that fails.

*Types* (`MCServices`). `ServicesTypeCorrect`, `ServicesSpec => []ServicesTypeOK`: the
specification of the run itself, in which each initial state switches one family on.
`ServicesInv` says of each family that it is switched off, in a state without a step,
or in order. In order is more than the types: commands are numbered from 1 and never
past what the budget allows, since a new number is the largest in use plus one
(`NumbersOK`); the page on which a user is added knows the owner (`UsersInv`); a search
that goes on has rounds left (`SkyInv`); a GPS call that reads has reads left, and its
ring holds what the receiver sends (`GpsInv`).

### Assumptions on constants

Beside the types of the constants the proofs use: `ReportsAssumption`, a device
reports neither 0 nor 1 (`controller.cpp:167`, `305`-`320`, `715`: statuses of a
report are 2 or negative); `PageSizeAssumption`, a page has at least one row (the
code has 25, `web/commands.rs`); `EventsAssumption`, the event queue has room for
one; `BudgetsAssumption` and `BoundsAssumption`, budgets and bounds are numbers;
`RoundsAssumption`, a refinement covers the two samples it starts with (the code has 120
minutes for 2 * 10) and a search is shorter than the shortest month (the code's lasts two
days); `ClockAssumption`, the clock reads dates of the calendar, as it is set from
`gmtime` (`clock.cpp:35`-`55`); `PathAssumption`, the altitude changes every minute, which
the triangle waves that stand for the planets do when their period is even;
`IdsAssumption`, a device may send the number of any command there is;
`GpsAssumption`, a call reads at least once (`gps.cpp:25`) and what arrives during one
sleep fits the ring; `LinkAssumption`, texts, delimiters, the
zero byte and a junk byte are different bytes, and sizes, the longest command's too, are numbers: the text of a
message is one token, so that one with a `$` or `;` of its own, which the code does not
escape (`message.cpp:115`), is outside the model. TLC evaluates each in the runs.

### Model-checked only

Every safety property of the passing runs is proved. What is left is all liveness:
`TraceEnds`, `WaitEnds`, `Handled`, `StartsUp`, `Delivered`, `AllSent`, `AllParsed`,
`Boots`, `Online`, `FixFound`. Fairness is outside the prover's reach.

## 5. Findings

Each of the first four is a run of its own, with a behaviour of the modelled code that
contradicts a statement of the repository; `PROJECT.json` has the quotations.

1. `timed_command`: commands for rising, zenith or setting are discarded as too
   old while the axes calibrate for them (`controller.cpp:165`).
2. `wrong_photo`: the ACK of a status report releases the motors before the
   picture is taken (`controller.cpp:226`).
3. `camera_wedge`: an instruction during the wait for a picture makes the Pico
   ignore its confirmation and wait for ever; the timeout meant for this is dead
   code (`controller.cpp:211`).
4. `false_alarm`: every accepted status report is diagnosed as refused
   (`tasks.cpp:443`).

Two more contradict the code's own comments; each is the exception a property
names, without which TLC finds it violated:

5. `ListingAgrees` (filters by status and key): `request_commands_info` calls
   `get_commands_by_status` and `get_commands_by_key` with the page first and the
   filter's value second (`web/commands.rs:728`, `741`), where both declare the
   status or key first and the page second (`172`-`176`, `214`-`218`). The list is
   filtered by the number of the page and starts at the page the value names, while
   the count beside it (`733`, `746`) is that of the filter. The comment at
   `641`-`642` says "5 = specific status, 6 = specific key (id)". For status 3, the
   first page shows the queued commands from the fourth page on.
6. `CompletedHasPicture` (images): `check_images` looks for files ending in jpg, png
   and jpeg (`init/setup.rs:81`-`88`, `images.rs:50`-`56`), while an upload stores any
   type of image under the type's own extension (`upload.rs:84`, `114`). After a
   restart the row of such an image is gone with its file still there, and its command
   stays completed without a picture in the gallery. The ESP itself sends jpeg.

Other behaviour the models reproduce and no property contradicts:

- `motor_control` reports status -3 for the previous command (`715`).
- An impossible NOW instruction leaves `now_commands` raised (`303`).
- A failed picture sends nothing to the Pico (`tasks.cpp:718`).
- A command fetched in an answer that is lost stays fetched (`commands.rs:96`).
- A wait whose ACK comes in its last ten seconds counts as failed
  (`espPicoUartCommHandler.cpp:183`).
- A build with TLS posts the last answer instead of the request
  (`tasks.cpp:438`).

ESP settings and Wi-Fi:
- An ESP without a usable settings file has no certificate, and saving throws for
  it: the next WIFI, SERVER or API message aborts, so it cannot be set up through
  the Pico (`sd-card.cpp:404`).
- A file cut right after a comma makes every boot abort (`sd-card.cpp:385`).
- `connect` returns at once on the connected bit of the network before
  (`wireless.cpp`), and a retry breaks off an attempt of the driver.
- The reconnect timer keeps pointers to settings that a message may replace; the
  driver may be left with another account than the settings'. That is the
  exception in `Online`.

Web server:
- A queued command is marked as fetched and never handed out when its number came
  back while a fetch of the command before was on its way.
- Two devices with one token can fetch the same command.
- `delete_key` panics with the commands already gone if the key has diagnostics or
  a new command; a key whose command has a picture can never be removed.
- An upload sets status 3 whatever the status was, and an image that cannot be
  registered leaves its file. A restart between the two last statements leaves a
  command with a picture in progress.
- A command that was deleted while its report was on its way is opened again.
- A restart during the first setup leaves a server without a superuser for good.
- A change on its way to a removed user may meet the next user with that number.

Planet finder:
- A search over the end of a month goes back to that month's beginning: the times
  found lie in the past, and a trace over the end of the month never starts
  (`date_utils.cpp:46`).
- A body that was not found to rise leaves the year -1; the second search starts
  there, and such a trace ends at its first point.
- A body found to rise and not to set gives a difference of centuries narrowed to
  an int, which may be a trace of more than 100,000 hours (`date_utils.cpp:139`).
- Two equal altitudes at the top let the refinement run to its limit.

GPS: lost bytes may join two sentences, no checksum is looked at, latitude and
longitude may stem from different sentences, `status` is never reset, and a
sentence that is complete at the end of a read is parsed at the next call.

## 6. Not modelled

- The arithmetic of the CRC, and the text of messages beyond their frame: in the
  composed models messages arrive whole or not at all.
- A timestamp that the RTC refuses (`clock.cpp:55`).
- Astronomy: `get_coordinates` and what it calls are floating-point arithmetic, out
  of TLC's reach. An altitude is a given function of time, and in the composed
  models an instruction is impossible or gets any time, one that has passed included.
- `heading` and the debug commands other than `debug_trace`.
- Step counters and PIO programs; `turn_to_coordinates` below the horizon.
- Restarts in the runs `service` and `delivery`, and of the ESP in the composed
  system: with them TLC takes longer than these runs are given.
- `timesync-lib`, `TLSWrapper`, `jsonParser`, `camera` and what `requestHandler`
  does below a request: text, sockets and drivers without a state of their own
  between calls. Their outcomes are choices of `EspTasks`.
- `wireless.cpp` disconnect and deinit, `sd-card.cpp` save_setting and
  read_setting: nothing calls them.
- Names of pictures: a name that failed pictures have made longer than 511 characters
  is not queued (`tasks.cpp:733`), but no card would have saved the file before. A
  failure that only `fclose` reports, which the code does not look at
  (`sd-card.cpp:153`).
- Compass and EEPROM: constructed, never used by the loop.
- The server's configuration, routing, texts of pages, list of diagnostics, cache
  of images, and expiry of sessions. A password is a person and a salt.
- Python scripts, browser scripts, 3D models.

## 7. Plan

1. `NotLost` in the composed system, up to a restart of the Pico.
2. `CommandLife` for the server, too: `CommandTable` and `WebServer`
   as implementations of one abstract state machine per command.

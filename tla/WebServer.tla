------------------------------ MODULE WebServer ------------------------------
(***************************************************************************)
(* The web server's requests about keys, commands, images and diagnostics, *)
(* of devices and of users' pages, one SQL statement per step: no handler  *)
(* uses a transaction.  SQLite gives a row the largest number in use plus  *)
(* one, so the number of a removed row comes back; sqlx switches foreign   *)
(* keys on, so a row that is referred to stays.                            *)
(***************************************************************************)
EXTENDS Integers, FiniteSets, FiniteSetsExt

CONSTANTS
  Devices,         \* requests of devices the server works on at a time
  Pages,           \* requests of users' pages the server works on at a time
  Tokens,          \* tokens a device may send
  Ids,             \* numbers of commands a device may send
  Reports,         \* statuses a device may report
  Seconds,         \* values of the clock in the names of images
  ImageTypes,      \* types of the images devices send, by the extensions of files
  PageSize,        \* commands on a page, 25 in the code
  Budgets          \* bounds: keys, commands, device requests and restarts to come

(* A device reports 2 or a failure, never that a command waits or was      *)
(* fetched (controller.cpp:167, 305-320, 715).                              *)
ASSUME ReportsAssumption == Reports \cap {0, 1} = {}
ASSUME BudgetsAssumption ==
  Budgets \subseteq [keys : Nat, commands : Nat, requests : Nat, restarts : Nat]

(* A device may send the number of any command there is.                   *)
ASSUME IdsAssumption == \A b \in Budgets : 1..b.commands \subseteq Ids

ASSUME PageSizeAssumption == PageSize \in Nat \ {0}

VARIABLES
  keys,            \* table keys: id -> api_token
  commands,        \* table commands: id -> [key, status, time, serial, reused]
  images,          \* table images: [path, command_id]
  diagnostics,     \* tokens in the table of diagnostics
  image_files,     \* paths in the directory of images: <<second, command, extension>>
  requests,        \* where each request is
  handed,          \* commands handed to a device, by serial (history)
  dropped,         \* commands whose image a restart took off the table although
                   \* its file is there, by serial (history)
  left             \* what is left of the budget

webVars == <<keys, commands, images, diagnostics, image_files, requests, handed, dropped,
             left>>

Requests == Devices \cup Pages
Idle == [op |-> "none"]
Stray == <<0, 0, "png">>  \* a file in the directory whose name has not three parts

WebInit ==
  /\ keys = <<>> /\ commands = <<>>
  /\ images = {} /\ diagnostics = {} /\ image_files = {Stray}
  /\ requests = [r \in Requests |-> Idle]
  /\ handed = {} /\ dropped = {}
  /\ left \in Budgets

KeyIds == DOMAIN keys
CommandIds == DOMAIN commands
NextId(table) == IF DOMAIN table = {} THEN 1 ELSE Max(DOMAIN table) + 1
Put(table, id, row) == [i \in DOMAIN table \cup {id} |-> IF i = id THEN row ELSE table[i]]
Delete(table, ids) == [i \in DOMAIN table \ ids |-> table[i]]

verify_key(token) == \E k \in KeyIds : keys[k] = token
OfToken(id, token) == id \in CommandIds /\ keys[commands[id].key] = token

RequestAt(r, op, point) == requests[r].op = op /\ requests[r].at = point
Free(r) == requests[r] = Idle
Begin(r, request) == requests' = [requests EXCEPT ![r] = request]
Spend(what) ==
  /\ left[what] > 0
  /\ left' = [left EXCEPT ![what] = @ - 1]
Receive(r, request) == Spend("requests") /\ Begin(r, request)
Finish(r) == requests' = [requests EXCEPT ![r] = Idle]

(* modify_command_status: no row, no effect.                              *)
modify_command_status(id, status) ==
  commands' = IF id \in CommandIds THEN [commands EXCEPT ![id].status = status]
              ELSE commands

(* What the requests on their way have read is no longer so (history).     *)
Overtaken(ids) ==
  [r \in Requests |->
     IF requests[r].op \in {"fetch", "respond"} /\ requests[r].id \in ids
       THEN [requests[r] EXCEPT !.overtaken = TRUE] ELSE requests[r]]

----------------------------------------------------------------------------
(* A device fetches a command: /api/command, GET.                          *)

FetchReads(r) ==
  /\ Free(r)
  /\ \E token \in Tokens, id \in CommandIds :
       /\ OfToken(id, token)
       /\ commands[id].status = 0
       /\ Receive(r, [op |-> "fetch", at |-> "mark", id |-> id, token |-> token,
                      serial |-> commands[id].serial, overtaken |-> FALSE])
  /\ UNCHANGED <<keys, commands, images, diagnostics, image_files, handed, dropped>>

(* Mutant: every queued command of the key is marked.                      *)
FetchMarksAll(r) ==
  /\ RequestAt(r, "fetch", "mark")
  /\ commands' = [id \in CommandIds |->
                    IF OfToken(id, requests[r].token) /\ commands[id].status = 0
                      THEN [commands[id] EXCEPT !.status = 1] ELSE commands[id]]
  /\ handed' = handed \cup {requests[r].serial}
  /\ Finish(r)
  /\ UNCHANGED <<keys, images, diagnostics, image_files, dropped, left>>

FetchMarks(r) ==
  /\ RequestAt(r, "fetch", "mark")
  /\ modify_command_status(requests[r].id, 1)
  /\ handed' = handed \cup {requests[r].serial}
  /\ requests' = [Overtaken({requests[r].id}) EXCEPT ![r] = Idle]
  /\ UNCHANGED <<keys, images, diagnostics, image_files, dropped, left>>

----------------------------------------------------------------------------
(* A device reports a status: /api/command, POST.                          *)

(* Mutant: any command of the key takes a report.                          *)
AcceptsAlways(token, id, status) == status \in -3..2 /\ OfToken(id, token)

Accepts(token, id, status) ==
  /\ status \in -3..2
  /\ OfToken(id, token)
  /\ commands[id].status \in 0..2

RespondChecks(r) ==
  /\ Free(r)
  /\ \E token \in Tokens, id \in CommandIds, status \in Reports :
       /\ Accepts(token, id, status)
       /\ Receive(r, [op |-> "respond", at |-> "status", id |-> id, status |-> status,
                      overtaken |-> FALSE])
  /\ UNCHANGED <<keys, commands, images, diagnostics, image_files, handed, dropped>>

RespondWrites(r) ==
  /\ RequestAt(r, "respond", "status")
  /\ modify_command_status(requests[r].id, requests[r].status)
  /\ requests' = [Overtaken({requests[r].id}) EXCEPT
                    ![r] = IF requests[r].status = 2 THEN [requests[r] EXCEPT !.at = "time"]
                           ELSE Idle]
  /\ UNCHANGED <<keys, images, diagnostics, image_files, handed, dropped, left>>

update_command_est_time(r) ==
  /\ RequestAt(r, "respond", "time")
  /\ commands' = IF requests[r].id \in CommandIds
                   THEN [commands EXCEPT ![requests[r].id].time = TRUE] ELSE commands
  /\ Finish(r)
  /\ UNCHANGED <<keys, images, diagnostics, image_files, handed, dropped, left>>

----------------------------------------------------------------------------
(* A device uploads an image: the command's key need not be the device's,  *)
(* nor its status one that waits for a picture.                            *)

UploadVerifies(r) ==
  /\ Free(r)
  /\ \E token \in Tokens, id \in Ids :
       /\ verify_key(token)
       /\ Receive(r, [op |-> "upload", at |-> "write", id |-> id])
  /\ UNCHANGED <<keys, commands, images, diagnostics, image_files, handed, dropped>>

(* Mutant: the status is written with the file.                            *)
UploadMarksFirst(r) ==
  /\ RequestAt(r, "upload", "write")
  /\ modify_command_status(requests[r].id, 3)
  /\ \E now \in Seconds, extension \in ImageTypes :
       LET path == <<now, requests[r].id, extension>>
       IN /\ image_files' = image_files \cup {path}
          /\ Begin(r, [op |-> "upload", at |-> "register", id |-> requests[r].id,
                       path |-> path])
  /\ UNCHANGED <<keys, images, diagnostics, handed, dropped, left>>

(* Any data that is an image is stored, under the extension of its type.   *)
UploadWritesFile(r) ==
  /\ RequestAt(r, "upload", "write")
  /\ \E now \in Seconds, extension \in ImageTypes :
       LET path == <<now, requests[r].id, extension>>
       IN /\ image_files' = image_files \cup {path}
          /\ Begin(r, [op |-> "upload", at |-> "register", id |-> requests[r].id,
                       path |-> path])
  /\ UNCHANGED <<keys, commands, images, diagnostics, handed, dropped, left>>

(* The command must exist, and the path be new.                            *)
Registrable(path) ==
  path[2] \in CommandIds /\ \A i \in images : i.path # path
Image(path) == [path |-> path, command_id |-> path[2]]

register_image(r) ==
  /\ RequestAt(r, "upload", "register")
  /\ IF Registrable(requests[r].path)
       THEN /\ images' = images \cup {Image(requests[r].path)}
            /\ Begin(r, [op |-> "upload", at |-> "status", id |-> requests[r].id])
       ELSE Finish(r) /\ UNCHANGED images
  /\ UNCHANGED <<keys, commands, diagnostics, image_files, handed, dropped, left>>

UploadMarks(r) ==
  /\ RequestAt(r, "upload", "status")
  /\ modify_command_status(requests[r].id, 3)
  /\ requests' = [Overtaken({requests[r].id}) EXCEPT ![r] = Idle]
  /\ UNCHANGED <<keys, images, diagnostics, image_files, handed, dropped, left>>

----------------------------------------------------------------------------
(* A device sends a diagnosis, which refers to its token.                  *)

send_diagnostics(r) ==
  /\ Free(r)
  /\ \E token \in Tokens :
       /\ verify_key(token)
       /\ Receive(r, [op |-> "diagnose", at |-> "insert", token |-> token])
  /\ UNCHANGED <<keys, commands, images, diagnostics, image_files, handed, dropped>>

new_diagnostic(r) ==
  /\ RequestAt(r, "diagnose", "insert")
  /\ diagnostics' = IF verify_key(requests[r].token)
                      THEN diagnostics \cup {requests[r].token} ELSE diagnostics
  /\ Finish(r)
  /\ UNCHANGED <<keys, commands, images, image_files, handed, dropped, left>>

----------------------------------------------------------------------------
(* Pages of the users: keys and commands.                                  *)

new_key ==
  /\ Spend("keys")
  /\ keys' = Put(keys, NextId(keys), left.keys)
  /\ UNCHANGED <<commands, images, diagnostics, image_files, requests, handed, dropped>>

CommandsOf(k) == {id \in CommandIds : commands[id].key = k}

(* delete_commands_by_key fails as a whole if one command has an image.    *)
delete_commands_by_key(r) ==
  /\ Free(r)
  /\ \E k \in KeyIds :
       /\ \A i \in images : i.command_id \notin CommandsOf(k)
       /\ commands' = Delete(commands, CommandsOf(k))
       /\ requests' = [Overtaken(CommandsOf(k)) EXCEPT
                         ![r] = [op |-> "remove_key", at |-> "key", key |-> k]]
  /\ UNCHANGED <<keys, images, diagnostics, image_files, handed, dropped, left>>

(* Mutant: what refers to the key does not hold it.                        *)
delete_key_unchecked(r) ==
  /\ RequestAt(r, "remove_key", "key")
  /\ keys' = Delete(keys, {requests[r].key})
  /\ Finish(r)
  /\ UNCHANGED <<commands, images, diagnostics, image_files, handed, dropped, left>>

(* delete_key panics, with the commands gone, if a command was made in the *)
(* meantime or the key has sent a diagnosis.                               *)
delete_key(r) ==
  /\ RequestAt(r, "remove_key", "key")
  /\ LET k == requests[r].key
         held == CommandsOf(k) # {} \/ (k \in KeyIds /\ keys[k] \in diagnostics)
     IN keys' = IF held THEN keys ELSE Delete(keys, {k})
  /\ Finish(r)
  /\ UNCHANGED <<commands, images, diagnostics, image_files, handed, dropped, left>>

new_command ==
  /\ Spend("commands")
  /\ \E k \in KeyIds :
       LET id == NextId(commands)
       IN commands' = Put(commands, id,
            [key |-> k, status |-> 0, time |-> FALSE, serial |-> left.commands,
             reused |-> \E r \in Requests : requests[r].op \in {"fetch", "respond"}
                                            /\ requests[r].id = id])
  /\ UNCHANGED <<keys, images, diagnostics, image_files, requests, handed, dropped>>

remove_command ==
  /\ \E id \in CommandIds :
       /\ modify_command_status(id, -6)
       /\ requests' = Overtaken({id})
  /\ UNCHANGED <<keys, images, diagnostics, image_files, handed, dropped, left>>

----------------------------------------------------------------------------
(* request_commands_info: a page of commands, and their number beside it.  *)

Completed == 3..3
Failed == -5..-1
InProgress == 0..2
Deleted == -6..-6
Statuses == <<Completed, InProgress, Failed, Deleted>>

(* filter_type 0 to 6; filter_value is the status of 5 or the key of 6.    *)
Filters == [type : 0..4, value : {0}] \cup [type : {5}, value : -6..3]
             \cup [type : {6}, value : KeyIds]
Matches(id, type, value) ==
  /\ type \in 1..4 => commands[id].status \in Statuses[type]
  /\ type = 5 => commands[id].status = value
  /\ type = 6 => commands[id].key = value

(* get_commands, get_*_commands, get_commands_by_status and _by_key: LIMIT *)
(* and OFFSET, joined with the key.  A negative OFFSET counts as none.     *)
get_commands(type, value, page) ==
  LET rows == {id \in CommandIds : Matches(id, type, value) /\ commands[id].key \in KeyIds}
      before(id) == Cardinality({j \in rows : j < id})
      offset == IF page < 0 THEN 0 ELSE page * PageSize
  IN {id \in rows : before(id) \in offset .. offset + PageSize - 1}

(* request_commands_info passes the page for the status or the key, and    *)
(* the status or the key for the page.                                     *)
Listed(f, page) ==
  IF f.type \in {5, 6} THEN get_commands(f.type, page, f.value)
  ELSE get_commands(f.type, f.value, page)

(* Mutant: deleted commands count as failed ones.                          *)
CountedWithDeleted(f) ==
  Cardinality({id \in CommandIds : Matches(id, f.type, f.value)
                                   \/ (f.type = 3 /\ commands[id].status = -6)})

(* get_*_commands_count: not joined.                                       *)
Counted(f) == Cardinality({id \in CommandIds : Matches(id, f.type, f.value)})

----------------------------------------------------------------------------
(* A restart, in the middle of any request: setup checks the images.       *)

(* The extensions setup looks for: the directory has other files, too.     *)
extensions == {"jpg", "png", "jpeg"}
find_images == {path \in image_files : path[3] \in extensions}

(* check_images and update_images: rows of files that are not found go,    *)
(* those found that are named after a command that exists are registered.  *)
check_images ==
  {i \in images : i.path \in find_images}
    \cup {Image(p) : p \in {q \in find_images : q # Stray /\ Registrable(q)}}

Restart ==
  /\ Spend("restarts")
  /\ requests' = [r \in Requests |-> Idle]
  /\ images' = check_images
  /\ dropped' = dropped \cup {commands[i.command_id].serial :
                   i \in {k \in images : k.path \in image_files \ find_images}}
  /\ UNCHANGED <<keys, commands, diagnostics, image_files, handed>>

DeviceRequest(r) ==
  \/ FetchReads(r) \/ FetchMarks(r)
  \/ RespondChecks(r) \/ RespondWrites(r) \/ update_command_est_time(r)
  \/ UploadVerifies(r) \/ UploadWritesFile(r) \/ register_image(r) \/ UploadMarks(r)
  \/ send_diagnostics(r) \/ new_diagnostic(r)

WebNext ==
  \/ \E r \in Devices : DeviceRequest(r)
  \/ \E r \in Pages : delete_commands_by_key(r) \/ delete_key(r)
  \/ new_key \/ new_command \/ remove_command \/ Restart

----------------------------------------------------------------------------
WebTypeOK ==
  /\ CommandIds \subseteq Ids
  /\ \A id \in CommandIds : commands[id].key \in KeyIds /\ commands[id].status \in -6..3
  /\ \A i \in images : i.command_id \in CommandIds
  /\ \A token \in diagnostics : verify_key(token)

(* A command that counts as completed has a picture on the disk, whatever  *)
(* requests overlap, keys are removed or restarts cut an upload short; and *)
(* the gallery shows one, unless a restart has taken it off the table as a *)
(* file of another type than setup looks for, which an upload does not     *)
(* refuse (upload.rs:84, 114, 125-139, keys.rs:125, setup.rs:81-88,        *)
(* images.rs:50-56, 221-236).                                              *)
CompletedHasPicture ==
  \A id \in CommandIds :
    commands[id].status = 3 =>
      /\ \E path \in image_files : path[2] = id
      /\ \/ \E i \in images : i.command_id = id /\ i.path \in image_files
         \/ commands[id].serial \in dropped

(* A command marked as fetched was handed to a device, unless its number   *)
(* came back while a request about the command before it was on its way    *)
(* (commands.rs:90-96 of the API, keys.rs:125).                            *)
FetchedWasHanded ==
  \A id \in CommandIds :
    commands[id].status = 1 /\ ~commands[id].reused => commands[id].serial \in handed

(* Only a request that another one has overtaken between its two           *)
(* statements opens a command again that has failed, was deleted or has    *)
(* its picture, or hands out a command a second time (commands.rs:90-96    *)
(* and 183-194 of the API; web/commands.rs:551).                           *)
OnceUnlessRace ==
  [][\A r \in Requests : \A id \in CommandIds \cap DOMAIN commands' :
       /\ requests[r].op \in {"fetch", "respond"} /\ requests[r].id = id
       /\ ~requests[r].overtaken
       /\ requests'[r] # requests[r] /\ left'.restarts = left.restarts
       => /\ commands'[id].status \in InProgress => commands[id].status \in InProgress
          /\ requests[r].op = "fetch" => requests[r].serial \notin handed]_webVars

(* A page of commands agrees with the number beside it, unless something   *)
(* is written between the two statements, for every filter and page and    *)
(* whatever keys were removed (web/commands.rs:671-769); but for a status  *)
(* or a key, which are passed in place of the page and the page in theirs  *)
(* (728, 741), only if they are the same number.                           *)
ListingAgrees ==
  \A f \in Filters, page \in 0..1 :
    f.type \notin {5, 6} \/ f.value = page =>
      LET rest == Counted(f) - page * PageSize
      IN Cardinality(Listed(f, page)) = IF rest <= 0 THEN 0 ELSE Min({rest, PageSize})
=============================================================================

------------------------------ MODULE WebUsers ------------------------------
(***************************************************************************)
(* The web server's accounts: setup of the database of users, sessions,    *)
(* and the pages on which users are added, removed and changed.  A session *)
(* (axum_login) is a number and the hash of the password at login; every   *)
(* request loads the row of that number first.  Sessions are in memory.    *)
(* SQLite gives a new row the largest number in use plus one.              *)
(***************************************************************************)
EXTENDS Integers, FiniteSetsExt

CONSTANTS
  People,          \* who uses the pages
  Administrator,   \* one of them, who knows the password of create_admin
  Names,           \* usernames they choose from
  MaxPasswords,    \* bound: passwords hashed, each with a salt of its own
  MaxRestarts      \* bound: restarts of the server

ASSUME AdministratorAssumption == Administrator \in People
ASSUME BoundsAssumption == MaxPasswords \in Nat /\ MaxRestarts \in Nat

VARIABLES
  database,        \* how far the database of users has been made
  server,          \* "start", "create" or "serve"
  users,           \* id -> [username, password, superuser, owner, renumbered]
  sessions,        \* person -> [id, hash], or NoSession
  pages,           \* person -> the request of theirs that is being served
  passwords_left, restarts_left,
  cut_short        \* a restart has cut the setup of the database (history)

userVars == <<database, server, users, sessions, pages, passwords_left, restarts_left,
              cut_short>>

NoSession == [id |-> 0]
NoPage == [op |-> "none"]

UsersInit ==
  /\ database = "none" /\ server = "start"
  /\ users = <<>>
  /\ sessions = [p \in People |-> NoSession]
  /\ pages = [p \in People |-> NoPage]
  /\ passwords_left = MaxPasswords /\ restarts_left = MaxRestarts
  /\ cut_short = FALSE

UserIds == DOMAIN users
Serving == server = "serve" /\ database \in {"table", "ready"}

(* generate_phc_string: who knows the password, and a salt.                *)
Hash(person) == [by |-> person, salt |-> passwords_left]
Hashing == passwords_left > 0 /\ passwords_left' = passwords_left - 1

----------------------------------------------------------------------------
(* setup_user_database, one statement at a time.                           *)

OpenDatabase ==
  /\ server = "start"
  /\ server' = IF database = "none" THEN "create" ELSE "serve"
  /\ database' = IF database = "none" THEN "empty" ELSE database
  /\ UNCHANGED <<users, sessions, pages, passwords_left, restarts_left, cut_short>>

create_user_table ==
  /\ server = "create" /\ database = "empty"
  /\ database' = "table"
  /\ UNCHANGED <<server, users, sessions, pages, passwords_left, restarts_left, cut_short>>

create_admin ==
  /\ server = "create" /\ database = "table"
  /\ Hashing
  /\ users' = [u \in {1} |->
                 [username |-> "admin", password |-> Hash(Administrator),
                  superuser |-> TRUE, owner |-> Administrator, renumbered |-> FALSE]]
  /\ database' = "ready" /\ server' = "serve"
  /\ UNCHANGED <<sessions, pages, restarts_left, cut_short>>

RestartServer ==
  /\ restarts_left > 0
  /\ restarts_left' = restarts_left - 1
  /\ server' = "start"
  /\ sessions' = [p \in People |-> NoSession]
  /\ pages' = [p \in People |-> NoPage]
  /\ cut_short' = (cut_short \/ server = "create")
  /\ UNCHANGED <<database, users, passwords_left>>

----------------------------------------------------------------------------
(* Login and logout.                                                       *)

(* authenticate: a row whose name and password the person knows.           *)
authenticate(p) ==
  /\ Serving /\ pages[p] = NoPage
  /\ \E id \in UserIds :
       /\ users[id].password.by = p
       /\ pages' = [pages EXCEPT ![p] =
                      [op |-> "login", session |-> [id |-> id, hash |-> users[id].password]]]
  /\ UNCHANGED <<database, server, users, sessions, passwords_left, restarts_left,
                 cut_short>>

login(p) ==
  /\ pages[p].op = "login"
  /\ sessions' = [sessions EXCEPT ![p] = pages[p].session]
  /\ pages' = [pages EXCEPT ![p] = NoPage]
  /\ UNCHANGED <<database, server, users, passwords_left, restarts_left, cut_short>>

logout(p) ==
  /\ Serving /\ pages[p] = NoPage
  /\ sessions[p] # NoSession
  /\ sessions' = [sessions EXCEPT ![p] = NoSession]
  /\ UNCHANGED <<database, server, users, pages, passwords_left, restarts_left, cut_short>>

(* Mutant: the hash in the session is not compared.                        *)
ValidForNumber(session) == session.id \in UserIds

(* get_user and session_auth_hash.                                         *)
Valid(session) ==
  session.id \in UserIds /\ users[session.id].password = session.hash

(* The session of a user whose row is gone or whose password is another is *)
(* flushed.                                                                *)
SessionRefused(p) ==
  /\ Serving /\ pages[p] = NoPage
  /\ sessions[p] # NoSession /\ ~Valid(sessions[p])
  /\ sessions' = [sessions EXCEPT ![p] = NoSession]
  /\ UNCHANGED <<database, server, users, pages, passwords_left, restarts_left, cut_short>>

----------------------------------------------------------------------------
(* A request loads the user of its session; its statements come later.     *)

Request(p, page) ==
  /\ Serving /\ pages[p] = NoPage
  /\ sessions[p] # NoSession /\ Valid(sessions[p])
  /\ pages' = [pages EXCEPT ![p] = page]
  /\ UNCHANGED <<database, server, users, sessions, passwords_left, restarts_left,
                 cut_short>>
Superuser(p) == users[sessions[p].id].superuser
Answered(p) == pages' = [pages EXCEPT ![p] = NoPage]
ServedAt(p, op) == server = "serve" /\ pages[p].op = op

new_user(p) ==
  /\ sessions[p].id \in UserIds /\ Superuser(p)
  /\ \E name \in Names, q \in People :
       Request(p, [op |-> "add", username |-> name, owner |-> q])

(* Mutant: a superuser may remove any user.                                *)
MayRemoveAnyone(p, id) == Superuser(p)

MayRemove(p, id) == Superuser(p) /\ id # sessions[p].id

remove_user(p) ==
  /\ sessions[p].id \in UserIds
  /\ \E id \in UserIds : MayRemove(p, id) /\ Request(p, [op |-> "remove", id |-> id])

(* Mutant: whoever is logged in may change any user.                       *)
MayModifyAnyone(p, id) == TRUE

MayModify(p, id) == id = sessions[p].id \/ Superuser(p)

(* Who will know the new password: the user, told by the superuser if it   *)
(* was the superuser who chose it.                                         *)
Informed(p, id) == IF id = sessions[p].id \/ ~Superuser(p) THEN p ELSE users[id].owner

modify_user(p) ==
  /\ sessions[p].id \in UserIds
  /\ \E id \in UserIds, name \in Names \cup {""}, newPassword \in BOOLEAN :
       /\ MayModify(p, id)
       /\ name # "" \/ newPassword
       /\ Request(p, [op |-> IF name # "" THEN "rename" ELSE "repass", id |-> id,
                      username |-> name, newPassword |-> newPassword,
                      by |-> Informed(p, id)])

----------------------------------------------------------------------------
(* The statements.  A name in use is refused by the table (UNIQUE).        *)

Taken(name, id) == \E u \in UserIds \ {id} : users[u].username = name
NextUser == IF UserIds = {} THEN 1 ELSE Max(UserIds) + 1
WithUser(row) ==
  [u \in UserIds \cup {NextUser} |-> IF u \in UserIds THEN users[u] ELSE row]

add_user(p) ==
  /\ ServedAt(p, "add")
  /\ Answered(p)
  /\ IF Taken(pages[p].username, 0)
       THEN UNCHANGED <<users, passwords_left>>
       ELSE /\ Hashing
            /\ users' = WithUser(
                 [username |-> pages[p].username, password |-> Hash(pages[p].owner),
                  superuser |-> FALSE, owner |-> pages[p].owner,
                  renumbered |-> \E q \in People : pages[q].op \in {"rename", "repass"}
                                                   /\ pages[q].id = NextUser])
  /\ UNCHANGED <<database, server, sessions, restarts_left, cut_short>>

delete_user(p) ==
  /\ ServedAt(p, "remove")
  /\ Answered(p)
  /\ users' = [u \in UserIds \ {pages[p].id} |-> users[u]]
  /\ UNCHANGED <<database, server, sessions, passwords_left, restarts_left, cut_short>>

(* A refused name ends the request; otherwise the password comes next.     *)
change_username(p) ==
  /\ ServedAt(p, "rename")
  /\ LET id == pages[p].id
         refused == id \in UserIds /\ Taken(pages[p].username, id)
     IN /\ users' = IF id \in UserIds /\ ~refused
                      THEN [users EXCEPT ![id].username = pages[p].username] ELSE users
        /\ pages' = [pages EXCEPT ![p] = IF refused \/ ~@.newPassword THEN NoPage
                                         ELSE [@ EXCEPT !.op = "repass"]]
  /\ UNCHANGED <<database, server, sessions, passwords_left, restarts_left, cut_short>>

change_password(p) ==
  /\ ServedAt(p, "repass")
  /\ Hashing
  /\ users' = IF pages[p].id \in UserIds
                THEN [users EXCEPT ![pages[p].id].password = Hash(pages[p].by)] ELSE users
  /\ Answered(p)
  /\ UNCHANGED <<database, server, sessions, restarts_left, cut_short>>

UsersNext ==
  \/ OpenDatabase \/ create_user_table \/ create_admin \/ RestartServer
  \/ \E p \in People :
       \/ authenticate(p) \/ login(p) \/ logout(p) \/ SessionRefused(p)
       \/ new_user(p) \/ remove_user(p) \/ modify_user(p)
       \/ add_user(p) \/ delete_user(p) \/ change_username(p) \/ change_password(p)

UsersSpec == UsersInit /\ [][UsersNext]_userVars

----------------------------------------------------------------------------
UsersTypeOK ==
  /\ database \in {"none", "empty", "table", "ready"}
  /\ server \in {"start", "create", "serve"}
  /\ \A u \in UserIds : users[u].owner \in People
  /\ passwords_left \in 0..MaxPasswords /\ restarts_left \in 0..MaxRestarts

(* A server that answers has a superuser, who alone can add users: none of *)
(* the pages, in any order, removes the last one, and only a restart in    *)
(* the middle of the first setup leaves a server without one, for good     *)
(* (init/setup.rs:134-156, user.rs:110-130).                               *)
AlwaysAdmin ==
  server = "serve" => cut_short \/ \E u \in UserIds : users[u].superuser

(* Only the owner of an account has a session that it accepts, and only    *)
(* the owner knows its password, also when its number was another's before *)
(* (user.rs:37 and 153-218), unless a request to change the account before *)
(* was still being served when the number was given again.                 *)
OwnAccounts ==
  \A u \in UserIds :
    users[u].renumbered
    \/ /\ users[u].password.by = users[u].owner
       /\ \A p \in People : sessions[p].id = u /\ Valid(sessions[p]) => users[u].owner = p
=============================================================================

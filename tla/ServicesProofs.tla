---------------------------- MODULE ServicesProofs ----------------------------
(***************************************************************************)
(* The parts that share no state with the core model, each for every value *)
(* of its constants: the accounts of the web server (WebUsers), its tables *)
(* (WebServer), the ESP's settings and network (EspNetwork), and the       *)
(* planet finder and its dates (PlanetFinder, Dates).  The specifications  *)
(* are those of the parts alone, as MCServices switches them on one at a   *)
(* time.  The types are proved of all five, with the GPS, in MCServices'   *)
(* own specification.                                                      *)
(***************************************************************************)
EXTENDS MCServices, FiniteSetTheorems, FunctionTheorems, SequenceTheorems,
        WellFoundedInduction, TLAPS

----------------------------------------------------------------------------
(***************************************************************************)
(* The server's accounts.  The server keeps its superuser, and a session   *)
(* works on its own account, for any people, names and bounds.  That the   *)
(* superuser stays is not inductive by itself: it needs that the first row *)
(* is the only superuser's, that no request on its way removes it, and how *)
(* far the database is when the server starts.                             *)
(***************************************************************************)

(* Only the row of create_admin is a superuser's.                          *)
OneSuperuser ==
  /\ \A u \in UserIds : users[u].superuser => u = 1
  /\ database = "ready" => 1 \in UserIds /\ users[1].superuser

(* A request that was let through does not remove that row.                *)
NoneRemovesIt == \A p \in People : pages[p].op = "remove" => pages[p].id # 1

(* Where the setup is, unless a restart has cut it short.                  *)
SetupStage ==
  ~cut_short =>
    /\ server = "start" => database \in {"none", "ready"}
    /\ server = "create" => database \in {"empty", "table"}
    /\ server = "serve" => database = "ready"

AdminInv ==
  /\ DOMAIN pages = People
  /\ cut_short \in BOOLEAN
  /\ server \in {"start", "create", "serve"}
  /\ database \in {"none", "empty", "table", "ready"}
  /\ server = "create" => database \in {"empty", "table"}
  /\ OneSuperuser /\ NoneRemovesIt /\ SetupStage

(* The strengthening holds before the first setup.                         *)
LEMMA AdminInit == UsersInit => AdminInv
<1> SUFFICES ASSUME UsersInit PROVE AdminInv
  OBVIOUS
<1>1. DOMAIN users = {} /\ DOMAIN pages = People
  BY DEF UsersInit
<1>2. \A q \in People : pages[q].op = "none"
  BY DEF UsersInit, NoPage
<1> QED
  BY <1>1, <1>2 DEF UsersInit, AdminInv, OneSuperuser, NoneRemovesIt, SetupStage, UserIds

(* A step of one person's request leaves the others' alone.                *)
OtherPagesStay(p) ==
  /\ DOMAIN pages' = DOMAIN pages
  /\ \A q \in People \ {p} : pages'[q] = pages[q]

(* What a request leaves: its page is another, the users are the same.     *)
LEMMA OnlyAPage ==
  ASSUME AdminInv, NEW p \in People, OtherPagesStay(p),
         pages'[p].op = "remove" => pages'[p].id # 1,
         UNCHANGED <<database, server, users, cut_short>>
  PROVE  AdminInv'
  BY DEF OtherPagesStay, AdminInv, OneSuperuser, NoneRemovesIt, SetupStage, UserIds

(* Rows that keep who is a superuser, and lose at most another's.          *)
LEMMA OnlyRows ==
  ASSUME AdminInv, NEW p \in People, OtherPagesStay(p),
         pages'[p].op # "remove",
         \A u \in DOMAIN users' : users'[u].superuser => u \in UserIds /\ users[u].superuser,
         1 \in UserIds /\ users[1].superuser => 1 \in DOMAIN users' /\ users'[1].superuser,
         UNCHANGED <<database, server, cut_short>>
  PROVE  AdminInv'
  BY DEF OtherPagesStay, AdminInv, OneSuperuser, NoneRemovesIt, SetupStage, UserIds

(* Every step of the pages and every restart keeps it.                     *)
LEMMA AdminStep == AdminInv /\ [UsersNext]_userVars => AdminInv'
<1> SUFFICES ASSUME AdminInv, [UsersNext]_userVars PROVE AdminInv'
  OBVIOUS
<1>1. CASE UNCHANGED userVars
  BY <1>1 DEF userVars, AdminInv, OneSuperuser, NoneRemovesIt, SetupStage, UserIds
<1>2. CASE OpenDatabase
  BY <1>2 DEF OpenDatabase, AdminInv, OneSuperuser, NoneRemovesIt, SetupStage, UserIds
<1>3. CASE create_user_table
  BY <1>3 DEF create_user_table, AdminInv, OneSuperuser, NoneRemovesIt, SetupStage, UserIds
<1>4. CASE create_admin
  <2>1. OneSuperuser'
    BY <1>4 DEF create_admin, OneSuperuser, UserIds
  <2> QED
    BY <1>4, <2>1 DEF create_admin, AdminInv, NoneRemovesIt, SetupStage
<1>5. CASE RestartServer
  BY <1>5 DEF RestartServer, AdminInv, OneSuperuser, NoneRemovesIt, SetupStage, UserIds,
              NoPage
<1>6. ASSUME NEW p \in People,
             \/ authenticate(p) \/ login(p) \/ logout(p) \/ SessionRefused(p)
             \/ new_user(p) \/ remove_user(p) \/ modify_user(p)
             \/ add_user(p) \/ delete_user(p) \/ change_username(p) \/ change_password(p)
      PROVE AdminInv'
  <2> p \in DOMAIN pages
    BY DEF AdminInv
  <2>1. CASE authenticate(p)
    <3>1. OtherPagesStay(p) /\ pages'[p].op = "login"
      BY <2>1 DEF authenticate, OtherPagesStay
    <3> QED
      BY <2>1, <3>1, OnlyAPage DEF authenticate
  <2>2. CASE login(p)
    <3>1. OtherPagesStay(p) /\ pages'[p].op = "none"
      BY <2>2 DEF login, NoPage, OtherPagesStay
    <3> QED
      BY <2>2, <3>1, OnlyAPage DEF login
  <2>3. CASE logout(p) \/ SessionRefused(p)
    BY <2>3 DEF logout, SessionRefused, AdminInv, OneSuperuser, NoneRemovesIt, SetupStage,
                UserIds
  <2>4. CASE new_user(p)
    <3>1. OtherPagesStay(p) /\ pages'[p].op = "add"
      BY <2>4 DEF new_user, Request, OtherPagesStay
    <3> QED
      BY <2>4, <3>1, OnlyAPage DEF new_user, Request
  <2>5. CASE remove_user(p)
    <3>1. PICK id \in UserIds : MayRemove(p, id) /\ Request(p, [op |-> "remove", id |-> id])
      BY <2>5 DEF remove_user
    <3>2. id # 1
      BY <2>5, <3>1 DEF remove_user, MayRemove, Superuser, AdminInv, OneSuperuser
    <3>3. OtherPagesStay(p) /\ pages'[p].id = id
      BY <3>1 DEF Request, OtherPagesStay
    <3> QED
      BY <3>1, <3>2, <3>3, OnlyAPage DEF Request
  <2>6. CASE modify_user(p)
    <3>1. PICK id \in UserIds, name \in Names \cup {""}, newPassword \in BOOLEAN :
            Request(p, [op |-> IF name # "" THEN "rename" ELSE "repass", id |-> id,
                        username |-> name, newPassword |-> newPassword,
                        by |-> Informed(p, id)])
      BY <2>6 DEF modify_user
    <3> DEFINE page == [op |-> IF name # "" THEN "rename" ELSE "repass", id |-> id,
                        username |-> name, newPassword |-> newPassword,
                        by |-> Informed(p, id)]
    <3>2. Request(p, page) /\ page.op # "remove"
      BY <3>1
    <3> HIDE DEF page
    <3>3. OtherPagesStay(p) /\ pages'[p] = page
      BY <3>2 DEF Request, OtherPagesStay, AdminInv
    <3> QED
      BY <3>2, <3>3, OnlyAPage DEF Request
  <2>7. CASE add_user(p)
    <3>1. OtherPagesStay(p) /\ pages'[p].op # "remove"
      BY <2>7 DEF add_user, Answered, NoPage, OtherPagesStay
    <3>2. CASE users' = users
      BY <2>7, <3>1, <3>2, OnlyAPage DEF add_user
    <3>3. CASE users' # users
      <4>1. \/ users' = users
            \/ /\ DOMAIN users' = UserIds \cup {NextUser}
               /\ \A u \in UserIds : users'[u] = users[u]
               /\ NextUser \notin UserIds => users'[NextUser].superuser = FALSE
        BY <2>7 DEF add_user, WithUser
      <4> QED
        BY <2>7, <3>1, <3>3, <4>1, OnlyRows DEF add_user
    <3> QED
      BY <3>2, <3>3
  <2>8. CASE delete_user(p)
    <3>1. pages[p].id # 1
      BY <2>8 DEF delete_user, ServedAt, AdminInv, NoneRemovesIt
    <3>2. users' = [u \in UserIds \ {pages[p].id} |-> users[u]]
      BY <2>8 DEF delete_user
    <3>3. OtherPagesStay(p) /\ pages'[p].op # "remove"
      BY <2>8 DEF delete_user, Answered, NoPage, OtherPagesStay
    <3> QED
      BY <2>8, <3>1, <3>2, <3>3, OnlyRows DEF delete_user
  <2>9. CASE change_username(p)
    <3>1. OtherPagesStay(p) /\ pages'[p].op # "remove"
      BY <2>9 DEF change_username, ServedAt, NoPage, OtherPagesStay
    <3>2. /\ DOMAIN users' = UserIds
          /\ \A u \in UserIds : users'[u].superuser = users[u].superuser
      BY <2>9 DEF change_username, UserIds
    <3> QED
      BY <2>9, <3>1, <3>2, OnlyRows DEF change_username
  <2>10. CASE change_password(p)
    <3>1. OtherPagesStay(p) /\ pages'[p].op # "remove"
      BY <2>10 DEF change_password, Answered, NoPage, OtherPagesStay
    <3>2. /\ DOMAIN users' = UserIds
          /\ \A u \in UserIds : users'[u].superuser = users[u].superuser
      BY <2>10 DEF change_password, UserIds
    <3> QED
      BY <2>10, <3>1, <3>2, OnlyRows DEF change_password
  <2> QED
    BY <1>6, <2>1, <2>2, <2>3, <2>4, <2>5, <2>6, <2>7, <2>8, <2>9, <2>10
<1> QED
  BY <1>1, <1>2, <1>3, <1>4, <1>5, <1>6 DEF UsersNext

(* The server that answers has its superuser, whatever is requested in     *)
(* whatever order and however often it restarts, if no restart cut the     *)
(* first setup short (init/setup.rs:134-156, user.rs:110-130).             *)
THEOREM AdminStays == UsersSpec => []AlwaysAdmin
<1>1. AdminInv => AlwaysAdmin
  BY DEF AdminInv, SetupStage, OneSuperuser, AlwaysAdmin
<1> QED
  BY AdminInit, AdminStep, <1>1, PTL DEF UsersSpec
----------------------------------------------------------------------------
(* Only the owner of an account uses it.  A session and a login on its way *)
(* hold the hash of a password that their person knows; a request that     *)
(* changes an account brings a password that the account's owner knows,    *)
(* unless the account was given the number of the one it was made for.     *)

(* Rows are numbered from 1: no row has the number of NoSession.           *)
Numbered == \E n \in Nat : UserIds \subseteq 1..n

OwnHashes ==
  \A p \in People :
    /\ sessions[p] # NoSession => sessions[p].hash.by = p
    /\ pages[p].op = "login" => pages[p].session.hash.by = p

OwnPasswords ==
  \A u \in UserIds : users[u].renumbered \/ users[u].password.by = users[u].owner

Changing(p, id) == pages[p].op \in {"rename", "repass"} /\ pages[p].id = id

OwnChanges ==
  \A u \in UserIds, p \in People :
    Changing(p, u) => users[u].renumbered \/ pages[p].by = users[u].owner

OwnInv ==
  /\ DOMAIN pages = People /\ DOMAIN sessions = People
  /\ server # "serve" => \A p \in People : pages[p].op = "none"
  /\ Numbered /\ OwnHashes /\ OwnPasswords /\ OwnChanges

(* The largest number in use is one that is in use.                        *)
LEMMA MaxInUse ==
  ASSUME NEW n \in Nat, NEW S, S \subseteq 1..n, S # {}
  PROVE  Max(S) \in S /\ \A y \in S : Max(S) >= y
<1> DEFINE T == {k \in 0..n : n - k \in S}
<1>1. T \subseteq Nat
  OBVIOUS
<1>2. T # {}
  <2>1. PICK x \in S : TRUE
    OBVIOUS
  <2>2. n - x \in 0..n /\ n - (n - x) = x
    BY <2>1
  <2>3. n - x \in T
    BY <2>1, <2>2
  <2> QED
    BY <2>3
<1>3. PICK k \in T : \A j \in T : ~(<<j, k>> \in OpToRel(<, Nat))
  <2> HIDE DEF T
  <2> QED
    BY <1>1, <1>2, NatLessThanWellFounded, WFMin
<1>4. \A j \in T : k <= j
  <2> TAKE j \in T
  <2>1. j \in Nat /\ k \in Nat
    BY <1>1
  <2>2. ~(j < k)
    BY <1>3, <2>1 DEF OpToRel
  <2> QED
    BY <2>1, <2>2
<1>5. n - k \in S /\ \A y \in S : n - k >= y
  <2>1. \A y \in S : n - y \in T
    OBVIOUS
  <2>2. \A y \in S : k <= n - y
    BY <1>4, <2>1
  <2> QED
    BY <2>2
<1> QED
  BY <1>5 DEF Max

(* A new row has a number of its own.                                      *)
LEMMA NextIsNew ==
  ASSUME Numbered
  PROVE  NextUser \in Nat /\ NextUser > 0
<1>1. PICK n \in Nat : UserIds \subseteq 1..n
  BY DEF Numbered
<1>2. CASE UserIds = {}
  BY <1>2 DEF NextUser
<1>3. CASE UserIds # {}
  <2> DEFINE m == Max(UserIds)
  <2>1. m \in UserIds
    BY <1>1, <1>3, MaxInUse
  <2>2. NextUser = m + 1
    BY <1>3 DEF NextUser
  <2> HIDE DEF m
  <2>3. m \in 1..n
    BY <1>1, <2>1
  <2> QED
    BY <2>2, <2>3
<1> QED
  BY <1>2, <1>3

(* No row has the number of no session.                                    *)
LEMMA NoneOfNoSession ==
  ASSUME Numbered, NEW p \in People, sessions[p].id \in UserIds
  PROVE  sessions[p] # NoSession
  BY DEF Numbered, NoSession

(* Whoever has a session that an account accepts owns the account.         *)
LEMMA AcceptedIsOwner ==
  ASSUME OwnInv, NEW p \in People, sessions[p].id \in UserIds, Valid(sessions[p])
  PROVE  users[sessions[p].id].renumbered \/ users[sessions[p].id].owner = p
<1>1. sessions[p].hash.by = p
  BY NoneOfNoSession DEF OwnInv, OwnHashes
<1> QED
  BY <1>1 DEF OwnInv, OwnPasswords, Valid

(* The strengthening holds before the first setup.                         *)
LEMMA OwnInitially == UsersInit => OwnInv
<1> SUFFICES ASSUME UsersInit PROVE OwnInv
  OBVIOUS
<1>1. UserIds = {} /\ \A p \in People : sessions[p] = NoSession /\ pages[p].op = "none"
  BY DEF UsersInit, UserIds, NoPage
<1>2. Numbered
  BY <1>1 DEF Numbered
<1> QED
  BY <1>1, <1>2 DEF UsersInit, OwnInv, OwnHashes, OwnPasswords, OwnChanges

(* What a request leaves: its page is another, all else is the same.       *)
LEMMA OwnPage ==
  ASSUME OwnInv, NEW p \in People, OtherPagesStay(p), server = "serve",
         pages'[p].op = "login" => pages'[p].session.hash.by = p,
         \A u \in UserIds :
           Changing(p, u)' => users[u].renumbered \/ pages'[p].by = users[u].owner,
         UNCHANGED <<server, users, sessions>>
  PROVE  OwnInv'
<1>1. Numbered' /\ OwnPasswords' /\ DOMAIN pages' = People
  BY DEF OwnInv, OtherPagesStay, Numbered, OwnPasswords, UserIds
<1>2. OwnHashes'
  BY DEF OwnInv, OwnHashes, OtherPagesStay
<1>3. OwnChanges'
  BY DEF OwnInv, OwnChanges, Changing, OtherPagesStay, UserIds
<1> QED
  BY <1>1, <1>2, <1>3 DEF OwnInv

(* Rows that keep their owners, and their passwords the owners' own.       *)
LEMMA OwnRows ==
  ASSUME OwnInv, NEW p \in People, OtherPagesStay(p), server = "serve",
         pages'[p].op # "login",
         \A u \in UserIds' :
           users'[u].renumbered
           \/ /\ users'[u].password.by = users'[u].owner
              /\ \A q \in People : Changing(q, u)' => pages'[q].by = users'[u].owner,
         Numbered',
         UNCHANGED <<server, sessions>>
  PROVE  OwnInv'
<1>1. DOMAIN pages' = People /\ DOMAIN sessions' = People
  BY DEF OwnInv, OtherPagesStay
<1>2. OwnHashes'
  BY DEF OwnInv, OwnHashes, OtherPagesStay
<1>3. OwnPasswords' /\ OwnChanges'
  BY DEF OwnPasswords, OwnChanges
<1> QED
  BY <1>1, <1>2, <1>3 DEF OwnInv

(* Every step of the pages and every restart keeps it.                     *)
LEMMA OwnStep == OwnInv /\ [UsersNext]_userVars => OwnInv'
<1> SUFFICES ASSUME OwnInv, [UsersNext]_userVars PROVE OwnInv'
  OBVIOUS
<1>1. CASE UNCHANGED userVars
  BY <1>1 DEF userVars, OwnInv, Numbered, OwnHashes, OwnPasswords, OwnChanges, Changing,
              UserIds
<1>2. CASE OpenDatabase \/ create_user_table
  <2>1. server' # "serve" \/ server = "start"
    BY <1>2 DEF OpenDatabase, create_user_table
  <2>2. server # "serve" /\ UNCHANGED <<users, sessions, pages>>
    BY <1>2 DEF OpenDatabase, create_user_table
  <2> QED
    BY <2>2 DEF OwnInv, Numbered, OwnHashes, OwnPasswords, OwnChanges, Changing, UserIds
<1>3. CASE create_admin
  <2>1. /\ UserIds' = {1} /\ users'[1].password.by = users'[1].owner
        /\ UNCHANGED <<sessions, pages>> /\ \A p \in People : pages[p].op = "none"
    BY <1>3 DEF create_admin, Hash, UserIds, OwnInv
  <2>2. Numbered'
    BY <2>1 DEF Numbered
  <2>3. OwnHashes' /\ OwnPasswords' /\ OwnChanges'
    BY <2>1 DEF OwnInv, OwnHashes, OwnPasswords, OwnChanges, Changing
  <2> QED
    BY <2>1, <2>2, <2>3 DEF OwnInv
<1>4. CASE RestartServer
  <2>1. /\ users' = users
        /\ DOMAIN pages' = People /\ DOMAIN sessions' = People
        /\ \A p \in People : sessions'[p] = NoSession /\ pages'[p].op = "none"
    BY <1>4 DEF RestartServer, NoPage
  <2> QED
    BY <2>1 DEF OwnInv, Numbered, OwnHashes, OwnPasswords, OwnChanges, Changing, UserIds
<1>5. ASSUME NEW p \in People,
             \/ authenticate(p) \/ login(p) \/ logout(p) \/ SessionRefused(p)
             \/ new_user(p) \/ remove_user(p) \/ modify_user(p)
             \/ add_user(p) \/ delete_user(p) \/ change_username(p) \/ change_password(p)
      PROVE OwnInv'
  <2> p \in DOMAIN pages /\ p \in DOMAIN sessions
    BY DEF OwnInv
  <2>1. CASE authenticate(p)
    <3>1. PICK id \in UserIds :
            /\ users[id].password.by = p
            /\ pages' = [pages EXCEPT ![p] =
                 [op |-> "login", session |-> [id |-> id, hash |-> users[id].password]]]
      BY <2>1 DEF authenticate
    <3>2. /\ OtherPagesStay(p)
          /\ pages'[p].op = "login" /\ pages'[p].session.hash.by = p
      BY <3>1 DEF OtherPagesStay
    <3>3. server = "serve" /\ UNCHANGED <<server, users, sessions>>
      BY <2>1 DEF authenticate, Serving
    <3> QED
      BY <3>2, <3>3, OwnPage DEF Changing
  <2>2. CASE login(p)
    <3>1. /\ pages[p].op = "login" /\ OtherPagesStay(p) /\ pages'[p].op = "none"
          /\ UNCHANGED <<server, users>>
          /\ DOMAIN sessions' = People
          /\ sessions'[p] = pages[p].session
          /\ \A q \in People \ {p} : sessions'[q] = sessions[q]
      BY <2>2 DEF login, NoPage, OtherPagesStay, OwnInv
    <3>2. server = "serve" /\ DOMAIN pages' = People
      BY <3>1 DEF OwnInv, OtherPagesStay
    <3>3. OwnHashes'
      BY <3>1 DEF OwnInv, OwnHashes, OtherPagesStay
    <3>4. Numbered' /\ OwnPasswords'
      BY <3>1 DEF OwnInv, Numbered, OwnPasswords, UserIds
    <3>5. OwnChanges'
      BY <3>1 DEF OwnInv, OwnChanges, Changing, OtherPagesStay, UserIds
    <3> QED
      BY <3>1, <3>2, <3>3, <3>4, <3>5 DEF OwnInv
  <2>3. CASE logout(p) \/ SessionRefused(p)
    <3>1. /\ UNCHANGED <<server, users, pages>>
          /\ sessions' = [sessions EXCEPT ![p] = NoSession]
      BY <2>3 DEF logout, SessionRefused
    <3>2. OwnHashes'
      BY <3>1 DEF OwnInv, OwnHashes
    <3> QED
      BY <3>1, <3>2 DEF OwnInv, Numbered, OwnPasswords, OwnChanges, Changing, UserIds
  <2>4. CASE new_user(p)
    <3>1. OtherPagesStay(p) /\ pages'[p].op = "add"
      BY <2>4 DEF new_user, Request, OtherPagesStay
    <3>2. server = "serve" /\ UNCHANGED <<server, users, sessions>>
      BY <2>4 DEF new_user, Request, Serving
    <3> QED
      BY <3>1, <3>2, OwnPage DEF Changing
  <2>5. CASE remove_user(p)
    <3>1. OtherPagesStay(p) /\ pages'[p].op = "remove"
      BY <2>5 DEF remove_user, Request, OtherPagesStay
    <3>2. server = "serve" /\ UNCHANGED <<server, users, sessions>>
      BY <2>5 DEF remove_user, Request, Serving
    <3> QED
      BY <3>1, <3>2, OwnPage DEF Changing
  <2>6. CASE modify_user(p)
    <3>1. PICK id \in UserIds, name \in Names \cup {""}, newPassword \in BOOLEAN :
            /\ MayModify(p, id)
            /\ Request(p, [op |-> IF name # "" THEN "rename" ELSE "repass", id |-> id,
                           username |-> name, newPassword |-> newPassword,
                           by |-> Informed(p, id)])
      BY <2>6 DEF modify_user
    <3> DEFINE page == [op |-> IF name # "" THEN "rename" ELSE "repass", id |-> id,
                        username |-> name, newPassword |-> newPassword,
                        by |-> Informed(p, id)]
    <3>2. page.op # "login" /\ page.id = id /\ page.by = Informed(p, id)
      OBVIOUS
    <3>3. Request(p, page)
      BY <3>1
    <3> HIDE DEF page
    <3>4. /\ OtherPagesStay(p) /\ server = "serve" /\ pages'[p] = page
          /\ UNCHANGED <<server, users, sessions>>
      BY <3>3 DEF Request, OtherPagesStay, Serving, OwnInv
    <3>5. Valid(sessions[p]) /\ sessions[p].id \in UserIds
      BY <2>6, <3>1 DEF modify_user, Request
    <3>6. users[id].renumbered \/ Informed(p, id) = users[id].owner
      BY <3>1, <3>5, AcceptedIsOwner DEF Informed, MayModify
    <3>7. \A u \in UserIds : Changing(p, u)' => u = id /\ pages'[p].by = Informed(p, id)
      BY <3>2, <3>4 DEF Changing
    <3> QED
      <4>1. pages'[p].op # "login"
        BY <3>2, <3>4
      <4>2. \A u \in UserIds :
              Changing(p, u)' => users[u].renumbered \/ pages'[p].by = users[u].owner
        BY <3>6, <3>7
      <4> QED
        BY <3>4, <4>1, <4>2, OwnPage
  <2>7. CASE add_user(p)
    <3>1. /\ OtherPagesStay(p) /\ pages'[p].op = "none"
          /\ server = "serve" /\ UNCHANGED <<server, sessions>> /\ pages[p].op = "add"
      BY <2>7 DEF add_user, Answered, NoPage, OtherPagesStay, ServedAt
    <3>2. CASE users' = users
      BY <3>1, <3>2, OwnPage DEF Changing
    <3>3. CASE users' # users
      <4> DEFINE row == [username |-> pages[p].username, password |-> Hash(pages[p].owner),
                         superuser |-> FALSE, owner |-> pages[p].owner,
                         renumbered |-> \E q \in People : Changing(q, NextUser)]
      <4>1. users' = WithUser(row)
        BY <2>7, <3>3 DEF add_user, Changing
      <4>2. row.password.by = row.owner
        BY DEF Hash
      <4>3. row.renumbered \/ \A q \in People : ~Changing(q, NextUser)
        OBVIOUS
      <4> HIDE DEF row
      <4>4. /\ UserIds' = UserIds \cup {NextUser}
            /\ \A u \in UserIds : users'[u] = users[u]
            /\ NextUser \notin UserIds => users'[NextUser] = row
        BY <4>1 DEF WithUser, UserIds
      <4>5. Numbered'
        <5>1. PICK n \in Nat : UserIds \subseteq 1..n
          BY DEF OwnInv, Numbered
        <5>2. NextUser \in Nat /\ NextUser > 0
          BY NextIsNew DEF OwnInv
        <5>3. n + NextUser \in Nat /\ UserIds' \subseteq 1..(n + NextUser)
          BY <4>4, <5>1, <5>2
        <5> QED
          BY <5>3 DEF Numbered
      <4>6. \A u : ~Changing(p, u)'
        BY <3>1 DEF Changing
      <4>7. \A q \in People \ {p} : /\ \A u : Changing(q, u)' <=> Changing(q, u)
                                    /\ pages'[q] = pages[q]
        BY <3>1 DEF Changing, OtherPagesStay
      <4>8. ASSUME NEW u \in UserIds'
            PROVE  users'[u].renumbered
                   \/ /\ users'[u].password.by = users'[u].owner
                      /\ \A q \in People : Changing(q, u)' => pages'[q].by = users'[u].owner
        <5>1. CASE u \in UserIds
          <6>1. users'[u] = users[u]
            BY <4>4, <5>1
          <6> QED
            BY <4>6, <4>7, <5>1, <6>1 DEF OwnInv, OwnPasswords, OwnChanges
        <5>2. CASE u \notin UserIds
          <6>1. u = NextUser /\ users'[u] = row
            BY <4>4, <5>2
          <6> QED
            BY <4>2, <4>3, <4>6, <4>7, <6>1
        <5> QED
          BY <5>1, <5>2
      <4> QED
        BY <3>1, <4>5, <4>8, OwnRows
    <3> QED
      BY <3>2, <3>3
  <2>8. CASE delete_user(p)
    <3>1. /\ OtherPagesStay(p) /\ pages'[p].op = "none"
          /\ server = "serve" /\ UNCHANGED <<server, sessions>>
      BY <2>8 DEF delete_user, Answered, NoPage, OtherPagesStay, ServedAt
    <3>2. UserIds' \subseteq UserIds /\ \A u \in UserIds' : users'[u] = users[u]
      BY <2>8 DEF delete_user, UserIds
    <3>3. Numbered'
      BY <3>2 DEF OwnInv, Numbered
    <3>4. \A q \in People : \A u :
            Changing(q, u)' => Changing(q, u) /\ pages'[q] = pages[q]
      BY <3>1 DEF Changing, OtherPagesStay
    <3>5. \A u \in UserIds' :
            users'[u].renumbered
            \/ /\ users'[u].password.by = users'[u].owner
               /\ \A q \in People : Changing(q, u)' => pages'[q].by = users'[u].owner
      BY <3>2, <3>4 DEF OwnInv, OwnPasswords, OwnChanges
    <3> QED
      BY <3>1, <3>3, <3>5, OwnRows
  <2>9. CASE change_username(p)
    <3>1. /\ OtherPagesStay(p) /\ pages[p].op = "rename"
          /\ server = "serve" /\ UNCHANGED <<server, sessions>>
      BY <2>9 DEF change_username, ServedAt, OtherPagesStay
    <3>2. \/ pages'[p].op = "none"
          \/ pages'[p].op = "repass" /\ pages'[p].id = pages[p].id /\ pages'[p].by = pages[p].by
      BY <2>9 DEF change_username, NoPage
    <3>3. /\ UserIds' = UserIds
          /\ \A u \in UserIds : /\ users'[u].renumbered = users[u].renumbered
                                /\ users'[u].password = users[u].password
                                /\ users'[u].owner = users[u].owner
      BY <2>9 DEF change_username, UserIds
    <3>4. Numbered'
      BY <3>3 DEF OwnInv, Numbered
    <3>5. \A q \in People : \A u :
            Changing(q, u)' => Changing(q, u) /\ pages'[q].by = pages[q].by
      BY <3>1, <3>2 DEF Changing, OtherPagesStay
    <3>6. \A u \in UserIds' :
            users'[u].renumbered
            \/ /\ users'[u].password.by = users'[u].owner
               /\ \A q \in People : Changing(q, u)' => pages'[q].by = users'[u].owner
      BY <3>3, <3>5 DEF OwnInv, OwnPasswords, OwnChanges
    <3> QED
      BY <3>1, <3>2, <3>4, <3>6, OwnRows
  <2>10. CASE change_password(p)
    <3>1. /\ OtherPagesStay(p) /\ pages'[p].op = "none" /\ pages[p].op = "repass"
          /\ server = "serve" /\ UNCHANGED <<server, sessions>>
      BY <2>10 DEF change_password, Answered, NoPage, OtherPagesStay, ServedAt
    <3>2. /\ UserIds' = UserIds
          /\ \A u \in UserIds :
               /\ users'[u].renumbered = users[u].renumbered
               /\ users'[u].owner = users[u].owner
               /\ \/ users'[u].password = users[u].password
                  \/ u = pages[p].id /\ users'[u].password.by = pages[p].by
      BY <2>10 DEF change_password, Hash, UserIds
    <3>3. Numbered'
      BY <3>2 DEF OwnInv, Numbered
    <3>4. \A q \in People : \A u :
            Changing(q, u)' => Changing(q, u) /\ pages'[q] = pages[q]
      BY <3>1 DEF Changing, OtherPagesStay
    <3>5. ASSUME NEW u \in UserIds'
          PROVE  users'[u].renumbered
                 \/ /\ users'[u].password.by = users'[u].owner
                    /\ \A q \in People : Changing(q, u)' => pages'[q].by = users'[u].owner
      <4>1. u = pages[p].id => Changing(p, u)
        BY <3>1 DEF Changing
      <4> QED
        BY <3>2, <3>4, <3>5, <4>1 DEF OwnInv, OwnPasswords, OwnChanges
    <3> QED
      BY <3>1, <3>3, <3>5, OwnRows
  <2> QED
    BY <1>5, <2>1, <2>2, <2>3, <2>4, <2>5, <2>6, <2>7, <2>8, <2>9, <2>10
<1> QED
  BY <1>1, <1>2, <1>3, <1>4, <1>5 DEF UsersNext

(* Nobody but its owner uses an account or knows its password, whatever    *)
(* requests overlap and whichever numbers come back, save an account that  *)
(* got the number of one with a change still on its way (user.rs:37 and    *)
(* 153-218).                                                               *)
THEOREM OwnAccountsAlways == UsersSpec => []OwnAccounts
<1>1. OwnInv => OwnAccounts
  BY AcceptedIsOwner DEF OwnInv, OwnPasswords, OwnAccounts
<1> QED
  BY OwnInitially, OwnStep, <1>1, PTL DEF UsersSpec

----------------------------------------------------------------------------
(***************************************************************************)
(* The server's tables, for any devices, pages, tokens and budgets and any *)
(* overlapping of the requests' statements: what rows refer to exists, a   *)
(* completed command keeps its picture, a command is handed out once       *)
(* unless two requests race, and a page of commands agrees with their      *)
(* number.                                                                 *)
(***************************************************************************)

WebSpec == WebInit /\ [][WebNext]_webVars

----------------------------------------------------------------------------
(* Rows and what they refer to.                                            *)

NumberedFrom1(table) == \E n \in Nat : DOMAIN table \subseteq 1..n

CommandRow ==
  [key : KeyIds, status : -6..3, time : BOOLEAN, serial : Nat, reused : BOOLEAN]

Allowance == [keys : Nat, commands : Nat, requests : Nat, restarts : Nat]

(* A device reports neither that a command waits nor that it was fetched.  *)
Reporting(r) == requests[r].op = "respond"
Reportable == -3..2 \ {0, 1}

RowsOK ==
  /\ DOMAIN requests = Requests
  /\ left \in Allowance
  /\ NumberedFrom1(keys) /\ NumberedFrom1(commands)
  /\ \A id \in CommandIds : commands[id] \in CommandRow
  /\ \A i \in images : i.command_id \in CommandIds
  /\ \A token \in diagnostics : verify_key(token)
  /\ \A r \in Requests : Reporting(r) => requests[r].status \in Reportable

(* The number of a new row is free.                                        *)
LEMMA NextIdIsFree ==
  ASSUME NEW table, NumberedFrom1(table)
  PROVE  /\ NextId(table) \notin DOMAIN table
         /\ \E n \in Nat : DOMAIN table \cup {NextId(table)} \subseteq 1..n
<1>1. PICK n \in Nat : DOMAIN table \subseteq 1..n
  BY DEF NumberedFrom1
<1>2. CASE DOMAIN table = {}
  <2>1. NextId(table) = 1
    BY <1>2 DEF NextId
  <2> QED
    BY <1>2, <2>1
<1>3. CASE DOMAIN table # {}
  <2> DEFINE m == Max(DOMAIN table)
  <2>1. m \in DOMAIN table /\ \A y \in DOMAIN table : m >= y
    BY <1>1, <1>3, MaxInUse
  <2>2. NextId(table) = m + 1
    BY <1>3 DEF NextId
  <2> HIDE DEF m
  <2>3. m \in 1..n
    BY <1>1, <2>1
  <2>4. DOMAIN table \cup {m + 1} \subseteq 1..(m + 1) /\ m + 1 \in Nat
    BY <1>1, <2>1, <2>3
  <2>5. m + 1 \notin DOMAIN table
    BY <1>1, <2>1, <2>3
  <2> QED
    BY <2>2, <2>4, <2>5
<1> QED
  BY <1>2, <1>3

(* A row put in the table leaves the others as they are.                   *)
LEMMA PutAdds ==
  ASSUME NEW table, NumberedFrom1(table), NEW row, NEW new,
         new = Put(table, NextId(table), row)
  PROVE  /\ DOMAIN new = DOMAIN table \cup {NextId(table)}
         /\ new[NextId(table)] = row
         /\ \A i \in DOMAIN table : new[i] = table[i]
         /\ NumberedFrom1(new)
<1>1. /\ DOMAIN new = DOMAIN table \cup {NextId(table)}
      /\ new[NextId(table)] = row
      /\ \A i \in DOMAIN table : i # NextId(table) => new[i] = table[i]
  BY DEF Put
<1> QED
  BY <1>1, NextIdIsFree DEF NumberedFrom1

(* Writing a status changes no other column and no other row.              *)
LEMMA StatusWritten ==
  ASSUME RowsOK, NEW id, NEW outcome \in -6..3, modify_command_status(id, outcome)
  PROVE  /\ CommandIds' = CommandIds
         /\ \A j \in CommandIds :
              /\ commands'[j] \in CommandRow
              /\ commands'[j].key = commands[j].key
              /\ commands'[j].serial = commands[j].serial
              /\ commands'[j].reused = commands[j].reused
              /\ commands'[j].status = IF j = id THEN outcome ELSE commands[j].status
<1>1. CASE id \in CommandIds
  <2>1. commands' = [commands EXCEPT ![id].status = outcome]
    BY <1>1 DEF modify_command_status
  <2>2. CommandIds' = CommandIds /\ \A j \in CommandIds \ {id} : commands'[j] = commands[j]
    BY <2>1 DEF CommandIds
  <2>3. commands'[id] = [commands[id] EXCEPT !.status = outcome]
    BY <1>1, <2>1 DEF CommandIds
  <2>4. commands[id] \in CommandRow
    BY <1>1 DEF RowsOK
  <2> QED
    BY <2>2, <2>3, <2>4 DEF RowsOK, CommandRow
<1>2. CASE id \notin CommandIds
  BY <1>2 DEF modify_command_status, CommandIds, RowsOK
<1> QED
  BY <1>1, <1>2

(* Marking requests as overtaken changes nothing else of them.             *)
LEMMA OvertakenMarks ==
  ASSUME NEW ids
  PROVE  /\ DOMAIN Overtaken(ids) = Requests
         /\ \A r \in Requests :
              /\ Overtaken(ids)[r].op = requests[r].op
              /\ Overtaken(ids)[r].at = requests[r].at
              /\ Overtaken(ids)[r].id = requests[r].id
              /\ Overtaken(ids)[r].status = requests[r].status
              /\ Overtaken(ids)[r].serial = requests[r].serial
              /\ Overtaken(ids)[r].path = requests[r].path
              /\ DOMAIN Overtaken(ids)[r] = DOMAIN requests[r]
  BY DEF Overtaken

(* The reports that are on their way stay what the devices may report.     *)
ReportsOK ==
  DOMAIN requests = Requests
  /\ \A r \in Requests : Reporting(r) => requests[r].status \in Reportable

(* The rows are in order when the server starts empty.                     *)
LEMMA RowsInitially == WebInit => RowsOK
<1> SUFFICES ASSUME WebInit PROVE RowsOK
  OBVIOUS
<1>1. KeyIds = {} /\ CommandIds = {} /\ \A r \in Requests : requests[r].op = "none"
  BY DEF WebInit, KeyIds, CommandIds, Idle
<1>2. NumberedFrom1(keys) /\ NumberedFrom1(commands)
  BY <1>1 DEF NumberedFrom1, KeyIds, CommandIds
<1>3. left \in Allowance
  BY BudgetsAssumption DEF WebInit, Allowance
<1> QED
  BY <1>1, <1>2, <1>3 DEF WebInit, RowsOK, Reporting

(* Spending from one budget leaves the others alone.                       *)
LEMMA SpendKeeps ==
  ASSUME left \in Allowance, NEW what \in {"keys", "commands", "requests", "restarts"},
         Spend(what)
  PROVE  /\ left' \in Allowance
         /\ left'[what] = left[what] - 1
         /\ \A w \in {"keys", "commands", "requests", "restarts"} \ {what} : left'[w] = left[w]
  BY DEF Spend, Allowance

(* Whatever is done to the requests, no report of another kind is made.    *)
LEMMA ReportsStep == RowsOK /\ [WebNext]_webVars => ReportsOK'
<1> SUFFICES ASSUME RowsOK, [WebNext]_webVars PROVE ReportsOK'
  OBVIOUS
<1> USE DEF ReportsOK, Reporting
<1>1. CASE UNCHANGED webVars
  BY <1>1 DEF webVars, RowsOK
<1>2. ASSUME NEW r \in Devices, DeviceRequest(r)
      PROVE  ReportsOK'
  <2> r \in Requests
    BY DEF Requests
  <2>1. CASE FetchReads(r) \/ UploadVerifies(r) \/ send_diagnostics(r)
    BY <2>1 DEF FetchReads, UploadVerifies, send_diagnostics, Receive, Begin, RowsOK
  <2>2. CASE RespondChecks(r)
    <3>1. PICK token \in Tokens, id \in CommandIds, outcome \in Reports :
            /\ Accepts(token, id, outcome)
            /\ Receive(r, [op |-> "respond", at |-> "status", id |-> id, status |-> outcome,
                           overtaken |-> FALSE])
      BY <2>2 DEF RespondChecks
    <3>2. outcome \in Reportable
      BY <3>1, ReportsAssumption DEF Accepts, Reportable
    <3> QED
      BY <3>1, <3>2 DEF Receive, Begin, RowsOK
  <2>3. CASE FetchMarks(r) \/ UploadMarks(r)
    <3>1. requests' = [Overtaken({requests[r].id}) EXCEPT ![r] = Idle]
      BY <2>3 DEF FetchMarks, UploadMarks
    <3> QED
      BY <3>1, OvertakenMarks DEF Idle, RowsOK
  <2>4. CASE RespondWrites(r)
    <3>1. /\ requests[r].op = "respond"
          /\ requests' = [Overtaken({requests[r].id}) EXCEPT
                    ![r] = IF requests[r].status = 2 THEN [requests[r] EXCEPT !.at = "time"]
                           ELSE Idle]
      BY <2>4 DEF RespondWrites, RequestAt
    <3>2. requests'[r].op = "none" \/ requests'[r].status = requests[r].status
      BY <3>1, OvertakenMarks DEF Idle
    <3> QED
      BY <3>1, <3>2, OvertakenMarks DEF RowsOK
  <2>5. CASE update_command_est_time(r) \/ new_diagnostic(r)
    BY <2>5 DEF update_command_est_time, new_diagnostic, Finish, Idle, RowsOK
  <2>6. CASE UploadWritesFile(r)
    BY <2>6 DEF UploadWritesFile, Begin, RowsOK
  <2>7. CASE register_image(r)
    BY <2>7 DEF register_image, Begin, Finish, Idle, RowsOK
  <2> QED
    BY <1>2, <2>1, <2>2, <2>3, <2>4, <2>5, <2>6, <2>7 DEF DeviceRequest
<1>3. ASSUME NEW r \in Pages, delete_commands_by_key(r) \/ delete_key(r)
      PROVE  ReportsOK'
  <2> r \in Requests
    BY DEF Requests
  <2>1. CASE delete_commands_by_key(r)
    BY <2>1, OvertakenMarks DEF delete_commands_by_key, RowsOK
  <2>2. CASE delete_key(r)
    BY <2>2 DEF delete_key, Finish, Idle, RowsOK
  <2> QED
    BY <1>3, <2>1, <2>2
<1>4. CASE new_key \/ new_command
  BY <1>4 DEF new_key, new_command, RowsOK
<1>5. CASE remove_command
  <2>1. PICK id \in CommandIds : requests' = Overtaken({id})
    BY <1>5 DEF remove_command
  <2> QED
    BY <2>1, OvertakenMarks DEF RowsOK
<1>6. CASE Restart
  BY <1>6 DEF Restart, Idle
<1> QED
  BY <1>1, <1>2, <1>3, <1>4, <1>5, <1>6 DEF WebNext

(* What a handler writes to the columns of a command, and no more.         *)
RowsKeep ==
  /\ CommandIds' = CommandIds
  /\ \A j \in CommandIds : /\ commands'[j] \in CommandRow
                           /\ commands'[j].key = commands[j].key
                           /\ commands'[j].serial = commands[j].serial
                           /\ commands'[j].reused = commands[j].reused

(* Writing the estimated time of a command changes neither its status nor  *)
(* what refers to it.                                                      *)
LEMMA TimeWritten ==
  ASSUME RowsOK, NEW r, update_command_est_time(r)
  PROVE  RowsKeep /\ \A j \in CommandIds : commands'[j].status = commands[j].status
<1>1. CASE requests[r].id \in CommandIds
  <2> DEFINE id == requests[r].id
  <2>1. commands' = [commands EXCEPT ![id].time = TRUE]
    BY <1>1 DEF update_command_est_time
  <2>2. CommandIds' = CommandIds /\ \A j \in CommandIds \ {id} : commands'[j] = commands[j]
    BY <2>1 DEF CommandIds
  <2>3. commands'[id] = [commands[id] EXCEPT !.time = TRUE]
    BY <1>1, <2>1 DEF CommandIds
  <2>4. commands[id] \in CommandRow
    BY <1>1 DEF RowsOK
  <2> QED
    BY <2>2, <2>3, <2>4, ZenonT(60) DEF RowsOK, RowsKeep, CommandRow
<1>2. CASE requests[r].id \notin CommandIds
  BY <1>2 DEF update_command_est_time, CommandIds, RowsOK, RowsKeep
<1> QED
  BY <1>1, <1>2

(* Columns are written, the other tables stay.                             *)
LEMMA RowsKept ==
  ASSUME RowsOK, ReportsOK', left' \in Allowance, RowsKeep,
         UNCHANGED <<keys, images, diagnostics>>
  PROVE  RowsOK'
<1>1. KeyIds' = KeyIds /\ CommandRow' = CommandRow
  BY DEF KeyIds, CommandRow
<1>2. NumberedFrom1(keys)' /\ NumberedFrom1(commands)'
  BY DEF RowsOK, RowsKeep, NumberedFrom1, CommandIds
<1> QED
  BY <1>1, <1>2 DEF RowsOK, ReportsOK, RowsKeep, verify_key

(* Rows that are left alone keep what refers to them.                      *)
LEMMA CommandsStay ==
  ASSUME RowsOK, UNCHANGED commands
  PROVE  RowsKeep
  BY DEF RowsOK, RowsKeep, CommandIds

(* Rows that are deleted are referred to by none that stay.                *)
LEMMA CommandsDeleted ==
  ASSUME RowsOK, ReportsOK', left' \in Allowance,
         NEW ids, commands' = Delete(commands, ids),
         \A i \in images : i.command_id \notin ids,
         UNCHANGED <<keys, images, diagnostics>>
  PROVE  RowsOK'
<1>1. CommandIds' = CommandIds \ ids /\ \A id \in CommandIds' : commands'[id] = commands[id]
  BY DEF Delete, CommandIds
<1>2. KeyIds' = KeyIds /\ CommandRow' = CommandRow
  BY DEF KeyIds, CommandRow
<1>3. NumberedFrom1(keys)' /\ NumberedFrom1(commands)'
  BY <1>1 DEF RowsOK, NumberedFrom1, CommandIds
<1> QED
  BY <1>1, <1>2, <1>3 DEF RowsOK, ReportsOK, verify_key

(* Every statement, deletion and restart keeps the rows in order.          *)
LEMMA RowsStep == RowsOK /\ [WebNext]_webVars => RowsOK'
<1> SUFFICES ASSUME RowsOK, [WebNext]_webVars PROVE RowsOK'
  OBVIOUS
<1>a. ReportsOK'
  BY ReportsStep
<1>b. left \in Allowance
  BY DEF RowsOK
<1>1. CASE UNCHANGED webVars
  BY <1>1, <1>a, <1>b, RowsKept, CommandsStay DEF webVars
<1>2. ASSUME NEW r \in Devices, DeviceRequest(r)
      PROVE  RowsOK'
  <2>1. CASE FetchReads(r) \/ RespondChecks(r) \/ UploadVerifies(r) \/ send_diagnostics(r)
    <3>1. Spend("requests") /\ UNCHANGED <<commands, keys, images, diagnostics>>
      BY <2>1 DEF FetchReads, RespondChecks, UploadVerifies, send_diagnostics, Receive
    <3> QED
      BY <3>1, <1>a, <1>b, SpendKeeps, RowsKept, CommandsStay
  <2>2. CASE FetchMarks(r) \/ RespondWrites(r) \/ UploadMarks(r)
    <3>1. UNCHANGED <<left, keys, images, diagnostics>>
      BY <2>2 DEF FetchMarks, RespondWrites, UploadMarks
    <3>2. PICK outcome \in -6..3 : modify_command_status(requests[r].id, outcome)
      BY <2>2 DEF FetchMarks, RespondWrites, UploadMarks, RequestAt, RowsOK, Reporting,
                  Reportable, Requests
    <3>3. RowsKeep
      BY <3>2, StatusWritten DEF RowsKeep
    <3> QED
      BY <3>1, <3>3, <1>a, <1>b, RowsKept
  <2>3. CASE update_command_est_time(r)
    <3>1. UNCHANGED <<left, keys, images, diagnostics>>
      BY <2>3 DEF update_command_est_time
    <3> QED
      BY <2>3, <3>1, <1>a, <1>b, TimeWritten, RowsKept
  <2>4. CASE UploadWritesFile(r)
    BY <2>4, <1>a, <1>b, RowsKept, CommandsStay DEF UploadWritesFile
  <2>5. CASE register_image(r)
    <3>1. UNCHANGED <<keys, commands, diagnostics, left>>
      BY <2>5 DEF register_image
    <3>2. \A i \in images' : i.command_id \in CommandIds
      BY <2>5 DEF register_image, Registrable, Image, RowsOK
    <3> QED
      BY <3>1, <3>2, <1>a DEF RowsOK, ReportsOK, KeyIds, CommandIds, CommandRow, verify_key,
                              NumberedFrom1
  <2>6. CASE new_diagnostic(r)
    <3>1. UNCHANGED <<keys, commands, images, left>>
      BY <2>6 DEF new_diagnostic
    <3>2. \A token \in diagnostics' : verify_key(token)
      BY <2>6 DEF new_diagnostic, RowsOK
    <3> QED
      BY <3>1, <3>2, <1>a DEF RowsOK, ReportsOK, KeyIds, CommandIds, CommandRow, verify_key,
                              NumberedFrom1
  <2> QED
    BY <1>2, <2>1, <2>2, <2>3, <2>4, <2>5, <2>6 DEF DeviceRequest
<1>3. ASSUME NEW r \in Pages, delete_commands_by_key(r)
      PROVE  RowsOK'
  <2>1. PICK k \in KeyIds :
          /\ \A i \in images : i.command_id \notin CommandsOf(k)
          /\ commands' = Delete(commands, CommandsOf(k))
    BY <1>3 DEF delete_commands_by_key
  <2>2. UNCHANGED <<left, keys, images, diagnostics>>
    BY <1>3 DEF delete_commands_by_key
  <2> QED
    BY <2>1, <2>2, <1>a, <1>b, CommandsDeleted
<1>4. ASSUME NEW r \in Pages, delete_key(r)
      PROVE  RowsOK'
  <2> DEFINE k == requests[r].key
             held == CommandsOf(k) # {} \/ (k \in KeyIds /\ keys[k] \in diagnostics)
  <2>1. UNCHANGED <<commands, images, diagnostics, left>>
    BY <1>4 DEF delete_key
  <2>2. CASE held
    BY <1>4, <2>1, <2>2, <1>a, <1>b, RowsKept, CommandsStay DEF delete_key
  <2>3. CASE ~held
    <3>1. keys' = Delete(keys, {k})
      BY <1>4, <2>3 DEF delete_key
    <3> HIDE DEF k
    <3>2. KeyIds' = KeyIds \ {k} /\ \A j \in KeyIds' : keys'[j] = keys[j]
      BY <3>1 DEF Delete, KeyIds
    <3>3. \A id \in CommandIds : commands[id].key # k
      BY <2>3 DEF CommandsOf
    <3>4. \A token \in diagnostics : verify_key(token)'
      BY <2>3, <3>2 DEF RowsOK, verify_key
    <3>5. CommandIds' = CommandIds
      BY <2>1 DEF CommandIds
    <3>6. \A id \in CommandIds : commands[id] \in CommandRow'
      <4> TAKE id \in CommandIds
      <4>1. commands[id] \in CommandRow /\ commands[id].key \in KeyIds'
        BY <3>2, <3>3 DEF RowsOK, CommandRow
      <4> QED
        BY <4>1 DEF CommandRow
    <3>7. NumberedFrom1(keys)' /\ NumberedFrom1(commands)'
      BY <2>1, <3>2 DEF RowsOK, NumberedFrom1, KeyIds
    <3> QED
      BY <2>1, <3>4, <3>5, <3>6, <3>7, <1>a DEF RowsOK, ReportsOK
  <2> QED
    BY <2>2, <2>3
<1>5. CASE new_key
  <2> DEFINE row == left.keys
  <2>1. /\ Spend("keys") /\ keys' = Put(keys, NextId(keys), row)
        /\ UNCHANGED <<commands, images, diagnostics>>
    BY <1>5 DEF new_key
  <2> HIDE DEF row
  <2>2. /\ KeyIds' = KeyIds \cup {NextId(keys)}
        /\ \A k \in KeyIds : keys'[k] = keys[k]
        /\ NumberedFrom1(keys')
    <3>1. NumberedFrom1(keys)
      BY DEF RowsOK
    <3>2. /\ DOMAIN keys' = DOMAIN keys \cup {NextId(keys)}
          /\ \A k \in DOMAIN keys : keys'[k] = keys[k]
          /\ NumberedFrom1(keys')
      BY <2>1, <3>1, PutAdds
    <3> QED
      BY <3>2 DEF KeyIds
  <2>3. left' \in Allowance
    BY <2>1, <1>b, SpendKeeps
  <2>4. CommandIds' = CommandIds /\ NumberedFrom1(commands)' /\ NumberedFrom1(keys)'
    BY <2>1, <2>2 DEF CommandIds, RowsOK, NumberedFrom1
  <2>5. \A id \in CommandIds : commands[id] \in CommandRow'
    BY <2>2 DEF RowsOK, CommandRow
  <2>6. \A token \in diagnostics : verify_key(token)'
    BY <2>2 DEF RowsOK, verify_key
  <2> QED
    BY <2>1, <2>3, <2>4, <2>5, <2>6, <1>a DEF RowsOK, ReportsOK
<1>6. CASE new_command
  <2> DEFINE id == NextId(commands)
             reused == \E r \in Requests : requests[r].op \in {"fetch", "respond"}
                                           /\ requests[r].id = id
  <2>1. PICK k \in KeyIds :
          commands' = Put(commands, id, [key |-> k, status |-> 0, time |-> FALSE,
                                         serial |-> left.commands, reused |-> reused])
    BY <1>6 DEF new_command
  <2>2. Spend("commands") /\ UNCHANGED <<keys, images, diagnostics>>
    BY <1>6 DEF new_command
  <2> DEFINE row == [key |-> k, status |-> 0, time |-> FALSE,
                     serial |-> left.commands, reused |-> reused]
  <2>3. row \in CommandRow
    BY <1>b DEF CommandRow, Allowance
  <2> HIDE DEF row
  <2>4. commands' = Put(commands, id, row)
    BY <2>1 DEF row
  <2> HIDE DEF id
  <2>5. /\ CommandIds' = CommandIds \cup {id} /\ commands'[id] = row
        /\ \A j \in CommandIds : commands'[j] = commands[j]
        /\ NumberedFrom1(commands')
    BY <2>4, PutAdds DEF RowsOK, CommandIds, id
  <2>6. left' \in Allowance
    BY <2>2, <1>b, SpendKeeps
  <2>7. KeyIds' = KeyIds /\ CommandRow' = CommandRow
    BY <2>2 DEF KeyIds, CommandRow
  <2>8. NumberedFrom1(keys)' /\ NumberedFrom1(commands)'
    BY <2>2, <2>5 DEF RowsOK, NumberedFrom1
  <2> QED
    BY <2>2, <2>3, <2>5, <2>6, <2>7, <2>8, <1>a DEF RowsOK, ReportsOK, verify_key
<1>7. CASE remove_command
  <2>1. PICK id \in CommandIds : modify_command_status(id, -6)
    BY <1>7 DEF remove_command
  <2>2. UNCHANGED <<left, keys, images, diagnostics>>
    BY <1>7 DEF remove_command
  <2>3. RowsKeep
    BY <2>1, StatusWritten DEF RowsKeep
  <2> QED
    BY <2>2, <2>3, <1>a, <1>b, RowsKept
<1>8. CASE Restart
  <2>1. Spend("restarts") /\ UNCHANGED <<keys, commands, diagnostics>>
    BY <1>8 DEF Restart
  <2>2. \A i \in images' : i.command_id \in CommandIds
    BY <1>8 DEF Restart, check_images, Registrable, Image, RowsOK
  <2>3. left' \in Allowance
    BY <2>1, <1>b, SpendKeeps
  <2> QED
    BY <2>1, <2>2, <2>3, <1>a DEF RowsOK, ReportsOK, KeyIds, CommandIds, CommandRow,
                                 verify_key, NumberedFrom1
<1> QED
  BY <1>1, <1>2, <1>3, <1>4, <1>5, <1>6, <1>7, <1>8 DEF WebNext

----------------------------------------------------------------------------
(* Pictures.  No file is ever removed, and a command with an image keeps   *)
(* its key and number.  Only a start of the server takes an image off the  *)
(* table: one whose file it does not find.                                 *)

Uploading(r, point) == requests[r].op = "upload" /\ requests[r].at = point
Pictured(id) == \E i \in images : i.command_id = id
Filed(id) == \E path \in image_files : path[2] = id

PicturesKept ==
  /\ \A i \in images : i.path \in image_files /\ i.path[2] = i.command_id
  /\ \A id \in CommandIds :
       commands[id].status = 3 => /\ Filed(id)
                                  /\ Pictured(id) \/ commands[id].serial \in dropped
  /\ \A r \in Requests :
       /\ Uploading(r, "register") =>
            requests[r].path \in image_files /\ requests[r].path[2] = requests[r].id
       /\ Uploading(r, "status") => Pictured(requests[r].id)

(* There is no completed command when the server starts empty.             *)
LEMMA PicturesInitially == WebInit => PicturesKept
<1> SUFFICES ASSUME WebInit PROVE PicturesKept
  OBVIOUS
<1>1. CommandIds = {} /\ images = {} /\ \A r \in Requests : requests[r].op = "none"
  BY DEF WebInit, CommandIds, Idle
<1> QED
  BY <1>1 DEF PicturesKept, Uploading

(* Uploads go on, images stay, and what is completed has its picture.      *)
LEMMA PicturesStay ==
  ASSUME PicturesKept, images \subseteq images', image_files \subseteq image_files',
         dropped \subseteq dropped',
         \A i \in images' : i.path \in image_files' /\ i.path[2] = i.command_id,
         \A id \in CommandIds' :
           commands'[id].status = 3 =>
             \/ Pictured(id)'
             \/ /\ id \in CommandIds /\ commands[id].status = 3
                /\ commands'[id].serial = commands[id].serial,
         \A r \in Requests :
           \/ /\ requests'[r].op = requests[r].op /\ requests'[r].at = requests[r].at
              /\ requests'[r].id = requests[r].id /\ requests'[r].path = requests[r].path
           \/ requests'[r].op # "upload"
           \/ /\ requests'[r].op = "upload" /\ requests'[r].at = "write"
           \/ /\ requests'[r].op = "upload" /\ requests'[r].at = "register"
              /\ requests'[r].path \in image_files'
              /\ requests'[r].path[2] = requests'[r].id
           \/ /\ requests'[r].op = "upload" /\ requests'[r].at = "status"
              /\ Pictured(requests[r].id)' /\ requests'[r].id = requests[r].id
  PROVE  PicturesKept'
<1>1. \A id : Pictured(id) => Pictured(id)'
  BY DEF Pictured
<1>2. \A id \in CommandIds' :
        commands'[id].status = 3 => /\ Filed(id)'
                                    /\ Pictured(id)' \/ commands'[id].serial \in dropped'
  <2> SUFFICES ASSUME NEW id \in CommandIds', commands'[id].status = 3
               PROVE  Filed(id)' /\ (Pictured(id)' \/ commands'[id].serial \in dropped')
    OBVIOUS
  <2>1. CASE Pictured(id)'
    BY <2>1 DEF Pictured, Filed
  <2>2. CASE ~Pictured(id)'
    <3>1. /\ id \in CommandIds /\ commands[id].status = 3
          /\ commands'[id].serial = commands[id].serial
      BY <2>2
    <3>2. Filed(id) /\ commands[id].serial \in dropped
      BY <1>1, <2>2, <3>1 DEF PicturesKept
    <3> QED
      BY <3>1, <3>2 DEF Filed
  <2> QED
    BY <2>1, <2>2
<1>3. ASSUME NEW r \in Requests
      PROVE  /\ Uploading(r, "register")' =>
                  requests'[r].path \in image_files' /\ requests'[r].path[2] = requests'[r].id
             /\ Uploading(r, "status")' => Pictured(requests[r].id)'
  BY <1>1 DEF PicturesKept, Uploading
<1>4. \A r \in Requests : Uploading(r, "status")' => requests'[r].id = requests[r].id
  BY DEF Uploading
<1> QED
  BY <1>2, <1>3, <1>4 DEF PicturesKept, Pictured

(* A step of request r alone.                                              *)
Others(r) == \A q \in Requests \ {r} : requests'[q] = requests[q]

(* Every statement, deletion and restart keeps the pictures of completed   *)
(* commands.                                                               *)
LEMMA PicturesStep == RowsOK /\ PicturesKept /\ [WebNext]_webVars => PicturesKept'
<1> SUFFICES ASSUME RowsOK, PicturesKept, [WebNext]_webVars PROVE PicturesKept'
  OBVIOUS
<1>a. /\ DOMAIN requests = Requests
      /\ \A i \in images : i.path \in image_files /\ i.path[2] = i.command_id
  BY DEF RowsOK, PicturesKept
<1>1. CASE UNCHANGED webVars
  BY <1>1, <1>a, PicturesStay DEF webVars, CommandIds
<1>2. ASSUME NEW r \in Devices, DeviceRequest(r)
      PROVE  PicturesKept'
  <2> r \in Requests
    BY DEF Requests
  <2>1. CASE \/ FetchReads(r) \/ RespondChecks(r) \/ UploadVerifies(r) \/ send_diagnostics(r)
             \/ new_diagnostic(r)
    <3>1. UNCHANGED <<commands, images, image_files, dropped>> /\ CommandIds' = CommandIds
      BY <2>1 DEF FetchReads, RespondChecks, UploadVerifies, send_diagnostics,
                  new_diagnostic, CommandIds
    <3>2. /\ Others(r)
          /\ requests'[r].op = "upload" => requests'[r].at = "write"
      BY <2>1, <1>a DEF FetchReads, RespondChecks, UploadVerifies, send_diagnostics,
                  new_diagnostic, Receive, Begin, Finish, Idle, Others
    <3> QED
      BY <3>1, <3>2, <1>a, PicturesStay DEF Others
  <2>2. CASE FetchMarks(r) \/ UploadMarks(r)
    <3>1. UNCHANGED <<images, image_files, dropped>>
          /\ requests' = [Overtaken({requests[r].id}) EXCEPT ![r] = Idle]
      BY <2>2 DEF FetchMarks, UploadMarks
    <3>2. PICK outcome \in -6..3 :
            /\ modify_command_status(requests[r].id, outcome)
            /\ outcome = 3 => Pictured(requests[r].id)
      BY <2>2 DEF FetchMarks, UploadMarks, RequestAt, Uploading, PicturesKept
    <3>3. \A id \in CommandIds' :
            commands'[id].status = 3 =>
              \/ Pictured(id)
              \/ /\ id \in CommandIds /\ commands[id].status = 3
                 /\ commands'[id].serial = commands[id].serial
      BY <3>2, StatusWritten
    <3>4. \A id : Pictured(id) => Pictured(id)'
      BY <3>1 DEF Pictured
    <3>5. \A q \in Requests \ {r} :
            /\ requests'[q].op = requests[q].op /\ requests'[q].at = requests[q].at
            /\ requests'[q].id = requests[q].id /\ requests'[q].path = requests[q].path
      BY <3>1, OvertakenMarks
    <3>6. requests'[r].op = "none"
      BY <3>1, OvertakenMarks DEF Idle
    <3> QED
      BY <3>1, <3>3, <3>4, <3>5, <3>6, <1>a, PicturesStay
  <2>3. CASE RespondWrites(r)
    <3>1. /\ UNCHANGED <<images, image_files, dropped>> /\ Reporting(r)
          /\ modify_command_status(requests[r].id, requests[r].status)
          /\ requests' = [Overtaken({requests[r].id}) EXCEPT
                    ![r] = IF requests[r].status = 2 THEN [requests[r] EXCEPT !.at = "time"]
                           ELSE Idle]
      BY <2>3 DEF RespondWrites, RequestAt, Reporting
    <3>2. requests[r].status \in -6..3 /\ requests[r].status # 3
      BY <3>1 DEF RowsOK, Reportable
    <3>3. \A id \in CommandIds' :
            commands'[id].status = 3 =>
              /\ id \in CommandIds /\ commands[id].status = 3
              /\ commands'[id].serial = commands[id].serial
      BY <3>1, <3>2, StatusWritten
    <3>4. requests'[r].op # "upload"
      BY <3>1, OvertakenMarks DEF Idle, Reporting
    <3>5. \A q \in Requests \ {r} :
            /\ requests'[q].op = requests[q].op /\ requests'[q].at = requests[q].at
            /\ requests'[q].id = requests[q].id /\ requests'[q].path = requests[q].path
      BY <3>1, OvertakenMarks
    <3> QED
      BY <3>1, <3>3, <3>4, <3>5, <1>a, PicturesStay
  <2>4. CASE update_command_est_time(r)
    <3>1. UNCHANGED <<images, image_files, dropped>> /\ Others(r) /\ requests'[r].op = "none"
      BY <2>4, <1>a DEF update_command_est_time, Finish, Idle, Others
    <3> QED
      BY <2>4, <3>1, <1>a, TimeWritten, PicturesStay DEF RowsKeep, Others
  <2>5. CASE UploadWritesFile(r)
    <3>1. PICK now \in Seconds, extension \in ImageTypes :
            /\ image_files' = image_files \cup {<<now, requests[r].id, extension>>}
            /\ Begin(r, [op |-> "upload", at |-> "register", id |-> requests[r].id,
                         path |-> <<now, requests[r].id, extension>>])
      BY <2>5 DEF UploadWritesFile
    <3>2. UNCHANGED <<images, commands, dropped>> /\ CommandIds' = CommandIds
      BY <2>5 DEF UploadWritesFile, CommandIds
    <3>3. /\ Others(r)
          /\ requests'[r].op = "upload" /\ requests'[r].at = "register"
          /\ requests'[r].path \in image_files'
          /\ requests'[r].path[2] = requests'[r].id
      BY <3>1, <1>a DEF Begin, Others
    <3> QED
      BY <3>1, <3>2, <3>3, <1>a, PicturesStay DEF Others
  <2>6. CASE register_image(r)
    <3>1. UNCHANGED <<commands, image_files, dropped>> /\ CommandIds' = CommandIds /\ Uploading(r, "register")
      BY <2>6 DEF register_image, RequestAt, Uploading, CommandIds
    <3>2. requests[r].path \in image_files /\ requests[r].path[2] = requests[r].id
      BY <3>1 DEF PicturesKept
    <3>3. CASE Registrable(requests[r].path)
      <4>1. /\ images' = images \cup {Image(requests[r].path)}
            /\ Begin(r, [op |-> "upload", at |-> "status", id |-> requests[r].id])
        BY <2>6, <3>3 DEF register_image
      <4>2. /\ Others(r) /\ requests'[r].op = "upload" /\ requests'[r].at = "status"
            /\ requests'[r].id = requests[r].id
        BY <4>1, <1>a DEF Begin, Others
      <4>3. Image(requests[r].path).command_id = requests[r].id
            /\ Image(requests[r].path).path \in image_files
            /\ Image(requests[r].path).path[2] = requests[r].id
        BY <3>2 DEF Image
      <4>4. Pictured(requests[r].id)'
        BY <4>1, <4>2, <4>3 DEF Pictured
      <4>5. \A i \in images' : i.path \in image_files' /\ i.path[2] = i.command_id
        BY <3>1, <4>1, <4>3, <1>a
      <4> QED
        BY <3>1, <4>1, <4>2, <4>4, <4>5, PicturesStay DEF Others
    <3>4. CASE ~Registrable(requests[r].path)
      <4>1. UNCHANGED images /\ Others(r) /\ requests'[r].op = "none"
        BY <2>6, <3>4, <1>a DEF register_image, Finish, Idle, Others
      <4> QED
        BY <3>1, <4>1, <1>a, PicturesStay DEF Others
    <3> QED
      BY <3>3, <3>4
  <2> QED
    BY <1>2, <2>1, <2>2, <2>3, <2>4, <2>5, <2>6 DEF DeviceRequest
<1>3. ASSUME NEW r \in Pages, delete_commands_by_key(r)
      PROVE  PicturesKept'
  <2>1. PICK k \in KeyIds :
          /\ commands' = Delete(commands, CommandsOf(k))
          /\ requests' = [Overtaken(CommandsOf(k)) EXCEPT
                            ![r] = [op |-> "remove_key", at |-> "key", key |-> k]]
    BY <1>3 DEF delete_commands_by_key
  <2>2. UNCHANGED <<images, image_files, dropped>>
    BY <1>3 DEF delete_commands_by_key
  <2>3. CommandIds' \subseteq CommandIds /\ \A id \in CommandIds' : commands'[id] = commands[id]
    BY <2>1 DEF Delete, CommandIds
  <2>4. \A q \in Requests :
          \/ /\ requests'[q].op = requests[q].op /\ requests'[q].at = requests[q].at
             /\ requests'[q].id = requests[q].id /\ requests'[q].path = requests[q].path
          \/ requests'[q].op # "upload"
    BY <2>1, OvertakenMarks
  <2> QED
    BY <2>2, <2>3, <2>4, <1>a, PicturesStay
<1>4. ASSUME NEW r \in Pages, delete_key(r)
      PROVE  PicturesKept'
  <2>1. /\ UNCHANGED <<commands, images, image_files, dropped>> /\ CommandIds' = CommandIds
        /\ Others(r) /\ (r \in Requests => requests'[r].op = "none")
    BY <1>4, <1>a DEF delete_key, Finish, Idle, Others, CommandIds
  <2> QED
    BY <2>1, <1>a, PicturesStay DEF Others
<1>5. CASE new_key
  BY <1>5, <1>a, PicturesStay DEF new_key, CommandIds
<1>6. CASE new_command
  <2>1. UNCHANGED <<images, image_files, dropped, requests>>
    BY <1>6 DEF new_command
  <2>2. \A id \in CommandIds' :
          commands'[id].status = 3 =>
            /\ id \in CommandIds /\ commands[id].status = 3
            /\ commands'[id].serial = commands[id].serial
    BY <1>6 DEF new_command, Put, CommandIds
  <2> QED
    BY <2>1, <2>2, <1>a, PicturesStay
<1>7. CASE remove_command
  <2>1. PICK id \in CommandIds : modify_command_status(id, -6) /\ requests' = Overtaken({id})
    BY <1>7 DEF remove_command
  <2>2. UNCHANGED <<images, image_files, dropped>>
    BY <1>7 DEF remove_command
  <2>3. \A j \in CommandIds' :
          commands'[j].status = 3 =>
            /\ j \in CommandIds /\ commands[j].status = 3
            /\ commands'[j].serial = commands[j].serial
    BY <2>1, StatusWritten
  <2>4. \A q \in Requests :
          /\ requests'[q].op = requests[q].op /\ requests'[q].at = requests[q].at
          /\ requests'[q].id = requests[q].id /\ requests'[q].path = requests[q].path
    BY <2>1, OvertakenMarks
  <2> QED
    BY <2>2, <2>3, <2>4, <1>a, PicturesStay
<1>8. CASE Restart
  <2>1. UNCHANGED <<commands, image_files>> /\ CommandIds' = CommandIds
        /\ \A q \in Requests : requests'[q].op = "none"
    BY <1>8 DEF Restart, Idle, CommandIds
  <2>2. \A i \in images' : i.path \in image_files /\ i.path[2] = i.command_id
    BY <1>8, <1>a DEF Restart, check_images, find_images, Image
  <2>3. ASSUME NEW id \in CommandIds, commands[id].status = 3
        PROVE  Pictured(id)' \/ commands[id].serial \in dropped'
    <3>1. CASE commands[id].serial \in dropped
      BY <1>8, <3>1 DEF Restart
    <3>2. CASE Pictured(id)
      <4>1. PICK i \in images : i.command_id = id
        BY <3>2 DEF Pictured
      <4>2. CASE i.path \in find_images
        BY <1>8, <4>1, <4>2 DEF Restart, check_images, Pictured
      <4>3. CASE i.path \notin find_images
        BY <1>8, <1>a, <4>1, <4>3 DEF Restart
      <4> QED
        BY <4>2, <4>3
    <3> QED
      BY <2>3, <3>1, <3>2 DEF PicturesKept
  <2>4. \A id : Filed(id)' <=> Filed(id)
    BY <2>1 DEF Filed
  <2> QED
    BY <2>1, <2>2, <2>3, <2>4 DEF PicturesKept, Uploading
<1> QED
  BY <1>1, <1>2, <1>3, <1>4, <1>5, <1>6, <1>7, <1>8 DEF WebNext

(* A command that counts as completed has a picture on the disk, whatever  *)
(* overlaps or is cut short, and the gallery shows one, unless a restart   *)
(* has taken its image off the table because of the type of its file       *)
(* (upload.rs:84, 114, 125-139, keys.rs:125, setup.rs:81-88,               *)
(* images.rs:50-56, 221-236).                                              *)
THEOREM CompletedHasPictureAlways == WebSpec => []CompletedHasPicture
<1>1. PicturesKept => CompletedHasPicture
  BY DEF PicturesKept, Pictured, Filed, CompletedHasPicture
<1> QED
  BY RowsInitially, RowsStep, PicturesInitially, PicturesStep, <1>1, PTL DEF WebSpec

(* Commands name keys, images commands and diagnoses tokens that exist: no *)
(* removal leaves a reference behind (the foreign keys of setup.rs).       *)
THEOREM ReferencesHold == WebSpec => []RowsOK
  BY RowsInitially, RowsStep, PTL DEF WebSpec

----------------------------------------------------------------------------
(* A page of the list of commands.                                        *)

(* The ranks of the numbers in a finite set are those from zero up, each   *)
(* once, so that a page is as long as its part of the ranks.               *)
Rank(rows, id) == Cardinality({j \in rows : j < id})

(* As many rows have a rank between low and high as there are numbers      *)
(* between them that are below the number of rows: the ranks have no gap.  *)
LEMMA RanksAreDense ==
  ASSUME NEW rows, NEW n \in Nat, rows \subseteq 1..n, NEW low \in Nat, NEW high \in Int
  PROVE  /\ Cardinality(rows) \in Nat
         /\ Cardinality({id \in rows : Rank(rows, id) \in low..high})
              = Cardinality({k \in low..high : k < Cardinality(rows)})
<1> DEFINE c == Cardinality(rows)
           Before(id) == {j \in rows : j < id}
           f == [id \in rows |-> Rank(rows, id)]
<1>1. IsFiniteSet(rows) /\ c \in Nat
  <2>1. IsFiniteSet(1..n)
    BY FS_Interval
  <2> QED
    BY <2>1, FS_Subset, FS_CardinalityType
<1>2. ASSUME NEW id \in rows
      PROVE  /\ IsFiniteSet(Before(id)) /\ Rank(rows, id) \in Nat
             /\ Rank(rows, id) < c
  <2>1. Before(id) \subseteq rows \ {id}
    OBVIOUS
  <2>2. IsFiniteSet(rows \ {id}) /\ Cardinality(rows \ {id}) = c - 1
    BY <1>1, FS_RemoveElement
  <2> DEFINE S == Before(id)
             U == rows \ {id}
  <2>3. S \in SUBSET U /\ IsFiniteSet(U) /\ Cardinality(U) = c - 1
    BY <2>1, <2>2
  <2> HIDE DEF S, U, c
  <2>4. IsFiniteSet(S) /\ Cardinality(S) <= Cardinality(U)
    BY <2>3, FS_Subset
  <2>5. Cardinality(S) \in Nat
    BY <2>4, FS_CardinalityType
  <2>6. Cardinality(S) < c
    BY <1>1, <2>3, <2>4, <2>5
  <2> QED
    BY <2>4, <2>5, <2>6 DEF S, Rank
<1>3. ASSUME NEW a \in rows, NEW b \in rows, a < b
      PROVE  Rank(rows, a) < Rank(rows, b)
  <2> DEFINE S == Before(a)
             U == Before(b)
  <2>1. S \subseteq U /\ a \in U /\ a \notin S
    <3>1. rows \subseteq Int
      OBVIOUS
    <3>2. \A j \in rows : j < a => j < b
      BY <1>3, <3>1
    <3>3. ~(a < a)
      BY <3>1
    <3> QED
      BY <1>3, <3>2, <3>3
  <2>2. IsFiniteSet(U) /\ Cardinality(U) = Rank(rows, b) /\ Cardinality(S) = Rank(rows, a)
    BY <1>2 DEF Rank
  <2>3. Rank(rows, a) \in Nat /\ Rank(rows, b) \in Nat
    BY <1>2
  <2> HIDE DEF S, U
  <2>4. S \in SUBSET U
    BY <2>1
  <2>5. Cardinality(S) <= Cardinality(U) /\ (Cardinality(U) = Cardinality(S) => U = S)
    BY <2>2, <2>4, FS_Subset
  <2> QED
    BY <2>1, <2>2, <2>3, <2>5
<1>4. f \in [rows -> 0..c - 1]
  <2>1. \A id \in rows : Rank(rows, id) \in 0..c - 1
    <3> SUFFICES ASSUME NEW id \in rows PROVE Rank(rows, id) \in 0..c - 1
      OBVIOUS
    <3>1. Rank(rows, id) \in Nat /\ Rank(rows, id) < c
      BY <1>2
    <3> HIDE DEF c
    <3> QED
      BY <1>1, <3>1
  <2> HIDE DEF c
  <2> QED
    BY <2>1
<1>5. \A a, b \in rows : f[a] = f[b] => a = b
  <2> SUFFICES ASSUME NEW a \in rows, NEW b \in rows, f[a] = f[b] PROVE a = b
    OBVIOUS
  <2>1. Rank(rows, a) = Rank(rows, b) /\ Rank(rows, a) \in Nat
    BY <1>2
  <2>3. ~(a < b) /\ ~(b < a)
    BY <1>3, <2>1
  <2>2. a \in Int /\ b \in Int
    OBVIOUS
  <2> QED
    BY <2>2, <2>3
<1> DEFINE Ranks == 0..c - 1
<1>6. IsFiniteSet(Ranks) /\ Cardinality(Ranks) = c
  BY <1>1, FS_Interval, SMTT(60)
<1>7. \A k \in Ranks : \E id \in rows : f[id] = k
  <2> HIDE DEF f, c
  <2>1. f \in [rows -> Ranks]
    BY <1>4
  <2> HIDE DEF Ranks
  <2>2. f \in Injection(rows, Ranks)
    BY <1>5, <2>1, Fun_IsInj
  <2>3. f \in Surjection(rows, Ranks)
    BY <1>6, <2>2, FS_Injection DEF c
  <2> QED
    BY <2>3, Fun_SurjectionProperties
<1> DEFINE L == {id \in rows : Rank(rows, id) \in low..high}
           I == {k \in low..high : k < c}
           g == [id \in L |-> Rank(rows, id)]
<1>8. g \in [L -> I]
  BY <1>2
<1>9. \A a, b \in L : g[a] = g[b] => a = b
  BY <1>5
<1>10. \A k \in I : \E id \in L : g[id] = k
  <2> SUFFICES ASSUME NEW k \in I PROVE \E id \in L : g[id] = k
    OBVIOUS
  <2>1. k \in Ranks
    BY <1>1
  <2>2. PICK id \in rows : f[id] = k
    BY <1>7, <2>1
  <2>3. Rank(rows, id) = k
    BY <2>2
  <2>4. id \in L
    BY <2>3
  <2> QED
    BY <2>3, <2>4
<1> HIDE DEF g, L, I, c
<1>11. ExistsBijection(L, I)
  <2>1. g \in Bijection(L, I)
    BY <1>8, <1>9, <1>10, Fun_IsBij
  <2> QED
    BY <2>1, Fun_ExistsBij
<1>12. IsFiniteSet(L)
  BY <1>1, FS_Subset DEF L
<1>13. Cardinality(L) = Cardinality(I)
  BY <1>11, <1>12, FS_Bijection
<1> QED
  BY <1>1, <1>13 DEF L, I, c

(* The commands a filter lets through.                                     *)
Matching(type, value) == {id \in CommandIds : Matches(id, type, value)}

(* Joined with the key or not, the rows are the same, as every command's   *)
(* key exists.                                                             *)
LEMMA JoinLosesNothing ==
  ASSUME RowsOK, NEW type, NEW value, NEW page \in Nat
  PROVE  get_commands(type, value, page) = {id \in Matching(type, value) :
           Rank(Matching(type, value), id)
             \in page * PageSize .. page * PageSize + PageSize - 1}
<1> DEFINE rows == Matching(type, value)
           joined == {id \in CommandIds :
                        Matches(id, type, value) /\ commands[id].key \in KeyIds}
           offset == IF page < 0 THEN 0 ELSE page * PageSize
<1>1. joined = rows
  BY DEF Matching, RowsOK, CommandRow
<1>2. get_commands(type, value, page) = {id \in joined :
        Cardinality({j \in joined : j < id}) \in offset .. offset + PageSize - 1}
  BY DEF get_commands
<1>3. offset = page * PageSize
  OBVIOUS
<1> HIDE DEF rows, joined, offset
<1>4. get_commands(type, value, page) = {id \in rows :
        Cardinality({j \in rows : j < id})
          \in page * PageSize .. page * PageSize + PageSize - 1}
  BY <1>1, <1>2, <1>3
<1> QED
  BY <1>4 DEF Rank, rows

(* The minimum of two numbers.                                             *)
LEMMA MinOfTwo ==
  ASSUME NEW a \in Int, NEW b \in Int
  PROVE  Min({a, b}) = IF a <= b THEN a ELSE b
<1> DEFINE m == IF a <= b THEN a ELSE b
<1>1. m \in {a, b} /\ \A y \in {a, b} : m <= y
  OBVIOUS
<1>2. \A x \in {a, b} : (\A y \in {a, b} : x <= y) => x = m
  OBVIOUS
<1> HIDE DEF m
<1>3. Min({a, b}) = m
  BY <1>1, <1>2 DEF Min
<1> QED
  BY <1>3 DEF m

(* A page of a list shows as many rows as its count promises.              *)
LEMMA RowsAreListed == RowsOK => ListingAgrees
<1> SUFFICES ASSUME RowsOK, NEW f \in Filters, NEW page \in 0..1,
                    f.type \notin {5, 6} \/ f.value = page
             PROVE  LET rest == Counted(f) - page * PageSize
                    IN Cardinality(Listed(f, page))
                         = IF rest <= 0 THEN 0 ELSE Min({rest, PageSize})
  BY DEF ListingAgrees
<1> DEFINE rows == Matching(f.type, f.value)
           c == Cardinality(rows)
           low == page * PageSize
           high == page * PageSize + PageSize - 1
           ranks == {k \in low..high : k < c}
<1>1. PICK n \in Nat : rows \subseteq 1..n
  BY DEF Matching, RowsOK, NumberedFrom1, CommandIds
<1>2. low \in Nat /\ high \in Int /\ high = low + PageSize - 1
  <2>1. PageSize \in Nat
    BY PageSizeAssumption
  <2>2. CASE page = 0
    BY <2>1, <2>2
  <2>3. CASE page = 1
    BY <2>1, <2>3
  <2> QED
    BY <2>2, <2>3
<1>3. Counted(f) = c
  BY DEF Counted, Matching
<1>4. Listed(f, page) = {id \in rows : Rank(rows, id) \in low..high}
  <2>1. Listed(f, page) = get_commands(f.type, f.value, page)
    BY Zenon DEF Listed
  <2>2. page \in Nat
    OBVIOUS
  <2>3. get_commands(f.type, f.value, page) = {id \in rows : Rank(rows, id) \in low..high}
    BY <2>2, JoinLosesNothing
  <2> QED
    BY <2>1, <2>3, Zenon
<1> HIDE DEF rows, low, high, c
<1>5. c \in Nat /\ Cardinality(Listed(f, page)) = Cardinality(ranks)
  <2>1. /\ Cardinality(rows) \in Nat
        /\ Cardinality({id \in rows : Rank(rows, id) \in low..high})
             = Cardinality({k \in low..high : k < Cardinality(rows)})
    BY <1>1, <1>2, RanksAreDense, ZenonT(60)
  <2> QED
    BY <1>4, <2>1 DEF c
<1> DEFINE rest == c - low
<1>6. CASE rest <= 0
  <2>1. ranks = {}
    BY <1>2, <1>5, <1>6
  <2> QED
    BY <1>3, <1>5, <1>6, <2>1, FS_EmptySet DEF low
<1>7. CASE 0 < rest /\ rest <= PageSize
  <2>1. ranks = low..c - 1
    BY <1>2, <1>5, <1>7, PageSizeAssumption
  <2>2. Cardinality(low..c - 1) = rest
    BY <1>2, <1>5, <1>7, FS_Interval
  <2>3. Min({rest, PageSize}) = rest
    BY <1>2, <1>5, <1>7, MinOfTwo, PageSizeAssumption
  <2>4. ~(rest <= 0)
    BY <1>2, <1>5, <1>7
  <2> QED
    BY <1>3, <1>5, <2>1, <2>2, <2>3, <2>4 DEF low
<1>8. CASE PageSize < rest
  <2>1. ranks = low..high
    BY <1>2, <1>5, <1>8, PageSizeAssumption
  <2>2. Cardinality(low..high) = PageSize
    BY <1>2, FS_Interval, PageSizeAssumption
  <2>3. Min({rest, PageSize}) = PageSize
    BY <1>2, <1>5, <1>8, MinOfTwo, PageSizeAssumption
  <2>4. ~(rest <= 0)
    BY <1>2, <1>5, <1>8, PageSizeAssumption
  <2> QED
    BY <1>3, <1>5, <2>1, <2>2, <2>3, <2>4 DEF low
<1> QED
  BY <1>2, <1>5, <1>6, <1>7, <1>8, PageSizeAssumption

(* A page of commands agrees with the number beside it, for all, completed,*)
(* waiting, failed and deleted commands, any size of a page and any number *)
(* of commands, as long as no statement comes between                      *)
(* (web/commands.rs:671-769): no key that commands refer to was removed,   *)
(* so that the join leaves none out.  For one status or one key it does so *)
(* when that is the number of the page, as the two are swapped (728, 741). *)
THEOREM ListingAgreesAlways == WebSpec => []ListingAgrees
  BY ReferencesHold, RowsAreListed, PTL

----------------------------------------------------------------------------
(* Who was handed what.  A request that reads a command and writes it      *)
(* later still knows it, unless another request has overtaken it: then the *)
(* command it has read is no longer one that waits.                        *)

Racing(r) == requests[r].op \in {"fetch", "respond"}
Fetching(r) == requests[r].op = "fetch"
SerialOf(id) == commands[id].serial

Knows(r) ==
  LET id == requests[r].id IN
  /\ "overtaken" \in DOMAIN requests[r]
  /\ ~requests[r].overtaken => id \in CommandIds /\ commands[id].status \in InProgress
  /\ Fetching(r) =>
       LET serial == requests[r].serial IN
       /\ serial \in Nat /\ serial > left.commands
       /\ ~requests[r].overtaken => commands[id].status = 0 /\ SerialOf(id) = serial
       /\ id \in CommandIds /\ ~commands[id].reused => SerialOf(id) = serial
       /\ requests[r].overtaken =>
            \A j \in CommandIds : SerialOf(j) = serial => commands[j].status # 0

Tracked == \A r \in Requests : Racing(r) => Knows(r)

(* Serials are never given twice, those still waiting were not handed out, *)
(* and those marked as fetched were.                                       *)
Serials ==
  /\ \A id \in CommandIds : SerialOf(id) > left.commands
  /\ \A i, j \in CommandIds : SerialOf(i) = SerialOf(j) => i = j
  /\ \A serial \in handed : serial \in Nat /\ serial > left.commands
  /\ \A id \in CommandIds : commands[id].status = 0 => SerialOf(id) \notin handed
  /\ \A id \in CommandIds :
       commands[id].status = 1 /\ ~commands[id].reused => SerialOf(id) \in handed

(* There is nothing to track when the server starts empty.                 *)
LEMMA TrackedInitially == WebInit => Tracked /\ Serials
<1> SUFFICES ASSUME WebInit PROVE Tracked /\ Serials
  OBVIOUS
<1>1. CommandIds = {} /\ handed = {} /\ \A r \in Requests : requests[r].op = "none"
  BY DEF WebInit, CommandIds, Idle
<1> QED
  BY <1>1 DEF Tracked, Racing, Serials

(* Which requests are marked as overtaken.                                 *)
LEMMA OvertakenTells ==
  ASSUME NEW ids, NEW r \in Requests
  PROVE  /\ ~(Racing(r) /\ requests[r].id \in ids) => Overtaken(ids)[r] = requests[r]
         /\ Racing(r) /\ requests[r].id \in ids /\ "overtaken" \in DOMAIN requests[r]
              => Overtaken(ids)[r].overtaken
  BY DEF Overtaken, Racing

(* What others know when a status is written.                              *)
LEMMA KnowsWritten ==
  ASSUME RowsOK, Tracked, Serials,
         NEW id, NEW outcome \in -6..3 \ {0}, modify_command_status(id, outcome),
         UNCHANGED left,
         NEW r \in Requests, Racing(r), requests'[r] = Overtaken({id})[r]
  PROVE  Knows(r)'
<1>1. /\ CommandIds' = CommandIds
      /\ \A j \in CommandIds :
           /\ SerialOf(j)' = SerialOf(j) /\ commands'[j].reused = commands[j].reused
           /\ commands'[j].status = IF j = id THEN outcome ELSE commands[j].status
  BY StatusWritten DEF SerialOf
<1>2. /\ requests'[r].op = requests[r].op /\ requests'[r].id = requests[r].id
      /\ requests'[r].serial = requests[r].serial
      /\ DOMAIN requests'[r] = DOMAIN requests[r]
  BY OvertakenMarks
<1>3. Knows(r)
  BY DEF Tracked
<1>4. CASE requests[r].id = id
  <2>1. requests'[r].overtaken
    BY <1>3, <1>4, OvertakenTells DEF Knows
  <2>2. ASSUME Fetching(r), NEW j \in CommandIds, SerialOf(j) = requests[r].serial
        PROVE  commands'[j].status # 0
    <3>1. CASE requests[r].overtaken
      BY <1>1, <1>3, <2>2, <3>1 DEF Knows
    <3>2. CASE ~requests[r].overtaken
      <4>1. id \in CommandIds /\ SerialOf(id) = requests[r].serial
        BY <1>3, <1>4, <2>2, <3>2 DEF Knows
      <4>2. j = id
        BY <2>2, <4>1 DEF Serials
      <4> QED
        BY <1>1, <4>2
    <3> QED
      BY <3>1, <3>2
  <2> QED
    BY <1>1, <1>2, <1>3, <2>1, <2>2, ZenonT(60) DEF Knows, Fetching, SerialOf
<1>5. CASE requests[r].id # id
  <2>1. requests'[r] = requests[r]
    BY <1>5, OvertakenTells
  <2> QED
    BY <1>1, <1>3, <1>5, <2>1, ZenonT(60) DEF Knows, Fetching, SerialOf
<1> QED
  BY <1>4, <1>5

(* What others know when no status is written.                             *)
LEMMA KnowsStays ==
  ASSUME Tracked, NEW r \in Requests, Racing(r), UNCHANGED requests[r],
         left'.commands <= left.commands, left'.commands \in Nat, left.commands \in Nat,
         CommandIds' = CommandIds,
         \A j \in CommandIds :
           /\ SerialOf(j)' = SerialOf(j) /\ commands'[j].reused = commands[j].reused
           /\ commands'[j].status = commands[j].status
  PROVE  Knows(r)'
<1>1. Knows(r)
  BY DEF Tracked
<1> QED
  BY <1>1 DEF Knows, Fetching, SerialOf

(* What is handed out when a status is written.                            *)
LEMMA SerialsWritten ==
  ASSUME RowsOK, Serials,
         NEW id, NEW outcome \in -6..3 \ {0}, modify_command_status(id, outcome),
         UNCHANGED left,
         handed \subseteq handed',
         \A s \in handed' \ handed :
           /\ s \in Nat /\ s > left.commands
           /\ \A j \in CommandIds : SerialOf(j) = s => commands[j].status # 0 \/ j = id,
         outcome = 1 /\ id \in CommandIds /\ ~commands[id].reused => SerialOf(id) \in handed'
  PROVE  Serials'
<1>1. /\ CommandIds' = CommandIds
      /\ \A j \in CommandIds :
           /\ SerialOf(j)' = SerialOf(j) /\ commands'[j].reused = commands[j].reused
           /\ commands'[j].status = IF j = id THEN outcome ELSE commands[j].status
  BY StatusWritten DEF SerialOf
<1>2. \A s \in handed' : s \in Nat /\ s > left'.commands
  BY DEF Serials
<1>3. \A j \in CommandIds : commands'[j].status = 0 => SerialOf(j) \notin handed'
  BY <1>1 DEF Serials
<1>4. \A j \in CommandIds :
        commands'[j].status = 1 /\ ~commands[j].reused => SerialOf(j) \in handed'
  BY <1>1 DEF Serials
<1> QED
  BY <1>1, <1>2, <1>3, <1>4 DEF Serials

(* Serial numbers stay in order while no command is made or handed out.    *)
LEMMA SerialsStay ==
  ASSUME Serials, UNCHANGED handed,
         left'.commands <= left.commands, left'.commands \in Nat, left.commands \in Nat,
         CommandIds' = CommandIds,
         \A j \in CommandIds :
           /\ SerialOf(j)' = SerialOf(j) /\ SerialOf(j) \in Nat
           /\ commands'[j].reused = commands[j].reused
           /\ commands'[j].status = commands[j].status
  PROVE  Serials'
  BY DEF Serials

(* A step that writes no command and makes no racing request.              *)
LEMMA NothingWritten ==
  ASSUME RowsOK, Tracked, Serials, UNCHANGED <<commands, handed>>,
         left'.commands <= left.commands, left'.commands \in Nat,
         \A q \in Requests : requests'[q] = requests[q] \/ ~Racing(q)' \/ Knows(q)'
  PROVE  Tracked' /\ Serials'
<1>1. left.commands \in Nat
  BY DEF RowsOK, Allowance
<1>2. /\ CommandIds' = CommandIds
      /\ \A j \in CommandIds :
           /\ SerialOf(j)' = SerialOf(j) /\ SerialOf(j) \in Nat
           /\ commands'[j].reused = commands[j].reused
           /\ commands'[j].status = commands[j].status
  BY DEF CommandIds, SerialOf, RowsOK, CommandRow
<1>3. Serials'
  BY <1>1, <1>2, SerialsStay
<1>4. \A q \in Requests : Racing(q)' => Knows(q)'
  <2> SUFFICES ASSUME NEW q \in Requests, Racing(q)', requests'[q] = requests[q]
               PROVE  Knows(q)'
    OBVIOUS
  <2>1. Racing(q)
    BY DEF Racing
  <2> QED
    BY <1>1, <1>2, <2>1, KnowsStays
<1> QED
  BY <1>3, <1>4 DEF Tracked

(* Every statement, deletion and restart keeps track of the fetches on     *)
(* their way.                                                              *)
LEMMA TrackedStep ==
  RowsOK /\ Tracked /\ Serials /\ [WebNext]_webVars => Tracked' /\ Serials'
<1> SUFFICES ASSUME RowsOK, Tracked, Serials, [WebNext]_webVars PROVE Tracked' /\ Serials'
  OBVIOUS
<1>a. DOMAIN requests = Requests /\ left \in Allowance /\ left.commands \in Nat
  BY DEF RowsOK, Allowance
<1>b. \A id \in CommandIds : SerialOf(id) \in Nat /\ SerialOf(id) > left.commands
  BY DEF RowsOK, CommandRow, Serials, SerialOf
<1>1. CASE UNCHANGED webVars
  BY <1>1, <1>a, NothingWritten DEF webVars
<1>2. ASSUME NEW r \in Devices, DeviceRequest(r)
      PROVE  Tracked' /\ Serials'
  <2> r \in Requests
    BY DEF Requests
  <2>1. CASE FetchReads(r)
    <3>1. PICK token \in Tokens, id \in CommandIds :
            /\ commands[id].status = 0
            /\ Receive(r, [op |-> "fetch", at |-> "mark", id |-> id, token |-> token,
                           serial |-> commands[id].serial, overtaken |-> FALSE])
      BY <2>1 DEF FetchReads
    <3>2. UNCHANGED <<commands, handed>> /\ CommandIds' = CommandIds
      BY <2>1 DEF FetchReads, CommandIds
    <3>3. left'.commands = left.commands
      BY <3>1, <1>a, SpendKeeps DEF Receive
    <3>4. requests'[r] = [op |-> "fetch", at |-> "mark", id |-> id, token |-> token,
                          serial |-> commands[id].serial, overtaken |-> FALSE]
          /\ Others(r)
      BY <3>1, <1>a DEF Receive, Begin, Others
    <3>5. /\ requests'[r].id = id /\ requests'[r].serial = SerialOf(id)
          /\ ~requests'[r].overtaken /\ "overtaken" \in DOMAIN requests'[r]
      BY <3>4 DEF SerialOf
    <3>6. Knows(r)'
      BY <3>1, <3>2, <3>3, <3>5, <1>b DEF Knows, SerialOf, InProgress
    <3> QED
      BY <3>2, <3>3, <3>4, <3>6, <1>a, NothingWritten DEF Others
  <2>2. CASE RespondChecks(r)
    <3>1. PICK token \in Tokens, id \in CommandIds, outcome \in Reports :
            /\ Accepts(token, id, outcome)
            /\ Receive(r, [op |-> "respond", at |-> "status", id |-> id, status |-> outcome,
                           overtaken |-> FALSE])
      BY <2>2 DEF RespondChecks
    <3>2. UNCHANGED <<commands, handed>> /\ CommandIds' = CommandIds
      BY <2>2 DEF RespondChecks, CommandIds
    <3>3. left'.commands = left.commands
      BY <3>1, <1>a, SpendKeeps DEF Receive
    <3>4. requests'[r] = [op |-> "respond", at |-> "status", id |-> id, status |-> outcome,
                          overtaken |-> FALSE]
          /\ Others(r)
      BY <3>1, <1>a DEF Receive, Begin, Others
    <3>5. commands[id].status \in InProgress
      BY <3>1 DEF Accepts, InProgress
    <3>6. Knows(r)'
      BY <3>2, <3>4, <3>5 DEF Knows, Fetching
    <3> QED
      BY <3>2, <3>3, <3>4, <3>6, <1>a, NothingWritten DEF Others
  <2>3. CASE \/ UploadVerifies(r) \/ send_diagnostics(r)
             \/ UploadWritesFile(r) \/ register_image(r) \/ new_diagnostic(r)
    <3>1. UNCHANGED <<commands, handed>>
      BY <2>3 DEF UploadVerifies, send_diagnostics, UploadWritesFile, register_image,
                  new_diagnostic
    <3>2. UNCHANGED left \/ Spend("requests")
      BY <2>3 DEF UploadVerifies, send_diagnostics, UploadWritesFile, register_image,
                  new_diagnostic, Receive
    <3>3. left'.commands = left.commands
      BY <3>2, <1>a, SpendKeeps
    <3>4. Others(r) /\ requests'[r].op \in {"upload", "diagnose", "none"}
      BY <2>3, <1>a DEF UploadVerifies, send_diagnostics, UploadWritesFile, register_image,
                  new_diagnostic, Receive, Begin, Finish, Idle, Others
    <3> QED
      BY <3>1, <3>3, <3>4, <1>a, NothingWritten DEF Others, Racing
  <2>4. CASE FetchMarks(r)
    <3> DEFINE id == requests[r].id
               serial == requests[r].serial
    <3>1. /\ Fetching(r) /\ modify_command_status(id, 1)
          /\ handed' = handed \cup {serial}
          /\ requests' = [Overtaken({id}) EXCEPT ![r] = Idle]
          /\ UNCHANGED left
      BY <2>4 DEF FetchMarks, RequestAt, Fetching
    <3>2. Knows(r)
      BY <3>1 DEF Tracked, Racing, Fetching
    <3>3. serial \in Nat /\ serial > left.commands
      BY <3>1, <3>2 DEF Knows
    <3>4. \A j \in CommandIds : SerialOf(j) = serial => commands[j].status # 0 \/ j = id
      <4>1. ~requests[r].overtaken => id \in CommandIds /\ SerialOf(id) = serial
        BY <3>1, <3>2 DEF Knows
      <4> QED
        BY <3>1, <3>2, <4>1 DEF Knows, Serials
    <3>5. id \in CommandIds /\ ~commands[id].reused => SerialOf(id) \in handed'
      BY <3>1, <3>2 DEF Knows
    <3>6. Serials'
      BY <3>1, <3>3, <3>4, <3>5, SerialsWritten
    <3>7. \A q \in Requests \ {r} : requests'[q] = Overtaken({id})[q] /\ (Racing(q)' => Racing(q))
      BY <3>1, OvertakenMarks DEF Racing
    <3>8. ~Racing(r)'
      BY <3>1, OvertakenMarks DEF Racing, Idle
    <3>9. \A q \in Requests : Racing(q)' => Knows(q)'
      BY <3>1, <3>7, <3>8, KnowsWritten
    <3> QED
      BY <3>6, <3>9 DEF Tracked
  <2>5. CASE RespondWrites(r)
    <3> DEFINE id == requests[r].id
               outcome == requests[r].status
    <3>1. /\ Reporting(r) /\ modify_command_status(id, outcome)
          /\ requests' = [Overtaken({id}) EXCEPT
                    ![r] = IF outcome = 2 THEN [requests[r] EXCEPT !.at = "time"] ELSE Idle]
          /\ UNCHANGED <<left, handed>>
      BY <2>5 DEF RespondWrites, RequestAt, Reporting
    <3>2. outcome \in -6..3 \ {0} /\ outcome # 1
      BY <3>1 DEF RowsOK, Reportable
    <3>3. Serials'
      BY <3>1, <3>2, SerialsWritten
    <3>4. \A q \in Requests \ {r} : requests'[q] = Overtaken({id})[q] /\ (Racing(q)' => Racing(q))
      BY <3>1, OvertakenMarks DEF Racing
    <3>5. Racing(r)' => Knows(r)'
      <4>1. CASE outcome = 2
        <5>1. requests'[r] = [requests[r] EXCEPT !.at = "time"]
          BY <3>1, <4>1, OvertakenMarks
        <5>2. /\ requests'[r].op = "respond" /\ requests'[r].id = id
              /\ requests'[r].overtaken = requests[r].overtaken
              /\ DOMAIN requests'[r] = DOMAIN requests[r]
          <6> DEFINE old == requests[r]
                     new == requests'[r]
          <6>1. new = [old EXCEPT !.at = "time"] /\ old.op = "respond" /\ old.id = id
            BY <3>1, <5>1 DEF Reporting
          <6> HIDE DEF old, new
          <6>2. /\ new.op = old.op /\ new.id = old.id /\ new.overtaken = old.overtaken
                /\ DOMAIN new = DOMAIN old
            BY <6>1
          <6> QED
            BY <6>1, <6>2 DEF old, new
        <5>3. Knows(r)
          BY <3>1 DEF Tracked, Racing, Reporting
        <5>4. CommandIds' = CommandIds /\ (id \in CommandIds => commands'[id].status = 2)
          BY <3>1, <3>2, <4>1, StatusWritten
        <5> QED
          BY <5>2, <5>3, <5>4 DEF Knows, Fetching, InProgress
      <4>2. CASE outcome # 2
        <5>1. requests'[r].op = "none"
          BY <3>1, <4>2, OvertakenMarks DEF Idle
        <5> QED
          BY <5>1 DEF Racing
      <4> QED
        BY <4>1, <4>2
    <3>6. \A q \in Requests : Racing(q)' => Knows(q)'
      BY <3>1, <3>2, <3>4, <3>5, KnowsWritten
    <3> QED
      BY <3>3, <3>6 DEF Tracked
  <2>6. CASE UploadMarks(r)
    <3> DEFINE id == requests[r].id
    <3>1. /\ modify_command_status(id, 3)
          /\ requests' = [Overtaken({id}) EXCEPT ![r] = Idle]
          /\ UNCHANGED <<left, handed>>
      BY <2>6 DEF UploadMarks
    <3>2. Serials'
      BY <3>1, SerialsWritten
    <3>3. \A q \in Requests \ {r} : requests'[q] = Overtaken({id})[q] /\ (Racing(q)' => Racing(q))
      BY <3>1, OvertakenMarks DEF Racing
    <3>4. ~Racing(r)'
      BY <3>1, OvertakenMarks DEF Racing, Idle
    <3>5. \A q \in Requests : Racing(q)' => Knows(q)'
      BY <3>1, <3>3, <3>4, KnowsWritten
    <3> QED
      BY <3>2, <3>5 DEF Tracked
  <2>7. CASE update_command_est_time(r)
    <3>1. /\ Others(r) /\ ~Racing(r)' /\ UNCHANGED <<handed, left>>
      BY <2>7, <1>a DEF update_command_est_time, Finish, Idle, Others, Racing
    <3>2. /\ CommandIds' = CommandIds
          /\ \A j \in CommandIds :
               /\ SerialOf(j)' = SerialOf(j) /\ SerialOf(j) \in Nat
               /\ commands'[j].reused = commands[j].reused
               /\ commands'[j].status = commands[j].status
      BY <2>7, <1>b, TimeWritten DEF RowsKeep, SerialOf
    <3>3. Serials'
      BY <3>1, <3>2, <1>a, SerialsStay
    <3>4. \A q \in Requests : Racing(q)' => Knows(q)'
      <4> SUFFICES ASSUME NEW q \in Requests, Racing(q)' PROVE Knows(q)'
        OBVIOUS
      <4>1. UNCHANGED requests[q] /\ Racing(q)
        BY <3>1 DEF Others, Racing
      <4> QED
        BY <3>1, <3>2, <4>1, <1>a, KnowsStays
    <3> QED
      BY <3>3, <3>4 DEF Tracked
  <2> QED
    BY <1>2, <2>1, <2>2, <2>3, <2>4, <2>5, <2>6, <2>7 DEF DeviceRequest
<1>3. ASSUME NEW r \in Pages, delete_commands_by_key(r)
      PROVE  Tracked' /\ Serials'
  <2> r \in Requests
    BY DEF Requests
  <2>1. PICK k \in KeyIds :
          /\ commands' = Delete(commands, CommandsOf(k))
          /\ requests' = [Overtaken(CommandsOf(k)) EXCEPT
                            ![r] = [op |-> "remove_key", at |-> "key", key |-> k]]
    BY <1>3 DEF delete_commands_by_key
  <2> DEFINE gone == CommandsOf(k)
  <2>2. UNCHANGED <<left, handed>>
    BY <1>3 DEF delete_commands_by_key
  <2>3. CommandIds' = CommandIds \ gone /\ \A id \in CommandIds' : commands'[id] = commands[id]
    BY <2>1 DEF Delete, CommandIds
  <2> HIDE DEF gone
  <2>4. Serials'
    BY <2>2, <2>3 DEF Serials, SerialOf
  <2>5. \A q \in Requests \ {r} :
          requests'[q] = Overtaken(gone)[q] /\ (Racing(q)' => Racing(q))
    BY <2>1, OvertakenMarks DEF Racing, gone
  <2>6. ~Racing(r)'
    BY <2>1, OvertakenMarks DEF Racing
  <2>7. ASSUME NEW q \in Requests \ {r}, Racing(q)
        PROVE  Knows(q)'
    <3>1. Knows(q)
      BY <2>7 DEF Tracked
    <3>2. /\ requests'[q].op = requests[q].op /\ requests'[q].id = requests[q].id
          /\ requests'[q].serial = requests[q].serial
          /\ DOMAIN requests'[q] = DOMAIN requests[q]
      BY <2>5, OvertakenMarks
    <3>3. CASE requests[q].id \in gone
      <4>1. requests'[q].overtaken /\ requests[q].id \notin CommandIds'
        BY <2>3, <2>5, <2>7, <3>1, <3>3, OvertakenTells DEF Knows
      <4>2. ASSUME Fetching(q), NEW j \in CommandIds', SerialOf(j) = requests[q].serial
            PROVE  commands[j].status # 0
        <5>1. CASE requests[q].overtaken
          BY <2>3, <3>1, <4>2, <5>1 DEF Knows
        <5>2. CASE ~requests[q].overtaken
          BY <2>3, <3>1, <3>3, <4>2, <5>2 DEF Knows, Serials
        <5> QED
          BY <5>1, <5>2
      <4> QED
        BY <2>2, <2>3, <3>1, <3>2, <4>1, <4>2 DEF Knows, Fetching, SerialOf
    <3>4. CASE requests[q].id \notin gone
      <4>1. requests'[q] = requests[q]
        BY <2>5, <3>4, OvertakenTells
      <4> QED
        BY <2>2, <2>3, <3>1, <3>4, <4>1 DEF Knows, Fetching, SerialOf
    <3> QED
      BY <3>3, <3>4
  <2> QED
    BY <2>4, <2>5, <2>6, <2>7 DEF Tracked
<1>4. ASSUME NEW r \in Pages, delete_key(r)
      PROVE  Tracked' /\ Serials'
  <2>1. UNCHANGED <<commands, handed, left>>
    BY <1>4 DEF delete_key
  <2>2. Others(r) /\ (r \in Requests => ~Racing(r)')
    BY <1>4, <1>a DEF delete_key, Finish, Idle, Others, Racing
  <2> QED
    BY <2>1, <2>2, <1>a, NothingWritten DEF Others
<1>5. CASE new_key
  <2>1. UNCHANGED <<commands, handed, requests>> /\ Spend("keys")
    BY <1>5 DEF new_key
  <2> QED
    BY <2>1, <1>a, SpendKeeps, NothingWritten
<1>6. CASE new_command
  <2> DEFINE id == NextId(commands)
             reused == \E r \in Requests : requests[r].op \in {"fetch", "respond"}
                                           /\ requests[r].id = id
  <2>1. PICK k \in KeyIds :
          commands' = Put(commands, id, [key |-> k, status |-> 0, time |-> FALSE,
                                         serial |-> left.commands, reused |-> reused])
    BY <1>6 DEF new_command
  <2>2. Spend("commands") /\ UNCHANGED <<requests, handed>>
    BY <1>6 DEF new_command
  <2> DEFINE row == [key |-> k, status |-> 0, time |-> FALSE,
                     serial |-> left.commands, reused |-> reused]
  <2>3. row.status = 0 /\ row.serial = left.commands
        /\ (row.reused <=> \E r \in Requests : Racing(r) /\ requests[r].id = id)
    BY DEF Racing
  <2> HIDE DEF row
  <2>4. commands' = Put(commands, id, row)
    BY <2>1 DEF row
  <2> HIDE DEF id
  <2>5. /\ CommandIds' = CommandIds \cup {id} /\ commands'[id] = row
        /\ \A j \in CommandIds : commands'[j] = commands[j]
        /\ id \notin CommandIds
    BY <2>4, PutAdds, NextIdIsFree DEF RowsOK, CommandIds, id
  <2>6. left'.commands \in Nat /\ left'.commands < left.commands
    <3>1. left'.commands = left.commands - 1 /\ left' \in Allowance
      BY <2>2, <1>a, SpendKeeps
    <3> QED
      BY <3>1, <1>a DEF Allowance
  <2>7. Serials'
    <3>1. \A j \in CommandIds : commands'[j].serial = SerialOf(j)
      BY <2>5 DEF SerialOf
    <3>2. commands'[id].serial = left.commands /\ commands'[id].status = 0
      BY <2>3, <2>5 DEF SerialOf
    <3>3. \A j \in CommandIds : SerialOf(j) # left.commands
      BY <1>a, <1>b DEF SerialOf
    <3>4. \A i, j \in CommandIds' : commands'[i].serial = commands'[j].serial => i = j
      BY <2>5, <3>1, <3>2, <3>3 DEF Serials, SerialOf
    <3>5. \A j \in CommandIds' : commands'[j].serial > left'.commands
      BY <2>5, <2>6, <3>1, <3>2, <1>a, <1>b DEF SerialOf
    <3>6. left.commands \notin handed /\ \A s \in handed : s \in Nat /\ s > left'.commands
      BY <2>6, <1>a DEF Serials, SerialOf
    <3>7. \A j \in CommandIds' : commands'[j].status = 0 => commands'[j].serial \notin handed
      BY <2>5, <3>1, <3>2, <3>6 DEF Serials, SerialOf
    <3>8. \A j \in CommandIds' :
            commands'[j].status = 1 /\ ~commands'[j].reused => commands'[j].serial \in handed
      BY <2>5, <3>1, <3>2 DEF Serials, SerialOf
    <3> QED
      BY <2>2, <3>4, <3>5, <3>6, <3>7, <3>8 DEF Serials, SerialOf
  <2>8. ASSUME NEW q \in Requests, Racing(q)
        PROVE  Knows(q)'
    <3>1. Knows(q)
      BY <2>8 DEF Tracked
    <3>2. UNCHANGED requests[q]
      BY <2>2
    <3>3. \A j \in CommandIds : commands'[j].serial = SerialOf(j)
      BY <2>5 DEF SerialOf
    <3>4. commands'[id].serial = left.commands
      BY <2>3, <2>5 DEF SerialOf
    <3>5. Fetching(q) => requests[q].serial > left'.commands /\ requests[q].serial # left.commands
      BY <2>6, <3>1, <1>a DEF Knows
    <3>6. requests[q].id = id => commands'[id].reused
      BY <2>3, <2>5, <2>8
    <3> QED
      BY <2>5, <3>1, <3>2, <3>3, <3>4, <3>5, <3>6 DEF Knows, Fetching, SerialOf
  <2> QED
    BY <2>2, <2>7, <2>8 DEF Tracked, Racing
<1>7. CASE remove_command
  <2>1. PICK id \in CommandIds : modify_command_status(id, -6) /\ requests' = Overtaken({id})
    BY <1>7 DEF remove_command
  <2>2. UNCHANGED <<left, handed>>
    BY <1>7 DEF remove_command
  <2>3. Serials'
    BY <2>1, <2>2, SerialsWritten
  <2>4. \A q \in Requests : Racing(q)' => Racing(q)
    BY <2>1, OvertakenMarks DEF Racing
  <2>5. \A q \in Requests : Racing(q)' => Knows(q)'
    BY <2>1, <2>2, <2>4, KnowsWritten
  <2> QED
    BY <2>3, <2>5 DEF Tracked
<1>8. CASE Restart
  <2>1. UNCHANGED <<commands, handed>> /\ Spend("restarts")
        /\ \A q \in Requests : requests'[q].op = "none"
    BY <1>8 DEF Restart, Idle
  <2> QED
    BY <2>1, <1>a, SpendKeeps, NothingWritten DEF Racing
<1> QED
  BY <1>1, <1>2, <1>3, <1>4, <1>5, <1>6, <1>7, <1>8 DEF WebNext

(* A command marked as fetched was handed to a device, unless its number   *)
(* came back while a request about another was on its way (commands.rs:90  *)
(* of the API, keys.rs:125).                                               *)
THEOREM FetchedWasHandedAlways == WebSpec => []FetchedWasHanded
<1>1. Serials => FetchedWasHanded
  BY DEF Serials, SerialOf, FetchedWasHanded
<1> QED
  BY RowsInitially, RowsStep, TrackedInitially, TrackedStep, <1>1, PTL DEF WebSpec

(* Only a request that another has overtaken reopens a command that ended  *)
(* or hands one out a second time (commands.rs:90-96 and 183-194 of the    *)
(* API).                                                                   *)
THEOREM OnceUnlessRaceAlways == WebSpec => OnceUnlessRace
<1> DEFINE Once ==
      \A r \in Requests : \A id \in CommandIds \cap DOMAIN commands' :
        /\ requests[r].op \in {"fetch", "respond"} /\ requests[r].id = id
        /\ ~requests[r].overtaken
        /\ requests'[r] # requests[r] /\ left'.restarts = left.restarts
        => /\ commands'[id].status \in InProgress => commands[id].status \in InProgress
           /\ requests[r].op = "fetch" => requests[r].serial \notin handed
<1>1. Tracked /\ Serials => Once
  BY DEF Tracked, Racing, Knows, Fetching, Serials
<1>2. Tracked /\ Serials /\ [WebNext]_webVars => [Once]_webVars
  BY <1>1
<1>3. WebSpec => [](RowsOK /\ Tracked /\ Serials)
  BY RowsInitially, RowsStep, TrackedInitially, TrackedStep, PTL DEF WebSpec
<1> QED
  BY <1>2, <1>3, PTL DEF WebSpec, OnceUnlessRace

----------------------------------------------------------------------------
(***************************************************************************)
(* The ESP's settings and its network, for any messages about settings,    *)
(* any card, any access point and any number of resets, losses and failed  *)
(* saves.  Neither invariant is inductive by itself: the settings are      *)
(* followed through the halves of a message, the save and the next boot,   *)
(* and the mutex of connect() through its three callers.                   *)
(***************************************************************************)

NetSpec == NetInit /\ [][NetNext]_netVars

----------------------------------------------------------------------------
(* Settings and the file.                                                  *)

HandlerStages ==
  {"idle", "set first", "set second", "save", "write", "apply", "connecting"}

(* The settings are what whole messages made, or lack the second half of   *)
(* the message that is being handled.                                      *)
MadeWhole ==
  /\ settings_file.kind = "whole" => settings_file.map \in versions
  /\ Tasks /\ handler.at # "set second" => settings \in versions
  /\ HandlerAt("set second") =>
       Set(settings, Second(handler.msg), handler.msg.content[2]) \in versions

(* A file that was saved holds all the settings: the next boot reads them  *)
(* back as they were, and adds no default.                                 *)
SavedIsRead ==
  /\ handler.at = "write" => \A k \in Keys : settings[k] # Missing
  /\ ~unsaved /\ handler.at \in {"idle", "apply", "connecting"} =>
       /\ settings_file = Whole(settings_file.map)
       /\ settings_file.map = [k \in Keys |-> settings_file.map[k]]
       /\ \A k \in Keys : settings_file.map[k] # Missing
       /\ boot \notin {"mount", "read"} => settings = settings_file.map

IsStage(h) == h = [at |-> h.at, msg |-> h.msg] /\ h.at \in HandlerStages

WholeInv ==
  /\ settings = [k \in Keys |-> settings[k]]
  /\ IsStage(handler)
  /\ ~Tasks => handler.at = "idle"
  /\ MadeWhole /\ SavedIsRead

(* The strengthening holds when the ESP is switched on.                    *)
LEMMA WholeInitially == NetInit => WholeInv
<1> SUFFICES ASSUME NetInit PROVE WholeInv
  OBVIOUS
<1>1. handler = [at |-> "idle", msg |-> Missing] /\ unsaved = TRUE /\ boot = "mount"
  BY DEF NetInit
<1>2. settings_file.kind = "whole" => settings_file.map \in versions
  BY DEF NetInit
<1>3. settings = [k \in Keys |-> settings[k]]
  BY DEF NetInit
<1> QED
  BY <1>1, <1>2, <1>3 DEF WholeInv, MadeWhole, SavedIsRead, Tasks, HandlerAt, IsStage, HandlerStages

(* set_setting keeps to the keys.                                          *)
LEMMA SetKeeps ==
  ASSUME NEW map, map = [k \in Keys |-> map[k]], NEW key, NEW value
  PROVE  Set(map, key, value) = [k \in Keys |-> Set(map, key, value)[k]]
<1>1. CASE value = ""
  BY <1>1 DEF Set
<1>2. CASE value # ""
  <2> DEFINE new == [map EXCEPT ![key] = value]
  <2>1. new = [k \in DOMAIN map |-> IF k = key THEN value ELSE map[k]]
    OBVIOUS
  <2>2. DOMAIN map = Keys
    OBVIOUS
  <2>3. new = [k \in Keys |-> new[k]]
    BY <2>1, <2>2
  <2> QED
    BY <1>2, <2>3 DEF Set
<1> QED
  BY <1>1, <1>2

(* What leaves the settings and the file alone.                            *)
LEMMA WholeStays ==
  ASSUME WholeInv, UNCHANGED <<settings_file, settingVars>>,
         boot' \in {"mount", "read"} <=> boot \in {"mount", "read"},
         Tasks' <=> Tasks
  PROVE  WholeInv'
  BY DEF WholeInv, MadeWhole, SavedIsRead, Tasks, HandlerAt, settingVars

(* A file that was cut off.                                                *)
LEMMA TornKind == ASSUME NEW f \in {Torn("in text"), Torn("after comma")}
                  PROVE  f.kind = "torn"
<1>1. Torn("in text").kind = "torn" /\ Torn("after comma").kind = "torn"
  BY DEF Torn
<1>2. f = Torn("in text") \/ f = Torn("after comma")
  OBVIOUS
<1> QED
  BY <1>1, <1>2

(* A reset that leaves the file alone.                                     *)
LEMMA WholeAfterReset ==
  ASSUME WholeInv, Reset, UNCHANGED <<settings_file, versions>>,
         ~unsaved' => ~unsaved /\ handler.at = "idle"
  PROVE  WholeInv'
<1>1. boot' = "mount" /\ handler' = [at |-> "idle", msg |-> Missing] /\ settings' = [k \in Keys |-> Missing]
  BY DEF Reset
<1>2. settings' = [k \in Keys |-> settings'[k]]
  BY <1>1
<1> QED
  BY <1>1, <1>2 DEF WholeInv, MadeWhole, SavedIsRead, Tasks, HandlerAt, IsStage, HandlerStages

(* init_task.                                                              *)
LEMMA WholeBoot == WholeInv /\ BootStep => WholeInv'
<1> SUFFICES ASSUME WholeInv, BootStep PROVE WholeInv'
  OBVIOUS
<1>1. CASE MountCard \/ RadioInit \/ InitEnds
  BY <1>1, WholeStays DEF MountCard, RadioInit, InitEnds, Tasks
<1>2. CASE MountFails
  <2>1. CASE mount_tries < 2
    BY <1>2, <2>1, WholeStays DEF MountFails, Tasks
  <2>2. CASE ~(mount_tries < 2)
    <3>1. handler.at = "idle"
      BY <1>2 DEF MountFails, WholeInv, Tasks
    <3> QED
      BY <1>2, <2>2, <3>1, WholeAfterReset DEF MountFails
  <2> QED
    BY <2>1, <2>2
<1>3. CASE ReadAborts \/ RadioFails
  <2>1. handler.at = "idle"
    BY <1>3 DEF ReadAborts, RadioFails, WholeInv, Tasks
  <2> QED
    BY <1>3, <2>1, WholeAfterReset DEF ReadAborts, RadioFails
<1>4. CASE ReadSettings
  <2>1. /\ handler.at = "idle" /\ handler' = handler /\ boot' = "radio"
        /\ settings' = WithDefaults(settings_file)
        /\ UNCHANGED <<settings_file, versions, unsaved>>
    BY <1>4 DEF ReadSettings, WholeInv, Tasks
  <2>2. settings' = [k \in Keys |-> settings'[k]]
    BY <2>1 DEF WithDefaults
  <2>3. ASSUME ~unsaved
        PROVE  settings' = settings_file.map
    <3> DEFINE f == settings_file
    <3>1. f.kind = "whole" /\ f.map = [k \in Keys |-> f.map[k]]
          /\ \A k \in Keys : f.map[k] # Missing
      BY <2>1, <2>3 DEF WholeInv, SavedIsRead, Whole
    <3> HIDE DEF f
    <3>2. ReadMap(f) = f.map
      BY <3>1 DEF ReadMap, CrcFits
    <3>3. "WEB_CERTIFICATE" \in Keys
      BY DEF Keys
    <3>4. ReadReturn(f) = 0
      BY <3>1, <3>3 DEF ReadReturn, CrcFits
    <3>5. WithDefaults(f) = [k \in Keys |-> f.map[k]]
      BY <3>2, <3>4 DEF WithDefaults
    <3> QED
      BY <2>1, <3>1, <3>5 DEF f
  <2> QED
    BY <2>1, <2>2, <2>3 DEF WholeInv, MadeWhole, SavedIsRead, Tasks, HandlerAt
<1>5. CASE StartTasks
  <2>1. /\ handler.at = "idle" /\ handler' = handler /\ boot = "connect" /\ boot' = "greet"
        /\ settings' = [settings EXCEPT !["WEB_TOKEN"] = IF @ = Missing THEN "" ELSE @]
        /\ versions' = versions \cup {settings'}
        /\ UNCHANGED <<settings_file, unsaved>>
    BY <1>5 DEF StartTasks, WholeInv, Tasks
  <2>2. settings' = [k \in Keys |-> settings'[k]]
    BY <2>1 DEF WholeInv
  <2>3. ASSUME ~unsaved
        PROVE  settings' = settings
    <3>1. settings["WEB_TOKEN"] # Missing
      BY <2>1, <2>3 DEF WholeInv, SavedIsRead, Keys
    <3> QED
      BY <2>1, <3>1 DEF WholeInv
  <2> QED
    BY <2>1, <2>2, <2>3 DEF WholeInv, MadeWhole, SavedIsRead, Tasks, HandlerAt
<1> QED
  BY <1>1, <1>2, <1>3, <1>4, <1>5 DEF BootStep

(* handle_uart_data_task.                                                  *)
LEMMA WholeHandler == WholeInv /\ (MessageArrives \/ HandlerStep) => WholeInv'
<1> SUFFICES ASSUME WholeInv, MessageArrives \/ HandlerStep PROVE WholeInv'
  OBVIOUS
<1>1. CASE MessageArrives
  <2>1. PICK m \in SettingsMessages : handler' = [at |-> "set first", msg |-> m]
    BY <1>1 DEF MessageArrives
  <2>2. HandlerAt("idle") /\ UNCHANGED <<bootVars, settings, versions, unsaved>>
    BY <1>1 DEF MessageArrives
  <2> QED
    BY <2>1, <2>2 DEF WholeInv, MadeWhole, SavedIsRead, Tasks, HandlerAt, IsStage,
                      HandlerStages, bootVars
<1>2. CASE SetFirst
  <2> DEFINE m == handler.msg
             once == Set(settings, First(m), m.content[1])
  <2>1. /\ HandlerAt("set first") /\ settings' = once
        /\ versions' = versions \cup {Effect(settings, m)}
        /\ handler'.at = (IF m.type = "API" THEN "save" ELSE "set second")
        /\ handler'.msg = m /\ IsStage(handler')
        /\ UNCHANGED <<bootVars, unsaved>>
    BY <1>2 DEF SetFirst, Assign, WholeInv, IsStage, HandlerStages
  <2>2. Effect(settings, m) = IF m.type = "API" THEN once
                              ELSE Set(once, Second(m), m.content[2])
    BY DEF Effect
  <2>3. once = [k \in Keys |-> once[k]]
    BY SetKeeps DEF WholeInv
  <2> HIDE DEF m, once
  <2>4. m.type = "API" => settings' \in versions'
    BY <2>1, <2>2
  <2>5. m.type # "API" => Set(settings', Second(m), m.content[2]) \in versions'
    BY <2>1, <2>2
  <2>6. MadeWhole'
    BY <2>1, <2>4, <2>5 DEF WholeInv, MadeWhole, Tasks, HandlerAt, bootVars
  <2> QED
    BY <2>1, <2>3, <2>6 DEF WholeInv, SavedIsRead, Tasks, HandlerAt, IsStage, HandlerStages, bootVars
<1>3. CASE SetSecond
  <2> DEFINE m == handler.msg
             twice == Set(settings, Second(m), m.content[2])
  <2>1. /\ HandlerAt("set second") /\ settings' = twice
        /\ handler'.at = "save" /\ IsStage(handler')
        /\ UNCHANGED <<bootVars, unsaved, versions>>
    BY <1>3 DEF SetSecond, Assign, WholeInv, IsStage, HandlerStages
  <2>2. twice \in versions
    BY <2>1 DEF WholeInv, MadeWhole
  <2>3. twice = [k \in Keys |-> twice[k]]
    BY SetKeeps DEF WholeInv
  <2> HIDE DEF m, twice
  <2> QED
    BY <2>1, <2>2, <2>3 DEF WholeInv, MadeWhole, SavedIsRead, Tasks, HandlerAt,
                            IsStage, HandlerStages, bootVars
<1>4. CASE SaveAborts
  BY <1>4, WholeAfterReset DEF SaveAborts
<1>5. CASE SaveOpens
  <2>1. /\ HandlerAt("save") /\ \A k \in Keys : settings[k] # Missing
        /\ settings_file'.kind = "torn" /\ handler'.at = "write"
        /\ IsStage(handler')
        /\ UNCHANGED <<boot, settings, versions, unsaved>>
    BY <1>5 DEF SaveOpens, Torn, WholeInv, IsStage, HandlerStages
  <2> QED
    BY <2>1 DEF WholeInv, MadeWhole, SavedIsRead, Tasks, HandlerAt, IsStage, HandlerStages
<1>6. CASE SaveWrites
  <2>1. /\ HandlerAt("write") /\ settings_file' = Whole(settings) /\ handler'.at = "apply"
        /\ IsStage(handler')
        /\ UNCHANGED <<boot, settings, versions>>
    BY <1>6 DEF SaveWrites, WholeInv, IsStage, HandlerStages
  <2>2. settings_file'.map = settings /\ settings_file' = Whole(settings_file'.map)
    BY <2>1 DEF Whole
  <2> QED
    BY <2>1, <2>2 DEF WholeInv, MadeWhole, SavedIsRead, Tasks, HandlerAt, IsStage, HandlerStages
<1>7. CASE SaveFails
  <2>1. /\ HandlerAt("save") \/ HandlerAt("write")
        /\ unsaved'
        /\ UNCHANGED <<boot, settings, versions>>
    BY <1>7 DEF SaveFails
  <2>2. settings_file' = settings_file \/ settings_file'.kind = "torn"
    BY <1>7, TornKind DEF SaveFails
  <2>3. handler'.at = "apply" /\ IsStage(handler')
    BY <1>7 DEF SaveFails, WholeInv, IsStage, HandlerStages
  <2> QED
    BY <2>1, <2>2, <2>3 DEF WholeInv, MadeWhole, SavedIsRead, Tasks, HandlerAt, IsStage, HandlerStages
<1>8. CASE Apply \/ Applied
  <2>1. /\ HandlerAt("apply") \/ HandlerAt("connecting")
        /\ UNCHANGED <<bootVars, settings, versions, unsaved>>
    BY <1>8 DEF Apply, Applied
  <2>2. \/ handler' = [handler EXCEPT !.at = "connecting"]
        \/ handler' = [at |-> "idle", msg |-> Missing]
    BY <1>8 DEF Apply, Applied
  <2>3. handler'.at \in {"idle", "connecting"} /\ IsStage(handler')
    <3>1. CASE handler' = [handler EXCEPT !.at = "connecting"]
      BY <3>1 DEF WholeInv, IsStage, HandlerStages
    <3>2. CASE handler' = [at |-> "idle", msg |-> Missing]
      BY <3>2 DEF IsStage, HandlerStages
    <3> QED
      BY <2>2, <3>1, <3>2
  <2> QED
    BY <2>1, <2>3 DEF WholeInv, MadeWhole, SavedIsRead, Tasks, HandlerAt, IsStage, HandlerStages, bootVars
<1> QED
  BY <1>1, <1>2, <1>3, <1>4, <1>5, <1>6, <1>7, <1>8 DEF HandlerStep

(* Every step, power cut and failing save keeps it.                        *)
LEMMA WholeStep == WholeInv /\ [NetNext]_netVars => WholeInv'
<1> SUFFICES ASSUME WholeInv, [NetNext]_netVars PROVE WholeInv'
  OBVIOUS
<1>1. CASE UNCHANGED netVars
  BY <1>1, WholeStays DEF netVars, bootVars, Tasks
<1>2. CASE BootStep
  BY <1>2, WholeBoot
<1>3. CASE PowerCut
  <2>1. CASE settings_file' = settings_file
    BY <1>3, <2>1, WholeAfterReset DEF PowerCut
  <2>2. CASE settings_file' # settings_file
    <3>1. /\ handler'.at = "idle" /\ IsStage(handler')
          /\ boot' = "mount" /\ settings' = [k \in Keys |-> Missing]
      BY <1>3 DEF PowerCut, Reset, IsStage, HandlerStages
    <3>2. handler.at = "write" /\ settings_file' \in {Torn("in text"), Torn("after comma")}
      BY <1>3, <2>2 DEF PowerCut
    <3>3. settings_file'.kind = "torn"
      BY <3>2, TornKind
    <3>4. unsaved'
      BY <1>3, <3>2 DEF PowerCut
    <3>5. settings' = [k \in Keys |-> settings'[k]]
      BY <3>1
    <3> QED
      BY <3>1, <3>3, <3>4, <3>5 DEF WholeInv, MadeWhole, SavedIsRead, Tasks, HandlerAt, IsStage, HandlerStages
  <2> QED
    BY <2>1, <2>2
<1>4. CASE MessageArrives \/ HandlerStep
  BY <1>4, WholeHandler
<1>5. ASSUME NEW c \in Callers, ConnectStep(c)
      PROVE  WholeInv'
  <2>1. CASE ConnectAborts(c)
    BY <2>1, WholeAfterReset DEF ConnectAborts
  <2>2. CASE ConnectLocks(c) \/ ConnectReturns(c) \/ Retry(c)
    BY <2>2, WholeStays DEF ConnectLocks, ConnectReturns, Retry, WaitTimesOut, bootVars, Tasks
  <2> QED
    BY <1>5, <2>1, <2>2 DEF ConnectStep
<1>6. CASE TimerStep
  BY <1>6, WholeStays DEF TimerStep, TimerRings, TimerEnds, bootVars, Tasks
<1>7. CASE DriverConnects \/ DriverRefused \/ LinkLost \/ EventHandled
  BY <1>7, WholeStays
  DEF DriverConnects, DriverRefused, LinkLost, EventHandled, bootVars, Tasks
<1> QED
  BY <1>1, <1>2, <1>3, <1>4, <1>5, <1>6, <1>7 DEF NetNext

(* No cut, reset, failed save or boot leaves half of a message in the file *)
(* or in use, and what was saved is in use (sd-card.cpp save_all_settings, *)
(* tasks.cpp WIFI, SERVER and API).                                        *)
THEOREM WholeMessagesAlways == NetSpec => []WholeMessages
<1>1. WholeInv => WholeMessages
  BY DEF WholeInv, MadeWhole, SavedIsRead, WholeMessages, HandlerAt, Tasks
<1> QED
  BY WholeInitially, WholeStep, <1>1, PTL DEF NetSpec

----------------------------------------------------------------------------
(* Who connects, and the driver's events.                                  *)

(* The card, the driver and its events: a radio that is off has posted     *)
(* nothing, and START is the first event of one that is started.           *)
DriverInv ==
  /\ boot \in {"mount", "read", "radio", "connect", "greet", "run"}
  /\ mount_tries \in 0..2
  /\ DOMAIN settings = Keys
  /\ radio \in {"off", "idle", "connecting", "up"}
  /\ wifi_events \in Seq({"START", "GOT_IP", "DISCONNECTED"})
  /\ Len(wifi_events) <= MaxEvents
  /\ radio = "off" => wifi_events = <<>>

(* A caller of connect() is in it only while the task that called it waits *)
(* for it, so none enters it twice.                                        *)
ConnectInv ==
  /\ retries \in 0..3
  /\ wifi_mutex \in Callers \cup {"none"}
  /\ connecting \in [Callers -> {"no", "lock", "wait"}]
  /\ \A c \in Callers : connecting[c] = "wait" <=> wifi_mutex = c
  /\ wifi_mutex # "none" => retries \in 0..2
  /\ reconnect_timer \in {"none", "started", "running"}
  /\ boot # "connect" => connecting["init"] = "no"
  /\ handler.at # "connecting" => connecting["handler"] = "no"
  /\ reconnect_timer # "running" => connecting["timer"] = "no"
  /\ boot # "run" => reconnect_timer = "none"
  /\ ~Tasks => handler.at = "idle"

NetInv == DriverInv /\ ConnectInv

(* The strengthening holds when the ESP is switched on.                    *)
LEMMA NetInitially == NetInit => NetInv
  BY EventsAssumption, EmptySeq DEF NetInit, NetInv, DriverInv, ConnectInv, Callers, Tasks

(* A reset establishes it, whatever came before.                           *)
LEMMA NetAfterReset == ASSUME Reset PROVE NetInv'
  BY EventsAssumption, EmptySeq DEF Reset, NetInv, DriverInv, ConnectInv, Callers, Tasks

(* What a posted event, or one taken, makes of the queue.                  *)
LEMMA EventsPosted ==
  ASSUME DriverInv, NEW e \in {"START", "GOT_IP", "DISCONNECTED"}, Post(e)
  PROVE  /\ wifi_events' \in Seq({"START", "GOT_IP", "DISCONNECTED"})
         /\ Len(wifi_events') <= MaxEvents
  BY EventsAssumption DEF DriverInv, Post

(* Every step keeps what is known of the driver and of its events.         *)
LEMMA DriverStep == DriverInv /\ [NetNext]_netVars => DriverInv'
<1> SUFFICES ASSUME DriverInv, [NetNext]_netVars PROVE DriverInv'
  OBVIOUS
<1> DEFINE Events == {"START", "GOT_IP", "DISCONNECTED"}
<1>1. CASE UNCHANGED netVars
  BY <1>1 DEF netVars, bootVars, settingVars, driverVars, DriverInv
<1>2. CASE BootStep
  <2>1. CASE \/ MountCard \/ ReadSettings \/ RadioInit \/ StartTasks \/ InitEnds
    <3>1. /\ UNCHANGED driverVars /\ mount_tries' \in {0, mount_tries}
          /\ boot' \in {"read", "radio", "connect", "greet", "run"}
      BY <2>1 DEF MountCard, ReadSettings, RadioInit, StartTasks, InitEnds
    <3>2. DOMAIN settings' = Keys
      BY <2>1 DEF MountCard, ReadSettings, RadioInit, StartTasks, InitEnds, WithDefaults,
                  settingVars, DriverInv
    <3> QED
      BY <3>1, <3>2 DEF driverVars, DriverInv
  <2>2. CASE MountFails
    <3>1. CASE mount_tries < 2
      BY <2>2, <3>1 DEF MountFails, driverVars, settingVars, DriverInv
    <3> QED
      BY <2>2, <3>1, NetAfterReset DEF MountFails, NetInv
  <2> QED
    BY <1>2, <2>1, <2>2, NetAfterReset DEF BootStep, ReadAborts, RadioFails, NetInv
<1>3. CASE PowerCut \/ SaveAborts
  BY <1>3, NetAfterReset DEF PowerCut, SaveAborts, NetInv
<1>4. CASE SetFirst \/ SetSecond
  BY <1>4 DEF SetFirst, SetSecond, Assign, Set, bootVars, driverVars, DriverInv
<1>5. CASE \/ MessageArrives \/ SaveOpens \/ SaveWrites \/ SaveFails \/ Apply \/ Applied
  BY <1>5 DEF MessageArrives, SaveOpens, SaveWrites, SaveFails, Apply, Applied,
              bootVars, driverVars, DriverInv
<1>6. ASSUME NEW c \in Callers, ConnectStep(c)
      PROVE  DriverInv'
  <2>1. CASE ConnectLocks(c)
    <3>1. /\ UNCHANGED <<boot, mount_tries, settings>>
          /\ radio' = IF radio = "off" THEN "idle" ELSE radio
          /\ wifi_events' = IF radio = "off" THEN Append(wifi_events, "START")
                            ELSE wifi_events
      BY <2>1 DEF ConnectLocks, bootVars, settingVars
    <3>2. CASE radio = "off"
      <4>1. wifi_events' \in Seq(Events) /\ Len(wifi_events') = 1
        BY <3>1, <3>2 DEF DriverInv
      <4> QED
        BY <3>1, <3>2, <4>1, EventsAssumption DEF DriverInv
    <3>3. CASE radio # "off"
      BY <3>1, <3>3 DEF DriverInv
    <3> QED
      BY <3>2, <3>3
  <2>2. CASE ConnectAborts(c)
    BY <2>2, NetAfterReset DEF ConnectAborts, NetInv
  <2>3. CASE ConnectReturns(c)
    BY <2>3 DEF ConnectReturns, bootVars, settingVars, driverVars, DriverInv
  <2>4. CASE Retry(c)
    <3>1. /\ UNCHANGED <<boot, mount_tries, settings>> /\ radio' = "connecting"
          /\ wifi_events' = wifi_events \/ Post("DISCONNECTED")
      BY <2>4 DEF Retry, WaitTimesOut, bootVars, settingVars
    <3> QED
      BY <3>1, EventsPosted DEF DriverInv
  <2> QED
    BY <1>6, <2>1, <2>2, <2>3, <2>4 DEF ConnectStep
<1>7. CASE TimerStep
  BY <1>7 DEF TimerStep, TimerRings, TimerEnds, bootVars, settingVars, driverVars, DriverInv
<1>8. CASE DriverConnects \/ DriverRefused \/ LinkLost
  <2>1. /\ UNCHANGED <<boot, mount_tries, settings>> /\ radio' \in {"up", "idle"}
        /\ Post("GOT_IP") \/ Post("DISCONNECTED")
    BY <1>8 DEF DriverConnects, DriverRefused, LinkLost, bootVars, settingVars
  <2> QED
    BY <2>1, EventsPosted DEF DriverInv
<1>9. CASE EventHandled
  <2>1. /\ UNCHANGED <<boot, mount_tries, settings>> /\ radio' \in {radio, "connecting"}
        /\ wifi_events # <<>> /\ wifi_events' = Tail(wifi_events)
    BY <1>9 DEF EventHandled, bootVars, settingVars
  <2>2. wifi_events' \in Seq(Events) /\ Len(wifi_events') = Len(wifi_events) - 1
    BY <2>1, HeadTailProperties DEF DriverInv
  <2> QED
    BY <2>1, <2>2, EventsAssumption, LenProperties DEF DriverInv
<1> QED
  BY <1>1, <1>2, <1>3, <1>4, <1>5, <1>6, <1>7, <1>8, <1>9 DEF NetNext, HandlerStep

(* Every step keeps what is known of the callers of connect and of the     *)
(* mutex.                                                                  *)
LEMMA ConnectInvStep == WholeInv /\ ConnectInv /\ [NetNext]_netVars => ConnectInv'
<1> SUFFICES ASSUME WholeInv, ConnectInv, [NetNext]_netVars PROVE ConnectInv'
  OBVIOUS
<1>1. CASE UNCHANGED netVars
  BY <1>1 DEF netVars, bootVars, settingVars, connectVars, timerVars, ConnectInv, Tasks
<1>2. CASE BootStep
  <2>1. CASE MountCard \/ ReadSettings
    BY <2>1 DEF MountCard, ReadSettings, settingVars, connectVars, timerVars, ConnectInv, Tasks
  <2>2. CASE RadioInit
    BY <2>2 DEF RadioInit, settingVars, timerVars, ConnectInv, Tasks, Callers
  <2>3. CASE StartTasks \/ InitEnds
    BY <2>3 DEF StartTasks, InitEnds, settingVars, connectVars, timerVars, ConnectInv, Tasks
  <2>4. CASE MountFails
    <3>1. CASE mount_tries < 2
      BY <2>4, <3>1 DEF MountFails, settingVars, connectVars, timerVars, ConnectInv, Tasks
    <3> QED
      BY <2>4, <3>1, NetAfterReset DEF MountFails, NetInv
  <2> QED
    BY <1>2, <2>1, <2>2, <2>3, <2>4, NetAfterReset
    DEF BootStep, ReadAborts, RadioFails, NetInv
<1>3. CASE PowerCut \/ SaveAborts
  BY <1>3, NetAfterReset DEF PowerCut, SaveAborts, NetInv
<1>4. CASE MessageArrives \/ SetFirst \/ SetSecond \/ SaveOpens \/ SaveWrites \/ SaveFails
  <2>1. Tasks /\ handler.at # "connecting" /\ UNCHANGED <<boot, connectVars, reconnect_timer>>
    BY <1>4 DEF MessageArrives, SetFirst, SetSecond, Assign, SaveOpens, SaveWrites,
                SaveFails, HandlerAt, bootVars, timerVars
  <2> QED
    BY <2>1 DEF connectVars, ConnectInv, Tasks
<1>5. CASE Apply \/ Applied
  <2>1. Tasks /\ UNCHANGED <<boot, wifi_mutex, retries, reconnect_timer>>
    BY <1>5 DEF Apply, Applied, HandlerAt, bootVars, connectVars, timerVars
  <2>2. \/ UNCHANGED connecting /\ connecting["handler"] = "no"
        \/ /\ connecting["handler"] = "no" /\ handler'.at = "connecting"
           /\ connecting' = [connecting EXCEPT !["handler"] = "lock"]
    BY <1>5 DEF Apply, Applied, HandlerAt, connectVars, ConnectInv, WholeInv, IsStage
  <2> QED
    BY <2>1, <2>2 DEF ConnectInv, Tasks, Callers
<1>6. ASSUME NEW c \in Callers, ConnectStep(c)
      PROVE  ConnectInv'
  <2>1. CASE ConnectLocks(c)
    BY <2>1 DEF ConnectLocks, bootVars, settingVars, timerVars, ConnectInv, Tasks, Callers
  <2>2. CASE ConnectAborts(c)
    BY <2>2, NetAfterReset DEF ConnectAborts, NetInv
  <2>3. CASE ConnectReturns(c)
    BY <2>3 DEF ConnectReturns, Return, bootVars, settingVars, timerVars, ConnectInv, Tasks,
                Callers
  <2>4. CASE Retry(c)
    BY <2>4 DEF Retry, WaitTimesOut, Return, bootVars, settingVars, timerVars, ConnectInv,
                Tasks, Callers
  <2> QED
    BY <1>6, <2>1, <2>2, <2>3, <2>4 DEF ConnectStep
<1>7. CASE TimerStep
  BY <1>7 DEF TimerStep, TimerRings, TimerEnds, bootVars, settingVars, connectVars, ConnectInv,
              Tasks, Callers
<1>8. CASE DriverConnects \/ DriverRefused \/ LinkLost \/ EventHandled
  BY <1>8 DEF DriverConnects, DriverRefused, LinkLost, EventHandled, bootVars, settingVars,
              connectVars, timerVars, ConnectInv, Tasks
<1> QED
  BY <1>1, <1>2, <1>3, <1>4, <1>5, <1>6, <1>7, <1>8 DEF NetNext, HandlerStep

(* connect() has one caller inside at a time, who retries at most three    *)
(* times, and the callbacks are never more than the bound behind           *)
(* (wireless.cpp connect; tasks.cpp:200).                                  *)
THEOREM NetTypeCorrect == NetSpec => []NetTypeOK
<1>1. NetInv => NetTypeOK
  BY DEF NetInv, DriverInv, ConnectInv, NetTypeOK
<1>2. WholeInv /\ NetInv /\ [NetNext]_netVars => NetInv'
  BY DriverStep, ConnectInvStep DEF NetInv
<1> QED
  BY WholeInitially, WholeStep, NetInitially, <1>1, <1>2, PTL DEF NetSpec

----------------------------------------------------------------------------
(***************************************************************************)
(* The planet finder, for any times of the clock, any samples and any      *)
(* bodies that are never as high as a minute ago.  A date goes round in    *)
(* its month, so that every date of a search is so many minutes later than *)
(* its start; the two numbers of a day agree; and between two samples with *)
(* a higher one between them there is a minute that is the highest.        *)
(***************************************************************************)

(* Dates of the calendar.  Every increment of date_utils.cpp stays in the  *)
(* month, and goes back to its start when the month has ended: a date is   *)
(* so many minutes after the start of its month, counted in a circle.      *)
MonthMinutes(d) == 1440 * DaysIn(d.year, d.month)
InMonth(d) == 1440 * (d.day - 1) + 60 * d.hour + d.min
At(d, m) == [d EXCEPT !.day = m \div 1440 + 1, !.hour = (m \div 60) % 24, !.min = m % 60]
Later(d, n) == At(d, (InMonth(d) + n) % MonthMinutes(d))

(* A month has 28 to 31 days.                                              *)
LEMMA MonthLength ==
  ASSUME NEW y, NEW m \in 1..12
  PROVE  DaysIn(y, m) \in 28..31
<1>1. m \in {1, 3, 5, 7, 8, 10, 12} \/ m \in {4, 6, 9, 11} \/ m = 2
  OBVIOUS
<1>2. CASE m \in {1, 3, 5, 7, 8, 10, 12}
  BY <1>2 DEF DaysIn
<1>3. CASE m \in {4, 6, 9, 11}
  BY <1>3 DEF DaysIn
<1>4. CASE m = 2
  BY <1>4 DEF DaysIn
<1> QED
  BY <1>1, <1>2, <1>3, <1>4

(* Day, hour and minute, and the minutes since the month began.            *)
IsMinute(m, a, h, n) == m = 1440 * (a - 1) + 60 * h + n
Splits(m, a, h, n) == m \div 1440 + 1 = a /\ (m \div 60) % 24 = h /\ m % 60 = n

(* A minute of the month has one day, hour and minute.                     *)
LEMMA MinuteOfMonth ==
  ASSUME NEW a \in 1..31, NEW h \in 0..23, NEW n \in 0..59, NEW m, IsMinute(m, a, h, n)
  PROVE  Splits(m, a, h, n)
<1>1. m = 1440 * (a - 1) + 60 * h + n
  BY DEF IsMinute
<1>2. m \div 1440 = a - 1
  <2>1. m = 1440 * (a - 1) + (60 * h + n) /\ 60 * h + n \in 0..1439
    BY <1>1
  <2> QED
    BY <2>1
<1>3. m \div 60 = 24 * (a - 1) + h /\ m % 60 = n
  BY <1>1
<1>4. (24 * (a - 1) + h) % 24 = h
  OBVIOUS
<1> QED
  BY <1>2, <1>3, <1>4 DEF Splits

(* The fields of a date, and how many minutes its month has.               *)
LEMMA DateFields ==
  ASSUME NEW d \in CalendarDates
  PROVE  /\ d.year \in Nat \ {0} /\ d.month \in 1..12
         /\ d.day \in 1..31 /\ d.hour \in 0..23 /\ d.min \in 0..59
         /\ d.day <= DaysIn(d.year, d.month) /\ DaysIn(d.year, d.month) \in 28..31
         /\ MonthMinutes(d) = 1440 * DaysIn(d.year, d.month)
         /\ InMonth(d) = 1440 * (d.day - 1) + 60 * d.hour + d.min
         /\ InMonth(d) \in 0..MonthMinutes(d) - 1
<1>1. /\ d.year \in Nat \ {0} /\ d.month \in 1..12
      /\ d.day \in 1..31 /\ d.hour \in 0..23 /\ d.min \in 0..59
      /\ d.day <= DaysIn(d.year, d.month)
  BY DEF CalendarDates
<1>2. DaysIn(d.year, d.month) \in 28..31
  BY <1>1, MonthLength
<1>3. MonthMinutes(d) = 1440 * DaysIn(d.year, d.month)
      /\ InMonth(d) = 1440 * (d.day - 1) + 60 * d.hour + d.min
  BY DEF MonthMinutes, InMonth
<1> DEFINE D == DaysIn(d.year, d.month)
<1>4. D \in 28..31 /\ d.day <= D
  BY <1>1, <1>2
<1> HIDE DEF D
<1>5. 1440 * (d.day - 1) + 60 * d.hour + d.min \in 0..1440 * D - 1
  <2> DEFINE a == d.day
             h == d.hour
             n == d.min
  <2>1. a \in 1..31 /\ a <= D /\ h \in 0..23 /\ n \in 0..59
    BY <1>1, <1>4
  <2> HIDE DEF a, h, n
  <2>2. 1440 * (a - 1) + 60 * h + n \in 0..1440 * D - 1
    BY <1>4, <2>1
  <2> QED
    BY <2>2 DEF a, h, n
<1> QED
  BY <1>1, <1>2, <1>3, <1>5 DEF D

(* The date that is m minutes after the start of the month.                *)
LEMMA AtIsDate ==
  ASSUME NEW d \in CalendarDates, NEW m \in 0..MonthMinutes(d) - 1
  PROVE  /\ At(d, m) \in CalendarDates
         /\ At(d, m).year = d.year /\ At(d, m).month = d.month
         /\ InMonth(At(d, m)) = m
         /\ MonthMinutes(At(d, m)) = MonthMinutes(d)
<1> DEFINE D == DaysIn(d.year, d.month)
           day == m \div 1440 + 1
           hour == (m \div 60) % 24
           min == m % 60
           e == At(d, m)
<1>1. D \in 28..31 /\ m \in 0..1440 * D - 1
  BY DateFields
<1> HIDE DEF D
<1>2. m \in Nat /\ m < 1440 * D
  BY <1>1
<1>3. day \in 1..31 /\ day <= D
  BY <1>1, <1>2
<1>4. hour \in 0..23 /\ min \in 0..59
  BY <1>2
<1>5. 1440 * (day - 1) + 60 * hour + min = m
  BY <1>2
<1>6. e = [d EXCEPT !.day = day, !.hour = hour, !.min = min]
  BY DEF At
<1> HIDE DEF day, hour, min, e
<1>7. /\ e \in CalendarDates /\ e.year = d.year /\ e.month = d.month
      /\ e.day = day /\ e.hour = hour /\ e.min = min
  <2>1. day \in 1..31 /\ day <= DaysIn(d.year, d.month) /\ hour \in 0..23 /\ min \in 0..59
    BY <1>3, <1>4 DEF D
  <2> QED
    BY <2>1, <1>6 DEF CalendarDates
<1>8. InMonth(e) = m /\ MonthMinutes(e) = MonthMinutes(d)
  BY <1>5, <1>7 DEF InMonth, MonthMinutes
<1> QED
  BY <1>7, <1>8 DEF e

(* A date of the same month is at its minutes.                             *)
LEMMA SameMonth ==
  ASSUME NEW d \in CalendarDates, NEW e \in CalendarDates,
         e.year = d.year, e.month = d.month
  PROVE  /\ InMonth(e) \in 0..MonthMinutes(d) - 1
         /\ e = At(d, InMonth(e))
<1> DEFINE m == InMonth(e)
<1>1. /\ e.day \in 1..31 /\ e.hour \in 0..23 /\ e.min \in 0..59
      /\ m = 1440 * (e.day - 1) + 60 * e.hour + e.min
      /\ m \in 0..MonthMinutes(e) - 1 /\ MonthMinutes(e) = MonthMinutes(d)
  BY DateFields DEF MonthMinutes
<1>2. m \div 1440 + 1 = e.day /\ (m \div 60) % 24 = e.hour /\ m % 60 = e.min
  <2> DEFINE a == e.day
             h == e.hour
             n == e.min
  <2>1. a \in 1..31 /\ h \in 0..23 /\ n \in 0..59 /\ IsMinute(m, a, h, n)
    BY <1>1 DEF IsMinute
  <2> HIDE DEF m, a, h, n
  <2>2. Splits(m, a, h, n)
    BY <2>1, MinuteOfMonth
  <2> QED
    BY <2>2 DEF Splits, a, h, n
<1> HIDE DEF m
<1>3. At(d, m) = [d EXCEPT !.day = e.day, !.hour = e.hour, !.min = e.min]
  <2> DEFINE a == m \div 1440 + 1
             h == (m \div 60) % 24
             n == m % 60
  <2>1. At(d, m) = [d EXCEPT !.day = a, !.hour = h, !.min = n]
    BY DEF At
  <2>2. a = e.day /\ h = e.hour /\ n = e.min
    BY <1>2
  <2> HIDE DEF a, h, n
  <2> QED
    BY <2>1, <2>2
<1>4. e = [d EXCEPT !.day = e.day, !.hour = e.hour, !.min = e.min]
  BY DEF CalendarDates
<1> QED
  BY <1>1, <1>3, <1>4 DEF m

(* Counting in a circle: what goes around does not change the sum.         *)
LEMMA AroundAgain ==
  ASSUME NEW p \in Nat \ {0}, NEW x \in Int, NEW b \in Int
  PROVE  /\ x % p \in 0..p - 1
         /\ ((x % p) + b) % p = (x + b) % p
<1> DEFINE q == x \div p
           t == x % p
           r == (t + b) \div p
           u == (t + b) % p
           s == (x + b) \div p
           v == (x + b) % p
<1>1. q \in Int /\ t \in 0..p - 1 /\ x = p * q + t
  BY SMT
<1> HIDE DEF q, t
<1>2. r \in Int /\ u \in 0..p - 1 /\ t + b = p * r + u
  BY SMT, <1>1
<1>3. s \in Int /\ v \in 0..p - 1 /\ x + b = p * s + v
  BY SMT
<1> HIDE DEF r, u, s, v
<1> DEFINE k == s - (q + r)
<1>4. k \in Int /\ p * k = u - v
  BY SMT, <1>1, <1>2, <1>3
<1> HIDE DEF k
<1>5. k = 0
  <2>1. ASSUME k >= 1 PROVE FALSE
    <3>1. p * k >= p
      BY SMT, <1>4, <2>1
    <3> QED
      BY SMT, <1>2, <1>3, <1>4, <3>1
  <2>2. ASSUME k <= -1 PROVE FALSE
    <3>1. p * k <= -p
      BY SMT, <1>4, <2>2
    <3> QED
      BY SMT, <1>2, <1>3, <1>4, <3>1
  <2> QED
    BY SMT, <1>4, <2>1, <2>2
<1>6. u = v
  BY SMT, <1>2, <1>3, <1>4, <1>5
<1> QED
  BY <1>1, <1>6 DEF t, u, v

(* Minutes counted in a circle, as long as a month.                        *)
Lengths == {40320, 41760, 43200, 44640}

(* So it is in the circle of a month.                                      *)
LEMMA Circle ==
  ASSUME NEW L \in Lengths, NEW a \in Int, NEW b \in Int
  PROVE  /\ a % L \in 0..L - 1
         /\ ((a % L) + b) % L = (a + b) % L
<1>1. L \in Nat \ {0}
  BY SMT DEF Lengths
<1> QED
  BY <1>1, AroundAgain

(* The same of the minutes of a month.                                     *)
LEMMA MonthCircle ==
  ASSUME NEW d \in CalendarDates, NEW a \in Int, NEW b \in Int
  PROVE  /\ a % MonthMinutes(d) \in 0..MonthMinutes(d) - 1
         /\ ((a % MonthMinutes(d)) + b) % MonthMinutes(d) = (a + b) % MonthMinutes(d)
<1> DEFINE L == MonthMinutes(d)
<1>1. L \in Lengths
  <2> DEFINE D == DaysIn(d.year, d.month)
  <2>1. D \in 28..31 /\ L = 1440 * D
    BY DateFields
  <2> HIDE DEF D, L
  <2> QED
    BY <2>1 DEF Lengths
<1> HIDE DEF L
<1>2. /\ a % L \in 0..L - 1
      /\ ((a % L) + b) % L = (a + b) % L
  BY <1>1, Circle
<1> QED
  BY <1>2 DEF L

(* The date n minutes later, if the month were a circle.                   *)
LEMMA LaterIsDate ==
  ASSUME NEW d \in CalendarDates, NEW n \in Nat
  PROVE  /\ Later(d, n) \in CalendarDates
         /\ Later(d, n).year = d.year /\ Later(d, n).month = d.month
         /\ MonthMinutes(Later(d, n)) = MonthMinutes(d)
         /\ InMonth(Later(d, n)) = (InMonth(d) + n) % MonthMinutes(d)
<1>1. InMonth(d) + n \in Int
  BY DateFields
<1>2. (InMonth(d) + n) % MonthMinutes(d) \in 0..MonthMinutes(d) - 1
  BY <1>1, MonthCircle
<1> QED
  BY <1>2, AtIsDate DEF Later

(* Minutes add up.                                                         *)
LEMMA LaterAdds ==
  ASSUME NEW d \in CalendarDates, NEW n \in Nat, NEW k \in Nat
  PROVE  Later(Later(d, n), k) = Later(d, n + k) /\ Later(d, 0) = d
<1> DEFINE e == Later(d, n)
           L == MonthMinutes(d)
           m == InMonth(d)
           p == (m + (n + k)) % L
<1>1. /\ e \in CalendarDates /\ e.year = d.year /\ e.month = d.month
      /\ MonthMinutes(e) = L /\ InMonth(e) = (m + n) % L
  BY LaterIsDate
<1>2. m \in 0..L - 1 /\ L \in Nat /\ d = At(d, m)
  BY SameMonth, DateFields
<1>3. m + n \in Int /\ m + (n + k) \in Int /\ (m + n) + k = m + (n + k)
  BY <1>2
<1>4. (((m + n) % L) + k) % L = p /\ p \in 0..L - 1
  <2> DEFINE x == m + n
             y == m + (n + k)
  <2>1. x \in Int /\ y \in Int /\ k \in Int /\ x + k = y
    BY <1>3
  <2> HIDE DEF m, x, y
  <2>2. ((x % L) + k) % L = (x + k) % L /\ y % L \in 0..L - 1
    BY <2>1, MonthCircle
  <2> QED
    BY <2>1, <2>2 DEF x, y
<1>5. Later(e, k) = At(e, p)
  BY <1>1, <1>4 DEF Later
<1>6. Later(d, n + k) = At(d, p)
  BY DEF Later
<1>7. Later(d, 0) = d
  <2>1. (m + 0) % L = m
    <3> HIDE DEF m, L
    <3> QED
      BY <1>2
  <2> QED
    BY <1>2, <2>1 DEF Later
<1> HIDE DEF e, p, m, L
<1>8. At(e, p) = At(d, p)
  <2>1. /\ At(e, p) \in CalendarDates /\ At(e, p).year = e.year /\ At(e, p).month = e.month
        /\ InMonth(At(e, p)) = p
    BY <1>1, <1>4, AtIsDate
  <2> QED
    BY <1>1, <2>1, SameMonth
<1> QED
  BY <1>5, <1>6, <1>7, <1>8 DEF e

(* Once around.                                                            *)
LEMMA Around ==
  ASSUME NEW L \in Lengths, NEW x \in Int
  PROVE  /\ 0 <= x /\ x < L => x % L = x
         /\ L <= x /\ x < 2 * L => x % L = x - L
<1>1. CASE L = 40320
  BY <1>1
<1>2. CASE L = 41760
  BY <1>2
<1>3. CASE L = 43200
  BY <1>3
<1>4. CASE L = 44640
  BY <1>4
<1> QED
  BY <1>1, <1>2, <1>3, <1>4 DEF Lengths

(* Every month has one of these lengths.                                   *)
LEMMA MonthLengths ==
  ASSUME NEW d \in CalendarDates
  PROVE  MonthMinutes(d) \in Lengths
<1> DEFINE D == DaysIn(d.year, d.month)
           L == MonthMinutes(d)
<1>1. D \in 28..31 /\ L = 1440 * D
  BY DateFields
<1> HIDE DEF D, L
<1>2. L \in Lengths
  BY <1>1 DEF Lengths
<1> QED
  BY <1>2 DEF L

(* The date n minutes later, given its minutes in the month.               *)
LEMMA IsLater ==
  ASSUME NEW d \in CalendarDates, NEW e \in CalendarDates,
         e.year = d.year, e.month = d.month, NEW n \in Nat,
         \/ InMonth(e) = InMonth(d) + n
         \/ InMonth(e) = InMonth(d) + n - MonthMinutes(d)
  PROVE  e = Later(d, n)
<1> DEFINE L == MonthMinutes(d)
           a == InMonth(d)
           b == InMonth(e)
<1>1. L \in Lengths
  BY MonthLengths
<1>2. a \in 0..L - 1 /\ b \in 0..L - 1 /\ e = At(d, b)
  BY DateFields, SameMonth
<1>3. b = a + n \/ b = a + n - L
  OBVIOUS
<1> HIDE DEF a, b, L
<1>4. L \in Nat
  BY <1>1 DEF Lengths
<1>5. a + n \in Int
  BY <1>2, <1>4
<1>6. (a + n) % L = b
  <2>1. CASE b = a + n
    <3> DEFINE x == a + n
    <3>1. x \in Int /\ 0 <= x /\ x < L /\ b = x
      BY <1>2, <1>4, <1>5, <2>1
    <3> HIDE DEF x
    <3>2. x % L = b
      BY <1>1, <3>1, Around
    <3> QED
      BY <3>2 DEF x
  <2>2. CASE b = a + n - L
    <3> DEFINE x == a + n
    <3>1. x \in Int /\ L <= x /\ x < 2 * L /\ b = x - L
      BY <1>2, <1>4, <1>5, <2>2
    <3> HIDE DEF x
    <3>2. x % L = b
      BY <1>1, <3>1, Around
    <3> QED
      BY <3>2 DEF x
  <2> QED
    BY <1>3, <2>1, <2>2
<1> QED
  BY <1>2, <1>6 DEF Later, a, L

(* The next day, if the month were a circle.                               *)
LEMMA NextDay ==
  ASSUME NEW d \in CalendarDates, NEW e, e = datetime_increment_day(d)
  PROVE  /\ e \in CalendarDates /\ e.year = d.year /\ e.month = d.month
         /\ e.hour = d.hour /\ e.min = d.min
         /\ \/ e.day = d.day + 1
            \/ e.day = 1 /\ d.day = DaysIn(d.year, d.month)
<1> DEFINE D == DaysIn(d.year, d.month)
           day == IF d.day + 1 > D THEN 1 ELSE d.day + 1
<1>1. D \in 28..31 /\ d.day <= D /\ d.day \in 1..31 /\ d.month \in 1..12
  BY DateFields
<1>2. e = [d EXCEPT !.day = day]
  BY <1>1 DEF datetime_increment_day
<1> HIDE DEF D
<1>3. day \in 1..31 /\ day <= D /\ (day = d.day + 1 \/ (day = 1 /\ d.day = D))
  BY <1>1
<1> HIDE DEF day
<1> QED
  BY <1>2, <1>3 DEF CalendarDates, D

(* An hour is 60 minutes, and a minute one.                                *)
LEMMA HourLater ==
  ASSUME NEW d \in CalendarDates
  PROVE  datetime_increment_hour(d) = Later(d, 60)
<1> DEFINE e == datetime_increment_hour(d)
           x == [d EXCEPT !.hour = 0]
<1>1. CASE d.hour < 23
  <2>1. e = [d EXCEPT !.hour = d.hour + 1]
    BY <1>1, DateFields DEF datetime_increment_hour
  <2>2. d.hour + 1 \in 0..23
    BY <1>1, DateFields
  <2> HIDE DEF e
  <2>3. /\ e \in CalendarDates /\ e.year = d.year /\ e.month = d.month
        /\ e.day = d.day /\ e.hour = d.hour + 1 /\ e.min = d.min
    BY <2>1, <2>2 DEF CalendarDates
  <2>4. InMonth(e) = InMonth(d) + 60
    <3> DEFINE a == d.day
               h == d.hour
               n == d.min
    <3>1. /\ a \in 1..31 /\ h \in 0..23 /\ n \in 0..59
          /\ InMonth(d) = 1440 * (a - 1) + 60 * h + n
      BY DateFields
    <3>2. InMonth(e) = 1440 * (a - 1) + 60 * (h + 1) + n
      BY <2>3 DEF InMonth
    <3> HIDE DEF a, h, n
    <3> QED
      BY <3>1, <3>2
  <2> QED
    BY <2>3, <2>4, IsLater DEF e
<1>2. CASE d.hour = 23
  <2>1. e = datetime_increment_day(x)
    BY <1>2 DEF datetime_increment_hour
  <2>2. /\ x \in CalendarDates /\ x.year = d.year /\ x.month = d.month
        /\ x.day = d.day /\ x.hour = 0 /\ x.min = d.min
    BY DEF CalendarDates
  <2> HIDE DEF e, x
  <2>3. /\ e \in CalendarDates /\ e.year = d.year /\ e.month = d.month
        /\ e.hour = 0 /\ e.min = d.min
        /\ \/ e.day = d.day + 1
           \/ e.day = 1 /\ d.day = DaysIn(d.year, d.month)
    BY <2>1, <2>2, NextDay
  <2>4. /\ InMonth(e) = 1440 * (e.day - 1) + 60 * e.hour + e.min
        /\ InMonth(d) = 1440 * (d.day - 1) + 60 * d.hour + d.min
        /\ MonthMinutes(d) = 1440 * DaysIn(d.year, d.month)
        /\ d.day \in 1..31 /\ d.min \in 0..59 /\ DaysIn(d.year, d.month) \in 28..31
    BY <2>3, DateFields
  <2>5. \/ InMonth(e) = InMonth(d) + 60
        \/ InMonth(e) = InMonth(d) + 60 - MonthMinutes(d)
    BY <1>2, <2>3, <2>4
  <2> QED
    BY <2>3, <2>5, IsLater DEF e
<1> QED
  BY <1>1, <1>2, DateFields

(* A minute, across hours and days (date_utils.cpp:21).                    *)
LEMMA MinuteLater ==
  ASSUME NEW d \in CalendarDates
  PROVE  datetime_increment_minute(d) = Later(d, 1)
<1> DEFINE e == datetime_increment_minute(d)
           x == [d EXCEPT !.min = 0]
<1>1. CASE d.min < 59
  <2>1. e = [d EXCEPT !.min = d.min + 1]
    BY <1>1, DateFields DEF datetime_increment_minute
  <2>2. d.min + 1 \in 0..59
    BY <1>1, DateFields
  <2> HIDE DEF e
  <2>3. /\ e \in CalendarDates /\ e.year = d.year /\ e.month = d.month
        /\ e.day = d.day /\ e.hour = d.hour /\ e.min = d.min + 1
    BY <2>1, <2>2 DEF CalendarDates
  <2>4. InMonth(e) = InMonth(d) + 1
    <3> DEFINE a == d.day
               h == d.hour
               n == d.min
    <3>1. /\ a \in 1..31 /\ h \in 0..23 /\ n \in 0..59
          /\ InMonth(d) = 1440 * (a - 1) + 60 * h + n
      BY DateFields
    <3>2. InMonth(e) = 1440 * (a - 1) + 60 * h + (n + 1)
      BY <2>3 DEF InMonth
    <3> HIDE DEF a, h, n
    <3> QED
      BY <3>1, <3>2
  <2> QED
    BY <2>3, <2>4, IsLater DEF e
<1>2. CASE d.min = 59
  <2>1. e = datetime_increment_hour(x)
    BY <1>2 DEF datetime_increment_minute
  <2>2. /\ x \in CalendarDates /\ x.year = d.year /\ x.month = d.month
        /\ x.day = d.day /\ x.hour = d.hour /\ x.min = 0
    BY DEF CalendarDates
  <2> HIDE DEF e, x
  <2>3. e = Later(x, 60)
    BY <2>1, <2>2, HourLater
  <2>4. InMonth(x) + 60 = InMonth(d) + 1
    <3> DEFINE a == d.day
               h == d.hour
               n == d.min
    <3>1. /\ a \in 1..31 /\ h \in 0..23 /\ n \in 0..59
          /\ InMonth(d) = 1440 * (a - 1) + 60 * h + n
      BY DateFields
    <3>2. InMonth(x) = 1440 * (a - 1) + 60 * h + 0
      BY <2>2 DEF InMonth
    <3>3. n = 59
      BY <1>2
    <3> HIDE DEF a, h, n
    <3> QED
      BY <3>1, <3>2, <3>3
  <2>5. e = At(x, (InMonth(d) + 1) % MonthMinutes(d))
    BY <2>2, <2>3, <2>4 DEF Later, MonthMinutes
  <2>6. At(x, (InMonth(d) + 1) % MonthMinutes(d)) = At(d, (InMonth(d) + 1) % MonthMinutes(d))
    <3> DEFINE m == (InMonth(d) + 1) % MonthMinutes(d)
               a == m \div 1440 + 1
               h == (m \div 60) % 24
               n == m % 60
    <3>1. /\ At(x, m) = [x EXCEPT !.day = a, !.hour = h, !.min = n]
          /\ At(d, m) = [d EXCEPT !.day = a, !.hour = h, !.min = n]
      BY DEF At
    <3> HIDE DEF a, h, n, m
    <3>2. At(x, m) = At(d, m)
      BY <3>1 DEF x, CalendarDates
    <3> QED
      BY <3>2 DEF m
  <2> QED
    BY <2>5, <2>6 DEF e, Later
<1> QED
  BY <1>1, <1>2, DateFields

----------------------------------------------------------------------------
(* Induction by the least number that fails, as in UartProofs.             *)
LEMMA LeastOf ==
  ASSUME NEW T, T \subseteq Nat, T # {}
  PROVE  \E k \in T : \A j \in T : k <= j
<1>1. PICK k \in T : \A j \in T : ~(<<j, k>> \in OpToRel(<, Nat))
  BY NatLessThanWellFounded, WFMin
<1>2. ASSUME NEW j \in T
      PROVE  k <= j
  <2>1. ~(j < k) /\ j \in Nat /\ k \in Nat
    BY <1>1, <1>2 DEF OpToRel
  <2> QED
    BY <2>1
<1> QED
  BY <1>2

(* What holds of 0 and goes on holds of every number up to n.              *)
LEMMA UpTo ==
  ASSUME NEW n \in Nat, NEW S, 0 \in S, \A i \in 0..n - 1 : i \in S => i + 1 \in S
  PROVE  \A i \in 0..n : i \in S
<1> DEFINE T == {i \in 0..n : i \notin S}
<1>1. CASE T = {}
  BY <1>1
<1>2. CASE T # {}
  <2>0. T \subseteq Nat
    OBVIOUS
  <2>1. PICK k \in T : \A j \in T : k <= j
    <3> HIDE DEF T
    <3> QED
      BY <1>2, <2>0, LeastOf
  <2>2. k \in 0..n /\ k \notin S /\ k # 0
    OBVIOUS
  <2>3. k - 1 \in 0..n - 1 /\ (k - 1) + 1 = k
    BY <2>2
  <2>4. k - 1 \notin S
    BY <2>2, <2>3
  <2>5. k - 1 \in T
    BY <2>3, <2>4
  <2> QED
    BY <2>1, <2>2, <2>5
<1> QED
  BY <1>1, <1>2

(* Many minutes.                                                           *)
LEMMA MinutesLater ==
  ASSUME NEW d \in CalendarDates, NEW n \in Nat
  PROVE  increment_minutes(d, n) = Later(d, n)
<1> DEFINE Tick(g, i) == IF i = 0 THEN d ELSE datetime_increment_minute(g[i - 1])
           run == CHOOSE g : g = [i \in 0..n |-> Tick(g, i)]
           f == [i \in 0..n |-> Later(d, i)]
<1>1. \A i \in 0..n : f[i] = Tick(f, i)
  <2> TAKE i \in 0..n
  <2>1. CASE i = 0
    BY <2>1, LaterAdds
  <2>2. CASE i # 0
    <3>1. i - 1 \in 0..n /\ i - 1 \in Nat /\ (i - 1) + 1 = i
      BY <2>2
    <3>2. f[i - 1] = Later(d, i - 1) /\ f[i] = Later(d, i)
      BY <3>1
    <3>3. datetime_increment_minute(Later(d, i - 1)) = Later(Later(d, i - 1), 1)
      BY <3>1, LaterIsDate, MinuteLater
    <3>4. Later(Later(d, i - 1), 1) = Later(d, i)
      BY <3>1, LaterAdds
    <3> QED
      BY <2>2, <3>2, <3>3, <3>4
  <2> QED
    BY <2>1, <2>2
<1>2. f = [i \in 0..n |-> Tick(f, i)]
  <2>1. f = [i \in 0..n |-> f[i]]
    OBVIOUS
  <2> HIDE DEF f
  <2> QED
    BY <1>1, <2>1
<1>3. run = [i \in 0..n |-> Tick(run, i)]
  <2>1. \E g : g = [i \in 0..n |-> Tick(g, i)]
    <3> HIDE DEF f
    <3> QED
      BY <1>2
  <2> QED
    BY <2>1
<1>4. increment_minutes(d, n) = run[n]
  BY DEF increment_minutes
<1> HIDE DEF run
<1>5. \A i \in 0..n : i \in {j \in 0..n : run[j] = Later(d, j)}
  <2> DEFINE S == {j \in 0..n : run[j] = Later(d, j)}
  <2>1. 0 \in S
    <3>1. run[0] = d
      BY <1>3
    <3> QED
      BY <3>1, LaterAdds
  <2>2. ASSUME NEW i \in 0..n - 1, i \in S
        PROVE  i + 1 \in S
    <3>1. i + 1 \in 0..n /\ i + 1 # 0 /\ (i + 1) - 1 = i /\ i \in Nat
      OBVIOUS
    <3>2. run[i + 1] = datetime_increment_minute(run[i])
      BY <1>3, <3>1
    <3>3. run[i] = Later(d, i)
      BY <2>2
    <3>4. datetime_increment_minute(Later(d, i)) = Later(Later(d, i), 1)
      BY <3>1, LaterIsDate, MinuteLater
    <3>5. Later(Later(d, i), 1) = Later(d, i + 1)
      BY <3>1, LaterAdds
    <3> QED
      BY <3>1, <3>2, <3>3, <3>4, <3>5
  <2> HIDE DEF S
  <2>3. \A i \in 0..n : i \in S
    BY <2>1, <2>2, UpTo
  <2> QED
    BY <2>3 DEF S
<1> QED
  BY <1>4, <1>5

----------------------------------------------------------------------------
(* The number of a day in planet_finder.cpp is that of the calendar.       *)

(* A year in its cycles of 400, 100 and 4 years.                           *)
LEMMA YearParts ==
  ASSUME NEW y \in Nat
  PROVE  \E q \in Nat, c \in 0..3, s \in 0..24, t \in 0..3 : y = 400 * q + 100 * c + 4 * s + t
<1> DEFINE q == y \div 400
           a == y % 400
           c == a \div 100
           b == a % 100
           s == b \div 4
           t == b % 4
<1>1. q \in Nat /\ a \in Int /\ 0 <= a /\ a < 400 /\ y = 400 * q + a
  OBVIOUS
<1> HIDE DEF q, a
<1>2. c \in 0..3 /\ b \in Int /\ 0 <= b /\ b < 100 /\ a = 100 * c + b
  BY <1>1
<1> HIDE DEF c, b
<1>3. s \in 0..24 /\ t \in 0..3 /\ b = 4 * s + t
  BY <1>2
<1> HIDE DEF s, t
<1>4. y = 400 * q + 100 * c + 4 * s + t
  BY <1>1, <1>2, <1>3
<1> QED
  BY <1>1, <1>2, <1>3, <1>4

YearIs(y, q, c, s, t) == y = 400 * q + 100 * c + 4 * s + t
Leaps(y, q, c, s, t) ==
  /\ y \div 100 = 4 * q + c
  /\ LeapDays(y) = 97 * q + 24 * c + s
  /\ is_leap_year(y) <=> t = 0 /\ (s = 0 => c = 0)

(* Leap days up to a year, and the rule for a leap year.                   *)
LEMMA LeapParts ==
  ASSUME NEW q \in Nat, NEW c \in 0..3, NEW s \in 0..24, NEW t \in 0..3,
         NEW y, YearIs(y, q, c, s, t)
  PROVE  Leaps(y, q, c, s, t)
<1> y = 400 * q + 100 * c + 4 * s + t
  BY DEF YearIs
<1>1. y \div 4 = 100 * q + 25 * c + s /\ y % 4 = t
  OBVIOUS
<1>2. y \div 100 = 4 * q + c /\ y % 100 = 4 * s + t
  <2>1. y = 100 * (4 * q + c) + (4 * s + t) /\ 4 * s + t \in 0..99
    OBVIOUS
  <2> QED
    BY <2>1
<1>3. y \div 400 = q /\ y % 400 = 100 * c + 4 * s + t
  <2>1. y = 400 * q + (100 * c + 4 * s + t) /\ 100 * c + 4 * s + t \in 0..399
    OBVIOUS
  <2> QED
    BY <2>1
<1>4. LeapDays(y) = 97 * q + 24 * c + s
  BY <1>1, <1>2, <1>3 DEF LeapDays
<1>5. is_leap_year(y) <=> (t = 0 /\ 4 * s + t # 0) \/ 100 * c + 4 * s + t = 0
  BY <1>1, <1>2, <1>3 DEF is_leap_year
<1>6. is_leap_year(y) <=> t = 0 /\ (s = 0 => c = 0)
  BY <1>5
<1> QED
  BY <1>2, <1>4, <1>6 DEF Leaps

(* The days before a year, by the formula of planet_finder.cpp and by the  *)
(* calendar.                                                               *)
DaysBeforeYear(y) ==
  367 * y - (7 * (y + 1)) \div 4 - (3 * (y \div 100 + 1)) \div 4 = 365 * y + LeapDays(y) - 1

(* The days before a year.                                                 *)
LEMMA YearDays ==
  ASSUME NEW y \in Nat
  PROVE  LeapDays(y) \in Int /\ DaysBeforeYear(y)
<1> SUFFICES /\ LeapDays(y) \in Int
             /\ 367 * y - (7 * (y + 1)) \div 4 - (3 * (y \div 100 + 1)) \div 4
                  = 365 * y + LeapDays(y) - 1
  BY DEF DaysBeforeYear
<1>1. PICK q \in Nat, c \in 0..3, s \in 0..24, t \in 0..3 : y = 400 * q + 100 * c + 4 * s + t
  BY YearParts
<1>2. y \div 100 = 4 * q + c /\ LeapDays(y) = 97 * q + 24 * c + s
  <2>1. YearIs(y, q, c, s, t)
    BY <1>1 DEF YearIs
  <2>2. Leaps(y, q, c, s, t)
    BY <2>1, LeapParts
  <2> QED
    BY <2>2 DEF Leaps
<1>3. (7 * (y + 1)) \div 4 = 700 * q + 175 * c + 7 * s + 2 * t + 1
  <2>1. CASE t = 0
    BY <1>1, <2>1
  <2>2. CASE t = 1
    BY <1>1, <2>2
  <2>3. CASE t = 2
    BY <1>1, <2>3
  <2>4. CASE t = 3
    BY <1>1, <2>4
  <2> QED
    BY <2>1, <2>2, <2>3, <2>4
<1>4. (3 * (4 * q + c + 1)) \div 4 = 3 * q + c
  OBVIOUS
<1>5. (3 * (y \div 100 + 1)) \div 4 = 3 * q + c
  BY <1>2, <1>4
<1> QED
  BY <1>1, <1>2, <1>3, <1>5

(* A leap year has one leap day more than the years before.                *)
LEMMA LeapYear ==
  ASSUME NEW y \in Nat \ {0}
  PROVE  LeapDays(y) = LeapDays(y - 1) + (IF is_leap_year(y) THEN 1 ELSE 0)
<1>1. PICK q \in Nat, c \in 0..3, s \in 0..24, t \in 0..3 : y = 400 * q + 100 * c + 4 * s + t
  BY YearParts
<1>2. LeapDays(y) = 97 * q + 24 * c + s /\ (is_leap_year(y) <=> t = 0 /\ (s = 0 => c = 0))
  <2>1. YearIs(y, q, c, s, t)
    BY <1>1 DEF YearIs
  <2>2. Leaps(y, q, c, s, t)
    BY <2>1, LeapParts
  <2> QED
    BY <2>2 DEF Leaps
<1>3. CASE t # 0
  <2>1. t - 1 \in 0..3 /\ YearIs(y - 1, q, c, s, t - 1)
    BY <1>1, <1>3 DEF YearIs
  <2>2. Leaps(y - 1, q, c, s, t - 1)
    BY <2>1, LeapParts
  <2> QED
    BY <1>2, <1>3, <2>2 DEF Leaps
<1>4. CASE t = 0 /\ s # 0
  <2>1. s - 1 \in 0..24 /\ 3 \in 0..3 /\ YearIs(y - 1, q, c, s - 1, 3)
    BY <1>1, <1>4 DEF YearIs
  <2>2. Leaps(y - 1, q, c, s - 1, 3)
    BY <2>1, LeapParts
  <2> QED
    BY <1>2, <1>4, <2>2 DEF Leaps
<1>5. CASE t = 0 /\ s = 0 /\ c # 0
  <2>1. c - 1 \in 0..3 /\ 24 \in 0..24 /\ 3 \in 0..3 /\ YearIs(y - 1, q, c - 1, 24, 3)
    BY <1>1, <1>5 DEF YearIs
  <2>2. Leaps(y - 1, q, c - 1, 24, 3)
    BY <2>1, LeapParts
  <2> QED
    BY <1>2, <1>5, <2>2 DEF Leaps
<1>6. CASE t = 0 /\ s = 0 /\ c = 0
  <2>1. q - 1 \in Nat /\ 24 \in 0..24 /\ 3 \in 0..3 /\ YearIs(y - 1, q - 1, 3, 24, 3)
    BY <1>1, <1>6 DEF YearIs
  <2>2. Leaps(y - 1, q - 1, 3, 24, 3)
    BY <2>1, LeapParts
  <2> QED
    BY <1>2, <1>6, <2>2 DEF Leaps
<1> QED
  BY <1>3, <1>4, <1>5, <1>6

(* The days of a year before a month.                                      *)
Before(year, g, m) == IF m = 1 THEN 0 ELSE g[m - 1] + DaysIn(year, m - 1)
Leap(year) == IF is_leap_year(year) THEN 1 ELSE 0

(* Where the months begin in the year.                                     *)
LEMMA MonthBegins ==
  ASSUME NEW y, NEW b, b = days_before(y)
  PROVE  /\ b[1] = 0 /\ b[2] = 31 /\ b[3] = 59 + Leap(y) /\ b[4] = 90 + Leap(y)
         /\ b[5] = 120 + Leap(y) /\ b[6] = 151 + Leap(y) /\ b[7] = 181 + Leap(y)
         /\ b[8] = 212 + Leap(y) /\ b[9] = 243 + Leap(y) /\ b[10] = 273 + Leap(y)
         /\ b[11] = 304 + Leap(y) /\ b[12] = 334 + Leap(y)
<1> DEFINE l == Leap(y)
           f == [m \in 1..12 |->
                   CASE m = 1 -> 0 [] m = 2 -> 31 [] m = 3 -> 59 + l [] m = 4 -> 90 + l
                     [] m = 5 -> 120 + l [] m = 6 -> 151 + l [] m = 7 -> 181 + l
                     [] m = 8 -> 212 + l [] m = 9 -> 243 + l [] m = 10 -> 273 + l
                     [] m = 11 -> 304 + l [] m = 12 -> 334 + l]
<1>1. /\ DaysIn(y, 1) = 31 /\ DaysIn(y, 2) = 28 + l /\ DaysIn(y, 3) = 31 /\ DaysIn(y, 4) = 30
      /\ DaysIn(y, 5) = 31 /\ DaysIn(y, 6) = 30 /\ DaysIn(y, 7) = 31 /\ DaysIn(y, 8) = 31
      /\ DaysIn(y, 9) = 30 /\ DaysIn(y, 10) = 31 /\ DaysIn(y, 11) = 30 /\ l \in {0, 1}
  BY DEF DaysIn, Leap
<1> HIDE DEF l
<1>2. f = [m \in 1..12 |-> Before(y, f, m)]
  <2>1. /\ f[1] = 0 /\ f[2] = 31 /\ f[3] = 59 + l /\ f[4] = 90 + l
        /\ f[5] = 120 + l /\ f[6] = 151 + l /\ f[7] = 181 + l
        /\ f[8] = 212 + l /\ f[9] = 243 + l /\ f[10] = 273 + l
        /\ f[11] = 304 + l /\ f[12] = 334 + l
    OBVIOUS
  <2>2. f = [m \in 1..12 |-> f[m]]
    OBVIOUS
  <2> HIDE DEF f
  <2>3. ASSUME NEW m \in 1..12
        PROVE  f[m] = Before(y, f, m)
    <3>1. \/ m = 1 \/ m = 2 \/ m = 3 \/ m = 4 \/ m = 5 \/ m = 6 \/ m = 7 \/ m = 8
          \/ m = 9 \/ m = 10 \/ m = 11 \/ m = 12
      OBVIOUS
    <3> QED
      BY <1>1, <2>1, <3>1 DEF Before
  <2> QED
    BY <2>2, <2>3
<1>3. b = [m \in 1..12 |-> Before(y, b, m)]
  <2>1. b = CHOOSE g : g = [m \in 1..12 |-> Before(y, g, m)]
    BY DEF days_before, Before
  <2> HIDE DEF f
  <2> QED
    BY <1>2, <2>1
<1> HIDE DEF f
<1>4. b[1] = 0
  BY <1>3 DEF Before
<1>5. \A m \in 2..12 : b[m] = b[m - 1] + DaysIn(y, m - 1)
  BY <1>3 DEF Before
<1>6. /\ b[2] = b[1] + DaysIn(y, 1) /\ b[3] = b[2] + DaysIn(y, 2)
      /\ b[4] = b[3] + DaysIn(y, 3) /\ b[5] = b[4] + DaysIn(y, 4)
      /\ b[6] = b[5] + DaysIn(y, 5) /\ b[7] = b[6] + DaysIn(y, 6)
      /\ b[8] = b[7] + DaysIn(y, 7) /\ b[9] = b[8] + DaysIn(y, 8)
      /\ b[10] = b[9] + DaysIn(y, 9) /\ b[11] = b[10] + DaysIn(y, 10)
      /\ b[12] = b[11] + DaysIn(y, 11)
  BY <1>5
<1>7. b[2] = 31 /\ b[3] = 59 + l /\ b[4] = 90 + l
  BY <1>1, <1>4, <1>6
<1>8. b[5] = 120 + l /\ b[6] = 151 + l /\ b[7] = 181 + l
  BY <1>1, <1>6, <1>7
<1>9. b[8] = 212 + l /\ b[9] = 243 + l /\ b[10] = 273 + l
  BY <1>1, <1>6, <1>8
<1>10. b[11] = 304 + l /\ b[12] = 334 + l
  BY <1>1, <1>6, <1>9
<1> QED
  BY <1>4, <1>7, <1>8, <1>9, <1>10 DEF l

(* The number of a day is the same, by either reckoning.                   *)
LEMMA SameDay ==
  ASSUME NEW d \in CalendarDates
  PROVE  day_number(d) = j2000_day(d) /\ j2000_day(d) \in Int
<1> DEFINE y == d.year
           b == days_before(y)
           start == 365 * y + LeapDays(y - 1) - 730484
<1>1. /\ y \in Nat \ {0} /\ d.month \in 1..12 /\ d.day \in 1..31
      /\ LeapDays(y - 1) \in Int /\ LeapDays(1999) = 484
  <2>1. y \in Nat \ {0} /\ y - 1 \in Nat
    BY DateFields
  <2> QED
    BY <2>1, DateFields, YearDays DEF LeapDays
<1>2. day_number(d) = 365 * (y - 2000) + LeapDays(y - 1) - LeapDays(1999) + b[d.month] + d.day
  BY <1>1 DEF day_number
<1>3. /\ b[1] = 0 /\ b[2] = 31 /\ b[3] = 59 + Leap(y) /\ b[4] = 90 + Leap(y)
      /\ b[5] = 120 + Leap(y) /\ b[6] = 151 + Leap(y) /\ b[7] = 181 + Leap(y)
      /\ b[8] = 212 + Leap(y) /\ b[9] = 243 + Leap(y) /\ b[10] = 273 + Leap(y)
      /\ b[11] = 304 + Leap(y) /\ b[12] = 334 + Leap(y)
  BY MonthBegins
<1>4. Leap(y) \in {0, 1} /\ LeapDays(y) = LeapDays(y - 1) + Leap(y)
  BY <1>1, LeapYear DEF Leap
<1> DEFINE sofar == b[d.month]
           e == LeapDays(y - 1)
           l == Leap(y)
<1>5. j2000_day(d) = 367 * y - Quotient(7 * (y + Quotient(d.month + 9, 12)), 4)
                       - Quotient(3 * (Quotient(y + Quotient(d.month - 9, 7), 100) + 1), 4)
                       + Quotient(275 * d.month, 9) + d.day - 730515
  BY DEF j2000_day
<1> DEFINE k == d.month
           a == d.day
           j == j2000_day(d)
           w == day_number(d)
<1>6. /\ y \in Nat \ {0} /\ k \in 1..12 /\ a \in 1..31 /\ e \in Int /\ l \in {0, 1}
      /\ w = 365 * (y - 2000) + e - 484 + sofar + a
      /\ j = 367 * y - Quotient(7 * (y + Quotient(k + 9, 12)), 4)
               - Quotient(3 * (Quotient(y + Quotient(k - 9, 7), 100) + 1), 4)
               + Quotient(275 * k, 9) + a - 730515
  BY SMT, <1>1, <1>2, <1>4, <1>5
<1>7. /\ 367 * y - (7 * (y + 1)) \div 4 - (3 * (y \div 100 + 1)) \div 4 = 365 * y + (e + l) - 1
      /\ 367 * (y - 1) - (7 * y) \div 4 - (3 * ((y - 1) \div 100 + 1)) \div 4
           = 365 * (y - 1) + e - 1
  <2>1. y \in Nat /\ y - 1 \in Nat /\ (y - 1) + 1 = y
    BY <1>1
  <2> QED
    <3>1. 367 * (y - 1) - (7 * ((y - 1) + 1)) \div 4 - (3 * ((y - 1) \div 100 + 1)) \div 4
            = 365 * (y - 1) + e - 1
      <4>1. DaysBeforeYear(y - 1)
        BY <2>1, YearDays
      <4> QED
        BY <4>1 DEF DaysBeforeYear
    <3>2. 367 * y - (7 * (y + 1)) \div 4 - (3 * (y \div 100 + 1)) \div 4
            = 365 * y + LeapDays(y) - 1
      <4>1. DaysBeforeYear(y)
        BY <2>1, YearDays
      <4> QED
        BY <4>1 DEF DaysBeforeYear
    <3>3. LeapDays(y) = e + l
      BY <1>4
    <3>4. 7 * ((y - 1) + 1) = 7 * y
      BY <2>1
    <3> HIDE DEF y, e, l
    <3> QED
      BY <3>1, <3>2, <3>3, <3>4
<1>8. /\ k = 1 => sofar = 0
      /\ k = 2 => sofar = 31
      /\ k \in 3..12 => Quotient(275 * k, 9) - 32 = sofar - l
  <2>1. k = 1 \/ k = 2 \/ k = 3 \/ k = 4 \/ k = 5 \/ k = 6 \/ k = 7 \/ k = 8
        \/ k = 9 \/ k = 10 \/ k = 11 \/ k = 12
    BY <1>1
  <2>2. sofar = b[k]
    OBVIOUS
  <2> HIDE DEF b, k, sofar
  <2> QED
    BY SMT, <1>3, <1>4, <2>1, <2>2 DEF Quotient
<1>9. sofar \in Int
  <2>1. k = 1 \/ k = 2 \/ k = 3 \/ k = 4 \/ k = 5 \/ k = 6 \/ k = 7 \/ k = 8
        \/ k = 9 \/ k = 10 \/ k = 11 \/ k = 12
    BY <1>1
  <2>2. sofar = b[k]
    OBVIOUS
  <2> HIDE DEF b, k, sofar
  <2> QED
    BY SMT, <1>3, <1>4, <2>1, <2>2
<1> HIDE DEF y, b, sofar, e, l, k, a, j, w
<1>10. CASE k \in 1..2
  <2>1. /\ Quotient(k + 9, 12) = 0 /\ Quotient(k - 9, 7) = -1
        /\ Quotient(275 * k, 9) = 30 + sofar
    BY SMT, <1>8, <1>10 DEF Quotient
  <2>2. Quotient(7 * (y + 0), 4) = (7 * y) \div 4
    BY SMT, <1>6 DEF Quotient
  <2>3. Quotient(3 * (Quotient(y + -1, 100) + 1), 4) = (3 * ((y - 1) \div 100 + 1)) \div 4
    <3>1. y + -1 = y - 1 /\ y - 1 >= 0 /\ (y - 1) \div 100 >= 0 /\ (y - 1) \div 100 \in Int
      BY SMT, <1>6
    <3> QED
      BY SMT, <3>1 DEF Quotient
  <2>4. j = 367 * y - (7 * y) \div 4 - (3 * ((y - 1) \div 100 + 1)) \div 4
              + (30 + sofar) + a - 730515
    BY SMT, <1>6, <2>1, <2>2, <2>3
  <2>5. sofar \in {0, 31}
    BY <1>8, <1>10
  <2> QED
    BY SMT, <1>6, <1>7, <2>4, <2>5 DEF j, w
<1>11. CASE k \in 3..12
  <2>1. Quotient(k + 9, 12) = 1 /\ Quotient(k - 9, 7) = 0 /\ Quotient(275 * k, 9) \in Int
    BY SMT, <1>11 DEF Quotient
  <2>2. Quotient(7 * (y + 1), 4) = (7 * (y + 1)) \div 4
    BY SMT, <1>6 DEF Quotient
  <2>3. Quotient(3 * (Quotient(y + 0, 100) + 1), 4) = (3 * (y \div 100 + 1)) \div 4
    <3>1. y + 0 = y /\ y >= 0 /\ y \div 100 >= 0 /\ y \div 100 \in Int
      BY SMT, <1>6
    <3> QED
      BY SMT, <3>1 DEF Quotient
  <2> DEFINE p == Quotient(275 * k, 9)
  <2>4. j = 367 * y - (7 * (y + 1)) \div 4 - (3 * (y \div 100 + 1)) \div 4 + p + a - 730515
    BY SMT, <1>6, <2>1, <2>2, <2>3
  <2>5. p - 32 = sofar - l /\ p \in Int
    BY <1>8, <1>11, <2>1
  <2>6. sofar \in Int
    BY <1>9
  <2> HIDE DEF p
  <2> QED
    BY SMT, <1>6, <1>7, <2>4, <2>5, <2>6 DEF j, w
<1> QED
  BY <1>6, <1>10, <1>11

----------------------------------------------------------------------------
(* Minutes and altitudes.                                                  *)

(* Within a month, minutes differ as they do from its start.               *)
LEMMA MinutesApart ==
  ASSUME NEW d \in CalendarDates, NEW e \in CalendarDates,
         e.year = d.year, e.month = d.month
  PROVE  /\ datetime_to_minutes(e) - datetime_to_minutes(d) = InMonth(e) - InMonth(d)
         /\ datetime_to_minutes(d) \in Int /\ datetime_to_minutes(e) \in Int
<1> DEFINE p == day_number(d)
           q == day_number(e)
           a == d.day
           b == e.day
<1>1. /\ p \in Int /\ q \in Int
      /\ a \in 1..31 /\ d.hour \in 0..23 /\ d.min \in 0..59
      /\ b \in 1..31 /\ e.hour \in 0..23 /\ e.min \in 0..59
  BY DateFields, SameDay
<1>2. q - b = p - a
  <2> DEFINE y == d.year
             k == d.month
             x == 365 * (y - 2000) + LeapDays(y - 1) - LeapDays(1999)
             z == days_before(y)[k]
  <2>0. y \in Nat \ {0} /\ y - 1 \in Nat /\ k \in 1..12
    BY DateFields
  <2>1. p = x + z + a /\ q = x + z + b
    BY SMT, <2>0 DEF day_number
  <2>2. x + z \in Int
    <3>1. z \in Int
      <4> DEFINE g == days_before(y)
                 l == Leap(y)
      <4>1. l \in {0, 1}
        BY DEF Leap
      <4>2. /\ g[1] = 0 /\ g[2] = 31 /\ g[3] = 59 + l /\ g[4] = 90 + l
            /\ g[5] = 120 + l /\ g[6] = 151 + l /\ g[7] = 181 + l
            /\ g[8] = 212 + l /\ g[9] = 243 + l /\ g[10] = 273 + l
            /\ g[11] = 304 + l /\ g[12] = 334 + l
        BY MonthBegins
      <4>3. k = 1 \/ k = 2 \/ k = 3 \/ k = 4 \/ k = 5 \/ k = 6 \/ k = 7 \/ k = 8
            \/ k = 9 \/ k = 10 \/ k = 11 \/ k = 12
        BY <2>0
      <4> HIDE DEF g, l, k
      <4>4. g[k] \in Int
        BY <4>1, <4>2, <4>3
      <4> QED
        BY <4>4 DEF g
    <3>2. LeapDays(y - 1) \in Int /\ LeapDays(1999) = 484
      BY <2>0, YearDays DEF LeapDays
    <3>3. x \in Int
      BY SMT, <2>0, <3>2
    <3> QED
      BY <3>1, <3>3
  <2> HIDE DEF x, z, y, k
  <2> QED
    BY SMT, <1>1, <2>1, <2>2
<1> DEFINE u == 60 * d.hour + d.min
           v == 60 * e.hour + e.min
<1>3. u \in Int /\ v \in Int /\ a \in Int /\ b \in Int
  <2>1. a \in Int /\ b \in Int
    BY <1>1
  <2> DEFINE h == d.hour
             n == d.min
             i == e.hour
             j == e.min
  <2>2. h \in 0..23 /\ n \in 0..59 /\ i \in 0..23 /\ j \in 0..59
    BY <1>1
  <2> HIDE DEF h, n, i, j
  <2>3. 60 * h + n \in Int /\ 60 * i + j \in Int
    BY <2>2
  <2> QED
    BY <2>1, <2>3 DEF h, n, i, j
<1>4. datetime_to_minutes(d) = 1440 * p + u /\ InMonth(d) = 1440 * (a - 1) + u
  <2> DEFINE h == d.hour
             n == d.min
  <2>1. h \in 0..23 /\ n \in 0..59
    BY <1>1
  <2>2. datetime_to_minutes(d) = 1440 * p + 60 * h + n /\ InMonth(d) = 1440 * (a - 1) + 60 * h + n
    BY DEF datetime_to_minutes, InMonth
  <2>3. u = 60 * h + n
    OBVIOUS
  <2> HIDE DEF p, a, h, n, u
  <2> QED
    BY SMT, <1>1, <2>1, <2>2, <2>3
<1>5. datetime_to_minutes(e) = 1440 * q + v /\ InMonth(e) = 1440 * (b - 1) + v
  <2> DEFINE h == e.hour
             n == e.min
  <2>1. h \in 0..23 /\ n \in 0..59
    BY <1>1
  <2>2. datetime_to_minutes(e) = 1440 * q + 60 * h + n /\ InMonth(e) = 1440 * (b - 1) + 60 * h + n
    BY DEF datetime_to_minutes, InMonth
  <2>3. v = 60 * h + n
    OBVIOUS
  <2> HIDE DEF q, b, h, n, v
  <2> QED
    BY SMT, <1>1, <2>1, <2>2, <2>3
<1> HIDE DEF p, q, a, b, u, v
<1> QED
  BY SMT, <1>1, <1>2, <1>3, <1>4, <1>5

(* Minutes that have passed, up to the length of the month.                *)
LEMMA ElapsedLater ==
  ASSUME NEW d \in CalendarDates, NEW n \in Nat, n < MonthMinutes(d)
  PROVE  Elapsed(d, Later(d, n)) = n
<1> DEFINE e == Later(d, n)
           L == MonthMinutes(d)
           a == InMonth(d)
           b == InMonth(e)
           x == datetime_to_minutes(d)
           z == datetime_to_minutes(e)
<1>1. /\ e \in CalendarDates /\ e.year = d.year /\ e.month = d.month
      /\ b = (a + n) % L /\ L \in Lengths
  BY LaterIsDate, MonthLengths
<1>2. a \in 0..L - 1 /\ L \in Nat /\ L = 1440 * DaysIn(d.year, d.month)
  <2>1. L \in Nat
    BY <1>1 DEF Lengths
  <2> QED
    BY <2>1, DateFields
<1>3. Elapsed(d, e) = IF z - x >= 0 THEN z - x ELSE z - x + L
  BY <1>2 DEF Elapsed
<1> HIDE DEF e, L
<1>4. z - x = b - a
  BY <1>1, MinutesApart
<1>5. n < L
  BY DEF L
<1> HIDE DEF a, b, x, z
<1>6. b = a + n \/ b = a + n - L
  <2> DEFINE w == a + n
  <2>1. w \in Int /\ 0 <= w /\ w < 2 * L
    BY <1>2, <1>5
  <2>2. b = w % L
    BY <1>1
  <2> HIDE DEF w
  <2>3. b = w \/ b = w - L
    <3>1. w < L \/ L <= w
      BY <1>2, <2>1
    <3> QED
      BY <1>1, <2>1, <2>2, <3>1, Around
  <2> QED
    BY SMT, <1>2, <2>3 DEF w
<1>7. IF b - a >= 0 THEN b - a = n ELSE b - a + L = n
  BY <1>2, <1>5, <1>6
<1> QED
  BY <1>3, <1>4, <1>7 DEF e

(* Up to 65536 minutes either way, the difference in seconds fits an int.  *)
LEMMA NarrowEnough ==
  ASSUME NEW m \in Int, -65536 <= m, m < 65536
  PROVE  narrowed_difference(m) = 15 * m
<1> DEFINE q == m \div 32768
           z == m % 32768
           high == (15 * (q % 32768)) % 32768
           fours == (high * 32768 + 15 * z) % 1073741824
<1>1. narrowed_difference(m) = IF fours < 536870912 THEN fours ELSE fours - 1073741824
  <2>1. TwoTo15 = 32768 /\ TwoTo30 = 1073741824 /\ TwoTo30 \div 2 = 536870912
    BY SMT DEF TwoTo15, TwoTo30
  <2> QED
    BY SMT, <2>1 DEF narrowed_difference
<1>2. q \in Int /\ z \in Int /\ 0 <= z /\ z < 32768 /\ m = 32768 * q + z
  BY SMT
<1>3. q = -2 \/ q = -1 \/ q = 0 \/ q = 1
  <2> HIDE DEF q, z
  <2> QED
    BY SMT, <1>2
<1> HIDE DEF q, z
<1>4. /\ q = -2 => high = 32738
      /\ q = -1 => high = 32753
      /\ q = 0 => high = 0
      /\ q = 1 => high = 15
  BY SMT
<1>5. CASE q = -2
  <2>1. fours = (32738 * 32768 + 15 * z) % 1073741824
    BY SMT, <1>4, <1>5
  <2>2. fours = 32738 * 32768 + 15 * z
    BY SMT, <1>2, <2>1
  <2> QED
    BY SMT, <1>1, <1>2, <1>5, <2>2
<1>6. CASE q = -1
  <2>1. fours = (32753 * 32768 + 15 * z) % 1073741824
    BY SMT, <1>4, <1>6
  <2>2. fours = 32753 * 32768 + 15 * z
    BY SMT, <1>2, <2>1
  <2> QED
    BY SMT, <1>1, <1>2, <1>6, <2>2
<1>7. CASE q = 0
  <2>1. fours = (15 * z) % 1073741824
    BY SMT, <1>2, <1>4, <1>7
  <2>2. fours = 15 * z
    BY SMT, <1>2, <2>1
  <2> QED
    BY SMT, <1>1, <1>2, <1>7, <2>2
<1>8. CASE q = 1
  <2>1. fours = (15 * 32768 + 15 * z) % 1073741824
    BY SMT, <1>4, <1>8
  <2>2. fours = 15 * 32768 + 15 * z
    BY SMT, <1>2, <2>1
  <2> QED
    BY SMT, <1>1, <1>2, <1>8, <2>2
<1> QED
  BY <1>3, <1>5, <1>6, <1>7, <1>8

(* The hours between two dates of a month, rounded down; none backwards.   *)
LEMMA HoursBetween ==
  ASSUME NEW d \in CalendarDates, NEW n \in Nat, n < MonthMinutes(d),
         NEW h, h = calculate_hour_difference(d, Later(d, n))
  PROVE  h \in Int /\ (h > 0 => 60 * h <= n)
<1> DEFINE e == Later(d, n)
           x == datetime_to_minutes(e) - datetime_to_minutes(d)
           a == InMonth(d)
           b == InMonth(e)
           L == MonthMinutes(d)
<1>1. /\ x = b - a /\ x \in Int
  <2>1. e \in CalendarDates /\ e.year = d.year /\ e.month = d.month
    BY LaterIsDate
  <2> HIDE DEF e
  <2> QED
    BY <2>1, MinutesApart
<1>2. a \in 0..L - 1 /\ b \in 0..L - 1 /\ L \in Lengths
  <2>1. e \in CalendarDates /\ MonthMinutes(e) = L
    BY LaterIsDate
  <2> HIDE DEF e
  <2> QED
    BY <2>1, DateFields, MonthLengths
<1>3. IF x >= 0 THEN x = n ELSE x + L = n
  <2>1. L = 1440 * DaysIn(d.year, d.month)
    BY DEF MonthMinutes
  <2>2. Elapsed(d, e) = n
    BY ElapsedLater
  <2> HIDE DEF e, L
  <2> QED
    BY <2>1, <2>2 DEF Elapsed
<1>4. h = Quotient(narrowed_difference(x), 900)
  BY DEF calculate_hour_difference
<1> HIDE DEF e, x, a, b, L
<1>5. -65536 <= x /\ x < 65536
  <2>1. L \in Nat /\ L <= 44640
    BY SMT, <1>2 DEF Lengths
  <2> QED
    BY SMT, <1>1, <1>2, <2>1
<1>6. h = Quotient(15 * x, 900)
  <2>1. narrowed_difference(x) = 15 * x
    BY SMT, <1>1, <1>5, NarrowEnough
  <2> QED
    BY SMT, <1>4, <2>1
<1>7. CASE x >= 0
  <2>1. h = (15 * x) \div 900 /\ x = n
    BY SMT, <1>1, <1>3, <1>6, <1>7 DEF Quotient
  <2> QED
    BY SMT, <1>1, <2>1
<1>8. CASE x < 0
  <2>1. h = -((-(15 * x)) \div 900)
    BY SMT, <1>1, <1>6, <1>8 DEF Quotient
  <2> QED
    BY SMT, <1>1, <1>8, <2>1
<1> QED
  BY SMT, <1>1, <1>7, <1>8

----------------------------------------------------------------------------
(* The path of a body.                                                     *)

(* One minute on, a body is one further on in its period, or at its start. *)
LEMMA NextInPeriod ==
  ASSUME NEW p \in Nat \ {0}, NEW x \in Int
  PROVE  /\ x % p \in 0..p - 1
         /\ (x + 1) % p = IF x % p = p - 1 THEN 0 ELSE (x % p) + 1
<1> DEFINE q == x \div p
           t == x % p
           r == (x + 1) \div p
           u == (x + 1) % p
<1>1. q \in Int /\ t \in 0..p - 1 /\ x = p * q + t
  BY SMT
<1>2. r \in Int /\ u \in 0..p - 1 /\ x + 1 = p * r + u
  BY SMT
<1> HIDE DEF q, t, r, u
<1> DEFINE k == r - q
<1>3. k \in Int /\ p * k = t + 1 - u
  BY SMT, <1>1, <1>2
<1> HIDE DEF k
<1>4. k = 0 \/ k = 1
  <2>1. ASSUME k >= 2 PROVE FALSE
    <3>1. p * k >= 2 * p
      BY SMT, <1>3, <2>1
    <3> QED
      BY SMT, <1>1, <1>2, <1>3, <3>1
  <2>2. ASSUME k <= -1 PROVE FALSE
    <3>1. p * k <= -p
      BY SMT, <1>3, <2>2
    <3> QED
      BY SMT, <1>1, <1>2, <1>3, <3>1
  <2> QED
    BY SMT, <1>3, <2>1, <2>2
<1>5. u = IF t = p - 1 THEN 0 ELSE t + 1
  BY SMT, <1>1, <1>2, <1>3, <1>4
<1> QED
  BY <1>1, <1>5 DEF t, u

(* Altitude, of any body.                                                  *)
Wave(b, minute) ==
  LET t == (minute - b.phase) % b.period
  IN (IF 2 * t <= b.period THEN 2 * t ELSE 2 * (b.period - t)) - b.horizon

(* Where a body stands, by either reckoning of the day.                    *)
LEMMA CoordinatesAre ==
  /\ \A m : Altitude(m) = Wave(body, m)
  /\ \A d \in CalendarDates : get_coordinates(d) = Wave(body, datetime_to_minutes(d))
<1>1. \A m : Altitude(m) = Wave(body, m)
  BY DEF Altitude, Wave
<1>2. ASSUME NEW d \in CalendarDates
      PROVE  get_coordinates(d) = Altitude(datetime_to_minutes(d))
  <2>1. day_number(d) = j2000_day(d)
    BY SameDay
  <2> QED
    BY <2>1 DEF get_coordinates, datetime_to_minutes
<1> QED
  BY <1>1, <1>2

(* A body's altitude is a number, and another one each minute.             *)
LEMMA NeverLevel ==
  ASSUME NEW b \in Bodies, NEW m \in Int
  PROVE  Wave(b, m) \in Int /\ Wave(b, m + 1) # Wave(b, m)
<1> DEFINE p == b.period
           x == m - b.phase
           t == x % p
           u == (x + 1) % p
           z == b.horizon
<1>1. p \in Nat \ {0} /\ p % 2 = 0 /\ x \in Int /\ z \in Int
  BY PathAssumption
<1>2. /\ t \in 0..p - 1
      /\ u = IF t = p - 1 THEN 0 ELSE t + 1
  <2> HIDE DEF p, x
  <2> QED
    BY <1>1, NextInPeriod
<1>3. Wave(b, m) = (IF 2 * t <= p THEN 2 * t ELSE 2 * (p - t)) - z
  BY DEF Wave
<1>4. Wave(b, m + 1) = (IF 2 * u <= p THEN 2 * u ELSE 2 * (p - u)) - z
  <2>1. (m + 1) - b.phase = x + 1
    BY PathAssumption
  <2> HIDE DEF x
  <2> QED
    BY <2>1 DEF Wave
<1> HIDE DEF p, x, t, u, z
<1> QED
  BY SMT, <1>1, <1>2, <1>3, <1>4

(* The greatest of some numbers.                                           *)
LEMMA Greatest ==
  ASSUME NEW m \in Nat, NEW g \in [0..m -> Int]
  PROVE  \E k \in 0..m : \A l \in 0..m : g[l] <= g[k]
<1> DEFINE S == {i \in 0..m : \E k \in 0..i : \A l \in 0..i : g[l] <= g[k]}
<1>1. 0 \in S
  <2>1. \A l \in 0..0 : l = 0 /\ g[l] <= g[0]
    OBVIOUS
  <2> QED
    BY <2>1
<1>2. ASSUME NEW i \in 0..m - 1, i \in S
      PROVE  i + 1 \in S
  <2>1. PICK k \in 0..i : \A l \in 0..i : g[l] <= g[k]
    BY <1>2
  <2>2. i + 1 \in 0..m /\ g[i + 1] \in Int /\ k \in 0..m /\ g[k] \in Int
    OBVIOUS
  <2>3. \A l \in 0..i + 1 : l \in 0..m /\ g[l] \in Int /\ (l \in 0..i \/ l = i + 1)
    OBVIOUS
  <2>4. CASE g[i + 1] <= g[k]
    <3>1. k \in 0..i + 1 /\ \A l \in 0..i + 1 : g[l] <= g[k]
      BY <2>1, <2>3, <2>4
    <3> QED
      BY <2>2, <3>1
  <2>5. CASE g[k] < g[i + 1]
    <3>1. i + 1 \in 0..i + 1 /\ \A l \in 0..i + 1 : g[l] <= g[i + 1]
      BY <2>1, <2>2, <2>3, <2>5
    <3> QED
      BY <2>2, <3>1
  <2> QED
    BY <2>2, <2>4, <2>5
<1> HIDE DEF S
<1>3. \A i \in 0..m : i \in S
  BY <1>1, <1>2, UpTo
<1>4. m \in S
  BY <1>3
<1> QED
  BY <1>4 DEF S

(* Between two numbers and a greater one between them, one is greater than *)
(* its neighbours, if neighbours are never equal.                          *)
LEMMA PeakBetween ==
  ASSUME NEW m \in Nat, NEW g \in [0..m -> Int], \A i \in 0..m - 1 : g[i + 1] # g[i],
         NEW c \in 0..m, g[0] < g[c], g[m] < g[c]
  PROVE  \E i \in 0..m - 2 : g[i] < g[i + 1] /\ g[i + 2] < g[i + 1]
<1>1. PICK k \in 0..m : \A l \in 0..m : g[l] <= g[k]
  BY Greatest
<1>2. k # 0 /\ k # m
  BY <1>1
<1>3. k - 1 \in 0..m - 2 /\ (k - 1) + 1 = k /\ (k - 1) + 2 = k + 1
      /\ k - 1 \in 0..m - 1 /\ k \in 0..m - 1 /\ k - 1 \in 0..m /\ k + 1 \in 0..m
  BY <1>2
<1>4. g[k] # g[k - 1] /\ g[k + 1] # g[k]
  BY <1>3
<1>5. g[k - 1] <= g[k] /\ g[k + 1] <= g[k]
  BY <1>1, <1>3
<1>6. g[k - 1] \in Int /\ g[k] \in Int /\ g[k + 1] \in Int
  BY <1>3
<1>7. g[k - 1] < g[k] /\ g[k + 1] < g[k]
  BY <1>4, <1>5, <1>6
<1> DEFINE i == k - 1
<1>8. i \in 0..m - 2 /\ i + 1 = k /\ i + 2 = k + 1
  BY <1>3
<1>9. g[i] < g[i + 1] /\ g[i + 2] < g[i + 1]
  BY <1>7, <1>8
<1> HIDE DEF i
<1> QED
  BY <1>8, <1>9

----------------------------------------------------------------------------
(* A search, by the minutes since it began.                                *)

(* How high a body stands n minutes after d.                               *)
Height(b, d, n) == Wave(b, datetime_to_minutes(Later(d, n)))

(* Three dates, so many minutes apart, and their altitudes.                *)
Apart(b, ds, as, d, n, k) ==
  /\ ds[1] = Later(d, n) /\ ds[2] = Later(d, n + k) /\ ds[3] = Later(d, n + 2 * k)
  /\ as[1] = Height(b, d, n) /\ as[2] = Height(b, d, n + k) /\ as[3] = Height(b, d, n + 2 * k)

PeakAt(b, d, n) ==
  Height(b, d, n) < Height(b, d, n + 1) /\ Height(b, d, n + 2) < Height(b, d, n + 1)

(* A command that was found in a search from d, and the highest point.     *)
FoundIn(b, d, f) ==
  f = NotFound \/ \E n \in 1..SearchTime : f = Command(Height(b, d, n), Later(d, n))

IsTop(b, d, e) ==
  LET top == datetime_to_minutes(e)
  IN \/ Wave(b, top - 1) < Wave(b, top) /\ Wave(b, top + 1) < Wave(b, top)
     \/ top < datetime_to_minutes(d)
     \/ datetime_to_minutes(datetime_increment_minute(e)) < top

TopIn(b, d, f) == f.id = 1 => IsTop(b, d, f.time)

Sampling ==
  search \in {"sample", "refine"} =>
    /\ rounds \in 0..MaxRounds
    /\ Apart(body, dates, altitudes, start_date, Sample * rounds, Sample)

(* No minute that has been passed in a refinement is the highest.          *)
Refining ==
  search = "refine" =>
    /\ refinements \in 0..MaxRefinements
    /\ Apart(body, iter_dates, iter_altitudes, start_date, Sample * rounds + refinements, 1)
    /\ altitudes[1] < altitudes[2] /\ altitudes[3] < altitudes[2]
    /\ \A i \in 0..refinements - 1 : ~PeakAt(body, start_date, Sample * rounds + i)

Finding ==
  /\ DOMAIN found = 1..3
  /\ \A k \in 1..3 : FoundIn(body, start_date, found[k])
  /\ TopIn(body, start_date, found[ZENITH])

Points == [id : {1}, altitude : Int, time : CalendarDates]

Tracing ==
  /\ points \in Seq(Points) /\ Len(points) <= MaxPoints
  /\ \A n \in 1..Len(points) :
       points[n] = Command(Height(body, start_date, 60 * (n - 1)),
                           Later(start_date, 60 * (n - 1)))
  /\ search = "tracing" => trace_date = Later(start_date, 60 * Len(points))
  /\ found[BELOW].id = 1 => trace_hours \in Int /\ 60 * trace_hours <= SearchTime

(* A search starts at a date of the calendar, or, for the setting of a     *)
(* body that was not found to rise, at none.                               *)
DatesInv ==
  /\ body \in Bodies
  /\ start_date \in CalendarDates \cup {NoDate}
  /\ goal # "trace_stop" => start_date \in CalendarDates
  /\ search = "idle" => goal = "none"
  /\ search \in {"idle", "sample", "refine", "done"} => points = <<>> /\ trace_hours = 0
  /\ start_date = NoDate => points = <<>> /\ (search = "tracing" => trace_date = NoDate)
  /\ start_date \in CalendarDates => Sampling /\ Refining /\ Finding /\ Tracing

(* The minutes of later dates.                                             *)
LEMMA LaterMinutes ==
  ASSUME NEW d \in CalendarDates, NEW n \in Nat, n < MonthMinutes(d)
  PROVE  /\ datetime_to_minutes(d) \in Int /\ InMonth(d) \in Nat /\ MonthMinutes(d) \in Nat
         /\ datetime_to_minutes(Later(d, n)) =
              IF InMonth(d) + n < MonthMinutes(d) THEN datetime_to_minutes(d) + n
              ELSE datetime_to_minutes(d) + n - MonthMinutes(d)
<1> DEFINE e == Later(d, n)
           L == MonthMinutes(d)
           a == InMonth(d)
           b == InMonth(e)
           x == datetime_to_minutes(d)
           z == datetime_to_minutes(e)
<1>1. /\ e \in CalendarDates /\ e.year = d.year /\ e.month = d.month
      /\ b = (a + n) % L /\ L \in Lengths /\ a \in 0..L - 1
  BY LaterIsDate, MonthLengths, DateFields
<1>2. L \in Nat /\ n < L
  BY <1>1 DEF Lengths
<1> HIDE DEF e, L
<1>3. z - x = b - a /\ x \in Int /\ z \in Int
  BY <1>1, MinutesApart
<1> HIDE DEF a, b, x, z
<1> DEFINE w == a + n
<1>4. w \in Int /\ 0 <= w /\ w < 2 * L /\ b = w % L /\ a \in Nat
  BY <1>1, <1>2
<1> HIDE DEF w
<1>5. b = IF w < L THEN w ELSE w - L
  <2>1. w < L \/ (L <= w /\ ~(w < L))
    BY <1>2, <1>4
  <2> QED
    BY <1>1, <1>4, <2>1, Around
<1>6. z = IF w < L THEN x + n ELSE x + n - L
  <2>1. w = a + n
    BY DEF w
  <2> QED
    BY SMT, <1>2, <1>3, <1>4, <1>5, <2>1
<1> QED
  BY <1>2, <1>3, <1>4, <1>6 DEF w, x, z, e, L, a

(* How high a body stands at a later date, and a minute after it.          *)
LEMMA HeightIs ==
  ASSUME NEW b \in Bodies, NEW d \in CalendarDates, NEW n \in Nat
  PROVE  /\ Height(b, d, n) = Wave(b, datetime_to_minutes(Later(d, n))) /\ Height(b, d, n) \in Int
         /\ InMonth(d) + n + 1 < MonthMinutes(d) => Height(b, d, n + 1) # Height(b, d, n)
<1> DEFINE M(k) == datetime_to_minutes(Later(d, k))
<1>1. \A k \in Nat : Height(b, d, k) = Wave(b, M(k)) /\ M(k) \in Int
  <2> TAKE k \in Nat
  <2>1. Later(d, k) \in CalendarDates
    BY LaterIsDate
  <2>2. Height(b, d, k) = Wave(b, M(k))
    BY DEF Height
  <2>3. M(k) \in Int
    BY <2>1, MinutesApart
  <2> QED
    BY <2>2, <2>3
<1>2. Height(b, d, n) \in Int
  BY <1>1, NeverLevel
<1>3. ASSUME InMonth(d) + n + 1 < MonthMinutes(d)
      PROVE  Height(b, d, n + 1) # Height(b, d, n)
  <2>1. M(n + 1) = M(n) + 1
    <3> DEFINE L == MonthMinutes(d)
               a == InMonth(d)
               x == datetime_to_minutes(d)
    <3>1. a \in Nat /\ L \in Nat /\ x \in Int /\ 0 < L
      <4>1. 0 \in Nat /\ L \in Lengths
        BY MonthLengths
      <4>2. 0 < L
        BY <4>1 DEF Lengths
      <4> HIDE DEF M
      <4> QED
        BY <4>1, <4>2, LaterMinutes
    <3>2. n < L /\ n + 1 < L /\ a + n < L /\ a + (n + 1) < L /\ n + 1 \in Nat
      <4>1. a + n + 1 < L
        BY <1>3
      <4> HIDE DEF a, L
      <4> QED
        BY <3>1, <4>1
    <3>3. M(n) = x + n
      BY <3>2, LaterMinutes
    <3>4. M(n + 1) = x + (n + 1)
      BY <3>2, LaterMinutes
    <3> HIDE DEF M, x
    <3> QED
      BY <3>1, <3>3, <3>4
  <2>2. M(n) \in Int /\ n + 1 \in Nat
    BY <1>1
  <2> HIDE DEF M
  <2>3. Wave(b, M(n) + 1) # Wave(b, M(n))
    BY <2>2, NeverLevel
  <2> QED
    BY <1>1, <2>1, <2>2, <2>3
<1> QED
  BY <1>1, <1>2, <1>3

(* Two samples with a higher one between them in the same month: one of    *)
(* the minutes from the first to the last is the highest.                  *)
LEMMA PeakOnTheWay ==
  ASSUME NEW b \in Bodies, NEW d \in CalendarDates, NEW n \in Nat,
         Height(b, d, n) < Height(b, d, n + Sample), Height(b, d, n + 2 * Sample) < Height(b, d, n + Sample),
         InMonth(d) + n + 2 * Sample < MonthMinutes(d)
  PROVE  \E i \in 0..2 * Sample - 2 : PeakAt(b, d, n + i)
<1> DEFINE m == 2 * Sample
           g == [i \in 0..m |-> Height(b, d, n + i)]
           a == InMonth(d)
           L == MonthMinutes(d)
<1>1. /\ Sample \in Nat \ {0} /\ m \in Nat /\ Sample \in 0..m
      /\ 0 \in 0..m /\ m \in 0..m /\ n + 0 = n
  BY RoundsAssumption
<1>2. a \in Nat /\ L \in Nat /\ a + n + m < L
  <2>1. 0 \in Nat /\ L \in Lengths
    BY MonthLengths
  <2>2. 0 < L /\ L \in Nat
    BY <2>1 DEF Lengths
  <2>3. a \in Nat
    BY DateFields, <2>2
  <2> QED
    BY <2>2, <2>3
<1>3. g \in [0..m -> Int]
  <2>1. \A i \in 0..m : Height(b, d, n + i) \in Int
    <3> TAKE i \in 0..m
    <3>1. n + i \in Nat
      BY <1>1
    <3> QED
      BY <3>1, HeightIs
  <2> QED
    BY <2>1
<1>4. \A i \in 0..m - 1 : g[i + 1] # g[i]
  <2> TAKE i \in 0..m - 1
  <2>1. n + i \in Nat /\ i \in 0..m /\ i + 1 \in 0..m /\ (n + i) + 1 = n + (i + 1)
    BY <1>1
  <2>2. a + (n + i) + 1 < L
    <3> HIDE DEF a, L, m
    <3> QED
      BY <1>1, <1>2
  <2> HIDE DEF m
  <2>3. Height(b, d, (n + i) + 1) # Height(b, d, n + i)
    BY <2>1, <2>2, HeightIs
  <2> QED
    BY <2>1, <2>3
<1>5. g[0] = Height(b, d, n) /\ g[Sample] = Height(b, d, n + Sample) /\ g[m] = Height(b, d, n + m)
  BY <1>1
<1>6. \E i \in 0..m - 2 : g[i] < g[i + 1] /\ g[i + 2] < g[i + 1]
  <2>1. g[0] < g[Sample] /\ g[m] < g[Sample]
    BY <1>5
  <2> HIDE DEF g, m
  <2> QED
    BY <1>1, <1>3, <1>4, <2>1, PeakBetween
<1>7. PICK i \in 0..m - 2 : g[i] < g[i + 1] /\ g[i + 2] < g[i + 1]
  BY <1>6
<1>8. /\ i \in 0..m /\ i + 1 \in 0..m /\ i + 2 \in 0..m
      /\ n + (i + 1) = (n + i) + 1 /\ n + (i + 2) = (n + i) + 2
  BY <1>1
<1>9. g[i] = Height(b, d, n + i) /\ g[i + 1] = Height(b, d, (n + i) + 1)
      /\ g[i + 2] = Height(b, d, (n + i) + 2)
  <2>1. \A l \in 0..m : g[l] = Height(b, d, n + l)
    OBVIOUS
  <2> HIDE DEF g, m
  <2> QED
    BY <1>8, <2>1
<1> HIDE DEF g
<1> QED
  BY <1>7, <1>9 DEF PeakAt

(* What a refinement knows when it ends: where it began the body stands    *)
(* lower than a sample later, and so it does two samples later; no minute  *)
(* has been passed that is the highest; and either this one is, or all     *)
(* have been passed.                                                       *)
TopSought(b, d, n, j) ==
  /\ n + j + 2 < 40320
  /\ Height(b, d, n) < Height(b, d, n + Sample)
  /\ Height(b, d, n + 2 * Sample) < Height(b, d, n + Sample)
  /\ \A i \in 0..j - 1 : ~PeakAt(b, d, n + i)
  /\ PeakAt(b, d, n + j) \/ j >= 2 * Sample

(* The date a refinement ends with is the highest, or the month has ended. *)
LEMMA TopFound ==
  ASSUME NEW b \in Bodies, NEW d \in CalendarDates, NEW n \in Nat, NEW j \in Nat,
         TopSought(b, d, n, j), NEW e, e = Later(d, n + j + 1)
  PROVE  IsTop(b, d, e)
<1> DEFINE top == datetime_to_minutes(e)
<1> /\ n + j + 2 < 40320
    /\ Height(b, d, n) < Height(b, d, n + Sample)
    /\ Height(b, d, n + 2 * Sample) < Height(b, d, n + Sample)
    /\ \A i \in 0..j - 1 : ~PeakAt(b, d, n + i)
    /\ PeakAt(b, d, n + j) \/ j >= 2 * Sample
  BY DEF TopSought
<1> SUFFICES \/ Wave(b, top - 1) < Wave(b, top) /\ Wave(b, top + 1) < Wave(b, top)
             \/ top < datetime_to_minutes(d)
             \/ datetime_to_minutes(datetime_increment_minute(e)) < top
  BY DEF IsTop
<1> DEFINE a == InMonth(d)
           L == MonthMinutes(d)
           x == datetime_to_minutes(d)
           k == n + j + 1
           M(i) == datetime_to_minutes(Later(d, i))
<1>1. L \in Nat /\ 40320 <= L /\ a \in Nat /\ a < L /\ x \in Int
  <2>1. L \in Lengths
    BY MonthLengths
  <2>2. L \in Nat /\ 40320 <= L /\ 0 < L
    <3> HIDE DEF L
    <3> QED
      BY SMT, <2>1 DEF Lengths
  <2>3. a \in 0..L - 1
    BY DateFields
  <2>4. x \in Int
    BY MinutesApart
  <2> HIDE DEF a, L, x
  <2> QED
    BY SMT, <2>2, <2>3, <2>4
<1>2. k \in Nat /\ k + 1 \in Nat /\ n + j \in Nat /\ (n + j) + 1 = k /\ (n + j) + 2 = k + 1
      /\ k + 1 < L /\ k < L /\ n + j < L
  <2> HIDE DEF L
  <2> QED
    BY SMT, <1>1
<1>3. top = M(k) /\ datetime_to_minutes(datetime_increment_minute(e)) = M(k + 1)
  <2>1. e \in CalendarDates /\ 1 \in Nat
    BY <1>2, LaterIsDate
  <2>2. datetime_increment_minute(e) = Later(d, k + 1)
    <3>1. datetime_increment_minute(e) = Later(e, 1)
      BY <2>1, MinuteLater
    <3> HIDE DEF k
    <3>2. Later(Later(d, k), 1) = Later(d, k + 1)
      BY <1>2, <2>1, LaterAdds
    <3> QED
      BY <3>1, <3>2 DEF k
  <2> QED
    BY <2>2
<1>4. \A i \in {n + j, k, k + 1} : M(i) = IF a + i < L THEN x + i ELSE x + i - L
  <2> TAKE i \in {n + j, k, k + 1}
  <2>1. i \in Nat /\ i < L
    BY <1>2
  <2> HIDE DEF k
  <2> QED
    BY <2>1, LaterMinutes
<1> HIDE DEF k
<1>5. CASE ~(a + k < L)
  <2>1. top = x + k - L
    BY <1>3, <1>4, <1>5
  <2>2. top < x
    <3> HIDE DEF L, x
    <3> QED
      BY SMT, <1>1, <1>2, <2>1
  <2> QED
    BY <2>2
<1>6. CASE a + k < L /\ ~(a + (k + 1) < L)
  <2>1. top = x + k /\ M(k + 1) = x + (k + 1) - L
    BY <1>3, <1>4, <1>6
  <2>2. M(k + 1) < top
    <3> HIDE DEF L, x, M
    <3> QED
      BY SMT, <1>1, <1>2, <2>1
  <2> QED
    BY <1>3, <2>2
<1>7. CASE a + (k + 1) < L
  <2>1. a + (n + j) < L /\ a + k < L
    <3> HIDE DEF a, L
    <3> QED
      BY SMT, <1>1, <1>2, <1>7
  <2>2. M(n + j) = x + (n + j) /\ M(k) = x + k /\ M(k + 1) = x + (k + 1)
    BY <1>4, <1>7, <2>1
  <2>3. M(n + j) = top - 1 /\ M(k + 1) = top + 1
    <3> HIDE DEF x, M
    <3> QED
      BY SMT, <1>1, <1>2, <1>3, <2>2
  <2>4. /\ Height(b, d, n + j) = Wave(b, top - 1) /\ Height(b, d, k) = Wave(b, top)
        /\ Height(b, d, k + 1) = Wave(b, top + 1)
    BY <1>2, <1>3, <2>3, HeightIs
  <2>5. PeakAt(b, d, n + j)
    <3>1. ASSUME j >= 2 * Sample
          PROVE  FALSE
      <4>1. Sample \in Nat \ {0} /\ 2 * Sample \in Nat
        BY RoundsAssumption
      <4>2. a + n + 2 * Sample < L
        <5> HIDE DEF a, L
        <5> QED
          BY SMT, <1>1, <1>2, <1>7, <3>1, <4>1
      <4>3. PICK i \in 0..2 * Sample - 2 : PeakAt(b, d, n + i)
        BY <4>2, PeakOnTheWay
      <4>4. i \in 0..j - 1
        BY SMT, <3>1, <4>1
      <4> QED
        BY <4>3, <4>4
    <3> QED
      BY <3>1
  <2>6. Height(b, d, n + j) < Height(b, d, k) /\ Height(b, d, k + 1) < Height(b, d, k)
    BY <1>2, <2>5 DEF PeakAt
  <2> QED
    BY <2>4, <2>6
<1> QED
  BY <1>5, <1>6, <1>7

----------------------------------------------------------------------------
(* The steps of a search.                                                  *)

(* The minutes of the rounds, all of them less than a month's.             *)
LEMMA RoundMinutes ==
  ASSUME NEW i \in 0..MaxRounds
  PROVE  /\ Sample * i \in Nat /\ Sample * (i + 1) = Sample * i + Sample
         /\ Sample * i + 2 * Sample + MaxRefinements <= SearchTime
         /\ SearchTime \in Nat /\ SearchTime < 40320
         /\ Sample \in Nat \ {0} /\ MaxRefinements \in Nat /\ 2 * Sample <= MaxRefinements
<1>1. MaxRounds \in Nat /\ MaxRefinements \in Nat /\ Sample \in Nat \ {0}
      /\ 2 * Sample <= MaxRefinements
  BY RoundsAssumption
<1>2. SearchTime = (MaxRounds + 2) * Sample + MaxRefinements /\ SearchTime < 40320
  BY SMT, RoundsAssumption DEF SearchTime
<1>3. i \in Int /\ 0 <= i /\ i <= MaxRounds
  BY <1>1
<1>4. Sample * i \in Nat /\ Sample * (i + 1) = Sample * i + Sample
  BY SMT, <1>1, <1>3
<1>5. Sample * i <= Sample * MaxRounds
  BY SMT, <1>1, <1>3
<1>6. (MaxRounds + 2) * Sample = Sample * MaxRounds + 2 * Sample /\ Sample * MaxRounds \in Nat
  BY SMT, <1>1
<1> QED
  BY SMT, <1>1, <1>2, <1>4, <1>5, <1>6

(* The constants of a search are numbers.                                  *)
LEMMA SearchTypes ==
  /\ Sample \in Nat /\ MaxRounds \in Nat /\ MaxRefinements \in Nat
  /\ MaxPoints \in Nat /\ 60 * MaxPoints <= 40320
  /\ 0 \in 0..MaxRounds /\ 0 \in 0..MaxRefinements /\ Sample * 0 = 0 /\ 0 <= MaxPoints
<1>1. Sample \in Nat /\ MaxRounds \in Nat /\ MaxRefinements \in Nat
      /\ MaxPoints \in Nat /\ 60 * MaxPoints <= 40320
  BY SMT, RoundsAssumption
<1>2. 0 \in 0..MaxRounds /\ 0 \in 0..MaxRefinements /\ Sample * 0 = 0 /\ 0 <= MaxPoints
  BY SMT, <1>1
<1> QED
  BY <1>1, <1>2

(* A month is longer than any search.                                      *)
LEMMA MonthIsLonger ==
  ASSUME NEW d \in CalendarDates, NEW n \in Int, n < 40320
  PROVE  n < MonthMinutes(d)
<1> DEFINE L == MonthMinutes(d)
<1>1. L \in Lengths
  BY MonthLengths
<1> HIDE DEF L
<1>2. n < L
  BY SMT, <1>1 DEF Lengths
<1> QED
  BY <1>2 DEF L

(* Three dates move on by what they are apart.                             *)
LEMMA ApartMoves ==
  ASSUME NEW d \in CalendarDates, NEW n \in Nat, NEW k \in Nat, NEW ds, NEW as,
         Apart(body, ds, as, d, n, k),
         NEW es, es[1] = increment_minutes(ds[1], k), es[2] = increment_minutes(ds[2], k),
         es[3] = increment_minutes(ds[3], k),
         NEW bs, bs[1] = as[2], bs[2] = as[3], bs[3] = get_coordinates(es[3])
  PROVE  Apart(body, es, bs, d, n + k, k)
<1>1. \A m \in Nat : increment_minutes(Later(d, m), k) = Later(d, m + k)
  <2> TAKE m \in Nat
  <2>1. increment_minutes(Later(d, m), k) = Later(Later(d, m), k)
    BY LaterIsDate, MinutesLater
  <2> QED
    BY <2>1, LaterAdds
<1>2. n + k \in Nat /\ n + 2 * k \in Nat /\ (n + k) + k = n + 2 * k
      /\ (n + 2 * k) + k = (n + k) + 2 * k /\ (n + k) + 2 * k \in Nat
  OBVIOUS
<1>3. es[1] = Later(d, n + k) /\ es[2] = Later(d, n + 2 * k) /\ es[3] = Later(d, (n + k) + 2 * k)
  <2>1. ds[1] = Later(d, n) /\ ds[2] = Later(d, n + k) /\ ds[3] = Later(d, n + 2 * k)
    BY DEF Apart
  <2>2. increment_minutes(Later(d, n), k) = Later(d, n + k)
    BY <1>1
  <2>3. increment_minutes(Later(d, n + k), k) = Later(d, n + 2 * k)
    BY <1>1, <1>2
  <2>4. increment_minutes(Later(d, n + 2 * k), k) = Later(d, (n + k) + 2 * k)
    BY <1>1, <1>2
  <2> QED
    BY <2>1, <2>2, <2>3, <2>4
<1>4. bs[3] = Height(body, d, (n + k) + 2 * k)
  BY <1>2, <1>3, LaterIsDate, CoordinatesAre DEF Height
<1> QED
  BY <1>2, <1>3, <1>4 DEF Apart

(* Three dates a search or a refinement begins with.                       *)
LEMMA ApartBegins ==
  ASSUME NEW d \in CalendarDates, NEW n \in Nat, NEW k \in Nat,
         NEW ds, ds = Spaced(Later(d, n), k),
         NEW as, \A i \in 1..3 : as[i] = get_coordinates(ds[i])
  PROVE  Apart(body, ds, as, d, n, k)
<1>1. n + k \in Nat /\ n + 2 * k \in Nat /\ 2 * k \in Nat
  OBVIOUS
<1>2. ds[1] = Later(d, n) /\ ds[2] = Later(d, n + k) /\ ds[3] = Later(d, n + 2 * k)
  <2>1. /\ increment_minutes(Later(d, n), k) = Later(Later(d, n), k)
        /\ increment_minutes(Later(d, n), 2 * k) = Later(Later(d, n), 2 * k)
    BY <1>1, LaterIsDate, MinutesLater
  <2>2. Later(Later(d, n), k) = Later(d, n + k) /\ Later(Later(d, n), 2 * k) = Later(d, n + 2 * k)
    BY <1>1, LaterAdds
  <2> QED
    BY <2>1, <2>2 DEF Spaced
<1>3. \A m \in Nat : get_coordinates(Later(d, m)) = Height(body, d, m)
  BY LaterIsDate, CoordinatesAre DEF Height
<1>4. as[1] = get_coordinates(ds[1]) /\ as[2] = get_coordinates(ds[2])
      /\ as[3] = get_coordinates(ds[3])
  <2>1. 1 \in 1..3 /\ 2 \in 1..3 /\ 3 \in 1..3
    OBVIOUS
  <2> QED
    BY <2>1
<1> QED
  BY <1>1, <1>2, <1>3, <1>4 DEF Apart

(* A search that has not found anything.                                   *)
LEMMA NothingFound ==
  ASSUME NEW b, NEW d
  PROVE  LET f == <<NotFound, NotFound, NotFound>>
         IN /\ DOMAIN f = 1..3 /\ \A k \in 1..3 : FoundIn(b, d, f[k]) /\ f[k].id = 0
            /\ TopIn(b, d, f[ZENITH])
BY DEF FoundIn, TopIn, NotFound, ZENITH

(* The start of a search, for an instruction or a trace.                   *)
LEMMA SearchStarts ==
  ASSUME DatesInv, NEW purpose, NEW d \in CalendarDates \cup {NoDate},
         purpose # "trace_stop" => d \in CalendarDates,
         StartSearch(purpose, d), UNCHANGED traceVars, points = <<>>, trace_hours = 0
  PROVE  DatesInv'
<1>1. body' = body /\ start_date' = d /\ goal' = purpose /\ search' = "sample"
      /\ rounds' = 0 /\ points' = <<>> /\ trace_hours' = 0
      /\ dates' = Spaced(d, Sample) /\ altitudes' = Coordinates(dates')
      /\ found' = <<NotFound, NotFound, NotFound>>
  BY DEF traceVars, StartSearch
<1>2. ASSUME d \in CalendarDates
      PROVE  Sampling' /\ Refining' /\ Finding' /\ Tracing'
  <2>1. Apart(body, dates', altitudes', d, 0, Sample)
    <3>1. Sample \in Nat /\ 0 \in Nat
      BY SearchTypes
    <3>2. Later(d, 0) = d
      BY <1>2, <3>1, LaterAdds
    <3>3. dates' = Spaced(Later(d, 0), Sample)
      BY <1>1, <3>2
    <3>4. \A i \in 1..3 : altitudes'[i] = get_coordinates(dates'[i])
      <4>1. DOMAIN dates' = 1..3
        BY <1>1 DEF Spaced
      <4>2. altitudes' = [i \in 1..3 |-> get_coordinates(dates'[i])]
        BY <1>1, <4>1 DEF Coordinates
      <4> QED
        BY <4>2
    <3> QED
      BY <1>2, <3>1, <3>3, <3>4, ApartBegins
  <2>2. Sampling'
    BY <1>1, <2>1, SearchTypes DEF Sampling
  <2>3. Refining'
    BY <1>1 DEF Refining
  <2>4. Finding'
    BY <1>1, NothingFound DEF Finding
  <2>5. Tracing'
    <3>1. found'[BELOW].id = 0
      BY <1>1 DEF BELOW, NotFound
    <3>2. <<>> \in Seq(Points) /\ Len(<<>>) = 0
      OBVIOUS
    <3>3. points' \in Seq(Points) /\ Len(points') = 0 /\ 0 <= MaxPoints /\ search' # "tracing"
      BY <1>1, <3>2, SearchTypes
    <3>4. \A n \in 1..Len(points') : FALSE
      BY <3>3
    <3> QED
      BY <3>1, <3>3, <3>4 DEF Tracing, Points
  <2> QED
    BY <2>2, <2>3, <2>4, <2>5
<1> QED
  BY <1>1, <1>2 DEF DatesInv

(* The end of a round: what it found is kept, and the samples move on.     *)
LEMMA RoundStep ==
  ASSUME DatesInv, search \in {"sample", "refine"}, NEW result, NextRound(result),
         start_date \in CalendarDates =>
           /\ DOMAIN result = 1..3
           /\ \A k \in 1..3 : FoundIn(body, start_date, result[k])
           /\ TopIn(body, start_date, result[ZENITH])
  PROVE  DatesInv'
<1>1. /\ UNCHANGED <<body, goal, start_date, points, trace_date, trace_hours>>
      /\ found' = result /\ rounds' = rounds + 1
      /\ dates' = <<increment_minutes(dates[1], Sample), increment_minutes(dates[2], Sample),
                    increment_minutes(dates[3], Sample)>>
      /\ altitudes' = <<altitudes[2], altitudes[3],
                        get_coordinates(increment_minutes(dates[3], Sample))>>
      /\ search' \in {"sample", "done"}
      /\ search' = "sample" => ~(rounds + 1 > MaxRounds)
  BY DEF NextRound, traceVars
<1>2. points = <<>> /\ trace_hours = 0
  BY DEF DatesInv
<1>3. ASSUME start_date \in CalendarDates
      PROVE  Sampling' /\ Refining' /\ Finding' /\ Tracing'
  <2>1. Sampling'
    <3>1. ASSUME search' \in {"sample", "refine"}
          PROVE  /\ rounds' \in 0..MaxRounds
                 /\ Apart(body, dates', altitudes', start_date, Sample * rounds', Sample)
      <4>1. rounds \in 0..MaxRounds
            /\ Apart(body, dates, altitudes, start_date, Sample * rounds, Sample)
        BY <1>3 DEF DatesInv, Sampling
      <4>2. Sample * rounds \in Nat /\ Sample * (rounds + 1) = Sample * rounds + Sample
        BY <4>1, RoundMinutes
      <4>3. Sample \in Nat /\ rounds' \in 0..MaxRounds
        BY <1>1, <3>1, <4>1, SearchTypes
      <4>4. /\ dates'[1] = increment_minutes(dates[1], Sample)
            /\ dates'[2] = increment_minutes(dates[2], Sample)
            /\ dates'[3] = increment_minutes(dates[3], Sample)
            /\ altitudes'[1] = altitudes[2] /\ altitudes'[2] = altitudes[3]
            /\ altitudes'[3] = get_coordinates(dates'[3])
        BY <1>1
      <4>5. Apart(body, dates', altitudes', start_date, Sample * rounds + Sample, Sample)
        BY <1>3, <4>1, <4>2, <4>3, <4>4, ApartMoves
      <4> QED
        BY <1>1, <4>2, <4>3, <4>5
    <3> QED
      BY <1>1, <3>1 DEF Sampling
  <2>2. Refining'
    BY <1>1 DEF Refining
  <2>3. Finding'
    BY <1>1, <1>3 DEF Finding
  <2>4. Tracing'
    <3>1. <<>> \in Seq(Points) /\ Len(<<>>) = 0
      OBVIOUS
    <3>2. points' \in Seq(Points) /\ Len(points') = 0 /\ 0 <= MaxPoints /\ search' # "tracing"
      BY <1>1, <1>2, <3>1, SearchTypes
    <3>3. \A n \in 1..Len(points') : FALSE
      BY <3>2
    <3>4. trace_hours' \in Int /\ 60 * trace_hours' <= SearchTime
      <4>1. SearchTime \in Nat /\ 60 * 0 = 0
        BY SearchTypes, RoundMinutes
      <4> QED
        BY <1>1, <1>2, <4>1
    <3> QED
      BY <3>2, <3>3, <3>4 DEF Tracing, Points
  <2> QED
    BY <2>1, <2>2, <2>3, <2>4
<1> QED
  BY <1>1, <1>2, <1>3 DEF DatesInv

(* The times of a round that are found are within the search.              *)
LEMMA FoundNow ==
  ASSUME NEW b, NEW d, NEW n \in 1..SearchTime
  PROVE  FoundIn(b, d, Command(Height(b, d, n), Later(d, n)))
         /\ Command(Height(b, d, n), Later(d, n)).id = 1
BY DEF FoundIn, Command

(* A sample that finds where the body rises or sets, or nothing.           *)
LEMMA SampledStep == ASSUME DatesInv, Sampled PROVE DatesInv'
<1> DEFINE here == Command(altitudes[2], dates[2])
           result == CASE Rising -> [found EXCEPT ![ABOVE] = here]
                       [] Falling -> [found EXCEPT ![BELOW] = here]
                       [] OTHER -> found
<1>1. search = "sample" /\ NextRound(result)
  BY DEF Sampled
<1>2. result \in {[found EXCEPT ![ABOVE] = here], [found EXCEPT ![BELOW] = here], found}
  OBVIOUS
<1>3. ASSUME start_date \in CalendarDates
      PROVE  /\ DOMAIN result = 1..3
             /\ \A k \in 1..3 : FoundIn(body, start_date, result[k])
             /\ TopIn(body, start_date, result[ZENITH])
  <2>1. Finding /\ Sampling
    BY <1>3 DEF DatesInv
  <2>2. FoundIn(body, start_date, here)
    <3>1. /\ rounds \in 0..MaxRounds
          /\ Apart(body, dates, altitudes, start_date, Sample * rounds, Sample)
      BY <1>1, <2>1 DEF Sampling
    <3>2. here = Command(Height(body, start_date, Sample * rounds + Sample),
                         Later(start_date, Sample * rounds + Sample))
      BY <3>1 DEF Apart
    <3>3. Sample * rounds + Sample \in 1..SearchTime
      <4> DEFINE n == Sample * rounds
      <4>1. /\ n \in Nat /\ n + 2 * Sample + MaxRefinements <= SearchTime /\ SearchTime \in Nat
            /\ Sample \in Nat \ {0} /\ MaxRefinements \in Nat
        BY <3>1, RoundMinutes
      <4> HIDE DEF n
      <4>2. n + Sample \in 1..SearchTime
        BY SMT, <4>1
      <4> QED
        BY <4>2 DEF n
    <3> QED
      BY <3>2, <3>3, FoundNow
  <2>3. ABOVE \in 1..3 /\ BELOW \in 1..3 /\ ZENITH \in 1..3 /\ ABOVE # ZENITH /\ BELOW # ZENITH
    BY DEF ABOVE, BELOW, ZENITH
  <2>4. /\ DOMAIN found = 1..3 /\ \A k \in 1..3 : FoundIn(body, start_date, found[k])
        /\ TopIn(body, start_date, found[ZENITH])
    BY <2>1 DEF Finding
  <2>5. ASSUME NEW i \in {ABOVE, BELOW}, result = [found EXCEPT ![i] = here]
        PROVE  /\ DOMAIN result = 1..3
               /\ \A k \in 1..3 : FoundIn(body, start_date, result[k])
               /\ TopIn(body, start_date, result[ZENITH])
    <3> HIDE DEF here, result
    <3>1. /\ DOMAIN result = 1..3 /\ i \in 1..3 /\ i # ZENITH
          /\ \A k \in 1..3 : result[k] = IF k = i THEN here ELSE found[k]
      BY <2>3, <2>4, <2>5
    <3>2. result[ZENITH] = found[ZENITH]
      BY <2>3, <3>1
    <3> QED
      BY <2>2, <2>4, <3>1, <3>2
  <2> HIDE DEF result, here
  <2> QED
    BY <1>2, <2>4, <2>5
<1> HIDE DEF result
<1> QED
  BY <1>1, <1>3, RoundStep

(* What a step of a refinement leaves alone.                               *)
LEMMA SamplesStay ==
  ASSUME DatesInv, search \in {"sample", "refine"}, search' = "refine",
         UNCHANGED <<body, goal, start_date, dates, altitudes, rounds, found, traceVars>>,
         start_date \in CalendarDates => Refining'
  PROVE  DatesInv'
<1>1. points = <<>> /\ trace_hours = 0
  BY DEF DatesInv
<1>2. UNCHANGED <<body, goal, start_date, dates, altitudes, rounds, found, points, trace_date,
                  trace_hours>>
  BY DEF traceVars
<1>3. ASSUME start_date \in CalendarDates
      PROVE  Sampling' /\ Finding' /\ Tracing'
  <2>1. Sampling /\ Finding /\ Tracing
    BY <1>3 DEF DatesInv
  <2>2. Sampling'
    BY <1>2, <2>1 DEF Sampling
  <2>3. Finding'
    BY <1>2, <2>1 DEF Finding
  <2>4. Tracing'
    BY <1>2, <2>1 DEF Tracing
  <2> QED
    BY <2>2, <2>3, <2>4
<1> QED
  BY <1>1, <1>2, <1>3 DEF DatesInv

(* Whether three altitudes a minute apart are a peak.                      *)
LEMMA ZenithIsPeak ==
  ASSUME NEW b, NEW ds, NEW as, NEW d, NEW n \in Nat, Apart(b, ds, as, d, n, 1)
  PROVE  /\ check_for_zenith(as) <=> PeakAt(b, d, n)
         /\ ds[2] = Later(d, n + 1) /\ as[2] = Height(b, d, n + 1)
<1>1. 2 * 1 = 2
  OBVIOUS
<1> QED
  BY <1>1 DEF Apart, PeakAt, check_for_zenith

(* A refinement begins at the first of the samples.                        *)
LEMMA RefinementStarts == ASSUME DatesInv, StartRefinement PROVE DatesInv'
<1>1. /\ search = "sample" /\ search' = "refine" /\ Highest
      /\ iter_dates' = Spaced(dates[1], 1) /\ refinements' = 0
      /\ iter_altitudes' = [i \in 1..3 |-> IF i = 1 THEN altitudes[1]
                                           ELSE get_coordinates(iter_dates'[i])]
      /\ UNCHANGED <<body, goal, start_date, dates, altitudes, rounds, found, traceVars>>
  BY DEF StartRefinement
<1>2. ASSUME start_date \in CalendarDates
      PROVE  Refining'
  <2> DEFINE n == Sample * rounds
             d == start_date
  <2>1. rounds \in 0..MaxRounds /\ Apart(body, dates, altitudes, d, n, Sample)
    BY <1>1, <1>2 DEF DatesInv, Sampling
  <2>2. n \in Nat /\ n + 0 = n /\ 1 \in Nat
    BY <2>1, RoundMinutes
  <2>3. dates[1] = Later(d, n) /\ altitudes[1] = Height(body, d, n)
    BY <2>1 DEF Apart
  <2>4. altitudes[1] = get_coordinates(dates[1])
    BY <1>2, <2>2, <2>3, LaterIsDate, CoordinatesAre DEF Height
  <2>5. iter_dates'[1] = dates[1]
    BY <1>1 DEF Spaced
  <2>6. \A i \in 1..3 : iter_altitudes'[i] = get_coordinates(iter_dates'[i])
    BY <1>1, <2>4, <2>5
  <2>7. Apart(body, iter_dates', iter_altitudes', d, n, 1)
    <3>1. iter_dates' = Spaced(Later(d, n), 1)
      BY <1>1, <2>3
    <3> HIDE DEF n, d
    <3> QED
      BY <1>2, <2>2, <2>6, <3>1, ApartBegins DEF d
  <2>8. altitudes[1] < altitudes[2] /\ altitudes[3] < altitudes[2]
    BY <1>1 DEF Highest, check_for_zenith
  <2>9. \A i \in 0..0 - 1 : FALSE
    OBVIOUS
  <2> QED
    BY <1>1, <2>2, <2>7, <2>8, <2>9, SearchTypes DEF Refining
<1> QED
  BY <1>1, <1>2, SamplesStay

(* A refinement goes on by a minute.                                       *)
LEMMA RefineStep == ASSUME DatesInv, Refine PROVE DatesInv'
<1>1. /\ search = "refine" /\ search' = "refine"
      /\ ~check_for_zenith(iter_altitudes) /\ refinements < MaxRefinements
      /\ iter_dates' = [i \in 1..3 |-> datetime_increment_minute(iter_dates[i])]
      /\ iter_altitudes' = <<iter_altitudes[2], iter_altitudes[3],
                             get_coordinates(iter_dates'[3])>>
      /\ refinements' = refinements + 1
      /\ UNCHANGED <<body, goal, start_date, dates, altitudes, rounds, found, traceVars>>
  BY DEF Refine
<1>2. ASSUME start_date \in CalendarDates
      PROVE  Refining'
  <2> DEFINE n == Sample * rounds
             d == start_date
             j == refinements
  <2>1. /\ rounds \in 0..MaxRounds /\ j \in 0..MaxRefinements
        /\ Apart(body, iter_dates, iter_altitudes, d, n + j, 1)
        /\ altitudes[1] < altitudes[2] /\ altitudes[3] < altitudes[2]
        /\ \A i \in 0..j - 1 : ~PeakAt(body, d, n + i)
    BY <1>1, <1>2 DEF DatesInv, Sampling, Refining
  <2>2. n \in Nat /\ n + j \in Nat /\ j + 1 \in 0..MaxRefinements /\ (n + j) + 1 = n + (j + 1)
        /\ 1 \in Nat /\ j \in Nat
    <3>1. n \in Nat /\ MaxRefinements \in Nat
      BY <2>1, RoundMinutes
    <3> HIDE DEF n, d
    <3> QED
      BY <1>1, <2>1, <3>1
  <2>3. \A i \in 1..3 : iter_dates'[i] = increment_minutes(iter_dates[i], 1)
    <3>1. \A m \in Nat : datetime_increment_minute(Later(d, m)) = increment_minutes(Later(d, m), 1)
      BY <1>2, <2>2, LaterIsDate, MinuteLater, MinutesLater
    <3>2. /\ iter_dates[1] = Later(d, n + j) /\ iter_dates[2] = Later(d, (n + j) + 1)
          /\ iter_dates[3] = Later(d, (n + j) + 2 * 1)
      BY <2>1 DEF Apart
    <3>3. (n + j) + 1 \in Nat /\ (n + j) + 2 * 1 \in Nat
      BY <2>2
    <3>4. /\ iter_dates'[1] = datetime_increment_minute(iter_dates[1])
          /\ iter_dates'[2] = datetime_increment_minute(iter_dates[2])
          /\ iter_dates'[3] = datetime_increment_minute(iter_dates[3])
      BY <1>1
    <3>5. \A i \in 1..3 : i = 1 \/ i = 2 \/ i = 3
      OBVIOUS
    <3> HIDE DEF n, d, j
    <3> QED
      BY <2>2, <3>1, <3>2, <3>3, <3>4, <3>5
  <2>4. Apart(body, iter_dates', iter_altitudes', d, (n + j) + 1, 1)
    <3>1. /\ iter_dates'[1] = increment_minutes(iter_dates[1], 1)
          /\ iter_dates'[2] = increment_minutes(iter_dates[2], 1)
          /\ iter_dates'[3] = increment_minutes(iter_dates[3], 1)
      BY <2>3
    <3>2. /\ iter_altitudes'[1] = iter_altitudes[2] /\ iter_altitudes'[2] = iter_altitudes[3]
          /\ iter_altitudes'[3] = get_coordinates(iter_dates'[3])
      BY <1>1
    <3> DEFINE m == n + j
    <3>3. m \in Nat /\ Apart(body, iter_dates, iter_altitudes, d, m, 1) /\ d \in CalendarDates
      BY <1>2, <2>1, <2>2
    <3> HIDE DEF m, d
    <3>4. Apart(body, iter_dates', iter_altitudes', d, m + 1, 1)
      BY <2>2, <3>1, <3>2, <3>3, ApartMoves
    <3> QED
      BY <3>4 DEF m
  <2>5. \A i \in 0..(j + 1) - 1 : ~PeakAt(body, d, n + i)
    <3>1. ~PeakAt(body, d, n + j)
      BY <1>1, <2>1, <2>2, ZenithIsPeak
    <3>2. \A i \in 0..(j + 1) - 1 : i \in 0..j - 1 \/ i = j
      BY <2>2
    <3> QED
      BY <2>1, <3>1, <3>2
  <2>6. Apart(body, iter_dates', iter_altitudes', d, n + (j + 1), 1)
    BY <2>2, <2>4
  <2>7. UNCHANGED <<body, start_date, altitudes, rounds>> /\ refinements' = j + 1
    BY <1>1
  <2> HIDE DEF j
  <2> QED
    BY <2>1, <2>2, <2>5, <2>6, <2>7 DEF Refining
<1> QED
  BY <1>1, <1>2, SamplesStay

(* A refinement ends, with the highest point.                              *)
LEMMA RefinedStep == ASSUME DatesInv, Refined PROVE DatesInv'
<1> DEFINE top == Command(iter_altitudes[2], iter_dates[2])
           result == [found EXCEPT ![ZENITH] = top]
<1>1. /\ search = "refine" /\ NextRound(result)
      /\ check_for_zenith(iter_altitudes) \/ refinements >= MaxRefinements
  BY DEF Refined
<1>2. ASSUME start_date \in CalendarDates
      PROVE  /\ DOMAIN result = 1..3
             /\ \A k \in 1..3 : FoundIn(body, start_date, result[k])
             /\ TopIn(body, start_date, result[ZENITH])
  <2> DEFINE n == Sample * rounds
             d == start_date
             j == refinements
             e == iter_dates[2]
  <2>1. /\ rounds \in 0..MaxRounds /\ j \in 0..MaxRefinements
        /\ Apart(body, dates, altitudes, d, n, Sample)
        /\ Apart(body, iter_dates, iter_altitudes, d, n + j, 1)
        /\ altitudes[1] < altitudes[2] /\ altitudes[3] < altitudes[2]
        /\ \A i \in 0..j - 1 : ~PeakAt(body, d, n + i)
        /\ DOMAIN found = 1..3 /\ \A k \in 1..3 : FoundIn(body, d, found[k])
        /\ body \in Bodies
    BY <1>1, <1>2 DEF DatesInv, Sampling, Refining, Finding
  <2>2. /\ n \in Nat /\ j \in Nat /\ n + j \in Nat
        /\ n + j + 1 \in 1..SearchTime /\ n + j + 2 < 40320
        /\ j >= MaxRefinements => j >= 2 * Sample
    <3>1. /\ n \in Nat /\ n + 2 * Sample + MaxRefinements <= SearchTime
          /\ SearchTime \in Nat /\ SearchTime < 40320
          /\ Sample \in Nat \ {0} /\ MaxRefinements \in Nat /\ 2 * Sample <= MaxRefinements
      BY <2>1, RoundMinutes
    <3>2. j \in Nat /\ j <= MaxRefinements
      BY <2>1, <3>1
    <3> HIDE DEF n, j
    <3> QED
      BY SMT, <3>1, <3>2
  <2>3. /\ check_for_zenith(iter_altitudes) <=> PeakAt(body, d, n + j)
        /\ e = Later(d, n + j + 1) /\ iter_altitudes[2] = Height(body, d, n + j + 1)
    <3> DEFINE m == n + j
    <3>1. m \in Nat /\ Apart(body, iter_dates, iter_altitudes, d, m, 1)
      BY <2>1, <2>2
    <3> HIDE DEF m
    <3>2. /\ check_for_zenith(iter_altitudes) <=> PeakAt(body, d, m)
          /\ e = Later(d, m + 1) /\ iter_altitudes[2] = Height(body, d, m + 1)
      BY <3>1, ZenithIsPeak
    <3> QED
      BY <3>2 DEF m
  <2>4. FoundIn(body, d, top) /\ top.id = 1 /\ top.time = e
    <3>1. top = Command(Height(body, d, n + j + 1), Later(d, n + j + 1))
      BY <2>3
    <3>2. top.id = 1 /\ top.time = e
      BY DEF Command
    <3> HIDE DEF top
    <3> QED
      BY <2>2, <3>1, <3>2, FoundNow
  <2>5. TopIn(body, d, top)
    <3>1. /\ Height(body, d, n) < Height(body, d, n + Sample)
          /\ Height(body, d, n + 2 * Sample) < Height(body, d, n + Sample)
      BY <2>1 DEF Apart
    <3>2. PeakAt(body, d, n + j) \/ j >= 2 * Sample
      BY <1>1, <2>2, <2>3
    <3>3. TopSought(body, d, n, j)
      <4> HIDE DEF n, j, d
      <4> QED
        BY <2>1, <2>2, <3>1, <3>2 DEF TopSought
    <3>4. IsTop(body, d, e)
      <4>1. d \in CalendarDates
        BY <1>2
      <4> HIDE DEF n, j, e, d
      <4> QED
        BY <2>1, <2>2, <2>3, <3>3, <4>1, TopFound
    <3> HIDE DEF top
    <3> QED
      BY <2>4, <3>4 DEF TopIn
  <2>6. /\ DOMAIN result = 1..3 /\ ZENITH \in 1..3
        /\ \A k \in 1..3 : result[k] = IF k = ZENITH THEN top ELSE found[k]
    <3> HIDE DEF top
    <3> QED
      BY <2>1 DEF ZENITH
  <2> HIDE DEF result, top
  <2> QED
    BY <2>1, <2>4, <2>5, <2>6
<1> HIDE DEF result
<1> QED
  BY <1>1, <1>2, RoundStep

(* The search for the setting begins where the body rises.                 *)
LEMMA TraceStopStep == ASSUME DatesInv, TraceStop PROVE DatesInv'
<1> DEFINE d == found[ABOVE].time
<1>1. search = "done" /\ goal = "trace_start" /\ StartSearch("trace_stop", d) /\ UNCHANGED traceVars
  BY DEF TraceStop
<1>2. points = <<>> /\ trace_hours = 0 /\ start_date \in CalendarDates
  BY <1>1 DEF DatesInv
<1>3. FoundIn(body, start_date, found[ABOVE])
  BY <1>2 DEF DatesInv, Finding, ABOVE
<1>4. d \in CalendarDates \cup {NoDate}
  <2>1. CASE found[ABOVE] = NotFound
    BY <2>1 DEF NotFound
  <2>2. CASE found[ABOVE] # NotFound
    <3>1. PICK n \in 1..SearchTime :
            found[ABOVE] = Command(Height(body, start_date, n), Later(start_date, n))
      BY <1>3, <2>2 DEF FoundIn
    <3>2. n \in Nat /\ d = Later(start_date, n)
      <4>1. SearchTime \in Nat
        BY SearchTypes, RoundMinutes
      <4> QED
        BY <3>1, <4>1 DEF Command
    <3> QED
      BY <1>2, <3>2, LaterIsDate
  <2> QED
    BY <2>1, <2>2
<1> HIDE DEF d
<1> QED
  BY <1>1, <1>2, <1>4, SearchStarts

(* The trace begins, and is no longer than the search.                     *)
LEMMA TraceStartStep == ASSUME DatesInv, start_trace PROVE DatesInv'
<1> DEFINE hours == calculate_hour_difference(start_date, found[BELOW].time)
<1>1. /\ search = "done" /\ goal = "trace_stop" /\ search' \in {"ended", "tracing"}
      /\ IF hours <= 0 THEN search' = "ended" /\ UNCHANGED <<trace_date, trace_hours>>
         ELSE search' = "tracing" /\ trace_date' = start_date /\ trace_hours' = hours
      /\ UNCHANGED <<body, goal, start_date, dates, altitudes, rounds, found, points>>
  BY DEF start_trace
<1>2. points = <<>> /\ trace_hours = 0
  BY <1>1 DEF DatesInv
<1>3. ASSUME start_date \in CalendarDates
      PROVE  Sampling' /\ Refining' /\ Finding' /\ Tracing'
  <2>1. Sampling' /\ Refining'
    BY <1>1 DEF Sampling, Refining
  <2>2. Finding
    BY <1>3 DEF DatesInv
  <2>3. Finding'
    BY <1>1, <2>2 DEF Finding
  <2>4. SearchTime \in Nat /\ SearchTime < 40320 /\ 60 * 0 = 0
    BY SearchTypes, RoundMinutes
  <2>5. ASSUME found'[BELOW].id = 1
        PROVE  trace_hours' \in Int /\ 60 * trace_hours' <= SearchTime
    <3>1. FoundIn(body, start_date, found[BELOW]) /\ found[BELOW].id = 1
      BY <1>1, <2>2, <2>5 DEF Finding, BELOW
    <3>2. PICK n \in 1..SearchTime :
            found[BELOW] = Command(Height(body, start_date, n), Later(start_date, n))
      BY <3>1 DEF FoundIn, NotFound
    <3>3. n \in Nat /\ n <= SearchTime /\ n < 40320 /\ n \in Int
      BY SMT, <2>4, <3>2
    <3>4. found[BELOW].time = Later(start_date, n)
      BY <3>2 DEF Command
    <3>5. hours = calculate_hour_difference(start_date, Later(start_date, n))
      BY <3>4
    <3> HIDE DEF hours
    <3>6. hours \in Int /\ (hours > 0 => 60 * hours <= n)
      <4>1. n < MonthMinutes(start_date)
        BY <1>3, <3>3, MonthIsLonger
      <4> QED
        BY <1>3, <3>3, <3>5, <4>1, HoursBetween
    <3>7. CASE hours <= 0
      BY <1>1, <1>2, <2>4, <3>7
    <3>8. CASE ~(hours <= 0)
      <4>1. trace_hours' = hours /\ hours > 0
        BY <1>1, <3>6, <3>8
      <4> QED
        BY SMT, <2>4, <3>3, <3>6, <4>1
    <3> QED
      BY <3>7, <3>8
  <2>6. Tracing'
    <3>1. <<>> \in Seq(Points) /\ Len(<<>>) = 0
      OBVIOUS
    <3>2. points' \in Seq(Points) /\ Len(points') = 0 /\ 0 <= MaxPoints
      BY <1>1, <1>2, <3>1, SearchTypes
    <3>3. \A i \in 1..Len(points') : FALSE
      BY <3>2
    <3>4. search' = "tracing" => trace_date' = Later(start_date', 60 * Len(points'))
      <4>1. search' = "tracing" => trace_date' = start_date
        <5> HIDE DEF hours
        <5> QED
          BY <1>1
      <4>2. 0 \in Nat
        OBVIOUS
      <4>3. Later(start_date, 0) = start_date
        BY <1>3, <4>2, LaterAdds
      <4>4. 60 * Len(points') = 0
        BY <2>4, <3>2
      <4> QED
        BY <1>1, <4>1, <4>3, <4>4
    <3> HIDE DEF hours
    <3> QED
      BY <2>5, <3>2, <3>3, <3>4 DEF Tracing, Points
  <2> QED
    BY <2>1, <2>3, <2>6
<1>4. search' = "tracing" => trace_date' = start_date
  <2> HIDE DEF hours
  <2> QED
    BY <1>1
<1>5. search' \notin {"idle", "sample", "refine", "done"}
  BY <1>1
<1>6. UNCHANGED <<body, goal, start_date, points>>
  BY <1>1
<1> HIDE DEF hours
<1> QED
  BY <1>2, <1>3, <1>4, <1>5, <1>6 DEF DatesInv

(* The next point of a trace, an hour after the last.                      *)
LEMMA NextTraceStep == ASSUME DatesInv, next_trace PROVE DatesInv'
<1> DEFINE ends == trace_hours <= 0 \/ trace_date.year = -1
           point == Command(get_coordinates(trace_date), trace_date)
           d == start_date
           l == Len(points)
<1>1. /\ search = "tracing" /\ l < MaxPoints
      /\ IF ends THEN search' = "ended" /\ UNCHANGED points
         ELSE points' = Append(points, point) /\ UNCHANGED search
      /\ IF trace_hours <= 0 THEN UNCHANGED <<trace_date, trace_hours>>
         ELSE /\ trace_date' = datetime_increment_hour(trace_date)
              /\ trace_hours' = trace_hours - 1
      /\ UNCHANGED <<body, goal, start_date, dates, altitudes, rounds, found>>
  BY DEF next_trace
<1>2. search' \in {"ended", "tracing"}
  <2> HIDE DEF ends, point, l
  <2> QED
    BY <1>1
<1>3. ASSUME d = NoDate
      PROVE  points' = <<>> /\ search' = "ended"
  <2>1. points = <<>> /\ trace_date = NoDate
    BY <1>1, <1>3 DEF DatesInv
  <2>2. ends
    BY <2>1 DEF NoDate
  <2> HIDE DEF ends, point, l
  <2> QED
    BY <1>1, <2>1, <2>2
<1>4. ASSUME d \in CalendarDates
      PROVE  Sampling' /\ Refining' /\ Finding' /\ Tracing'
  <2>1. Sampling' /\ Refining'
    BY <1>2 DEF Sampling, Refining
  <2>2. Finding /\ Tracing /\ body \in Bodies
    BY <1>4 DEF DatesInv
  <2>3. Finding'
    BY <1>1, <2>2 DEF Finding
  <2>4. /\ points \in Seq(Points) /\ l \in Nat /\ MaxPoints \in Nat
        /\ trace_date = Later(d, 60 * l) /\ 60 * l \in Nat
        /\ 60 * (l + 1) = 60 * l + 60 /\ l + 1 \in Nat /\ 60 \in Nat
    <3>1. points \in Seq(Points) /\ trace_date = Later(d, 60 * l)
      BY <1>1, <2>2 DEF Tracing
    <3>2. l \in Nat /\ MaxPoints \in Nat
      BY <3>1, SearchTypes
    <3> HIDE DEF l
    <3> QED
      BY <3>1, <3>2
  <2>5. point = Command(Height(body, d, 60 * l), Later(d, 60 * l)) /\ point \in Points
    <3> DEFINE e == Later(d, 60 * l)
    <3>1. e \in CalendarDates /\ trace_date = e
      BY <1>4, <2>4, LaterIsDate
    <3>2. get_coordinates(e) = Height(body, d, 60 * l)
      <4> HIDE DEF l
      <4>1. get_coordinates(e) = Wave(body, datetime_to_minutes(e))
        <5> HIDE DEF e
        <5> QED
          BY <3>1, CoordinatesAre
      <4> QED
        BY <4>1 DEF Height
    <3>3. Height(body, d, 60 * l) \in Int
      BY <1>4, <2>2, <2>4, HeightIs
    <3>4. point = Command(Height(body, d, 60 * l), e)
      BY <3>1, <3>2
    <3> HIDE DEF point, e
    <3>5. point \in Points
      BY <3>1, <3>3, <3>4 DEF Points, Command
    <3> QED
      BY <3>4, <3>5 DEF e
  <2>6. datetime_increment_hour(trace_date) = Later(d, 60 * (l + 1))
    <3>1. trace_date \in CalendarDates
      BY <1>4, <2>4, LaterIsDate
    <3>2. datetime_increment_hour(trace_date) = Later(trace_date, 60)
      BY <3>1, HourLater
    <3>3. Later(Later(d, 60 * l), 60) = Later(d, 60 * l + 60)
      <4> HIDE DEF l
      <4> QED
        BY <1>4, <2>4, LaterAdds
    <3> QED
      BY <2>4, <3>2, <3>3
  <2>7. ~ends => ~(trace_hours <= 0)
    OBVIOUS
  <2>8. found'[BELOW].id = 1 => trace_hours' \in Int /\ 60 * trace_hours' <= SearchTime
    <3>1. found[BELOW].id = 1 => trace_hours \in Int /\ 60 * trace_hours <= SearchTime
      BY <2>2 DEF Tracing
    <3>2. SearchTime \in Nat
      BY SearchTypes, RoundMinutes
    <3>3. trace_hours' = trace_hours \/ trace_hours' = trace_hours - 1
      <4> HIDE DEF ends, point, l
      <4> QED
        BY <1>1
    <3>4. found' = found
      BY <1>1
    <3> QED
      BY <3>1, <3>2, <3>3, <3>4
  <2>9. \A i \in 1..l : points[i] = Command(Height(body, d, 60 * (i - 1)), Later(d, 60 * (i - 1)))
    BY <2>2 DEF Tracing
  <2>10. body' = body /\ start_date' = d
    BY <1>1
  <2>11. CASE ends
    <3>1. search' = "ended" /\ points' = points
      BY <1>1, <2>11
    <3>2. Len(points) <= MaxPoints
      BY <2>2 DEF Tracing
    <3>3. \A i \in 1..Len(points') :
            points'[i] = Command(Height(body', start_date', 60 * (i - 1)),
                                 Later(start_date', 60 * (i - 1)))
      BY <2>9, <2>10, <3>1
    <3>4. /\ points' \in Seq(Points) /\ Len(points') <= MaxPoints
          /\ search' = "tracing" => trace_date' = Later(start_date', 60 * Len(points'))
      BY <2>4, <3>1, <3>2
    <3> HIDE DEF ends, point, l
    <3> QED
      BY <2>1, <2>3, <2>8, <3>3, <3>4 DEF Tracing
  <2>12. CASE ~ends
    <3> HIDE DEF ends, point
    <3>1. points' = Append(points, point) /\ trace_date' = Later(d, 60 * (l + 1))
      BY <1>1, <2>6, <2>7, <2>12
    <3>2. /\ points' \in Seq(Points) /\ Len(points') = l + 1
          /\ \A i \in 1..l + 1 : points'[i] = IF i = l + 1 THEN point ELSE points[i]
      <4> HIDE DEF Points
      <4> QED
        BY <2>4, <2>5, <3>1
    <3>3. l + 1 <= MaxPoints /\ (l + 1) - 1 = l
      <4> HIDE DEF l
      <4> QED
        BY <1>1, <2>4
    <3> HIDE DEF l
    <3>4. \A i \in 1..l + 1 :
            points'[i] = Command(Height(body, d, 60 * (i - 1)), Later(d, 60 * (i - 1)))
      <4> TAKE i \in 1..l + 1
      <4>1. i \in 1..l \/ i = l + 1
        BY <2>4
      <4>2. CASE i = l + 1
        BY <2>5, <3>2, <3>3, <4>2
      <4>3. CASE i # l + 1
        BY <2>9, <3>2, <4>1, <4>3
      <4> QED
        BY <4>2, <4>3
    <3>5. \A i \in 1..Len(points') :
            points'[i] = Command(Height(body', start_date', 60 * (i - 1)),
                                 Later(start_date', 60 * (i - 1)))
      BY <2>10, <3>2, <3>4
    <3>6. /\ points' \in Seq(Points) /\ Len(points') <= MaxPoints
          /\ search' = "tracing" => trace_date' = Later(start_date', 60 * Len(points'))
      BY <2>10, <3>1, <3>2, <3>3
    <3> QED
      BY <2>1, <2>3, <2>8, <3>5, <3>6 DEF Tracing
  <2> QED
    BY <2>11, <2>12
<1>5. body' = body /\ goal' = goal /\ start_date' = d
  BY <1>1
<1> HIDE DEF ends, point, l
<1> QED
  BY <1>2, <1>3, <1>4, <1>5 DEF DatesInv

(* The search begins with a body and a time of the clock.                  *)
LEMMA DatesInit == SkyInit => DatesInv
<1> SUFFICES ASSUME SkyInit PROVE DatesInv
  OBVIOUS
<1>1. /\ body \in Bodies /\ start_date \in CalendarDates /\ goal = "none" /\ search = "idle"
      /\ found = <<NotFound, NotFound, NotFound>> /\ points = <<>> /\ trace_hours = 0
  BY ClockAssumption DEF SkyInit
<1>2. Sampling /\ Refining
  BY <1>1 DEF Sampling, Refining
<1>3. Finding
  BY <1>1, NothingFound DEF Finding
<1>4. Tracing
  <2>1. <<>> \in Seq(Points) /\ Len(<<>>) = 0
    OBVIOUS
  <2>2. points \in Seq(Points) /\ Len(points) = 0 /\ 0 <= MaxPoints /\ search # "tracing"
    BY <1>1, <2>1, SearchTypes
  <2>3. \A n \in 1..Len(points) : FALSE
    BY <2>2
  <2>4. found[BELOW].id = 0
    BY <1>1 DEF BELOW, NotFound
  <2> QED
    BY <2>2, <2>3, <2>4 DEF Tracing, Points
<1>5. start_date # NoDate
  BY <1>1 DEF CalendarDates, NoDate
<1> QED
  BY <1>1, <1>2, <1>3, <1>4, <1>5 DEF DatesInv

(* Every step of the planet finder.                                        *)
LEMMA DatesStep == DatesInv /\ [SkyNext]_skyVars => DatesInv'
<1> SUFFICES ASSUME DatesInv, [SkyNext]_skyVars PROVE DatesInv'
  OBVIOUS
<1>1. ASSUME search = "idle"
      PROVE  points = <<>> /\ trace_hours = 0 /\ start_date \in CalendarDates
  BY <1>1 DEF DatesInv
<1>2. CASE Instruction
  <2>1. StartSearch("instruction", start_date) /\ UNCHANGED traceVars /\ search = "idle"
    BY <1>2 DEF Instruction
  <2> QED
    BY <1>1, <2>1, SearchStarts
<1>3. CASE TraceStart
  <2>1. StartSearch("trace_start", start_date) /\ UNCHANGED traceVars /\ search = "idle"
    BY <1>3 DEF TraceStart
  <2> QED
    BY <1>1, <2>1, SearchStarts
<1>4. CASE TraceStop
  BY <1>4, TraceStopStep
<1>5. CASE Sampled
  BY <1>5, SampledStep
<1>6. CASE StartRefinement
  BY <1>6, RefinementStarts
<1>7. CASE Refine
  BY <1>7, RefineStep
<1>8. CASE Refined
  BY <1>8, RefinedStep
<1>9. CASE start_trace
  BY <1>9, TraceStartStep
<1>10. CASE next_trace
  BY <1>10, NextTraceStep
<1>11. CASE UNCHANGED skyVars
  <2>1. UNCHANGED <<body, goal, search, start_date, dates, altitudes, rounds, found, iter_dates,
                    iter_altitudes, refinements, trace_date, trace_hours, points>>
    BY <1>11 DEF skyVars, iterVars, traceVars
  <2> QED
    BY <2>1 DEF DatesInv, Sampling, Refining, Finding, Tracing
<1> QED
  BY <1>2, <1>3, <1>4, <1>5, <1>6, <1>7, <1>8, <1>9, <1>10, <1>11 DEF SkyNext

(* A later date as the properties see it.                                  *)
LEMMA LaterIsFound ==
  ASSUME NEW d \in CalendarDates, NEW n \in Nat, n < 40320, NEW e, e = Later(d, n)
  PROVE  IsDate(e) /\ Elapsed(d, e) = n /\ Height(body, d, n) = Altitude(datetime_to_minutes(e))
<1>1. n \in Int /\ n < MonthMinutes(d)
  BY MonthIsLonger
<1>2. e \in CalendarDates /\ Elapsed(d, e) = n
  BY <1>1, LaterIsDate, ElapsedLater
<1>3. IsDate(e)
  <2>1. e.day \in 1..31 /\ e.day <= DaysIn(e.year, e.month) /\ DaysIn(e.year, e.month) \in 28..31
        /\ e.month \in 1..12 /\ e.hour \in 0..23 /\ e.min \in 0..59
    BY <1>2, DateFields
  <2> QED
    BY <2>1 DEF IsDate
<1>4. Height(body, d, n) = Altitude(datetime_to_minutes(e))
  <2>1. Height(body, d, n) = Wave(body, datetime_to_minutes(e))
    BY DEF Height
  <2> QED
    BY <2>1, CoordinatesAre
<1> QED
  BY <1>2, <1>3, <1>4

(* The invariant is enough for both properties.                            *)
LEMMA DatesInvSuffices == DatesInv => FoundDates /\ ZenithIsTop
<1> SUFFICES ASSUME DatesInv, IsDate(start_date) PROVE FoundDates /\ ZenithIsTop
  BY DEF FoundDates, ZenithIsTop
<1> DEFINE d == start_date
<1>1. d \in CalendarDates
  BY DEF DatesInv, IsDate, NoDate
<1>2. Finding /\ Tracing
  BY <1>1 DEF DatesInv
<1>3. SearchTime \in Nat /\ SearchTime < 40320
  BY SearchTypes, RoundMinutes
<1>4. ASSUME NEW k \in 1..3, found[k].id = 1
      PROVE  /\ IsDate(found[k].time)
             /\ Elapsed(d, found[k].time) \in 1..SearchTime
             /\ found[k].altitude = Altitude(datetime_to_minutes(found[k].time))
  <2>1. FoundIn(body, d, found[k])
    BY <1>2 DEF Finding
  <2>2. PICK n \in 1..SearchTime : found[k] = Command(Height(body, d, n), Later(d, n))
    BY <1>4, <2>1 DEF FoundIn, NotFound
  <2>3. found[k].time = Later(d, n) /\ found[k].altitude = Height(body, d, n)
    BY <2>2 DEF Command
  <2>4. n \in Nat /\ n < 40320
    BY SMT, <1>3
  <2> HIDE DEF d
  <2> QED
    BY <1>1, <2>3, <2>4, LaterIsFound
<1>5. found[BELOW].id = 1 => 60 * trace_hours <= SearchTime
  BY <1>2 DEF Tracing
<1>6. ASSUME NEW n \in DOMAIN points
      PROVE  /\ IsDate(points[n].time)
             /\ Elapsed(d, points[n].time) = 60 * (n - 1)
             /\ points[n].altitude = Altitude(datetime_to_minutes(points[n].time))
  <2>1. points \in Seq(Points) /\ Len(points) <= MaxPoints
    BY <1>2 DEF Tracing
  <2>2. n \in 1..Len(points) /\ Len(points) \in Nat
    <3> HIDE DEF d
    <3> QED
      BY <2>1
  <2>3. points[n] = Command(Height(body, d, 60 * (n - 1)), Later(d, 60 * (n - 1)))
    BY <1>2, <2>2 DEF Tracing
  <2> DEFINE m == 60 * (n - 1)
  <2>4. m \in Nat /\ m < 40320
    <3>1. MaxPoints \in Nat /\ 60 * MaxPoints <= 40320
      BY SearchTypes
    <3>2. n \in Int /\ 1 <= n /\ n <= MaxPoints
      BY <2>1, <2>2, <3>1
    <3> QED
      BY SMT, <3>1, <3>2
  <2>5. points[n].time = Later(d, m) /\ points[n].altitude = Height(body, d, m)
    BY <2>3 DEF Command
  <2> HIDE DEF d, m
  <2>6. /\ IsDate(points[n].time) /\ Elapsed(d, points[n].time) = m
        /\ points[n].altitude = Altitude(datetime_to_minutes(points[n].time))
    BY <1>1, <2>4, <2>5, LaterIsFound
  <2> QED
    BY <2>6 DEF m
<1>7. FoundDates
  BY <1>4, <1>5, <1>6 DEF FoundDates
<1>8. ZenithIsTop
  <2>1. TopIn(body, d, found[ZENITH])
    BY <1>2 DEF Finding
  <2>2. \A m : Wave(body, m) = Altitude(m)
    BY CoordinatesAre
  <2> QED
    BY <2>1, <2>2 DEF ZenithIsTop, TopIn, IsTop
<1> QED
  BY <1>7, <1>8

(* The planet finder alone.                                                *)
SkySpec == SkyInit /\ [][SkyNext]_skyVars

(* It holds in every state.                                                *)
LEMMA DatesInvAlways == SkySpec => []DatesInv
BY DatesInit, DatesStep, PTL DEF SkySpec

(* The times an instruction or a trace is given are dates of the calendar, *)
(* in order and within the search, and the coordinates are theirs.         *)
THEOREM FoundDatesAlways == SkySpec => []FoundDates
BY DatesInvAlways, DatesInvSuffices, PTL

(* The zenith is found to the minute.                                      *)
THEOREM ZenithIsTopAlways == SkySpec => []ZenithIsTop
BY DatesInvAlways, DatesInvSuffices, PTL

----------------------------------------------------------------------------
(***************************************************************************)
(* The types of all five parts, in one specification that switches one of  *)
(* them on (MCServices).                                                   *)
(***************************************************************************)

(* Commands are numbered from 1 without going past those the budget        *)
(* allowed.                                                                *)
NumbersOK ==
  \E n \in Nat : CommandIds \subseteq 1..n /\ 1..(n + left.commands) \subseteq Ids

(* So it is before the first command.                                      *)
LEMMA NumbersInitially == WebInit => NumbersOK
<1> SUFFICES ASSUME WebInit PROVE NumbersOK
  OBVIOUS
<1>1. left \in Budgets /\ left.commands \in Nat /\ CommandIds = {}
  BY BudgetsAssumption DEF WebInit, CommandIds
<1>2. 1..(0 + left.commands) \subseteq Ids
  BY <1>1, IdsAssumption
<1> QED
  BY <1>1, <1>2 DEF NumbersOK

(* A new command has the next number, and nothing else adds one.           *)
LEMMA NumbersStep == RowsOK /\ NumbersOK /\ [WebNext]_webVars => NumbersOK'
<1> SUFFICES ASSUME RowsOK, NumbersOK, [WebNext]_webVars PROVE NumbersOK'
  OBVIOUS
<1>a. left \in Allowance
  BY DEF RowsOK
<1>1. PICK n \in Nat : CommandIds \subseteq 1..n /\ 1..(n + left.commands) \subseteq Ids
  BY DEF NumbersOK
<1>2. CASE CommandIds' \subseteq CommandIds /\ left'.commands = left.commands
  BY <1>1, <1>2 DEF NumbersOK
<1>3. CASE new_command
  <2>1. Spend("commands") /\ CommandIds' = CommandIds \cup {NextId(commands)}
    BY <1>3, NextIdIsFree DEF new_command, Put, CommandIds
  <2>2. left'.commands = left.commands - 1 /\ left.commands \in Nat
    BY <1>a, <2>1, SpendKeeps DEF Allowance
  <2>3. NextId(commands) \in 1..n + 1
    <3>1. CASE CommandIds = {}
      BY <3>1 DEF NextId, CommandIds
    <3>2. CASE CommandIds # {}
      <4> DEFINE m == Max(CommandIds)
      <4>1. m \in CommandIds
        BY <1>1, <3>2, MaxInUse
      <4>2. NextId(commands) = m + 1
        BY <3>2 DEF NextId, CommandIds
      <4> HIDE DEF m
      <4>3. m \in 1..n
        BY <1>1, <4>1
      <4> QED
        BY <4>2, <4>3
    <3> QED
      BY <3>1, <3>2
  <2>4. n + 1 \in Nat /\ (n + 1) + left'.commands = n + left.commands
    BY <2>2
  <2>5. CommandIds' \subseteq 1..(n + 1)
    <3> DEFINE next == NextId(commands)
    <3>1. CommandIds' = CommandIds \cup {next} /\ next \in 1..n + 1 /\ CommandIds \subseteq 1..n
      BY <1>1, <2>1, <2>3
    <3> HIDE DEF next
    <3>2. 1..n \subseteq 1..(n + 1)
      OBVIOUS
    <3> QED
      BY <3>1, <3>2
  <2>6. 1..((n + 1) + left'.commands) \subseteq Ids
    BY <1>1, <2>4
  <2> QED
    BY <2>4, <2>5, <2>6 DEF NumbersOK
<1>4. \/ new_command
      \/ CommandIds' \subseteq CommandIds /\ left'.commands = left.commands
  <2>1. CASE UNCHANGED webVars
    BY <2>1 DEF webVars, CommandIds
  <2>2. ASSUME NEW r \in Devices, DeviceRequest(r)
        PROVE  CommandIds' = CommandIds /\ left'.commands = left.commands
    <3>1. CASE FetchReads(r) \/ RespondChecks(r) \/ UploadVerifies(r) \/ send_diagnostics(r)
      <4>1. Spend("requests") /\ UNCHANGED commands
        BY <3>1 DEF FetchReads, RespondChecks, UploadVerifies, send_diagnostics, Receive
      <4> QED
        BY <4>1, <1>a, SpendKeeps DEF CommandIds
    <3>2. CASE FetchMarks(r) \/ RespondWrites(r) \/ UploadMarks(r)
      <4>1. /\ UNCHANGED left
            /\ \E outcome : modify_command_status(requests[r].id, outcome)
        BY <3>2 DEF FetchMarks, RespondWrites, UploadMarks
      <4> QED
        BY <4>1 DEF modify_command_status, CommandIds
    <3>3. CASE update_command_est_time(r)
      BY <3>3 DEF update_command_est_time, CommandIds
    <3>4. CASE UploadWritesFile(r) \/ register_image(r) \/ new_diagnostic(r)
      BY <3>4 DEF UploadWritesFile, register_image, new_diagnostic, CommandIds
    <3> QED
      BY <2>2, <3>1, <3>2, <3>3, <3>4 DEF DeviceRequest
  <2>3. ASSUME NEW r \in Pages, delete_commands_by_key(r) \/ delete_key(r)
        PROVE  CommandIds' \subseteq CommandIds /\ left'.commands = left.commands
    BY <2>3 DEF delete_commands_by_key, delete_key, Delete, CommandIds
  <2>4. CASE new_key \/ Restart
    <3>1. (Spend("keys") \/ Spend("restarts")) /\ UNCHANGED commands
      BY <2>4 DEF new_key, Restart
    <3> QED
      BY <3>1, <1>a, SpendKeeps DEF CommandIds
  <2>5. CASE remove_command
    BY <2>5 DEF remove_command, modify_command_status, CommandIds
  <2> QED
    BY <2>1, <2>2, <2>3, <2>4, <2>5 DEF WebNext
<1> QED
  BY <1>2, <1>3, <1>4

(* Rows in order are of their types.                                       *)
LEMMA RowsTyped == RowsOK /\ NumbersOK => WebTypeOK
<1> SUFFICES ASSUME RowsOK, NumbersOK PROVE WebTypeOK
  OBVIOUS
<1>1. CommandIds \subseteq Ids
  <2>1. left.commands \in Nat
    BY DEF RowsOK, Allowance
  <2> QED
    BY <2>1 DEF NumbersOK
<1>2. \A id \in CommandIds : commands[id].key \in KeyIds /\ commands[id].status \in -6..3
  BY DEF RowsOK, CommandRow
<1> QED
  BY <1>1, <1>2 DEF WebTypeOK, RowsOK

----------------------------------------------------------------------------
(* The accounts: who will own a new one is known when the page is served.  *)
UsersInv ==
  /\ DOMAIN pages = People /\ UsersTypeOK
  /\ \A p \in People : pages[p].op = "add" => pages[p].owner \in People

(* So it is before the first setup.                                        *)
LEMMA UsersInitially == UsersInit => UsersInv
BY BoundsAssumption DEF UsersInit, UsersInv, UsersTypeOK, NoPage, UserIds

(* Every statement keeps it.                                               *)
LEMMA UsersStep == UsersInv /\ [UsersNext]_userVars => UsersInv'
<1> SUFFICES ASSUME UsersInv, [UsersNext]_userVars PROVE UsersInv'
  OBVIOUS
<1> USE DEF UsersInv
<1>1. CASE UNCHANGED userVars
  BY <1>1 DEF userVars, UsersTypeOK, UserIds
<1>2. CASE OpenDatabase \/ create_user_table
  BY <1>2 DEF OpenDatabase, create_user_table, UsersTypeOK, UserIds
<1>3. CASE create_admin
  BY <1>3, AdministratorAssumption, BoundsAssumption
  DEF create_admin, Hashing, UsersTypeOK, UserIds
<1>4. CASE RestartServer
  BY <1>4, BoundsAssumption DEF RestartServer, UsersTypeOK, UserIds, NoPage
<1>5. ASSUME NEW p \in People,
             \/ authenticate(p) \/ login(p) \/ logout(p) \/ SessionRefused(p)
             \/ new_user(p) \/ remove_user(p) \/ modify_user(p)
             \/ add_user(p) \/ delete_user(p) \/ change_username(p) \/ change_password(p)
      PROVE  UsersInv'
  <2>1. CASE authenticate(p) \/ login(p) \/ logout(p) \/ SessionRefused(p)
    BY <2>1 DEF authenticate, login, logout, SessionRefused, NoPage, UsersTypeOK, UserIds
  <2>2. CASE new_user(p)
    BY <2>2 DEF new_user, Request, UsersTypeOK, UserIds
  <2>3. CASE remove_user(p) \/ modify_user(p)
    <3>1. PICK request : pages' = [pages EXCEPT ![p] = request] /\ request.op # "add"
      <4>1. CASE remove_user(p)
        <5>1. PICK id \in UserIds : Request(p, [op |-> "remove", id |-> id])
          BY <4>1 DEF remove_user
        <5> DEFINE request == [op |-> "remove", id |-> id]
        <5>2. request.op # "add" /\ pages' = [pages EXCEPT ![p] = request]
          BY <5>1 DEF Request
        <5> QED
          BY <5>2
      <4>2. CASE modify_user(p)
        <5>1. PICK id \in UserIds, name \in Names \cup {""}, newPassword \in BOOLEAN :
                Request(p, [op |-> IF name # "" THEN "rename" ELSE "repass", id |-> id,
                            username |-> name, newPassword |-> newPassword,
                            by |-> Informed(p, id)])
          BY <4>2 DEF modify_user
        <5> DEFINE request == [op |-> IF name # "" THEN "rename" ELSE "repass", id |-> id,
                               username |-> name, newPassword |-> newPassword,
                               by |-> Informed(p, id)]
        <5>2. request.op # "add"
          OBVIOUS
        <5>3. pages' = [pages EXCEPT ![p] = request]
          BY <5>1 DEF Request
        <5> QED
          BY <5>2, <5>3
      <4> QED
        BY <2>3, <4>1, <4>2
    <3>2. UNCHANGED <<database, server, users, passwords_left, restarts_left>>
      BY <2>3 DEF remove_user, modify_user, Request
    <3> QED
      BY <3>1, <3>2 DEF UsersTypeOK, UserIds
  <2>4. CASE add_user(p)
    <3>1. pages[p].owner \in People
      BY <2>4 DEF add_user, ServedAt
    <3>2. /\ DOMAIN pages' = People
          /\ \A q \in People : pages'[q].op = "add" => pages'[q].owner \in People
      BY <2>4 DEF add_user, Answered, NoPage
    <3>3. CASE UNCHANGED <<users, passwords_left>>
      BY <2>4, <3>2, <3>3 DEF add_user, UsersTypeOK, UserIds
    <3>4. CASE Hashing /\ \E row : row.owner = pages[p].owner /\ users' = WithUser(row)
      <4>1. PICK row : row.owner = pages[p].owner /\ users' = WithUser(row)
        BY <3>4
      <4>2. \A u \in UserIds' : users'[u].owner \in People
        BY <3>1, <4>1 DEF WithUser, UserIds, UsersTypeOK
      <4> QED
        BY <2>4, <3>2, <3>4, <4>2, BoundsAssumption DEF add_user, Hashing, UsersTypeOK
    <3> QED
      BY <2>4, <3>3, <3>4 DEF add_user
  <2>5. CASE delete_user(p)
    BY <2>5 DEF delete_user, Answered, NoPage, UsersTypeOK, UserIds
  <2>6. CASE change_username(p)
    <3>1. /\ DOMAIN pages' = People
          /\ \A q \in People : pages'[q].op = "add" => pages'[q].owner \in People
      BY <2>6 DEF change_username, NoPage, ServedAt
    <3>2. \A u \in UserIds' : users'[u].owner \in People
      BY <2>6 DEF change_username, UserIds, UsersTypeOK
    <3> QED
      BY <2>6, <3>1, <3>2 DEF change_username, UsersTypeOK
  <2>7. CASE change_password(p)
    <3>1. \A u \in UserIds' : users'[u].owner \in People
      BY <2>7 DEF change_password, UserIds, UsersTypeOK
    <3> QED
      BY <2>7, <3>1, BoundsAssumption
      DEF change_password, Answered, NoPage, Hashing, UsersTypeOK
  <2> QED
    BY <1>5, <2>1, <2>2, <2>3, <2>4, <2>5, <2>6, <2>7
<1> QED
  BY <1>1, <1>2, <1>3, <1>4, <1>5 DEF UsersNext

----------------------------------------------------------------------------
(* The search: while it goes on there are rounds left.                     *)
SkyInv ==
  /\ SkyTypeOK
  /\ DOMAIN found = 1..3
  /\ search \in {"sample", "refine"} => rounds <= MaxRounds

(* So it is before the search.                                             *)
LEMMA SkyInitially == SkyInit => SkyInv
<1> SUFFICES ASSUME SkyInit PROVE SkyInv
  OBVIOUS
<1>1. DOMAIN found = 1..3 /\ \A k \in 1..3 : found[k].id = 0
  BY DEF SkyInit, NotFound
<1> QED
  BY <1>1, RoundsAssumption DEF SkyInit, SkyInv, SkyTypeOK

(* The end of a round keeps it.                                            *)
LEMMA RoundEnds ==
  ASSUME SkyInv, search \in {"sample", "refine"}, NEW result, NextRound(result),
         DOMAIN result = 1..3, \A k \in 1..3 : result[k].id \in {0, 1},
         refinements' \in 0..MaxRefinements
  PROVE  SkyInv'
<1>1. /\ rounds' = rounds + 1 /\ found' = result
      /\ search' \in {"done", "sample"} /\ (search' = "sample" => rounds + 1 <= MaxRounds)
  BY RoundsAssumption DEF NextRound, SkyInv, SkyTypeOK
<1>2. rounds \in 0..MaxRounds
  BY RoundsAssumption DEF SkyInv, SkyTypeOK
<1> QED
  BY <1>1, <1>2, RoundsAssumption DEF SkyInv, SkyTypeOK

(* Every round and every step of a trace keep it.                          *)
LEMMA SkyStep == SkyInv /\ [SkyNext]_skyVars => SkyInv'
<1> SUFFICES ASSUME SkyInv, [SkyNext]_skyVars PROVE SkyInv'
  OBVIOUS
<1>1. CASE UNCHANGED skyVars
  BY <1>1 DEF skyVars, iterVars, SkyInv, SkyTypeOK
<1>2. CASE Instruction \/ TraceStart \/ TraceStop
  <2>1. PICK purpose, date : StartSearch(purpose, date)
    BY <1>2 DEF Instruction, TraceStart, TraceStop
  <2>2. DOMAIN found' = 1..3 /\ \A k \in 1..3 : found'[k].id = 0
    BY <2>1 DEF StartSearch, NotFound
  <2> QED
    BY <2>1, <2>2, RoundsAssumption DEF StartSearch, iterVars, SkyInv, SkyTypeOK
<1>3. CASE Sampled
  <2> DEFINE here == Command(altitudes[2], dates[2])
  <2>1. PICK k \in 1..3 : NextRound(found) \/ NextRound([found EXCEPT ![k] = here])
    BY <1>3 DEF Sampled, ABOVE, BELOW
  <2>2. here.id = 1
    BY DEF Command
  <2> HIDE DEF here
  <2>3. PICK result : /\ NextRound(result) /\ DOMAIN result = 1..3
                      /\ \A j \in 1..3 : result[j].id \in {0, 1}
    <3>1. /\ DOMAIN found = 1..3 /\ \A j \in 1..3 : found[j].id \in {0, 1}
          /\ DOMAIN [found EXCEPT ![k] = here] = 1..3
          /\ \A j \in 1..3 : [found EXCEPT ![k] = here][j].id \in {0, 1}
      BY <2>2 DEF SkyInv, SkyTypeOK
    <3> QED
      BY <2>1, <3>1
  <2>4. search = "sample" /\ refinements' \in 0..MaxRefinements
    BY <1>3 DEF Sampled, iterVars, SkyInv, SkyTypeOK
  <2> QED
    BY <2>3, <2>4, RoundEnds
<1>4. CASE StartRefinement
  BY <1>4, RoundsAssumption DEF StartRefinement, SkyInv, SkyTypeOK
<1>5. CASE Refine
  BY <1>5, RoundsAssumption DEF Refine, SkyInv, SkyTypeOK
<1>6. CASE Refined
  <2> DEFINE here == Command(iter_altitudes[2], iter_dates[2])
             result == [found EXCEPT ![ZENITH] = here]
  <2>1. NextRound(result)
    BY <1>6 DEF Refined
  <2>2. here.id = 1
    BY DEF Command
  <2> HIDE DEF here
  <2>3. DOMAIN result = 1..3 /\ \A j \in 1..3 : result[j].id \in {0, 1}
    BY <2>2 DEF SkyInv, SkyTypeOK, ZENITH
  <2> HIDE DEF result
  <2>4. search = "refine" /\ refinements' \in 0..MaxRefinements
    BY <1>6, RoundsAssumption DEF Refined
  <2> QED
    BY <2>1, <2>3, <2>4, RoundEnds
<1>7. CASE start_trace \/ next_trace
  BY <1>7 DEF start_trace, next_trace, iterVars, SkyInv, SkyTypeOK
<1> QED
  BY <1>1, <1>2, <1>3, <1>4, <1>5, <1>6, <1>7 DEF SkyNext

----------------------------------------------------------------------------
(* The GPS: the ring holds tokens, and a call that reads has reads left.   *)
GpsTokens == {"$GPRMC", "newline", "$GPGLL", "latitude", "longitude", "empty"}

GpsInv ==
  /\ GpsTypeOK
  /\ next_token \in 1..6 /\ gps_rx \in Seq(GpsTokens)
  /\ locating = "read" => reads_left > 0

(* What the receiver sends is one of them.                                 *)
LEMMA SentIsToken == next_token \in 1..6 => Sent \in GpsTokens
<1> SUFFICES ASSUME next_token \in 1..6 PROVE Sent \in GpsTokens
  OBVIOUS
<1>1. Cycle[next_token] \in GpsTokens
  BY DEF Cycle, GpsTokens
<1> QED
  BY <1>1 DEF Sent, GpsTokens

(* So it is when the Pico is switched on.                                  *)
LEMMA GpsInitially == GpsInit => GpsInv
<1> SUFFICES ASSUME GpsInit PROVE GpsInv
  OBVIOUS
<1>1. next_token \in 1..6
  BY DEF GpsInit, Cycle
<1>2. gps_rx = <<>> /\ <<>> \in Seq(GpsTokens) /\ Len(<<>>) = 0
  BY EmptySeq DEF GpsInit
<1> QED
  BY <1>1, <1>2, GpsAssumption DEF GpsInit, GpsInv, GpsTypeOK

(* Every step keeps it.                                                    *)
LEMMA GpsStep == GpsInv /\ [GpsNext]_gpsVars => GpsInv'
<1> SUFFICES ASSUME GpsInv, [GpsNext]_gpsVars PROVE GpsInv'
  OBVIOUS
<1> USE DEF GpsInv
<1>1. CASE UNCHANGED gpsVars
  BY <1>1 DEF gpsVars, receiverVars, locateVars, parseVars, GpsTypeOK
<1>2. CASE TokenArrives
  <2>1. next_token' \in 1..6
    <3>1. Len(Cycle) = 6
      BY DEF Cycle
    <3> QED
      BY <1>2, <3>1 DEF TokenArrives
  <2>2. gps_rx' \in Seq(GpsTokens) /\ Len(gps_rx') <= GpsRing
    <3> DEFINE t == Sent
    <3>1. t \in GpsTokens
      BY SentIsToken
    <3> HIDE DEF t
    <3>2. Append(gps_rx, t) \in Seq(GpsTokens) /\ Len(Append(gps_rx, t)) = Len(gps_rx) + 1
      BY <3>1, AppendProperties
    <3>3. Len(gps_rx) \in Nat /\ Len(gps_rx) <= GpsRing
      BY LenProperties DEF GpsTypeOK
    <3>4. (gps_rx' = Append(gps_rx, t) /\ Len(gps_rx) < GpsRing) \/ gps_rx' = gps_rx
      BY <1>2 DEF TokenArrives, t
    <3> QED
      BY <3>2, <3>3, <3>4, GpsAssumption
  <2>3. arrived' \in 0..MostPerSleep
    BY <1>2, GpsAssumption DEF TokenArrives, GpsTypeOK
  <2> QED
    BY <1>2, <2>1, <2>2, <2>3 DEF TokenArrives, parseVars, GpsTypeOK
<1>3. CASE SatellitesInView \/ FullOn \/ set_coordinates
  BY <1>3 DEF SatellitesInView, FullOn, set_coordinates, receiverVars, locateVars, parseVars,
              GpsTypeOK
<1>4. CASE locate_position
  BY <1>4, GpsAssumption DEF locate_position, receiverVars, parseVars, GpsTypeOK
<1>5. CASE Standby \/ ReadOutput
  <2>1. gps_rx' \in Seq(GpsTokens) /\ Len(gps_rx') <= GpsRing
    <3>1. gps_rx' = <<>> /\ <<>> \in Seq(GpsTokens) /\ Len(<<>>) = 0
      BY <1>5, EmptySeq DEF Standby, ReadOutput
    <3> QED
      BY <3>1, GpsAssumption
  <2>2. CASE Standby
    BY <2>1, <2>2 DEF Standby, locateVars, parseVars, GpsTypeOK
  <2>3. CASE ReadOutput
    BY <2>1, <2>3, GpsAssumption DEF ReadOutput, receiverVars, GpsTypeOK
  <2> QED
    BY <1>5, <2>2, <2>3
<1>6. CASE Parsed
  BY <1>6, GpsAssumption DEF Parsed, receiverVars, parseVars, GpsTypeOK
<1>7. CASE Slept
  BY <1>7, GpsAssumption DEF Slept, receiverVars, parseVars, GpsTypeOK
<1>8. CASE Parse
  BY <1>8 DEF Parse, ParseEmpty, ParseIncomplete, ParseComplete, Complete, ParsingIn,
              receiverVars, locateVars, GpsTypeOK
<1> QED
  BY <1>1, <1>2, <1>3, <1>4, <1>5, <1>6, <1>7, <1>8 DEF GpsNext, Locate

----------------------------------------------------------------------------
(* A part that is switched off takes no step.                              *)
LEMMA NetOffStays == NetOff /\ [NetNext]_netVars => UNCHANGED netVars
<1> SUFFICES ASSUME NetOff, NetNext PROVE FALSE
  OBVIOUS
<1>1. boot = "off" /\ radio = "off" /\ wifi_events = <<>> /\ reconnect_timer = "none"
  BY DEF NetOff
<1>2. /\ \A c \in Callers : connecting[c] = "no"
      /\ net_left.messages = 0 /\ net_left.resets = 0
      /\ net_left.outages = 0 /\ net_left.card_faults = 0
  BY DEF NetOff, NetBudget
<1>3. ~BootStep
  BY <1>1 DEF BootStep, MountCard, MountFails, ReadAborts, ReadSettings, RadioInit, RadioFails,
              StartTasks, InitEnds
<1>4. ~PowerCut /\ ~MessageArrives
  <2>1. ~SpendNet("resets") /\ ~SpendNet("messages")
    BY <1>2 DEF SpendNet
  <2> QED
    BY <2>1 DEF PowerCut, MessageArrives
<1>5. ~HandlerStep
  BY <1>1 DEF HandlerStep, SetFirst, SetSecond, SaveAborts, SaveOpens, SaveWrites, SaveFails,
              Apply, Applied, HandlerAt, Tasks
<1>6. \A c \in Callers : ~ConnectStep(c)
  BY <1>2 DEF ConnectStep, ConnectLocks, ConnectAborts, ConnectReturns, Retry, WaitTimesOut
<1>7. ~TimerStep
  BY <1>1 DEF TimerStep, TimerRings, TimerEnds
<1>8. ~DriverConnects /\ ~DriverRefused /\ ~LinkLost /\ ~EventHandled
  BY <1>1 DEF DriverConnects, DriverRefused, LinkLost, EventHandled
<1> QED
  BY <1>3, <1>4, <1>5, <1>6, <1>7, <1>8 DEF NetNext

(* Nor do the accounts,                                                    *)
LEMMA UsersOffStays == UsersOff /\ [UsersNext]_userVars => UNCHANGED userVars
<1> SUFFICES ASSUME UsersOff, UsersNext PROVE FALSE
  OBVIOUS
<1>1. server = "off" /\ restarts_left = 0
  BY DEF UsersOff
<1>2. \A p \in People : pages[p].op = "none"
  BY DEF UsersOff, NoPage
<1>3. ~OpenDatabase /\ ~create_user_table /\ ~create_admin /\ ~RestartServer
  BY <1>1 DEF OpenDatabase, create_user_table, create_admin, RestartServer
<1>4. ASSUME NEW p \in People
      PROVE  /\ ~authenticate(p) /\ ~login(p) /\ ~logout(p) /\ ~SessionRefused(p)
             /\ ~new_user(p) /\ ~remove_user(p) /\ ~modify_user(p)
             /\ ~add_user(p) /\ ~delete_user(p) /\ ~change_username(p) /\ ~change_password(p)
  <2>1. ~authenticate(p) /\ ~login(p) /\ ~logout(p) /\ ~SessionRefused(p)
    BY <1>1, <1>2 DEF authenticate, login, logout, SessionRefused, Serving
  <2>2. ~new_user(p) /\ ~remove_user(p) /\ ~modify_user(p)
    BY <1>1 DEF new_user, remove_user, modify_user, Request, Serving
  <2>3. ~add_user(p) /\ ~delete_user(p) /\ ~change_username(p) /\ ~change_password(p)
    BY <1>1 DEF add_user, delete_user, change_username, change_password, ServedAt
  <2> QED
    BY <2>1, <2>2, <2>3
<1> QED
  BY <1>3, <1>4 DEF UsersNext

(* the planet finder                                                       *)
LEMMA SkyOffStays == SkyOff /\ [SkyNext]_skyVars => UNCHANGED skyVars
<1> SUFFICES ASSUME search = "off", SkyNext PROVE FALSE
  BY DEF SkyOff
<1> QED
  BY DEF SkyNext, Instruction, TraceStart, TraceStop, Sampled, StartRefinement, Refine,
         Refined, start_trace, next_trace

(* and the GPS.                                                            *)
LEMMA GpsOffStays == GpsOff /\ [GpsNext]_gpsVars => UNCHANGED gpsVars
<1> SUFFICES ASSUME locating = "off", ~receiver_on, GpsNext PROVE FALSE
  BY DEF GpsOff
<1> QED
  BY DEF GpsNext, TokenArrives, SatellitesInView, FullOn, Standby, set_coordinates, Locate,
         locate_position, ReadOutput, Parsed, Slept, Parse, ParseEmpty, ParseIncomplete,
         ParseComplete, ParsingIn

(* Each part is switched off or in order; empty tables are in order.       *)
ServicesInv ==
  /\ NetOff \/ (WholeInv /\ NetInv)
  /\ RowsOK /\ NumbersOK
  /\ UsersOff \/ UsersInv
  /\ SkyOff \/ SkyInv
  /\ GpsOff \/ GpsInv

(* The tables of a server that is switched off are in order.               *)
LEMMA WebOffInOrder == WebOff => RowsOK /\ NumbersOK
<1> SUFFICES ASSUME WebOff PROVE RowsOK /\ NumbersOK
  OBVIOUS
<1>1. /\ DOMAIN keys = {} /\ DOMAIN commands = {} /\ images = {} /\ diagnostics = {}
      /\ DOMAIN requests = Requests /\ \A r \in Requests : requests[r].op = "none"
  BY DEF WebOff, Idle
<1>2. left \in Allowance /\ left.commands = 0
  BY DEF WebOff, Budget, Allowance
<1>3. RowsOK
  BY <1>1, <1>2 DEF RowsOK, NumberedFrom1, CommandIds, Reporting
<1>4. CommandIds \subseteq 1..0 /\ 1..(0 + left.commands) \subseteq Ids
  BY <1>1, <1>2 DEF CommandIds
<1> QED
  BY <1>3, <1>4 DEF NumbersOK

(* So they are when one of them is switched on.                            *)
LEMMA ServicesInitially == ServicesInit => ServicesInv
<1>1. WebInit => RowsOK /\ NumbersOK
  BY RowsInitially, NumbersInitially
<1> QED
  BY <1>1, WholeInitially, NetInitially, WebOffInOrder, UsersInitially, SkyInitially,
     GpsInitially
  DEF ServicesInit, ServicesInv

(* A step of one part is a step or a stutter of each.                      *)
LEMMA StepOfEach ==
  [ServicesNext]_servicesVars =>
    /\ [NetNext]_netVars /\ [WebNext]_webVars /\ [UsersNext]_userVars
    /\ [SkyNext]_skyVars /\ [GpsNext]_gpsVars
BY DEF ServicesNext, servicesVars

(* What is switched off stays so, and what is in order stays in order.     *)
LEMMA ServicesStep == ServicesInv /\ [ServicesNext]_servicesVars => ServicesInv'
<1> SUFFICES ASSUME ServicesInv, [ServicesNext]_servicesVars PROVE ServicesInv'
  OBVIOUS
<1>1. (NetOff \/ (WholeInv /\ NetInv))'
  <2>1. CASE NetOff
    <3>1. UNCHANGED netVars
      BY <2>1, StepOfEach, NetOffStays
    <3> QED
      BY <2>1, <3>1
      DEF NetOff, netVars, bootVars, settingVars, driverVars, connectVars, timerVars
  <2>2. CASE WholeInv /\ NetInv
    BY <2>2, StepOfEach, WholeStep, DriverStep, ConnectInvStep DEF NetInv
  <2> QED
    BY <2>1, <2>2 DEF ServicesInv
<1>2. RowsOK' /\ NumbersOK'
  BY StepOfEach, RowsStep, NumbersStep DEF ServicesInv
<1>3. (UsersOff \/ UsersInv)'
  <2>1. CASE UsersOff
    BY <2>1, StepOfEach, UsersOffStays DEF UsersOff, userVars
  <2> QED
    BY <2>1, StepOfEach, UsersStep DEF ServicesInv
<1>4. (SkyOff \/ SkyInv)'
  <2>1. CASE SkyOff
    BY <2>1, StepOfEach, SkyOffStays DEF SkyOff, skyVars, iterVars, traceVars
  <2> QED
    BY <2>1, StepOfEach, SkyStep DEF ServicesInv
<1>5. (GpsOff \/ GpsInv)'
  <2>1. CASE GpsOff
    BY <2>1, StepOfEach, GpsOffStays
    DEF GpsOff, gpsVars, receiverVars, locateVars, parseVars, fixVars
  <2> QED
    BY <2>1, StepOfEach, GpsStep DEF ServicesInv
<1> QED
  BY <1>1, <1>2, <1>3, <1>4, <1>5 DEF ServicesInv

(* Every part keeps to its types, for any messages, cards, accounts,       *)
(* devices, pages, people, bodies and receivers: the tables to their       *)
(* foreign keys and the numbers of commands to the budget (setup.rs), the  *)
(* search to its rounds (planet_finder.cpp:302-418), the GPS to its ring   *)
(* (gps.cpp:25-106), and connect() to one caller at a time (wireless.cpp). *)
THEOREM ServicesTypeCorrect == ServicesSpec => []ServicesTypeOK
<1>1. ServicesInv => ServicesTypeOK
  <2> SUFFICES ASSUME ServicesInv PROVE ServicesTypeOK
    OBVIOUS
  <2>1. NetTypeOK
    <3>1. CASE NetOff
      <4>1. Len(wifi_events) <= MaxEvents
        BY <3>1, EventsAssumption DEF NetOff
      <4>2. \A c \in Callers : connecting[c] = "wait" <=> wifi_mutex = c
        BY <3>1 DEF NetOff, Callers
      <4> QED
        BY <3>1, <4>1, <4>2 DEF NetOff, NetTypeOK
    <3> QED
      BY <3>1 DEF ServicesInv, NetInv, DriverInv, ConnectInv, NetTypeOK
  <2>2. WebTypeOK
    BY RowsTyped DEF ServicesInv
  <2>3. server # "off" => UsersTypeOK
    BY DEF ServicesInv, UsersOff, UsersInv
  <2>4. search # "off" => SkyTypeOK
    BY DEF ServicesInv, SkyOff, SkyInv
  <2>5. locating # "off" => GpsTypeOK
    BY DEF ServicesInv, GpsOff, GpsInv
  <2> QED
    BY <2>1, <2>2, <2>3, <2>4, <2>5 DEF ServicesTypeOK
<1> QED
  BY ServicesInitially, ServicesStep, <1>1, PTL DEF ServicesSpec
=============================================================================

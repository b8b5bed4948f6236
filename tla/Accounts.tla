------------------------------ MODULE Accounts ------------------------------
(***************************************************************************)
(* User accounts: the handlers of /login, /register and the OAuth callback *)
(* (main.go) over the SQLite table of users (users.go).                    *)
(*                                                                         *)
(* An element of Handlers is one request and its goroutine; hpc[h] is the  *)
(* statement it comes to next.  Every statement of the store is its own    *)
(* transaction, on whatever connection of the pool is free, so requests    *)
(* interleave between any two of them, and each may fail: without a busy   *)
(* timeout a write fails when it meets another one.  A crash ends the      *)
(* requests that are under way and leaves the table.                       *)
(*                                                                         *)
(* A username is a base and a number: <<b, 1>> is the base as it stands,   *)
(* <<b, i>> the base with the number i behind it.                          *)
(***************************************************************************)
EXTENDS Naturals, Sequences

CONSTANTS
  Handlers,    \* requests
  Identities,  \* OAuth identities: a provider and the user's ID there
  Local,       \* the identity of a local account: none
  Bases,       \* names people choose, or are given by their provider
  MaxTry,      \* bound of the model: the highest number behind a base
  NoUser,      \* no username
  AdminUser,   \* DOCK_ADMIN_USER, or NoUser
  StoreFails,  \* TRUE iff statements of the store may fail
  MaxCrashes   \* bound of the model

Usernames == Bases \X (1 .. MaxTry)

ASSUME AccountsAssumption ==
  /\ Local \notin Identities
  /\ NoUser \notin Usernames
  /\ AdminUser \in Usernames \union {NoUser}
  /\ MaxTry \in Nat \ {0} /\ MaxCrashes \in Nat
  /\ StoreFails \in BOOLEAN

VARIABLES
  rows,     \* the table by id; maker (who inserted the row) is no column
  admins,   \* the ids whose is_admin is set
  hpc,      \* where each handler stands
  ident,    \* the identity the provider vouches for, Local if there is none
  want,     \* the username the handler is trying to get, or NoUser
  session,  \* the username in the cookie the handler has set, or NoUser
  looked,   \* history: the length of the table when GetByProvider found nothing
  crashes

accVars == <<rows, admins, hpc, ident, want, session, looked, crashes>>

Row == [user : Usernames, ident : Identities \union {Local}, maker : Handlers]
Ended == {"in", "failed", "lost"}
Statements == {"new", "finding", "naming", "inserting", "counting",
               "promoting", "returning"} \union Ended

Taken(u) == \E k \in DOMAIN rows : rows[k].user = u
Goto(h, place) == hpc' = [hpc EXCEPT ![h] = place]
LogIn(h, u) == Goto(h, "in") /\ session' = [session EXCEPT ![h] = u]

AccInit ==
  /\ rows = <<>>
  /\ admins = {}
  /\ hpc = [h \in Handlers |-> "new"]
  /\ ident = [h \in Handlers |-> Local]
  /\ want = [h \in Handlers |-> NoUser]
  /\ session = [h \in Handlers |-> NoUser]
  /\ looked = [h \in Handlers |-> 0]
  /\ crashes = 0

-----------------------------------------------------------------------------
(* Requests arrive *)

(* POST /login with the right password of a local account.  Everything     *)
(* else (no such user, an account without password, a wrong password, an   *)
(* error) sets no cookie: that is Fail.                                    *)
Login(h, u) ==
  /\ hpc[h] = "new"
  /\ \E k \in DOMAIN rows : rows[k].user = u /\ rows[k].ident = Local
  /\ LogIn(h, u)
  /\ UNCHANGED <<rows, admins, ident, want, looked, crashes>>

(* POST /register with a username and a password.                          *)
Register(h, u) ==
  /\ hpc[h] = "new"
  /\ Goto(h, "inserting")
  /\ want' = [want EXCEPT ![h] = u]
  /\ UNCHANGED <<rows, admins, ident, session, looked, crashes>>

(* Mutant: the numbers behind a name start from 0.                         *)
CallbackFromZero(h, i, b) ==
  /\ hpc[h] = "new"
  /\ Goto(h, "finding")
  /\ ident' = [ident EXCEPT ![h] = i]
  /\ want' = [want EXCEPT ![h] = <<b, 0>>]
  /\ UNCHANGED <<rows, admins, session, looked, crashes>>

(* GET /auth/{provider}/callback: the provider vouches for identity i and  *)
(* gives it a name, which need not be the one it gave last time.           *)
Callback(h, i, b) ==
  /\ hpc[h] = "new"
  /\ Goto(h, "finding")
  /\ ident' = [ident EXCEPT ![h] = i]
  /\ want' = [want EXCEPT ![h] = <<b, 1>>]
  /\ UNCHANGED <<rows, admins, session, looked, crashes>>

(* The request is refused, or a statement whose error the code reports     *)
(* fails: GetByProvider, CreateUser, and GetByUsername at the end.         *)
Fail(h) ==
  /\ \/ hpc[h] = "new"
     \/ StoreFails /\ hpc[h] \in {"finding", "inserting"}
     \/ StoreFails /\ hpc[h] = "returning" /\ ident[h] # Local
  /\ Goto(h, "failed")
  /\ UNCHANGED <<rows, admins, ident, want, session, looked, crashes>>

-----------------------------------------------------------------------------
(* The callback: find the account, or find it a name *)

(* Mutant: the provider's ID has changed its form since the account was    *)
(* made, and the account is not found.                                     *)
FindNothing(h) ==
  /\ hpc[h] = "finding"
  /\ Goto(h, "naming")
  /\ looked' = [looked EXCEPT ![h] = Len(rows)]
  /\ UNCHANGED <<rows, admins, ident, want, session, crashes>>

(* GetByProvider: some row of that identity, if there is one; no ORDER BY  *)
(* says which.                                                             *)
GetByProvider(h) ==
  /\ hpc[h] = "finding"
  /\ \/ \E k \in DOMAIN rows :
          /\ rows[k].ident = ident[h]
          /\ LogIn(h, rows[k].user)
          /\ UNCHANGED looked
     \/ /\ \A k \in DOMAIN rows : rows[k].ident # ident[h]
        /\ Goto(h, "naming")
        /\ looked' = [looked EXCEPT ![h] = Len(rows)]
        /\ UNCHANGED session
  /\ UNCHANGED <<rows, admins, ident, want, crashes>>

NextName(u) == <<u[1], u[2] + 1>>

(* The loop that looks for a free username: only sql.ErrNoRows ends it, so *)
(* an error counts as a name that is taken.                                *)
TryName(h) ==
  /\ hpc[h] = "naming"
  /\ \/ /\ ~Taken(want[h])
        /\ Goto(h, "inserting")
        /\ UNCHANGED want
     \/ /\ Taken(want[h]) \/ StoreFails
        /\ want[h][2] < MaxTry
        /\ want' = [want EXCEPT ![h] = NextName(@)]
        /\ UNCHANGED hpc
  /\ UNCHANGED <<rows, admins, ident, session, looked, crashes>>

-----------------------------------------------------------------------------
(* What /register and a callback that makes an account have in common *)

NewRow(h) == [user |-> want[h], ident |-> ident[h], maker |-> h]

(* Mutant: the column is not UNIQUE; the loop is relied upon.              *)
InsertAnyway(h) ==
  /\ hpc[h] = "inserting"
  /\ Goto(h, "counting")
  /\ rows' = Append(rows, NewRow(h))
  /\ UNCHANGED <<admins, ident, want, session, looked, crashes>>

(* CreateUser: the insert, or the error the UNIQUE column makes of it      *)
(* (409, or 500 in a callback).                                            *)
CreateUser(h) ==
  /\ hpc[h] = "inserting"
  /\ IF Taken(want[h])
       THEN Goto(h, "failed") /\ UNCHANGED rows
       ELSE Goto(h, "counting") /\ rows' = Append(rows, NewRow(h))
  /\ UNCHANGED <<admins, ident, want, session, looked, crashes>>

(* Mutant: a count that failed is taken for the first user's.              *)
CountAtMostOne(h) ==
  /\ hpc[h] = "counting"
  /\ \E count \in {Len(rows)} \union (IF StoreFails THEN {0} ELSE {}) :
       Goto(h, IF count <= 1 \/ want[h] = AdminUser THEN "promoting" ELSE "returning")
  /\ UNCHANGED <<rows, admins, ident, want, session, looked, crashes>>

(* CountUsers, whose error is ignored and leaves a count of 0, and the     *)
(* rule: the first user and DOCK_ADMIN_USER become admins.                 *)
CountUsers(h) ==
  /\ hpc[h] = "counting"
  /\ \E count \in {Len(rows)} \union (IF StoreFails THEN {0} ELSE {}) :
       Goto(h, IF count = 1 \/ want[h] = AdminUser THEN "promoting" ELSE "returning")
  /\ UNCHANGED <<rows, admins, ident, want, session, looked, crashes>>

(* Mutant: the update sets the column of every row, by a CASE on the name. *)
SetOnlyAdmin(h) ==
  /\ hpc[h] = "promoting"
  /\ Goto(h, "returning")
  /\ \/ admins' = {k \in DOMAIN rows : rows[k].user = want[h]}
     \/ StoreFails /\ UNCHANGED admins
  /\ UNCHANGED <<rows, ident, want, session, looked, crashes>>

(* SetAdmin, whose error is ignored.                                       *)
SetAdmin(h) ==
  /\ hpc[h] = "promoting"
  /\ Goto(h, "returning")
  /\ \/ admins' = admins \union {k \in DOMAIN rows : rows[k].user = want[h]}
     \/ StoreFails /\ UNCHANGED admins
  /\ UNCHANGED <<rows, ident, want, session, looked, crashes>>

(* The cookie is set; a callback reads its account back first.             *)
Return(h) ==
  /\ hpc[h] = "returning"
  /\ ident[h] # Local => Taken(want[h])
  /\ LogIn(h, want[h])
  /\ UNCHANGED <<rows, admins, ident, want, looked, crashes>>

(* The process dies and is started again.                                  *)
Crash ==
  /\ crashes < MaxCrashes
  /\ crashes' = crashes + 1
  /\ hpc' = [h \in Handlers |-> IF hpc[h] \in Ended \union {"new"} THEN hpc[h] ELSE "lost"]
  /\ UNCHANGED <<rows, admins, ident, want, session, looked>>

-----------------------------------------------------------------------------
AccNext ==
  \/ \E h \in Handlers :
       \/ \E u \in Usernames : Login(h, u) \/ Register(h, u)
       \/ \E i \in Identities, b \in Bases : Callback(h, i, b)
       \/ Fail(h)
       \/ GetByProvider(h) \/ TryName(h)
       \/ CreateUser(h) \/ CountUsers(h) \/ SetAdmin(h) \/ Return(h)
  \/ Crash

AccSpec == AccInit /\ [][AccNext]_accVars

-----------------------------------------------------------------------------
AccTypeOK ==
  /\ rows \in Seq(Row)
  /\ admins \subseteq DOMAIN rows
  /\ hpc \in [Handlers -> Statements]
  /\ ident \in [Handlers -> Identities \union {Local}]
  /\ want \in [Handlers -> Usernames \union {NoUser}]
  /\ session \in [Handlers -> Usernames \union {NoUser}]
  /\ looked \in [Handlers -> Nat]
  /\ crashes \in 0 .. MaxCrashes

(* A cookie names the account it should: the one account of that username  *)
(* belongs to the identity the provider vouched for, and after /register   *)
(* it is the account that very request made.  The name was found free in   *)
(* one statement and taken in another (main.go, /register and the OAuth    *)
(* callback; users.go CreateUser).                                         *)
SessionIsOwn ==
  \A h \in Handlers : session[h] # NoUser =>
    /\ Taken(session[h])
    /\ \A k \in DOMAIN rows : rows[k].user = session[h] =>
         /\ rows[k].ident = ident[h]
         /\ ident[h] = Local /\ want[h] # NoUser => rows[k].maker = h

(* Nobody becomes an admin but the first user there ever was and           *)
(* DOCK_ADMIN_USER, whatever fails and however registrations interleave    *)
(* between the insert and the count (main.go, count == 1).                 *)
AdminIsFirst ==
  \A k \in admins : k = 1 \/ rows[k].user = AdminUser

(* An identity has two accounts only if it logged in twice at once: the    *)
(* callback that made the second had looked for the first before it was    *)
(* there.  Failures, crashes and new names at the provider make no second  *)
(* account (main.go, find or create user).                                 *)
SecondOverlapsFirst ==
  \A j, k \in DOMAIN rows :
    j < k /\ rows[j].ident = rows[k].ident /\ rows[k].ident # Local
      => looked[rows[k].maker] < j

Book == INSTANCE AccountBook WITH
  Requests <- Handlers, book <- rows, trusted <- admins, claim <- ident, inside <- session

(* However the statements of the requests interleave, fail or are cut      *)
(* short, the table is such a book: no account is lost, renamed or handed  *)
(* over, no request makes two, and rights are only ever added (main.go,    *)
(* /login, /register and the OAuth callback; users.go CreateUser,          *)
(* SetAdmin).                                                              *)
BookHolds == Book!BookSpec

-----------------------------------------------------------------------------
(* What the documentation says and the code does not do. *)

(* "First registered user or DOCK_ADMIN_USER gets admin"                   *)
(* (docs/hermit-federation-architecture.md:140): once the request that     *)
(* made the first account has been answered, that account is an admin's.   *)
FirstIsAdmin ==
  rows # <<>> /\ hpc[rows[1].maker] = "in" => 1 \in admins
=============================================================================

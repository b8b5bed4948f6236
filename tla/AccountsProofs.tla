--------------------------- MODULE AccountsProofs ---------------------------
(***************************************************************************)
(* Proofs about Accounts, for any requests, identities, names and          *)
(* configured administrator, whatever fails and however often the process  *)
(* crashes.                                                                *)
(*                                                                         *)
(* The three properties of the run rest on what a handler knows about the  *)
(* table at each place it can stand (Progress): that its row is there from *)
(* the insert on, that it is the first row or the administrator's when it  *)
(* is about to be promoted, and that no account of its identity is older   *)
(* than its look-up.  Usernames being unique is what makes "its row" one.  *)
(***************************************************************************)
EXTENDS Accounts, TLAPS

UniqueNames ==
  \A j, k \in DOMAIN rows : rows[j].user = rows[k].user => j = k

(* A row is its maker's: made under the name it wanted, for the identity   *)
(* it was called with, by a handler that is past its insert.               *)
RowsAreMade ==
  \A k \in DOMAIN rows :
    LET h == rows[k].maker IN
      /\ rows[k].user = want[h] /\ rows[k].ident = ident[h]
      /\ hpc[h] \in {"counting", "promoting", "returning"} \union Ended

Progress ==
  \A h \in Handlers :
    /\ hpc[h] = "new" => want[h] = NoUser /\ ident[h] = Local
    /\ hpc[h] \in Statements \ {"in"} => session[h] = NoUser
    /\ hpc[h] \in Statements \ (Ended \union {"new"}) => want[h] \in Usernames
    /\ hpc[h] \in {"finding", "naming"} => ident[h] \in Identities
    /\ hpc[h] \in {"counting", "promoting", "returning"} =>
         \E k \in DOMAIN rows : rows[k].maker = h
    /\ hpc[h] = "promoting" =>
         want[h] = AdminUser \/ (1 \in DOMAIN rows /\ rows[1].user = want[h])

(* What a callback found out from GetByProvider, until it has its row.     *)
LookedInTime ==
  \A h \in Handlers :
    /\ looked[h] <= Len(rows)
    /\ hpc[h] \in {"naming", "inserting"} /\ ident[h] # Local =>
         \A k \in DOMAIN rows : rows[k].ident = ident[h] => looked[h] < k

AccInv ==
  /\ AccTypeOK /\ UniqueNames /\ RowsAreMade /\ Progress /\ LookedInTime
  /\ SessionIsOwn /\ AdminIsFirst /\ SecondOverlapsFirst

-----------------------------------------------------------------------------
(* The columns of a row.                                                   *)
LEMMA RowType ==
  ASSUME AccTypeOK, NEW k \in DOMAIN rows
  PROVE  /\ k \in 1 .. Len(rows)
         /\ rows[k].user \in Usernames
         /\ rows[k].ident \in Identities \union {Local}
         /\ rows[k].maker \in Handlers
<1>1. rows[k] \in Row /\ k \in 1 .. Len(rows)
  BY DEF AccTypeOK
<1> QED
  BY <1>1 DEF Row

(* An insert that succeeds adds one row behind the others.                 *)
Grown(h) ==
  /\ DOMAIN rows' = DOMAIN rows \union {Len(rows) + 1}
  /\ Len(rows) \in Nat /\ Len(rows) + 1 \notin DOMAIN rows
  /\ Len(rows') = Len(rows) + 1
  /\ rows' \in Seq(Row)
  /\ \A k \in DOMAIN rows : k \in 1 .. Len(rows) /\ rows'[k] = rows[k]
  /\ rows'[Len(rows) + 1].user = want[h]
  /\ rows'[Len(rows) + 1].ident = ident[h]
  /\ rows'[Len(rows) + 1].maker = h
  /\ \A k \in DOMAIN rows : rows[k].user # want[h]
  /\ hpc' = [hpc EXCEPT ![h] = "counting"]
  /\ UNCHANGED <<admins, ident, want, session, looked, crashes>>

LEMMA RowsGrow ==
  ASSUME AccTypeOK, Progress, NEW h \in Handlers, CreateUser(h), ~Taken(want[h])
  PROVE  Grown(h)
<1>1. NewRow(h) \in Row
  BY DEF CreateUser, Progress, NewRow, Row, AccTypeOK, Statements, Ended
<1>2. rows' = Append(rows, NewRow(h)) /\ hpc' = [hpc EXCEPT ![h] = "counting"]
  BY DEF CreateUser, Goto
<1>3. rows'[Len(rows) + 1] = NewRow(h)
  BY <1>1, <1>2 DEF AccTypeOK
<1>4. /\ DOMAIN rows' = DOMAIN rows \union {Len(rows) + 1}
      /\ Len(rows) \in Nat /\ Len(rows) + 1 \notin DOMAIN rows
      /\ Len(rows') = Len(rows) + 1
      /\ rows' \in Seq(Row)
      /\ \A k \in DOMAIN rows : k \in 1 .. Len(rows) /\ rows'[k] = rows[k]
  BY <1>1, <1>2 DEF AccTypeOK
<1>5. \A k \in DOMAIN rows : rows[k].user # want[h]
  BY DEF Taken
<1>6. UNCHANGED <<admins, ident, want, session, looked, crashes>>
  BY DEF CreateUser
<1> QED
  BY <1>2, <1>3, <1>4, <1>5, <1>6 DEF Grown, NewRow

(* Nothing else changes the rows.                                          *)
LEMMA RowsStay ==
  ASSUME [AccNext]_accVars, ~\E h \in Handlers : CreateUser(h) /\ ~Taken(want[h])
  PROVE  rows' = rows
  BY DEF AccNext, Login, Register, Callback, Fail, GetByProvider, TryName, CreateUser,
         CountUsers, SetAdmin, Return, Crash, accVars

-----------------------------------------------------------------------------
(* Usernames are pairs, and the one after a username is a username.        *)
LEMMA NextNameType ==
  ASSUME NEW u \in Usernames, u[2] < MaxTry
  PROVE NextName(u) \in Usernames
  BY AccountsAssumption DEF Usernames, NextName

(* Every variable keeps to its type.                                       *)
LEMMA AccTypePreserved == AccTypeOK /\ Progress /\ [AccNext]_accVars => AccTypeOK'
<1> SUFFICES ASSUME AccTypeOK, Progress, [AccNext]_accVars PROVE AccTypeOK'
  OBVIOUS
<1>0. \A k \in DOMAIN rows : rows[k].user \in Usernames
  BY RowType
<1>a. \A h \in Handlers : CreateUser(h) /\ ~Taken(want[h]) => Grown(h)
  BY RowsGrow
<1> USE AccountsAssumption DEF AccTypeOK, Statements, Ended, Goto, LogIn
<1>1. ASSUME NEW h \in Handlers, NEW u \in Usernames, Login(h, u) PROVE AccTypeOK'
  BY <1>1 DEF Login
<1>2. ASSUME NEW h \in Handlers, NEW u \in Usernames, Register(h, u) PROVE AccTypeOK'
  BY <1>2 DEF Register
<1>3. ASSUME NEW h \in Handlers, NEW i \in Identities, NEW b \in Bases, Callback(h, i, b)
      PROVE AccTypeOK'
  <2>1. <<b, 1>> \in Usernames
    BY <1>3 DEF Usernames
  <2> QED
    BY <1>3, <2>1 DEF Callback
<1>4. ASSUME NEW h \in Handlers, Fail(h) PROVE AccTypeOK'
  BY <1>4 DEF Fail
<1>5. ASSUME NEW h \in Handlers, GetByProvider(h) PROVE AccTypeOK'
  <2>1. CASE \E k \in DOMAIN rows : LogIn(h, rows[k].user) /\ UNCHANGED looked
    <3>1. PICK k \in DOMAIN rows : LogIn(h, rows[k].user) /\ UNCHANGED looked
      BY <2>1
    <3>2. rows[k].user \in Usernames
      BY <1>0
    <3> QED
      BY <1>5, <3>1, <3>2 DEF GetByProvider
  <2>2. CASE Goto(h, "naming") /\ looked' = [looked EXCEPT ![h] = Len(rows)] /\ UNCHANGED session
    BY <1>5, <2>2 DEF GetByProvider
  <2> QED
    BY <1>5, <2>1, <2>2 DEF GetByProvider
<1>6. ASSUME NEW h \in Handlers, TryName(h) PROVE AccTypeOK'
  <2>1. want[h] \in Usernames
    BY <1>6 DEF TryName, Progress
  <2> QED
    BY <1>6, <2>1, NextNameType DEF TryName
<1>7. ASSUME NEW h \in Handlers, CreateUser(h) PROVE AccTypeOK'
  <2>1. CASE Taken(want[h])
    BY <1>7, <2>1 DEF CreateUser
  <2>2. CASE ~Taken(want[h])
    BY <1>a, <1>7, <2>2 DEF Grown
  <2> QED
    BY <2>1, <2>2
<1>8. ASSUME NEW h \in Handlers, CountUsers(h) PROVE AccTypeOK'
  BY <1>8 DEF CountUsers
<1>9. ASSUME NEW h \in Handlers, SetAdmin(h) PROVE AccTypeOK'
  BY <1>9 DEF SetAdmin
<1>10. ASSUME NEW h \in Handlers, Return(h) PROVE AccTypeOK'
  BY <1>10 DEF Return
<1>11. ASSUME Crash PROVE AccTypeOK'
  BY <1>11 DEF Crash
<1>12. ASSUME UNCHANGED accVars PROVE AccTypeOK'
  BY <1>12 DEF accVars
<1> QED
  BY <1>1, <1>2, <1>3, <1>4, <1>5, <1>6, <1>7, <1>8, <1>9, <1>10, <1>11, <1>12
  DEF AccNext

(* No username is given twice: the insert looks again.                     *)
LEMMA UniquePreserved == AccTypeOK /\ Progress /\ UniqueNames /\ [AccNext]_accVars => UniqueNames'
<1> SUFFICES ASSUME AccTypeOK, Progress, UniqueNames, [AccNext]_accVars PROVE UniqueNames'
  OBVIOUS
<1>1. ASSUME NEW h \in Handlers, CreateUser(h), ~Taken(want[h]) PROVE UniqueNames'
  <2>1. Grown(h)
    BY <1>1, RowsGrow
  <2> QED
    BY <2>1 DEF UniqueNames, Grown
<1>2. CASE rows' = rows
  BY <1>2 DEF UniqueNames
<1> QED
  BY <1>1, <1>2, RowsStay

(* A handler that has its row keeps its name and its identity.             *)
LEMMA RowsMadePreserved == AccTypeOK /\ Progress /\ RowsAreMade /\ [AccNext]_accVars => RowsAreMade'
<1> SUFFICES ASSUME AccTypeOK, Progress, RowsAreMade, [AccNext]_accVars PROVE RowsAreMade'
  OBVIOUS
<1>0. \A k \in DOMAIN rows : rows[k].maker \in Handlers
  BY RowType
<1>a. \A h \in Handlers : CreateUser(h) /\ ~Taken(want[h]) => Grown(h)
  BY RowsGrow
<1> USE DEF AccTypeOK, Statements, Ended, Goto, LogIn
<1>1. ASSUME NEW h \in Handlers, NEW u \in Usernames, Login(h, u) PROVE RowsAreMade'
  BY <1>0, <1>1 DEF Login, RowsAreMade
<1>2. ASSUME NEW h \in Handlers, NEW u \in Usernames, Register(h, u) PROVE RowsAreMade'
  BY <1>0, <1>2 DEF Register, RowsAreMade
<1>3. ASSUME NEW h \in Handlers, NEW i \in Identities, NEW b \in Bases, Callback(h, i, b)
      PROVE RowsAreMade'
  BY <1>0, <1>3 DEF Callback, RowsAreMade
<1>4. ASSUME NEW h \in Handlers, Fail(h) PROVE RowsAreMade'
  BY <1>0, <1>4 DEF Fail, RowsAreMade
<1>5. ASSUME NEW h \in Handlers, GetByProvider(h) PROVE RowsAreMade'
  BY <1>0, <1>5 DEF GetByProvider, RowsAreMade
<1>6. ASSUME NEW h \in Handlers, TryName(h) PROVE RowsAreMade'
  BY <1>0, <1>6 DEF TryName, RowsAreMade
<1>7. ASSUME NEW h \in Handlers, CreateUser(h) PROVE RowsAreMade'
  <2>1. CASE Taken(want[h])
    BY <1>0, <1>7, <2>1 DEF CreateUser, RowsAreMade
  <2>2. CASE ~Taken(want[h])
    <3>1. Grown(h)
      BY <1>a, <1>7, <2>2
    <3>2. ASSUME NEW k \in DOMAIN rows
          PROVE  /\ rows'[k].user = want'[rows'[k].maker]
                 /\ rows'[k].ident = ident'[rows'[k].maker]
                 /\ hpc'[rows'[k].maker] \in {"counting", "promoting", "returning"} \union Ended
      BY <1>0, <3>1 DEF RowsAreMade, Grown
    <3> QED
      BY <3>1, <3>2 DEF RowsAreMade, Grown
  <2> QED
    BY <2>1, <2>2
<1>8. ASSUME NEW h \in Handlers, CountUsers(h) PROVE RowsAreMade'
  BY <1>0, <1>8 DEF CountUsers, RowsAreMade
<1>9. ASSUME NEW h \in Handlers, SetAdmin(h) PROVE RowsAreMade'
  BY <1>0, <1>9 DEF SetAdmin, RowsAreMade
<1>10. ASSUME NEW h \in Handlers, Return(h) PROVE RowsAreMade'
  BY <1>0, <1>10 DEF Return, RowsAreMade
<1>11. ASSUME Crash PROVE RowsAreMade'
  BY <1>0, <1>11 DEF Crash, RowsAreMade
<1>12. ASSUME UNCHANGED accVars PROVE RowsAreMade'
  BY <1>0, <1>12 DEF accVars, RowsAreMade
<1> QED
  BY <1>1, <1>2, <1>3, <1>4, <1>5, <1>6, <1>7, <1>8, <1>9, <1>10, <1>11, <1>12
  DEF AccNext

(* What a handler knows stays true while the others go on: rows are only   *)
(* added, behind the first.                                                *)
LEMMA ProgressPreserved ==
  AccTypeOK /\ RowsAreMade /\ UniqueNames /\ Progress /\ [AccNext]_accVars => Progress'
<1> SUFFICES ASSUME AccTypeOK, RowsAreMade, UniqueNames, Progress, [AccNext]_accVars
             PROVE Progress'
  OBVIOUS
<1>0. \A k \in DOMAIN rows : k \in 1 .. Len(rows) /\ rows[k].maker \in Handlers
  BY RowType
<1>a. \A h \in Handlers : CreateUser(h) /\ ~Taken(want[h]) => Grown(h)
  BY RowsGrow
<1> USE AccountsAssumption DEF AccTypeOK, Statements, Ended, Goto, LogIn
<1>1. ASSUME NEW h \in Handlers, NEW u \in Usernames, Login(h, u) PROVE Progress'
  BY <1>1 DEF Login, Progress
<1>2. ASSUME NEW h \in Handlers, NEW u \in Usernames, Register(h, u) PROVE Progress'
  BY <1>2 DEF Register, Progress
<1>3. ASSUME NEW h \in Handlers, NEW i \in Identities, NEW b \in Bases, Callback(h, i, b)
      PROVE Progress'
  <2>1. <<b, 1>> \in Usernames
    BY <1>3 DEF Usernames
  <2> QED
    BY <1>3, <2>1 DEF Callback, Progress
<1>4. ASSUME NEW h \in Handlers, Fail(h) PROVE Progress'
  BY <1>4 DEF Fail, Progress
<1>5. ASSUME NEW h \in Handlers, GetByProvider(h) PROVE Progress'
  BY <1>5 DEF GetByProvider, Progress
<1>6. ASSUME NEW h \in Handlers, TryName(h) PROVE Progress'
  <2>1. want[h] \in Usernames
    BY <1>6 DEF TryName, Progress
  <2> QED
    <3>1. CASE hpc' = [hpc EXCEPT ![h] = "inserting"] /\ want' = want
      BY <1>6, <3>1 DEF TryName, Progress
    <3>2. CASE hpc' = hpc /\ want' = [want EXCEPT ![h] = NextName(want[h])] /\ want[h][2] < MaxTry
      <4>1. NextName(want[h]) \in Usernames
        BY <2>1, <3>2, NextNameType
      <4> QED
        BY <1>6, <3>2, <4>1 DEF TryName, Progress
    <3> QED
      BY <1>6, <3>1, <3>2 DEF TryName
<1>7. ASSUME NEW h \in Handlers, CreateUser(h) PROVE Progress'
  <2>1. CASE Taken(want[h])
    <3>1. /\ hpc' = [hpc EXCEPT ![h] = "failed"] /\ hpc[h] = "inserting"
          /\ UNCHANGED <<rows, ident, want, session>>
      BY <1>7, <2>1 DEF CreateUser
    <3> QED
      BY <3>1 DEF Progress
  <2>2. CASE ~Taken(want[h])
    <3>1. Grown(h)
      BY <1>a, <1>7, <2>2
    <3>2. 1 \in DOMAIN rows => 1 \in DOMAIN rows' /\ rows'[1] = rows[1]
      BY <3>1 DEF Grown
    <3>3. Len(rows) + 1 \in DOMAIN rows'
      BY <3>1 DEF Grown
    <3>4. \A g \in Handlers : (\E k \in DOMAIN rows : rows[k].maker = g)
             => \E k \in DOMAIN rows' : rows'[k].maker = g
      BY <3>1 DEF Grown
    <3>5. \E k \in DOMAIN rows' : rows'[k].maker = h
      BY <3>1, <3>3 DEF Grown
    <3>6. /\ hpc' = [hpc EXCEPT ![h] = "counting"] /\ hpc[h] = "inserting"
          /\ UNCHANGED <<ident, want, session>>
      BY <1>7, <3>1 DEF Grown, CreateUser
    <3> QED
      BY <3>2, <3>4, <3>5, <3>6 DEF Progress
  <2> QED
    BY <2>1, <2>2
<1>8. ASSUME NEW h \in Handlers, CountUsers(h) PROVE Progress'
  <2>1. PICK k \in DOMAIN rows : rows[k].maker = h
    BY <1>8 DEF CountUsers, Progress
  <2>2. rows[k].user = want[h] /\ k \in 1 .. Len(rows)
    BY <1>0, <2>1 DEF RowsAreMade
  <2>3. Len(rows) = 1 => 1 \in DOMAIN rows /\ rows[1].user = want[h]
    BY <2>1, <2>2
  <2>4. /\ hpc[h] = "counting" /\ UNCHANGED <<rows, ident, want, session>>
        /\ \/ hpc' = [hpc EXCEPT ![h] = "returning"]
           \/ /\ hpc' = [hpc EXCEPT ![h] = "promoting"]
              /\ Len(rows) = 1 \/ want[h] = AdminUser
    <3>1. PICK count \in {Len(rows)} \union (IF StoreFails THEN {0} ELSE {}) :
            Goto(h, IF count = 1 \/ want[h] = AdminUser THEN "promoting" ELSE "returning")
      BY <1>8 DEF CountUsers
    <3>2. count = 1 => Len(rows) = 1
      BY <3>1
    <3>3. CASE count = 1 \/ want[h] = AdminUser
      BY <1>8, <3>1, <3>2, <3>3 DEF CountUsers
    <3>4. CASE ~(count = 1 \/ want[h] = AdminUser)
      BY <1>8, <3>1, <3>4 DEF CountUsers
    <3> QED
      BY <3>3, <3>4
  <2> QED
    BY <2>3, <2>4 DEF Progress
<1>9. ASSUME NEW h \in Handlers, SetAdmin(h) PROVE Progress'
  BY <1>9 DEF SetAdmin, Progress
<1>10. ASSUME NEW h \in Handlers, Return(h) PROVE Progress'
  BY <1>10 DEF Return, Progress
<1>11. ASSUME Crash PROVE Progress'
  BY <1>11 DEF Crash, Progress
<1>12. ASSUME UNCHANGED accVars PROVE Progress'
  BY <1>12 DEF accVars, Progress
<1> QED
  BY <1>1, <1>2, <1>3, <1>4, <1>5, <1>6, <1>7, <1>8, <1>9, <1>10, <1>11, <1>12
  DEF AccNext


(* No account of a callback's identity is older than its look-up, for a    *)
(* row that comes later has a higher id.                                   *)
LEMMA LookedPreserved ==
  AccTypeOK /\ Progress /\ LookedInTime /\ [AccNext]_accVars => LookedInTime'
<1> SUFFICES ASSUME AccTypeOK, Progress, LookedInTime, [AccNext]_accVars PROVE LookedInTime'
  OBVIOUS
<1>a. \A h \in Handlers : CreateUser(h) /\ ~Taken(want[h]) => Grown(h)
  BY RowsGrow
<1> USE AccountsAssumption DEF AccTypeOK, Statements, Ended, Goto, LogIn
<1>1. ASSUME NEW h \in Handlers, NEW u \in Usernames, Login(h, u) PROVE LookedInTime'
  BY <1>1 DEF Login, LookedInTime
<1>2. ASSUME NEW h \in Handlers, NEW u \in Usernames, Register(h, u) PROVE LookedInTime'
  <2>1. ident[h] = Local
    BY <1>2 DEF Register, Progress
  <2> QED
    BY <1>2, <2>1 DEF Register, LookedInTime
<1>3. ASSUME NEW h \in Handlers, NEW i \in Identities, NEW b \in Bases, Callback(h, i, b)
      PROVE LookedInTime'
  BY <1>3 DEF Callback, LookedInTime
<1>4. ASSUME NEW h \in Handlers, Fail(h) PROVE LookedInTime'
  BY <1>4 DEF Fail, LookedInTime
<1>5. ASSUME NEW h \in Handlers, GetByProvider(h) PROVE LookedInTime'
  <2>1. CASE hpc' = [hpc EXCEPT ![h] = "in"] /\ UNCHANGED looked
    BY <1>5, <2>1 DEF GetByProvider, LookedInTime
  <2>2. CASE /\ \A k \in DOMAIN rows : rows[k].ident # ident[h]
             /\ hpc' = [hpc EXCEPT ![h] = "naming"]
             /\ looked' = [looked EXCEPT ![h] = Len(rows)]
    BY <1>5, <2>2 DEF GetByProvider, LookedInTime
  <2> QED
    BY <1>5, <2>1, <2>2 DEF GetByProvider
<1>6. ASSUME NEW h \in Handlers, TryName(h) PROVE LookedInTime'
  BY <1>6 DEF TryName, LookedInTime
<1>7. ASSUME NEW h \in Handlers, CreateUser(h) PROVE LookedInTime'
  <2>1. CASE Taken(want[h])
    BY <1>7, <2>1 DEF CreateUser, LookedInTime
  <2>2. CASE ~Taken(want[h])
    <3>1. Grown(h)
      BY <1>a, <1>7, <2>2
    <3>2. \A g \in Handlers : looked'[g] <= Len(rows')
      BY <3>1 DEF Grown, LookedInTime
    <3>3. ASSUME NEW g \in Handlers, hpc'[g] \in {"naming", "inserting"}, ident'[g] # Local,
                 NEW k \in DOMAIN rows', rows'[k].ident = ident'[g]
          PROVE  looked'[g] < k
      BY <3>1, <3>3 DEF Grown, LookedInTime
    <3> QED
      BY <3>2, <3>3 DEF LookedInTime
  <2> QED
    BY <2>1, <2>2
<1>8. ASSUME NEW h \in Handlers, CountUsers(h) PROVE LookedInTime'
  BY <1>8 DEF CountUsers, LookedInTime
<1>9. ASSUME NEW h \in Handlers, SetAdmin(h) PROVE LookedInTime'
  BY <1>9 DEF SetAdmin, LookedInTime
<1>10. ASSUME NEW h \in Handlers, Return(h) PROVE LookedInTime'
  BY <1>10 DEF Return, LookedInTime
<1>11. ASSUME Crash PROVE LookedInTime'
  BY <1>11 DEF Crash, LookedInTime
<1>12. ASSUME UNCHANGED accVars PROVE LookedInTime'
  BY <1>12 DEF accVars, LookedInTime
<1> QED
  BY <1>1, <1>2, <1>3, <1>4, <1>5, <1>6, <1>7, <1>8, <1>9, <1>10, <1>11, <1>12
  DEF AccNext

(* A second account of an identity comes from a look-up that was too early *)
(* for the first.                                                          *)
LEMMA OverlapPreserved ==
  AccTypeOK /\ Progress /\ RowsAreMade /\ LookedInTime /\ SecondOverlapsFirst
    /\ [AccNext]_accVars => SecondOverlapsFirst'
<1> SUFFICES ASSUME AccTypeOK, Progress, RowsAreMade, LookedInTime, SecondOverlapsFirst,
                    [AccNext]_accVars
             PROVE SecondOverlapsFirst'
  OBVIOUS
<1>0. \A k \in DOMAIN rows : k \in 1 .. Len(rows) /\ rows[k].maker \in Handlers
  BY RowType
<1>1. ASSUME NEW h \in Handlers, CreateUser(h), ~Taken(want[h]) PROVE SecondOverlapsFirst'
  <2>1. Grown(h) /\ hpc[h] = "inserting"
    BY <1>1, RowsGrow DEF CreateUser
  <2>2. ident[h] # Local => \A k \in DOMAIN rows : rows[k].ident = ident[h] => looked[h] < k
    BY <2>1 DEF LookedInTime
  <2>3. ASSUME NEW j \in DOMAIN rows', NEW k \in DOMAIN rows', j < k,
               rows'[j].ident = rows'[k].ident, rows'[k].ident # Local
        PROVE  looked'[rows'[k].maker] < j
    <3>1. j \in DOMAIN rows
      BY <1>0, <2>1, <2>3 DEF Grown
    <3>2. CASE k \in DOMAIN rows
      BY <2>1, <2>3, <3>1, <3>2 DEF Grown, SecondOverlapsFirst
    <3>3. CASE k = Len(rows) + 1
      BY <2>1, <2>2, <2>3, <3>1, <3>3 DEF Grown
    <3> QED
      BY <2>1, <3>2, <3>3 DEF Grown
  <2> QED
    BY <2>3 DEF SecondOverlapsFirst
<1>2. ASSUME NEW h \in Handlers, GetByProvider(h) PROVE SecondOverlapsFirst'
  <2>1. \A k \in DOMAIN rows : rows[k].maker # h
    BY <1>2 DEF GetByProvider, RowsAreMade, Ended
  <2>2. rows' = rows /\ \A g \in Handlers \ {h} : looked'[g] = looked[g]
    BY <1>2 DEF GetByProvider, AccTypeOK
  <2> QED
    BY <1>0, <2>1, <2>2 DEF SecondOverlapsFirst
<1>3. CASE rows' = rows /\ looked' = looked
  BY <1>3 DEF SecondOverlapsFirst
<1>4. (\E h \in Handlers : GetByProvider(h)) \/ looked' = looked
  BY DEF AccNext, Login, Register, Callback, Fail, TryName, CreateUser, CountUsers,
         SetAdmin, Return, Crash, accVars
<1> QED
  BY <1>1, <1>2, <1>3, <1>4, RowsStay

(* Whoever is promoted made the first row or has the configured name.      *)
LEMMA AdminPreserved ==
  AccTypeOK /\ Progress /\ UniqueNames /\ AdminIsFirst /\ [AccNext]_accVars => AdminIsFirst'
<1> SUFFICES ASSUME AccTypeOK, Progress, UniqueNames, AdminIsFirst, [AccNext]_accVars
             PROVE AdminIsFirst'
  OBVIOUS
<1>1. ASSUME NEW h \in Handlers, CreateUser(h), ~Taken(want[h]) PROVE AdminIsFirst'
  <2>1. Grown(h)
    BY <1>1, RowsGrow
  <2> QED
    BY <2>1 DEF AdminIsFirst, Grown, AccTypeOK
<1>2. ASSUME NEW h \in Handlers, SetAdmin(h) PROVE AdminIsFirst'
  <2>1. want[h] = AdminUser \/ (1 \in DOMAIN rows /\ rows[1].user = want[h])
    BY <1>2 DEF SetAdmin, Progress
  <2>2. \A k \in DOMAIN rows : rows[k].user = want[h] => k = 1 \/ rows[k].user = AdminUser
    BY <2>1 DEF UniqueNames
  <2> QED
    BY <1>2, <2>2 DEF SetAdmin, AdminIsFirst
<1>3. CASE rows' = rows /\ admins' = admins
  BY <1>3 DEF AdminIsFirst
<1>4. (\E h \in Handlers : SetAdmin(h)) \/ admins' = admins
  BY DEF AccNext, Login, Register, Callback, Fail, GetByProvider, TryName, CreateUser,
         CountUsers, Return, Crash, accVars
<1> QED
  BY <1>1, <1>2, <1>3, <1>4, RowsStay

(* A cookie stays its owner's: nobody else gets an account of that name.   *)
LEMMA SessionPreserved ==
  AccTypeOK /\ Progress /\ UniqueNames /\ RowsAreMade /\ SessionIsOwn
    /\ [AccNext]_accVars => SessionIsOwn'
<1> SUFFICES ASSUME AccTypeOK, Progress, UniqueNames, RowsAreMade, SessionIsOwn,
                    [AccNext]_accVars
             PROVE SessionIsOwn'
  OBVIOUS
<1> DEFINE Own(h) ==
      session[h] # NoUser =>
        /\ Taken(session[h])
        /\ \A k \in DOMAIN rows : rows[k].user = session[h] =>
             /\ rows[k].ident = ident[h]
             /\ ident[h] = Local /\ want[h] # NoUser => rows[k].maker = h
<1>0. SUFFICES ASSUME NEW g \in Handlers PROVE Own(g)'
  BY DEF SessionIsOwn
<1>a. Own(g)
  BY DEF SessionIsOwn
<1>1. CASE UNCHANGED <<rows, session, ident, want>>
  BY <1>a, <1>1 DEF Taken
<1>2. ASSUME NEW h \in Handlers, NEW u \in Usernames, Login(h, u) PROVE Own(g)'
  <2>1. want[h] = NoUser /\ ident[h] = Local
    BY <1>2 DEF Login, Progress
  <2>2. PICK k \in DOMAIN rows : rows[k].user = u /\ rows[k].ident = Local
    BY <1>2 DEF Login
  <2>3. session' = [session EXCEPT ![h] = u] /\ UNCHANGED <<rows, ident, want>>
    BY <1>2 DEF Login, LogIn
  <2>4. CASE g = h
    BY <2>1, <2>2, <2>3, <2>4 DEF Taken, UniqueNames, AccTypeOK
  <2>5. CASE g # h
    BY <1>a, <2>3, <2>5 DEF Taken, AccTypeOK
  <2> QED
    BY <2>4, <2>5
<1>3. ASSUME NEW h \in Handlers, NEW u \in Usernames, Register(h, u) PROVE Own(g)'
  <2>1. session[h] = NoUser
    BY <1>3 DEF Register, Progress, Statements
  <2> QED
    BY <1>a, <1>3, <2>1 DEF Register, Taken, AccTypeOK
<1>4. ASSUME NEW h \in Handlers, NEW i \in Identities, NEW b \in Bases, Callback(h, i, b)
      PROVE Own(g)'
  <2>1. session[h] = NoUser
    BY <1>4 DEF Callback, Progress, Statements
  <2> QED
    BY <1>a, <1>4, <2>1 DEF Callback, Taken, AccTypeOK
<1>5. ASSUME NEW h \in Handlers, GetByProvider(h), session' # session PROVE Own(g)'
  <2>1. PICK k \in DOMAIN rows : rows[k].ident = ident[h] /\ LogIn(h, rows[k].user)
    BY <1>5 DEF GetByProvider
  <2>2. session' = [session EXCEPT ![h] = rows[k].user] /\ UNCHANGED <<rows, ident, want>>
    BY <1>5, <2>1 DEF GetByProvider, LogIn
  <2>3. ident[h] # Local
    BY <1>5, AccountsAssumption DEF GetByProvider, Progress
  <2>4. CASE g = h
    BY <2>1, <2>2, <2>3, <2>4 DEF Taken, UniqueNames, AccTypeOK
  <2>5. CASE g # h
    BY <1>a, <2>2, <2>5 DEF Taken, AccTypeOK
  <2> QED
    BY <2>4, <2>5
<1>6. ASSUME NEW h \in Handlers, TryName(h) PROVE Own(g)'
  <2>1. session[h] = NoUser
    BY <1>6 DEF TryName, Progress, Statements
  <2>2. \A x \in Handlers \ {h} : want'[x] = want[x]
    BY <1>6 DEF TryName, AccTypeOK
  <2> QED
    BY <1>a, <1>6, <2>1, <2>2 DEF TryName, Taken
<1>7. ASSUME NEW h \in Handlers, CreateUser(h), ~Taken(want[h]) PROVE Own(g)'
  <2>1. Grown(h)
    BY <1>7, RowsGrow
  <2>2. session[g] # NoUser => session[g] # want[h]
    BY <1>7, <1>a
  <2> QED
    BY <1>a, <2>1, <2>2 DEF Grown, Taken
<1>8. ASSUME NEW h \in Handlers, Return(h) PROVE Own(g)'
  <2>1. PICK k \in DOMAIN rows : rows[k].maker = h
    BY <1>8 DEF Return, Progress
  <2>2. rows[k].user = want[h] /\ rows[k].ident = ident[h]
    BY <2>1 DEF RowsAreMade
  <2>3. session' = [session EXCEPT ![h] = want[h]] /\ UNCHANGED <<rows, ident, want>>
    BY <1>8 DEF Return, LogIn
  <2>4. CASE g = h
    BY <2>1, <2>2, <2>3, <2>4 DEF Taken, UniqueNames, AccTypeOK
  <2>5. CASE g # h
    BY <1>a, <2>3, <2>5 DEF Taken, AccTypeOK
  <2> QED
    BY <2>4, <2>5
<1> QED
  BY <1>1, <1>2, <1>3, <1>4, <1>5, <1>6, <1>7, <1>8
  DEF AccNext, Fail, GetByProvider, CreateUser, CountUsers, SetAdmin, Crash, accVars

-----------------------------------------------------------------------------
(* The strengthened invariant, from which the others follow.               *)
THEOREM AccInvHolds == AccSpec => []AccInv
<1>1. AccInit => AccInv
  BY AccountsAssumption
  DEF AccInit, AccInv, AccTypeOK, Statements, Ended, UniqueNames, RowsAreMade, Progress,
      LookedInTime, SessionIsOwn, AdminIsFirst, SecondOverlapsFirst
<1>2. AccInv /\ [AccNext]_accVars => AccInv'
  BY AccTypePreserved, UniquePreserved, RowsMadePreserved, ProgressPreserved, LookedPreserved,
     SessionPreserved, AdminPreserved, OverlapPreserved
  DEF AccInv
<1> QED
  BY <1>1, <1>2, PTL DEF AccSpec

(* Type correctness of the table and the handlers.                         *)
THEOREM AccountsAreTyped == AccSpec => []AccTypeOK
<1>1. AccInv => AccTypeOK
  BY DEF AccInv
<1> QED
  BY <1>1, AccInvHolds, PTL

(* A cookie names the account of whom it was given to.                     *)
THEOREM SessionsAreOwn == AccSpec => []SessionIsOwn
<1>1. AccInv => SessionIsOwn
  BY DEF AccInv
<1> QED
  BY <1>1, AccInvHolds, PTL

(* Only the first user and the configured one are ever made admins.        *)
THEOREM AdminsAreFirst == AccSpec => []AdminIsFirst
<1>1. AccInv => AdminIsFirst
  BY DEF AccInv
<1> QED
  BY <1>1, AccInvHolds, PTL

(* An identity gets a second account only by logging in twice at once.     *)
THEOREM SecondsOverlap == AccSpec => []SecondOverlapsFirst
<1>1. AccInv => SecondOverlapsFirst
  BY DEF AccInv
<1> QED
  BY <1>1, AccInvHolds, PTL

-----------------------------------------------------------------------------
(* The abstract specification *)

LEMMA BookInitial == AccInit => Book!BookInit
  BY DEF AccInit, Book!BookInit

(* The lines a request has opened are the rows it made, and there is none  *)
(* before its insert.                                                      *)
LEMMA OpensOnce ==
  ASSUME AccInv, NEW h \in Handlers, hpc[h] \in {"new", "finding", "naming", "inserting"}
  PROVE  Book!Undecided(h)
<1>1. \A k \in DOMAIN rows : rows[k].maker # h
  BY DEF AccInv, RowsAreMade, Ended
<1>2. session[h] = NoUser
  BY DEF AccInv, Progress, Statements, Ended
<1> QED
  BY <1>1, <1>2 DEF Book!Undecided, Book!Opened

(* Every statement is a step in the book, or none.                         *)
LEMMA BookStep == AccInv /\ [AccNext]_accVars => [Book!BookNext]_(Book!bookVars)
<1> SUFFICES ASSUME AccInv, [AccNext]_accVars PROVE [Book!BookNext]_(Book!bookVars)
  OBVIOUS
<1>t. /\ ident \in [Handlers -> Identities \union {Local}]
      /\ want \in [Handlers -> Usernames \union {NoUser}]
      /\ session \in [Handlers -> Usernames \union {NoUser}]
  BY DEF AccInv, AccTypeOK
<1>in. ASSUME NEW h \in Handlers, NEW k \in DOMAIN rows, LogIn(h, rows[k].user),
              session[h] = NoUser, rows[k].ident = ident[h],
              \A j \in DOMAIN rows : rows[j].maker = h => j = k,
              UNCHANGED <<rows, admins, ident>>
       PROVE  Book!BookNext
  <2>1. Book!LetIn(h, k)
    BY <1>in DEF LogIn, Book!LetIn, Book!Opened
  <2> QED
    BY <2>1 DEF Book!BookNext
<1>1. ASSUME NEW h \in Handlers, NEW u \in Usernames, Login(h, u) PROVE Book!BookNext
  <2>1. PICK k \in DOMAIN rows : rows[k].user = u /\ rows[k].ident = Local
    BY <1>1 DEF Login
  <2>2. ident[h] = Local
    BY <1>1 DEF Login, AccInv, Progress
  <2>3. Book!Undecided(h)
    BY <1>1, OpensOnce DEF Login
  <2> QED
    BY <1>1, <2>1, <2>2, <2>3, <1>in DEF Login, Book!Undecided, Book!Opened
<1>2. ASSUME NEW h \in Handlers, NEW u \in Usernames, Register(h, u)
      PROVE  UNCHANGED Book!bookVars
  BY <1>2 DEF Register, Book!bookVars
<1>3. ASSUME NEW h \in Handlers, NEW i \in Identities, NEW b \in Bases, Callback(h, i, b)
      PROVE  Book!BookNext
  <2>1. ident[h] = Local
    BY <1>3 DEF Callback, AccInv, Progress
  <2>2. Book!Undecided(h)
    BY <1>3, OpensOnce DEF Callback
  <2>3. Book!Vouch(h, i)
    BY <1>3, <2>1 DEF Callback, Book!Vouch
  <2> QED
    BY <2>2, <2>3 DEF Book!BookNext
<1>4. ASSUME NEW h \in Handlers, Fail(h) PROVE UNCHANGED Book!bookVars
  BY <1>4 DEF Fail, Book!bookVars
<1>5. ASSUME NEW h \in Handlers, GetByProvider(h)
      PROVE  Book!BookNext \/ UNCHANGED Book!bookVars
  <2>1. CASE UNCHANGED session
    BY <1>5, <2>1 DEF GetByProvider, Book!bookVars
  <2>2. CASE \E k \in DOMAIN rows : rows[k].ident = ident[h] /\ LogIn(h, rows[k].user)
    <3>1. PICK k \in DOMAIN rows : rows[k].ident = ident[h] /\ LogIn(h, rows[k].user)
      BY <2>2
    <3>2. Book!Undecided(h)
      BY <1>5, OpensOnce DEF GetByProvider
    <3> QED
      BY <1>5, <3>1, <3>2, <1>in DEF GetByProvider, Book!Undecided, Book!Opened
  <2> QED
    BY <1>5, <2>1, <2>2 DEF GetByProvider
<1>6. ASSUME NEW h \in Handlers, TryName(h) PROVE UNCHANGED Book!bookVars
  BY <1>6 DEF TryName, Book!bookVars
<1>7. ASSUME NEW h \in Handlers, CreateUser(h)
      PROVE  Book!BookNext \/ UNCHANGED Book!bookVars
  <2>1. CASE Taken(want[h])
    BY <1>7, <2>1 DEF CreateUser, Book!bookVars
  <2>2. CASE ~Taken(want[h])
    <3>1. want[h] \in Usernames
      BY <1>7 DEF CreateUser, AccInv, Progress, Statements, Ended
    <3>2. Book!Undecided(h)
      BY <1>7, OpensOnce DEF CreateUser
    <3>3. Book!Open(h, want[h])
      BY <1>7, <2>2 DEF CreateUser, NewRow, Taken, Book!Open
    <3> QED
      BY <3>1, <3>2, <3>3 DEF Book!BookNext
  <2> QED
    BY <2>1, <2>2
<1>8. ASSUME NEW h \in Handlers, CountUsers(h) PROVE UNCHANGED Book!bookVars
  BY <1>8 DEF CountUsers, Book!bookVars
<1>9. ASSUME NEW h \in Handlers, SetAdmin(h)
      PROVE  Book!BookNext \/ UNCHANGED Book!bookVars
  <2>1. CASE admins' = admins
    BY <1>9, <2>1 DEF SetAdmin, Book!bookVars
  <2>2. CASE admins' = admins \union {k \in DOMAIN rows : rows[k].user = want[h]}
    <3>1. PICK k \in DOMAIN rows : rows[k].maker = h
      BY <1>9 DEF SetAdmin, AccInv, Progress
    <3>2. rows[k].user = want[h]
      BY <3>1 DEF AccInv, RowsAreMade
    <3>3. {j \in DOMAIN rows : rows[j].user = want[h]} = {k}
      BY <3>2 DEF AccInv, UniqueNames
    <3>4. k = 1 \/ rows[k].user = AdminUser
      BY <1>9, <3>2 DEF SetAdmin, AccInv, Progress, UniqueNames
    <3>5. Book!Trust(k)
      BY <1>9, <2>2, <3>3, <3>4 DEF SetAdmin, Book!Trust
    <3> QED
      BY <3>5 DEF Book!BookNext
  <2> QED
    BY <1>9, <2>1, <2>2 DEF SetAdmin
<1>10. ASSUME NEW h \in Handlers, Return(h) PROVE Book!BookNext
  <2>1. PICK k \in DOMAIN rows : rows[k].maker = h
    BY <1>10 DEF Return, AccInv, Progress
  <2>2. \A j \in DOMAIN rows :
          rows[j].maker = h => rows[j].user = want[h] /\ rows[j].ident = ident[h]
    BY DEF AccInv, RowsAreMade
  <2>3. \A j \in DOMAIN rows : rows[j].maker = h => j = k
    BY <2>1, <2>2 DEF AccInv, UniqueNames
  <2>4. session[h] = NoUser
    BY <1>10 DEF Return, AccInv, Progress, Statements
  <2> QED
    BY <1>10, <2>1, <2>2, <2>3, <2>4, <1>in DEF Return
<1>11. ASSUME Crash PROVE UNCHANGED Book!bookVars
  BY <1>11 DEF Crash, Book!bookVars
<1>12. CASE UNCHANGED accVars
  BY <1>12 DEF accVars, Book!bookVars
<1> QED
  BY <1>1, <1>2, <1>3, <1>4, <1>5, <1>6, <1>7, <1>8, <1>9, <1>10, <1>11, <1>12
  DEF AccNext

(* The handlers of /login, /register and the OAuth callback, statement by  *)
(* statement over the users table, implement the account book.             *)
THEOREM AccountsAreABook == AccSpec => BookHolds
  BY BookInitial, BookStep, AccInvHolds, PTL DEF AccSpec, BookHolds, Book!BookSpec

-----------------------------------------------------------------------------
(* Why FirstIsAdmin fails.  The run first_user_admin refutes it by a       *)
(* registration that comes between the insert of the first user and its    *)
(* count; a statement of the store that fails does it too.  There is no    *)
(* third cause.                                                            *)

FirstCountsAlone ==
  rows # <<>> /\ hpc[rows[1].maker] = "counting" => UNCHANGED rows

FirstGoesOn ==
  rows # <<>> =>
    /\ hpc[rows[1].maker] = "counting" => Len(rows) = 1
    /\ hpc[rows[1].maker] \in {"returning", "in"} => 1 \in admins

LEMMA FirstPreserved ==
  ASSUME AccInv, FirstGoesOn, AccNext, FirstCountsAlone, ~StoreFails
  PROVE  FirstGoesOn'
<1> USE DEF Goto, LogIn, Ended
<1>0. AccTypeOK /\ Progress /\ RowsAreMade BY DEF AccInv
<1>1. ASSUME NEW h \in Handlers, CreateUser(h), ~Taken(want[h]) PROVE FirstGoesOn'
  <2>1. Grown(h) /\ hpc \in [Handlers -> Statements]
    BY <1>0, <1>1, RowsGrow DEF AccTypeOK
  <2>2. CASE rows = <<>>
    <3>1. Len(rows') = 1 /\ rows'[1].maker = h /\ hpc'[h] = "counting"
      BY <2>1, <2>2 DEF Grown
    <3> QED BY <3>1 DEF FirstGoesOn
  <2>3. CASE rows # <<>>
    <3>1. 1 \in DOMAIN rows /\ rows[1].maker \in Handlers
      BY <1>0, <2>3, RowType DEF AccTypeOK
    <3>2. rows'[1] = rows[1] /\ rows' # rows BY <2>1, <3>1 DEF Grown
    <3>3. hpc[rows[1].maker] \notin {"counting", "inserting"}
      BY <1>0, <2>3, <3>1, <3>2 DEF FirstCountsAlone, RowsAreMade
    <3>4. hpc'[rows[1].maker] = hpc[rows[1].maker]
      BY <1>1, <2>1, <3>1, <3>3 DEF Grown, CreateUser
    <3>5. admins' = admins BY <2>1 DEF Grown
    <3> QED BY <2>3, <3>2, <3>3, <3>4, <3>5 DEF FirstGoesOn
  <2> QED BY <2>2, <2>3
<1>2. CASE ~\E h \in Handlers : CreateUser(h) /\ ~Taken(want[h])
  <2>1. rows' = rows BY <1>2, RowsStay
  <2>2. CASE rows = <<>> BY <2>1, <2>2 DEF FirstGoesOn
  <2>3. ASSUME rows # <<>>, NEW f, f = rows[1].maker PROVE FirstGoesOn'
    <3>1. /\ 1 \in DOMAIN rows /\ f \in Handlers /\ rows[1].user = want[f]
          /\ hpc[f] \in {"counting", "promoting", "returning"} \union Ended
      BY <1>0, <2>3, RowType DEF AccTypeOK, RowsAreMade
    <3>2. hpc \in [Handlers -> Statements] BY <1>0 DEF AccTypeOK
    <3>3. CASE \E h \in Handlers : SetAdmin(h)
      BY <2>1, <2>3, <3>1, <3>2, <3>3 DEF SetAdmin, FirstGoesOn
    <3>4. CASE \E h \in Handlers : CountUsers(h)
      BY <2>1, <2>3, <3>1, <3>2, <3>4 DEF CountUsers, FirstGoesOn
    <3>5. CASE ~\E h \in Handlers : SetAdmin(h) \/ CountUsers(h)
      <4>1. /\ UNCHANGED admins
            /\ hpc'[f] = "counting" => hpc[f] = "counting"
            /\ hpc'[f] \in {"returning", "in"} => hpc[f] \in {"returning", "in"}
        BY <1>2, <3>1, <3>2, <3>5
        DEF AccNext, Login, Register, Callback, Fail, GetByProvider, TryName, CreateUser,
            Return, Crash
      <4> QED BY <2>1, <2>3, <4>1 DEF FirstGoesOn
    <3> QED BY <3>3, <3>4, <3>5
  <2> QED BY <2>2, <2>3
<1> QED BY <1>1, <1>2

(* With a store that does not fail, and nobody registering while the first *)
(* user is being counted, the first user is an admin's when its request    *)
(* has been answered, whatever comes before or after, and whatever         *)
(* crashes.                                                                *)
THEOREM OnlyRacesHideTheFirst ==
  ASSUME ~StoreFails
  PROVE  AccSpec /\ [][FirstCountsAlone]_accVars => []FirstIsAdmin
<1>1. AccInit => FirstGoesOn BY DEF AccInit, FirstGoesOn
<1>2. AccInv /\ FirstGoesOn /\ [AccNext]_accVars /\ [FirstCountsAlone]_accVars
        => FirstGoesOn'
  <2>1. CASE UNCHANGED accVars BY <2>1 DEF accVars, FirstGoesOn
  <2> QED BY <2>1, FirstPreserved DEF accVars, FirstCountsAlone
<1>3. FirstGoesOn => FirstIsAdmin BY DEF FirstGoesOn, FirstIsAdmin
<1> QED BY <1>1, <1>2, <1>3, AccInvHolds, PTL DEF AccSpec
=============================================================================

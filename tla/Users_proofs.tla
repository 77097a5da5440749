----------------------------- MODULE Users_proofs -----------------------------
(***************************************************************************)
(* The safety properties of Users for any users, roles, number of handlers   *)
(* and life of tokens and captchas.                                         *)
(***************************************************************************)
EXTENDS Users, TLAPS

USE NamesAssumption, TimesAssumption

\* Captchas and tokens are of the past, and each token was issued for a captcha.
TokensFollowCaptchas ==
    /\ \A c \in captchas : c <= clock
    /\ \A t \in tokens : t.at <= clock /\ \E c \in captchas : c <= t.at /\ t.at < c + CaptchaLife

\* A handler holds the account it will change, which exists.
CopiesExist ==
    \A h \in Handlers : handlers[h] # Free =>
        /\ handlers[h].step = "authorised" => handlers[h].copy # Absent
        /\ handlers[h].step = "loaded" /\ handlers[h].ask.op # "create" =>
               handlers[h].copy # Absent /\ accounts[handlers[h].ask.on] # Absent
        /\ accounts[handlers[h].by] # Absent

\* Until another handler commits, what a handler has read is true: its operator is
\* an active administrator, and its copy is the account in the table.
CopiesCurrent ==
    \A h \in Handlers : handlers[h] # Free /\ ~handlers[h].raced =>
        /\ accounts[handlers[h].by].role = "admin"
        /\ accounts[handlers[h].by].status = "active"
        /\ handlers[h].step = "authorised" => handlers[h].copy = accounts[handlers[h].by]
        /\ handlers[h].step = "loaded" /\ handlers[h].ask.op # "create" =>
               handlers[h].copy = accounts[handlers[h].ask.on]

\* No handler in progress disables its own operator.
NobodyDisablesHimself ==
    \A h \in Handlers : handlers[h] # Free => ~Refuses(handlers[h].by, handlers[h].ask)

UsersInv ==
    /\ TypeOK
    /\ TokensFollowCaptchas
    /\ CopiesExist
    /\ CopiesCurrent
    /\ NobodyDisablesHimself
    /\ AccessFollowsLogin

-----------------------------------------------------------------------------
(* Facts about the operators.                                              *)

LEMMA AbsentIsNoAccount == Absent \notin Account
BY DEF Absent, Account, Statuses

LEMMA FreeIsNoHandler == Free \notin Handler
BY DEF Free, Handler

\* The columns a handler sets are those of an account.
LEMMA WantedIsAccount ==
    ASSUME NEW ask \in Operation, ask.op # "create", NEW copy \in Account
    PROVE  Wanted(ask, copy) \in Account
<1>1. CASE ask.op = "update"
  BY <1>1 DEF Wanted, Operation, Account, Statuses
<1>2. CASE ask.op = "disable"
  BY <1>2 DEF Wanted, Operation, Account, Statuses
<1>3. CASE ask.op = "reset"
  BY <1>3 DEF Wanted, Operation, Account, Statuses
<1> QED
  BY <1>1, <1>2, <1>3 DEF Operation

\* What CommitChange makes of the row.
NewRow(row, ask, copy) ==
    [c \in DOMAIN row |-> IF c \in ChangedColumns(ask, copy) THEN Wanted(ask, copy)[c] ELSE row[c]]

LEMMA AccountShape ==
    ASSUME NEW a \in Account
    PROVE  /\ DOMAIN a = {"role", "status", "password"}
           /\ a["role"] = a.role /\ a["status"] = a.status /\ a["password"] = a.password
           /\ a.role \in Roles /\ a.status \in Statuses /\ a.password \in Passwords
BY DEF Account

LEMMA NewRowIsAccount ==
    ASSUME NEW row \in Account, NEW ask \in Operation, ask.op # "create", NEW copy \in Account
    PROVE  NewRow(row, ask, copy) \in Account
<1> DEFINE w == Wanted(ask, copy)  n == NewRow(row, ask, copy)
<1>1. w \in Account
  BY WantedIsAccount
<1>2. DOMAIN n = {"role", "status", "password"}
  BY AccountShape DEF NewRow
<1>3. n["role"] \in Roles /\ n["status"] \in Statuses /\ n["password"] \in Passwords
  BY <1>1, AccountShape DEF NewRow
<1>4. n = [role |-> n["role"], status |-> n["status"], password |-> n["password"]]
  BY <1>2, AccountShape DEF NewRow
<1> QED
  BY <1>3, <1>4 DEF Account

-----------------------------------------------------------------------------
(* The invariant, action by action.                                        *)

LEMMA InitInv == Init => UsersInv
BY AbsentIsNoAccount
   DEF Init, UsersInv, TypeOK, TokensFollowCaptchas, CopiesExist, CopiesCurrent,
       NobodyDisablesHimself, AccessFollowsLogin, Account, Statuses

LEMMA TickInv == UsersInv /\ Tick => UsersInv'
BY DEF Tick, UsersInv, TypeOK, TokensFollowCaptchas, CopiesExist, CopiesCurrent,
       NobodyDisablesHimself, AccessFollowsLogin

LEMMA CaptchaInv == UsersInv /\ IssueCaptcha => UsersInv'
BY DEF IssueCaptcha, UsersInv, TypeOK, TokensFollowCaptchas, CopiesExist, CopiesCurrent,
       NobodyDisablesHimself, AccessFollowsLogin

LEMMA LoginInv ==
    ASSUME UsersInv, NEW u \in Users, NEW p \in Passwords, Login(u, p)
    PROVE  UsersInv'
<1> USE DEF UsersInv, Login
<1>1. TypeOK' /\ TokensFollowCaptchas'
  BY DEF TypeOK, TokensFollowCaptchas, CaptchaValid
<1>2. CopiesExist' /\ CopiesCurrent' /\ NobodyDisablesHimself'
  BY DEF CopiesExist, CopiesCurrent, NobodyDisablesHimself
<1>3. AccessFollowsLogin'
  BY DEF AccessFollowsLogin
<1> QED
  BY <1>1, <1>2, <1>3

\* The handler that begins has read the table in the same step.
LEMMA ReceiveInv ==
    ASSUME UsersInv, NEW h \in Handlers, NEW t \in tokens, NEW ask \in Operation,
           Receive(h, t, ask)
    PROVE  UsersInv'
<1> DEFINE new == [step |-> "authorised", by |-> t.user, ask |-> ask, raced |-> FALSE,
                   at |-> clock, copy |-> accounts[t.user]]
<1> USE DEF UsersInv, Receive
<1>1. t.user \in Users /\ accounts[t.user] # Absent
      /\ accounts[t.user].role = "admin" /\ accounts[t.user].status = "active"
  BY DEF TypeOK, Authorised, Absent
<1>2. handlers' = [handlers EXCEPT ![h] = new] /\ new \in Handler /\ new # Free
  BY <1>1 DEF TypeOK, Handler, Free
<1>3. TypeOK'
  BY <1>2 DEF TypeOK
<1>4. handlers'[h] = new /\ \A g \in Handlers : g # h => handlers'[g] = handlers[g]
  BY <1>2 DEF TypeOK
<1>5. TokensFollowCaptchas'
  BY DEF TokensFollowCaptchas
<1>6. CopiesExist'
  BY <1>1, <1>4 DEF CopiesExist
<1>7. CopiesCurrent'
  BY <1>1, <1>4 DEF CopiesCurrent
<1>8. NobodyDisablesHimself'
  BY <1>4 DEF NobodyDisablesHimself
<1>9. AccessFollowsLogin'
  BY <1>4 DEF AccessFollowsLogin, TokensFollowCaptchas, Authorised, Unexpired, TypeOK
<1> QED
  BY <1>3, <1>5, <1>6, <1>7, <1>8, <1>9

LEMMA LoadInv ==
    ASSUME UsersInv, NEW h \in Handlers, Load(h)
    PROVE  UsersInv'
<1> DEFINE hd == handlers[h]
           copy == IF hd.ask.on = hd.by THEN hd.copy ELSE accounts[hd.ask.on]
           new == [hd EXCEPT !.step = "loaded", !.copy = copy]
<1> USE DEF UsersInv, Load
<1>1. hd \in Handler /\ hd # Free /\ hd.step = "authorised" /\ hd.ask.on \in Users
      /\ hd.by \in Users /\ copy \in Account \cup {Absent}
  BY DEF TypeOK, Handler, Operation
<1>2. handlers' = [handlers EXCEPT ![h] = IF Missing(copy, hd.ask) THEN Free ELSE new]
  OBVIOUS
<1>3. /\ new \in Handler /\ new # Free
      /\ new.step = "loaded" /\ new.copy = copy /\ new.by = hd.by /\ new.ask = hd.ask
      /\ new.raced = hd.raced /\ new.at = hd.at
  BY <1>1 DEF Handler, Free
<1>4. TypeOK'
  BY <1>2, <1>3 DEF TypeOK
<1>5. /\ \A g \in Handlers : g # h => handlers'[g] = handlers[g]
      /\ handlers'[h] # Free => handlers'[h] = new /\ ~Missing(copy, hd.ask)
  BY <1>2 DEF TypeOK
<1>6. TokensFollowCaptchas'
  BY DEF TokensFollowCaptchas
<1>7. CopiesExist'
  BY <1>1, <1>3, <1>5 DEF CopiesExist, Missing
<1>8. CopiesCurrent'
  BY <1>1, <1>3, <1>5 DEF CopiesCurrent
<1>9. NobodyDisablesHimself'
  BY <1>1, <1>3, <1>5 DEF NobodyDisablesHimself
<1>10. AccessFollowsLogin'
  BY <1>1, <1>3, <1>5 DEF AccessFollowsLogin
<1> QED
  BY <1>4, <1>6, <1>7, <1>8, <1>9, <1>10

\* A commit that may change the table frees its handler and marks the others: of
\* what they rely on, only that rows exist must be kept.
LEMMA CommitInv ==
    ASSUME UsersInv, NEW h \in Handlers, Ends(h), UNCHANGED <<clock, captchas, tokens>>,
           accounts' \in [Users -> Account \cup {Absent}],
           \A u \in Users : accounts[u] # Absent => accounts'[u] # Absent
    PROVE  UsersInv'
<1> USE DEF UsersInv
<1>1. ASSUME NEW g \in Handlers, handlers'[g] # Free
      PROVE  /\ handlers[g] # Free /\ handlers[g] \in Handler
             /\ handlers'[g] = [handlers[g] EXCEPT !.raced = TRUE]
  BY <1>1 DEF Ends, TypeOK
<1>2. ASSUME NEW g \in Handlers, handlers'[g] # Free
      PROVE  /\ handlers'[g] \in Handler
             /\ handlers'[g].raced
             /\ handlers'[g].step = handlers[g].step /\ handlers'[g].by = handlers[g].by
             /\ handlers'[g].ask = handlers[g].ask /\ handlers'[g].at = handlers[g].at
             /\ handlers'[g].copy = handlers[g].copy
             /\ handlers[g].by \in Users /\ handlers[g].ask.on \in Users
  <2>1. handlers[g].by \in Users /\ handlers[g].ask \in Operation
    BY <1>1, <1>2 DEF Handler
  <2>2. handlers[g].ask.on \in Users
    BY <2>1 DEF Operation
  <2>3. /\ handlers'[g] \in Handler
        /\ handlers'[g].raced
        /\ handlers'[g].step = handlers[g].step /\ handlers'[g].by = handlers[g].by
        /\ handlers'[g].ask = handlers[g].ask /\ handlers'[g].at = handlers[g].at
        /\ handlers'[g].copy = handlers[g].copy
    BY <1>1, <1>2 DEF Handler
  <2> QED
    BY <2>1, <2>2, <2>3
<1>3. TypeOK'
  BY <1>2 DEF TypeOK, Ends
<1>4. TokensFollowCaptchas'
  BY DEF TokensFollowCaptchas
<1>5. CopiesExist'
  <2>1. SUFFICES ASSUME NEW g \in Handlers, handlers'[g] # Free
                 PROVE  /\ handlers[g].step = "authorised" => handlers[g].copy # Absent
                        /\ handlers[g].step = "loaded" /\ handlers[g].ask.op # "create" =>
                               handlers[g].copy # Absent /\ accounts'[handlers[g].ask.on] # Absent
                        /\ accounts'[handlers[g].by] # Absent
    BY <1>2 DEF CopiesExist
  <2>2. handlers[g] # Free /\ handlers[g].by \in Users /\ handlers[g].ask.on \in Users
    BY <1>1, <1>2, <2>1
  <2> QED
    BY <2>2 DEF CopiesExist
<1>6. CopiesCurrent'
  BY <1>2 DEF CopiesCurrent
<1>7. NobodyDisablesHimself'
  BY <1>1, <1>2 DEF NobodyDisablesHimself
<1>8. AccessFollowsLogin'
  BY <1>1, <1>2 DEF AccessFollowsLogin
<1> QED
  BY <1>3, <1>4, <1>5, <1>6, <1>7, <1>8

\* What the change of a loaded handler makes of the table.
LEMMA ChangeEffect ==
    ASSUME UsersInv, NEW h \in Handlers, CommitChange(h)
    PROVE  /\ handlers[h] # Free /\ handlers[h] \in Handler
           /\ handlers[h].ask \in Operation /\ handlers[h].ask.op # "create"
           /\ handlers[h].copy \in Account /\ accounts[handlers[h].ask.on] \in Account
           /\ accounts' = [accounts EXCEPT ![handlers[h].ask.on] =
                  NewRow(accounts[handlers[h].ask.on], handlers[h].ask, handlers[h].copy)]
<1>1. handlers[h] # Free /\ handlers[h] \in Handler /\ handlers[h].step = "loaded"
      /\ handlers[h].ask.op # "create"
  BY DEF CommitChange, UsersInv, TypeOK
<1>2. handlers[h].ask \in Operation /\ handlers[h].ask.on \in Users
  BY <1>1 DEF Handler, Operation
<1>3. handlers[h].copy \in Account /\ accounts[handlers[h].ask.on] \in Account
  BY <1>1, <1>2 DEF UsersInv, TypeOK, CopiesExist, Handler
<1>4. accounts' = [accounts EXCEPT ![handlers[h].ask.on] =
                  NewRow(accounts[handlers[h].ask.on], handlers[h].ask, handlers[h].copy)]
  BY DEF CommitChange, NewRow
<1> QED
  BY <1>1, <1>2, <1>3, <1>4

LEMMA CommitChangeInv ==
    ASSUME UsersInv, NEW h \in Handlers, CommitChange(h)
    PROVE  UsersInv'
<1> DEFINE ask == handlers[h].ask  copy == handlers[h].copy
<1>1. ask.on \in Users
  BY ChangeEffect DEF Operation
<1>2. NewRow(accounts[ask.on], ask, copy) \in Account
  BY ChangeEffect, NewRowIsAccount
<1>3. accounts' \in [Users -> Account \cup {Absent}]
  BY <1>1, <1>2, ChangeEffect DEF UsersInv, TypeOK
<1>4. \A u \in Users : accounts[u] # Absent => accounts'[u] # Absent
  BY <1>1, <1>2, ChangeEffect, AbsentIsNoAccount DEF UsersInv, TypeOK
<1> QED
  BY <1>3, <1>4, CommitInv DEF CommitChange

LEMMA CommitCreateInv ==
    ASSUME UsersInv, NEW h \in Handlers, CommitCreate(h)
    PROVE  UsersInv'
<1> DEFINE ask == handlers[h].ask
           row == [role |-> ask.role, status |-> "active", password |-> ask.password]
<1>1. ask.on \in Users /\ row \in Account
  BY DEF CommitCreate, UsersInv, TypeOK, Handler, Operation, Account, Statuses
<1>2. accounts' = accounts \/ accounts' = [accounts EXCEPT ![ask.on] = row]
  BY DEF CommitCreate
<1>3. accounts' \in [Users -> Account \cup {Absent}]
  BY <1>1, <1>2 DEF UsersInv, TypeOK
<1>4. \A u \in Users : accounts[u] # Absent => accounts'[u] # Absent
  BY <1>1, <1>2, AbsentIsNoAccount DEF UsersInv, TypeOK
<1> QED
  BY <1>3, <1>4, CommitInv DEF CommitCreate

LEMMA FailInv ==
    ASSUME UsersInv, NEW h \in Handlers, Fail(h)
    PROVE  UsersInv'
BY DEF Fail, UsersInv, TypeOK, TokensFollowCaptchas, CopiesExist, CopiesCurrent,
       NobodyDisablesHimself, AccessFollowsLogin

LEMMA NextInv == UsersInv /\ [Next]_vars => UsersInv'
<1> SUFFICES ASSUME UsersInv, [Next]_vars PROVE UsersInv'
  OBVIOUS
<1>1. CASE Next
  BY <1>1, TickInv, CaptchaInv, LoginInv, ReceiveInv, LoadInv, CommitChangeInv,
     CommitCreateInv, FailInv DEF Next
<1>2. CASE UNCHANGED vars
  BY <1>2 DEF vars, UsersInv, TypeOK, TokensFollowCaptchas, CopiesExist, CopiesCurrent,
       NobodyDisablesHimself, AccessFollowsLogin
<1> QED
  BY <1>1, <1>2

-----------------------------------------------------------------------------
(* The theorems.                                                           *)

\* The invariant holds in every reachable state.
THEOREM InvariantHolds == Spec => []UsersInv
BY InitInv, NextInv, PTL DEF Spec

\* Rows, copies and requests keep their shape through every change.
THEOREM TypeCorrect == Spec => []TypeOK
<1>1. UsersInv => TypeOK
  BY DEF UsersInv
<1> QED
  BY <1>1, InvariantHolds, PTL

\* Nobody's request is carried out unless he logged in, with a captcha that was
\* valid then, less than the life of a token before.
THEOREM LoginPrecedesAccess == Spec => []AccessFollowsLogin
<1>1. UsersInv => AccessFollowsLogin
  BY DEF UsersInv
<1> QED
  BY <1>1, InvariantHolds, PTL

\* Who commits a change, and what it was: only CommitChange changes rows there were.
LEMMA OnlyChanges ==
    ASSUME UsersInv, [Next]_vars, NEW u \in Users,
           accounts[u] # Absent, accounts'[u] # accounts[u]
    PROVE  \E h \in Handlers : CommitChange(h) /\ u = handlers[h].ask.on
<1>1. ASSUME NEW h \in Handlers, CommitChange(h)
      PROVE  u = handlers[h].ask.on
  BY <1>1, ChangeEffect DEF UsersInv, TypeOK
<1>2. ASSUME NEW h \in Handlers, CommitCreate(h)
      PROVE  FALSE
  BY <1>2 DEF CommitCreate, UsersInv, TypeOK
<1>3. \E h \in Handlers : CommitChange(h) \/ CommitCreate(h)
  BY DEF Next, vars, Tick, IssueCaptcha, Login, Receive, Load, Fail
<1> QED
  BY <1>1, <1>2, <1>3

\* The columns of a changed row.
LEMMA ChangedRow ==
    ASSUME UsersInv, NEW h \in Handlers, CommitChange(h)
    PROVE  LET ask == handlers[h].ask  copy == handlers[h].copy  row == accounts[ask.on]
           IN  /\ ask.on \in Users
               /\ accounts'[ask.on].status = IF "status" \in ChangedColumns(ask, copy)
                                             THEN Wanted(ask, copy).status ELSE row.status
               /\ accounts'[ask.on].role = IF "role" \in ChangedColumns(ask, copy)
                                           THEN Wanted(ask, copy).role ELSE row.role
               /\ ("status" \in ChangedColumns(ask, copy)) <=>
                      (Wanted(ask, copy).status # copy.status)
               /\ ("role" \in ChangedColumns(ask, copy)) <=>
                      (Wanted(ask, copy).role # copy.role)
<1> DEFINE ask == handlers[h].ask  copy == handlers[h].copy  row == accounts[ask.on]
<1>1. ask.on \in Users /\ ask \in Operation /\ ask.op # "create"
      /\ copy \in Account /\ row \in Account
  BY ChangeEffect DEF Operation
<1>2. Wanted(ask, copy) \in Account
  BY <1>1, WantedIsAccount
<1>3. accounts'[ask.on] = NewRow(row, ask, copy)
  BY <1>1, ChangeEffect DEF UsersInv, TypeOK
<1>4. /\ NewRow(row, ask, copy).status = IF "status" \in ChangedColumns(ask, copy)
                                         THEN Wanted(ask, copy)["status"] ELSE row["status"]
      /\ NewRow(row, ask, copy).role = IF "role" \in ChangedColumns(ask, copy)
                                       THEN Wanted(ask, copy)["role"] ELSE row["role"]
  BY <1>1, AccountShape DEF NewRow
<1>5. /\ ("status" \in ChangedColumns(ask, copy)) <=>
             (Wanted(ask, copy)["status"] # copy["status"])
      /\ ("role" \in ChangedColumns(ask, copy)) <=>
             (Wanted(ask, copy)["role"] # copy["role"])
  BY <1>1, AccountShape DEF ChangedColumns
<1> HIDE DEF ask, copy, row
<1>6. \A a \in Account : a["role"] = a.role /\ a["status"] = a.status
  BY AccountShape
<1> QED
  BY <1>1, <1>2, <1>3, <1>4, <1>5, <1>6 DEF ask, copy, row

\* A handler whose copy says active writes no status that makes an account active:
\* so a disabled account becomes active only by one that has seen it disabled.
THEOREM DisablingLasts == Spec => DisableSurvives
<1>1. ASSUME UsersInv, [Next]_vars, NEW u \in Users,
             accounts[u].status = "disabled", accounts'[u].status = "active"
      PROVE  \E h \in Handlers : /\ handlers[h] # Free /\ handlers'[h] = Free
                                 /\ handlers[h].copy.status = "disabled"
  <2>1. accounts[u] # Absent /\ accounts'[u] # accounts[u]
    BY <1>1 DEF Absent
  <2>2. PICK h \in Handlers : CommitChange(h) /\ u = handlers[h].ask.on
    BY <1>1, <2>1, OnlyChanges
  <2>3. handlers[h] # Free /\ handlers'[h] = Free
    BY <2>2, <1>1, ChangeEffect DEF CommitChange, Ends
  <2>4. Wanted(handlers[h].ask, handlers[h].copy).status = "active"
        /\ handlers[h].copy.status # "active"
    BY <1>1, <2>2, ChangedRow
  <2>5. handlers[h].copy.status = "disabled"
    BY <1>1, <2>2, <2>4, ChangeEffect DEF Account, Statuses
  <2> QED
    BY <2>3, <2>5
<1>2. ASSUME UsersInv, [Next]_vars
      PROVE  [\A u \in Users :
                 accounts[u].status = "disabled" /\ accounts'[u].status = "active" =>
                     \E h \in Handlers : /\ handlers[h] # Free /\ handlers'[h] = Free
                                         /\ handlers[h].copy.status = "disabled"]_vars
  BY <1>1, <1>2
<1> QED
  BY <1>2, InvariantHolds, PTL DEF Spec, DisableSurvives

\* A handler nobody has overtaken has an active administrator for its operator, who
\* stays one unless the handler takes his own role: the last administrator is lost
\* only so, or where handlers overtake each other.
THEOREM LastAdminStays == Spec => AdminLostOnlyIf
<1>1. ASSUME UsersInv, [Next]_vars, HasAdmin, ~HasAdmin'
      PROVE  \E h \in Handlers :
                 /\ handlers[h] # Free /\ handlers'[h] = Free
                 /\ \/ handlers[h].raced
                    \/ /\ handlers[h].ask.on = handlers[h].by
                       /\ handlers[h].ask.op = "update" /\ handlers[h].ask.role # "admin"
  <2>1. PICK u \in Users : accounts[u].role = "admin" /\ accounts[u].status = "active"
    BY <1>1 DEF HasAdmin
  <2>2. accounts[u] # Absent /\ accounts'[u] # accounts[u]
    BY <1>1, <2>1 DEF HasAdmin, Absent
  <2>3. PICK h \in Handlers : CommitChange(h) /\ u = handlers[h].ask.on
    BY <1>1, <2>2, OnlyChanges
  <2> DEFINE ask == handlers[h].ask  by == handlers[h].by  copy == handlers[h].copy
  <2>4. handlers[h] # Free /\ handlers'[h] = Free /\ handlers[h] \in Handler
        /\ handlers[h].step = "loaded" /\ ask.op # "create" /\ ask \in Operation
    BY <2>3, <1>1, ChangeEffect DEF CommitChange, Ends
  <2>5. ASSUME ~handlers[h].raced
        PROVE  ask.on = by /\ ask.op = "update" /\ ask.role # "admin"
    <3>1. accounts[by].role = "admin" /\ accounts[by].status = "active"
          /\ copy = accounts[u] /\ by \in Users
      BY <1>1, <2>3, <2>4, <2>5 DEF UsersInv, CopiesCurrent, Handler
    <3>2. ask.on = by
      <4>1. SUFFICES ASSUME ask.on # by PROVE FALSE
        OBVIOUS
      <4>2. accounts'[by] = accounts[by]
        BY <4>1, <1>1, <2>3, <3>1, ChangeEffect DEF UsersInv, TypeOK
      <4> QED
        BY <1>1, <3>1, <4>2 DEF HasAdmin
    <3>3. ask.op # "disable" /\ ~(ask.op = "update" /\ ask.status = "disabled")
      BY <1>1, <2>4, <3>2 DEF UsersInv, NobodyDisablesHimself, Refuses
    <3>4. ask.op \in {"update", "reset"} /\ (ask.op = "update" => ask.status \in Statuses)
      BY <2>4, <3>3 DEF Operation
    <3>5. copy \in Account
      BY <1>1, <2>3, ChangeEffect
    <3>6. Wanted(ask, copy).status = "active"
          /\ ((ask.op = "update" /\ ask.role # "admin") \/ Wanted(ask, copy).role = "admin")
      <4>1. CASE ask.op = "update"
        BY <4>1, <2>1, <3>1, <3>3, <3>4, <3>5 DEF Wanted, Account, Statuses
      <4>2. CASE ask.op = "reset"
        BY <4>2, <2>1, <3>1, <3>5 DEF Wanted, Account
      <4> QED
        BY <3>4, <4>1, <4>2
    <3>7. ~(accounts'[u].role = "admin" /\ accounts'[u].status = "active")
      BY <1>1 DEF HasAdmin
    <3>8. accounts'[u].status = "active"
          /\ (Wanted(ask, copy).role = "admin" => accounts'[u].role = "admin")
      BY <1>1, <2>1, <2>3, <3>1, <3>6, ChangedRow
    <3> QED
      BY <3>2, <3>6, <3>7, <3>8
  <2> QED
    BY <2>4, <2>5
<1>2. ASSUME UsersInv, [Next]_vars
      PROVE  [AdminLost => Excused]_vars
  BY <1>1, <1>2 DEF AdminLost, Excused
<1> QED
  BY <1>2, InvariantHolds, PTL DEF Spec, AdminLostOnlyIf
=============================================================================

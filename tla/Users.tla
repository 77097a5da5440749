--------------------------------- MODULE Users ---------------------------------
(***************************************************************************)
(* Accounts, logins and the handlers that administrators call, several at a *)
(* time.                                                                    *)
(*                                                                          *)
(* A handler reads its operator's account when it is authorised, loads the   *)
(* account it is about, and commits in a third step.  The session writes    *)
(* only the columns whose values differ from those it has loaded, and an     *)
(* operator who edits his own account edits the copy read to authorise him. *)
(***************************************************************************)
EXTENDS Naturals, FiniteSets

CONSTANTS
    Users,        \* user names, which are unique
    Roles,
    Passwords,
    Handlers,     \* handlers in progress at a time
    TokenLife,    \* ACCESS_TOKEN_EXPIRE_MINUTES, in ticks
    CaptchaLife,  \* CAPTCHA_EXPIRE_SECONDS, in ticks
    FirstAdmin,   \* the administrator created at installation
    FirstPassword,
    MaxClock,     \* bound: the clock stops here
    MaxIssued     \* bound: captchas, and tokens

ASSUME NamesAssumption == /\ "admin" \in Roles
                          /\ FirstAdmin \in Users /\ FirstPassword \in Passwords
ASSUME TimesAssumption == TokenLife \in Nat /\ CaptchaLife \in Nat /\ MaxClock \in Nat /\ MaxIssued \in Nat

VARIABLES
    clock,
    accounts,  \* the users table; Absent: no such row
    captchas,  \* the times when captcha tokens were issued
    tokens,    \* access tokens: whose, and issued when
    handlers   \* the handlers in progress

vars == <<clock, accounts, captchas, tokens, handlers>>

Statuses == {"active", "disabled"}
Account == [role : Roles, status : Statuses, password : Passwords]
Absent == [role |-> "none", status |-> "none", password |-> "none"]

\* What an operator asks for.
Operation == [op : {"create"}, on : Users, role : Roles, password : Passwords]
             \cup [op : {"update"}, on : Users, role : Roles, status : Statuses]
             \cup [op : {"disable"}, on : Users]
             \cup [op : {"reset"}, on : Users, password : Passwords]

\* A handler in progress; raced and at are history: another one has committed since,
\* and when it began.
Free == [step |-> "free"]
Handler == [step : {"authorised", "loaded"}, by : Users, ask : Operation, raced : BOOLEAN,
            at : 0..MaxClock, copy : Account \cup {Absent}]

TypeOK ==
    /\ clock \in 0..MaxClock
    /\ accounts \in [Users -> Account \cup {Absent}]
    /\ captchas \subseteq 0..MaxClock
    /\ tokens \subseteq [user : Users, at : 0..MaxClock]
    /\ handlers \in [Handlers -> {Free} \cup Handler]

Init ==
    /\ clock = 0
    /\ accounts = [u \in Users |-> IF u = FirstAdmin
                                   THEN [role |-> "admin", status |-> "active",
                                         password |-> FirstPassword]
                                   ELSE Absent]
    /\ captchas = {}
    /\ tokens = {}
    /\ handlers = [h \in Handlers |-> Free]

Tick ==
    /\ clock < MaxClock
    /\ clock' = clock + 1
    /\ UNCHANGED <<accounts, captchas, tokens, handlers>>

-----------------------------------------------------------------------------
(* Login.                                                                  *)

\* get_captcha: the code is in the token, nothing is stored.
IssueCaptcha ==
    /\ Cardinality(captchas) < MaxIssued
    /\ captchas' = captchas \cup {clock}
    /\ UNCHANGED <<clock, accounts, tokens, handlers>>

\* authenticate_user.
Authenticates(u, password) ==
    accounts[u].status = "active" /\ accounts[u].password = password

\* verify_captcha, given the right code of a captcha: it is not used up.
CaptchaValid == \E c \in captchas : clock < c + CaptchaLife

Login(u, password) ==
    /\ Cardinality(tokens) < MaxIssued
    /\ CaptchaValid
    /\ Authenticates(u, password)
    /\ tokens' = tokens \cup {[user |-> u, at |-> clock]}
    /\ UNCHANGED <<clock, accounts, captchas, handlers>>

\* Mutant: decode_access_token takes expired tokens.
AnyToken(t) == TRUE

\* decode_access_token.
Unexpired(t) == clock < t.at + TokenLife

-----------------------------------------------------------------------------
(* The handlers.                                                           *)

\* current_user and require_roles(["admin"]): the token names the user, and the
\* rest is read from the table.
Authorised(t) ==
    /\ Unexpired(t)
    /\ accounts[t.user].status = "active"
    /\ accounts[t.user].role = "admin"

\* Mutant: only the disable route refuses to disable the operator.
RefusesDisable(by, ask) == by = ask.on /\ ask.op = "disable"

\* Both routes refuse to disable the operator.
Refuses(by, ask) ==
    by = ask.on /\ (ask.op = "disable" \/ (ask.op = "update" /\ ask.status = "disabled"))

Receive(h, t, ask) ==
    /\ handlers[h] = Free
    /\ Authorised(t)
    /\ ~Refuses(t.user, ask)
    /\ handlers' = [handlers EXCEPT ![h] =
                      [step |-> "authorised", by |-> t.user, ask |-> ask, raced |-> FALSE,
                       at |-> clock, copy |-> accounts[t.user]]]
    /\ UNCHANGED <<clock, accounts, captchas, tokens>>

\* Mutant: a user that does not exist is changed all the same.
NeverMissing(copy, ask) == FALSE

Missing(copy, ask) == copy = Absent /\ ask.op # "create"

\* session.get(User, user_id), which finds the operator's own row in the session;
\* without a row the handler answers 404.  A creation loads nothing.
Load(h) ==
    /\ handlers[h] # Free /\ handlers[h].step = "authorised"
    /\ LET ask == handlers[h].ask
           copy == IF ask.on = handlers[h].by THEN handlers[h].copy ELSE accounts[ask.on]
       IN  handlers' = [handlers EXCEPT
                          ![h] = IF Missing(copy, ask) THEN Free
                                 ELSE [@ EXCEPT !.step = "loaded", !.copy = copy]]
    /\ UNCHANGED <<clock, accounts, captchas, tokens>>

\* The columns as the handler has set them on its copy.
Wanted(ask, copy) ==
    CASE ask.op = "update" -> [copy EXCEPT !.role = ask.role, !.status = ask.status]
      [] ask.op = "disable" -> [copy EXCEPT !.status = "disabled"]
      [] ask.op = "reset" -> [copy EXCEPT !.password = ask.password]

\* Mutant: the statement writes all columns.
AllColumns(ask, copy) == DOMAIN copy

\* The columns an UPDATE writes: those that differ from the copy.  The hash of a
\* password always does.
ChangedColumns(ask, copy) ==
    {c \in DOMAIN copy : Wanted(ask, copy)[c] # copy[c]}
    \cup (IF ask.op = "reset" THEN {"password"} ELSE {})

\* The handler is done, and the others in progress have been overtaken.
Ends(h) ==
    handlers' = [g \in Handlers |-> IF g = h \/ handlers[g] = Free THEN Free
                                    ELSE [handlers[g] EXCEPT !.raced = TRUE]]

\* update_user, disable_user and reset_user_password commit.
CommitChange(h) ==
    /\ handlers[h] # Free /\ handlers[h].step = "loaded"
    /\ LET ask == handlers[h].ask
           copy == handlers[h].copy
       IN  /\ ask.op # "create"
           /\ accounts' = [accounts EXCEPT ![ask.on] =
                              [c \in DOMAIN @ |-> IF c \in ChangedColumns(ask, copy)
                                                  THEN Wanted(ask, copy)[c] ELSE @[c]]]
    /\ Ends(h)
    /\ UNCHANGED <<clock, captchas, tokens>>

\* create_user commits, or the name is taken and the route answers 409.
CommitCreate(h) ==
    /\ handlers[h] # Free /\ handlers[h].step = "loaded"
    /\ LET ask == handlers[h].ask
       IN  /\ ask.op = "create"
           /\ accounts' = IF accounts[ask.on] # Absent THEN accounts
                          ELSE [accounts EXCEPT ![ask.on] =
                                  [role |-> ask.role, status |-> "active", password |-> ask.password]]
    /\ Ends(h)
    /\ UNCHANGED <<clock, captchas, tokens>>

\* The commit fails.
Fail(h) ==
    /\ handlers[h] # Free
    /\ handlers' = [handlers EXCEPT ![h] = Free]
    /\ UNCHANGED <<clock, accounts, captchas, tokens>>

Next ==
    \/ Tick
    \/ IssueCaptcha
    \/ \E u \in Users, p \in Passwords : Login(u, p)
    \/ \E h \in Handlers :
           \/ \E t \in tokens, ask \in Operation : Receive(h, t, ask)
           \/ Load(h) \/ CommitChange(h) \/ CommitCreate(h) \/ Fail(h)

Spec == Init /\ [][Next]_vars

-----------------------------------------------------------------------------
(* Correctness.                                                            *)

\* Every handler is run for a user who has logged in, with a captcha that was not
\* too old then, less than the life of a token before it began.
AccessFollowsLogin ==
    \A h \in Handlers : handlers[h] # Free =>
        \E t \in tokens : /\ t.user = handlers[h].by
                          /\ t.at <= handlers[h].at /\ handlers[h].at < t.at + TokenLife
                          /\ \E c \in captchas : c <= t.at /\ t.at < c + CaptchaLife

HasAdmin == \E u \in Users : accounts[u].role = "admin" /\ accounts[u].status = "active"

AdminLost == HasAdmin /\ ~HasAdmin'

\* A handler ends that another one overtook, or by which its operator gives up his role.
Excused ==
    \E h \in Handlers :
        /\ handlers[h] # Free /\ handlers'[h] = Free
        /\ \/ handlers[h].raced
           \/ /\ handlers[h].ask.on = handlers[h].by
              /\ handlers[h].ask.op = "update" /\ handlers[h].ask.role # "admin"

\* The last active administrator is lost only where one gives up his own role, or
\* where another change was committed while the handler was at work: nobody
\* disables himself, by neither route.
AdminLostOnlyIf == [][AdminLost => Excused]_vars

\* A disabled account becomes active again only by a handler that has seen it
\* disabled: an edit that was under way when it was disabled leaves it so.
DisableSurvives ==
    [][\A u \in Users :
          accounts[u].status = "disabled" /\ accounts'[u].status = "active" =>
              \E h \in Handlers : /\ handlers[h] # Free /\ handlers'[h] = Free
                                  /\ handlers[h].copy.status = "disabled"]_vars
=============================================================================

------------------------------ MODULE KillConsole ------------------------------
(***************************************************************************)
(* Killing a session: the session page of the console and its store, the    *)
(* kill handler of the API and its audits, while the collector commits      *)
(* frames and an administrator adds and removes instances.                  *)
(*                                                                          *)
(* A frame is reduced to what the handler's rules tell apart: the kind of    *)
(* each session it holds.  That the target is read from one frame is shown   *)
(* in FrameQueries (page "target"), so it is one step here.                  *)
(***************************************************************************)
EXTENDS Naturals, Sequences, FiniteSetsExt

CONSTANTS
    Instances,    \* numbers: list_instances returns the greatest (newest) first
    Sids,         \* session ids
    Kinds,        \* of sessions: "user", "platform" (its login), "ending" (its status)
    Frames,       \* frames a collection may find: functions from session ids to kinds
    MinKillable,  \* min_killable_session_id
    Fetches,      \* overlapping fetches of the page
    MaxCommits,   \* bound: frames in all
    MaxChanges,   \* bound: changes to the list of instances
    MaxAudits     \* bound: requests are sent while there are fewer audits

ASSUME NumbersAssumption == Instances \subseteq Nat \ {0} /\ Sids \subseteq Nat
\* There are finitely many instances, so a set of them has a greatest.
ASSUME GreatestAssumption ==
    \A I \in SUBSET Instances : I # {} => \E i \in I : \A j \in I : j <= i
ASSUME FramesAssumption == \A f \in Frames : DOMAIN f \subseteq Sids /\ \A s \in DOMAIN f : f[s] \in Kinds
ASSUME BoundsAssumption ==
    MaxCommits \in Nat /\ MaxChanges \in Nat /\ MaxAudits \in Nat /\ MinKillable \in Nat

VARIABLES
    listed,    \* instances that are not disabled
    changes,   \* how often listed has changed
    history,   \* the frames of each instance
    items,     \* store.items
    chosen,    \* store.currentInstanceId, or None
    fetch,     \* calls of fetchSessions: what they wait for, and for which instance
    loading, error,
    rows,      \* the rows on the page: whose they are, and the sessions
    mixed,     \* history: two fetches have overlapped since one was alone
    dialog,    \* the kill dialog; history: whose row was clicked, and mixed then
    moved,     \* history: the current instance has changed while the dialog was open
    request,   \* the kill request in the API
    audits,    \* kill_audits
    answers    \* history: the number of answers that tell a result

store == <<items, chosen>>
page == <<loading, error, rows, mixed>>
server == <<listed, changes, history>>
vars == <<server, store, fetch, page, dialog, moved, request, audits, answers>>

None == 0
Idle == [step |-> "idle", of |-> None]
Closed == [sid |-> None, of |-> None, mixed |-> FALSE]
NoRows == [of |-> None, sids |-> {}]
NoRequest == [step |-> "none", instance |-> None, sid |-> None, long |-> TRUE, kind |-> "none",
              frame |-> 0, since |-> 0, of |-> None, excused |-> FALSE]
Request == [step : {"none", "received", "read"}, instance : Instances \cup {None},
            sid : Sids \cup {None}, long : BOOLEAN, kind : Kinds \cup {"none"},
            frame : Nat, since : Nat, of : Instances \cup {None}, excused : BOOLEAN]
Results == {"success", "rejected"}

TypeOK ==
    /\ listed \subseteq Instances /\ items \subseteq Instances
    /\ chosen \in Instances \cup {None}
    /\ history \in [Instances -> Seq(Frames)]
    /\ fetch \in [Fetches -> {Idle} \cup [step : {"list", "rows"}, of : Instances]]
    /\ loading \in BOOLEAN /\ error \in BOOLEAN /\ mixed \in BOOLEAN /\ moved \in BOOLEAN
    /\ rows.of \in Instances \cup {None} /\ rows.sids \subseteq Sids
    /\ dialog \in [sid : Sids \cup {None}, of : Instances \cup {None}, mixed : BOOLEAN]
    /\ request \in Request
    /\ \A a \in audits : a.instance \in Instances /\ a.sid \in Sids /\ a.result \in Results
    /\ answers \in Nat

Init ==
    /\ listed = Instances
    /\ changes = 0
    /\ history = [i \in Instances |-> <<>>]
    /\ items = {}
    /\ chosen = None
    /\ fetch = [f \in Fetches |-> Idle]
    /\ loading = FALSE /\ error = FALSE
    /\ rows = NoRows
    /\ mixed = FALSE
    /\ dialog = Closed
    /\ moved = FALSE
    /\ request = NoRequest
    /\ audits = {}
    /\ answers = 0

-----------------------------------------------------------------------------
(* The rest of the system.                                                 *)

Latest(i) == Len(history[i])

\* The collector commits a frame.
Commit(i, f) ==
    /\ MapThenSumSet(Latest, Instances) < MaxCommits
    /\ history' = [history EXCEPT ![i] = Append(@, f)]
    /\ UNCHANGED <<listed, changes, store, fetch, page, dialog, moved, request, audits, answers>>

\* Somebody disables an instance, or updates it to another status.
ChangeList(i) ==
    /\ changes < MaxChanges
    /\ changes' = changes + 1
    /\ listed' = IF i \in listed THEN listed \ {i} ELSE listed \cup {i}
    /\ UNCHANGED <<history, store, fetch, page, dialog, moved, request, audits, answers>>

-----------------------------------------------------------------------------
(* The store and the page.                                                 *)

First(S) == IF S = {} THEN None ELSE CHOOSE i \in S : \A j \in S : j <= i

\* currentInstance: the chosen one, or else the first of the list.
CurrentOf(list, id) == IF id \in list THEN id ELSE First(list)
Current == CurrentOf(items, chosen)

\* fetchSessions begins, in a state with these calls: it reads the current
\* instance, of which there must be one, and asks for the list first.
Begin(calls, current) ==
    IF current = None THEN fetch' = calls /\ UNCHANGED <<loading, error, mixed>>
    ELSE \E f \in Fetches :
            /\ calls[f] = Idle
            /\ fetch' = [calls EXCEPT ![f] = [step |-> "list", of |-> current]]
            /\ loading' = TRUE
            /\ error' = FALSE
            /\ mixed' = (\E g \in Fetches : calls[g] # Idle)

\* Mutant: the page does not watch the current instance.
UnwatchedBegin(calls, current) == fetch' = calls /\ UNCHANGED <<loading, error, mixed>>

\* The watch on the current instance fetches again.
Rewatched(calls, current) == Begin(calls, current)

\* What follows from new values of the store.
StoreBecomes(list, id, calls) ==
    /\ items' = list
    /\ chosen' = id
    /\ moved' = (moved \/ (dialog.sid # None /\ CurrentOf(list, id) # Current))
    /\ IF CurrentOf(list, id) # Current
       THEN Rewatched(calls, CurrentOf(list, id))
       ELSE fetch' = calls /\ UNCHANGED <<loading, error, mixed>>

\* onMounted, and the selector while its list is empty.
LoadList ==
    /\ items = {}
    /\ StoreBecomes(listed, IF chosen = None THEN First(listed) ELSE chosen, fetch)
    /\ UNCHANGED <<server, rows, dialog, request, audits, answers>>

\* The user chooses an instance; the dialog is modal.
Choose(i) ==
    /\ i \in items /\ i # chosen /\ dialog.sid = None
    /\ StoreBecomes(items, i, fetch)
    /\ UNCHANGED <<server, rows, dialog, request, audits, answers>>

\* The refresh timer ticks, or a filter changes.
Refresh ==
    /\ Begin(fetch, Current)
    /\ UNCHANGED <<server, store, rows, dialog, moved, request, audits, answers>>

\* The list arrives: the rows of the instance read before it are asked for.
ListArrives(f) ==
    /\ fetch[f].step = "list"
    /\ StoreBecomes(listed, IF chosen = None THEN First(listed) ELSE chosen,
                    [fetch EXCEPT ![f].step = "rows"])
    /\ UNCHANGED <<server, rows, dialog, request, audits, answers>>

\* The rows arrive and replace those on the page, whatever instance it shows now.
RowsArrive(f) ==
    /\ fetch[f].step = "rows"
    /\ LET i == fetch[f].of
       IN  /\ history[i] # <<>>
           /\ rows' = [of |-> i, sids |-> DOMAIN history[i][Latest(i)]]
    /\ fetch' = [fetch EXCEPT ![f] = Idle]
    /\ loading' = FALSE
    /\ UNCHANGED <<server, store, error, mixed, dialog, moved, request, audits, answers>>

\* A request of the fetch fails, or there is no frame.
FetchFails(f) ==
    /\ fetch[f] # Idle
    /\ fetch' = [fetch EXCEPT ![f] = Idle]
    /\ loading' = FALSE
    /\ error' = TRUE
    /\ UNCHANGED <<server, store, rows, mixed, dialog, moved, request, audits, answers>>

\* DataState hides the table while the page loads and after an error.
Visible == ~loading /\ ~error

\* openKill keeps only the session id.
OpenKill(s) ==
    /\ Visible /\ s \in rows.sids /\ dialog.sid = None
    /\ dialog' = [sid |-> s, of |-> rows.of, mixed |-> mixed]
    /\ moved' = FALSE
    /\ UNCHANGED <<server, store, fetch, page, request, audits, answers>>

CloseKill ==
    /\ dialog.sid # None
    /\ dialog' = Closed
    /\ UNCHANGED <<server, store, fetch, page, moved, request, audits, answers>>

\* Mutant: a kill is sent without a session.
CanConfirmAny == Current # None

CanConfirm == dialog.sid # None /\ Current # None

\* killSession: the instance is the one that is current now.
ConfirmKill(long) ==
    /\ CanConfirm
    /\ request = NoRequest
    /\ Cardinality(audits) < MaxAudits
    /\ request' = [NoRequest EXCEPT !.step = "received", !.instance = Current, !.sid = dialog.sid,
                                    !.long = long, !.since = Latest(Current),
                                    !.of = dialog.of, !.excused = dialog.mixed \/ moved]
    /\ UNCHANGED <<server, store, fetch, page, dialog, moved, audits, answers>>

-----------------------------------------------------------------------------
(* The kill handler of an operator who may kill, of an instance that exists. *)

\* build_kill_target, from the latest frame: "none" if it has no such session.
ReadTarget ==
    /\ request.step = "received"
    /\ LET n == Latest(request.instance)
           found == n # 0 /\ request.sid \in DOMAIN history[request.instance][n]
       IN  request' = [request EXCEPT
                          !.step = "read", !.frame = n,
                          !.kind = IF found THEN history[request.instance][n][request.sid]
                                   ELSE "none"]
    /\ UNCHANGED <<server, store, fetch, page, dialog, moved, audits, answers>>

\* Mutant: a session that is already ending is not recognised.
PermitsEnding(r) == r.long /\ r.sid > MinKillable /\ r.kind \in {"user", "ending"}

\* validate_kill_target.
Permits(r) == r.long /\ r.sid > MinKillable /\ r.kind = "user"

\* The audit of a request, numbered.
AuditOf(r) ==
    [instance |-> r.instance, sid |-> r.sid, long |-> r.long, kind |-> r.kind, frame |-> r.frame,
     since |-> r.since, of |-> r.of, excused |-> r.excused,
     result |-> IF Permits(r) THEN "success" ELSE "rejected", number |-> Cardinality(audits)]

\* Mutant: a session that is not found is refused without an audit.
AuditFound(r) == IF r.kind = "none" THEN {} ELSE {AuditOf(r)}

\* audit_rejected_kill_request and kill_session, whose executor does nothing.
Audits(r) == {AuditOf(r)}

\* The page closes the dialog and fetches again; after an error, which a session
\* not found is too, it stays open for another try.
Ends(ok) ==
    /\ request.step = "read"
    /\ request' = NoRequest
    /\ IF ok THEN dialog' = Closed /\ Begin(fetch, Current)
       ELSE UNCHANGED <<dialog, fetch, loading, error, mixed>>
    /\ UNCHANGED <<server, store, rows, moved>>

\* The audit is committed and the answer tells its result, or is lost on its way.
Settle ==
    /\ \E lost \in BOOLEAN : Ends(~lost /\ request.kind # "none")
    /\ audits' = audits \cup Audits(request)
    /\ answers' = answers + 1

\* The commit of the audit fails, and so does the request; it may have been applied.
AuditFails ==
    /\ Ends(FALSE)
    /\ audits' \in {audits, audits \cup {AuditOf(request)}}
    /\ UNCHANGED answers

Page ==
    \/ LoadList
    \/ \E i \in Instances : Choose(i)
    \/ Refresh
    \/ \E f \in Fetches : ListArrives(f) \/ RowsArrive(f) \/ FetchFails(f)
    \/ \E s \in Sids : OpenKill(s)
    \/ CloseKill
    \/ \E long \in BOOLEAN : ConfirmKill(long)

Handler ==
    \/ ReadTarget
    \/ Settle
    \/ AuditFails

Next ==
    \/ \E i \in Instances, f \in Frames : Commit(i, f)
    \/ \E i \in Instances : ChangeList(i)
    \/ Page
    \/ Handler

Spec == Init /\ [][Next]_vars

-----------------------------------------------------------------------------
(* Correctness.                                                            *)

\* A confirmed kill goes to the instance whose row was clicked, unless two fetches
\* of the page overlapped just before the click, or the current instance changed
\* while the dialog was open (it has left the list, and the store falls back).
KillStraysOnlyIf ==
    \A a \in audits : a.instance # a.of => a.excused

\* What was audited as a success was found in a frame that was the latest of this
\* instance at some time of the request, and had to be: with a reason, no system
\* session, no login of the platform, not ending.
SuccessWasKillable ==
    \A a \in audits : a.result = "success" =>
        /\ a.long /\ a.sid > MinKillable
        /\ a.frame \in a.since..Latest(a.instance)
        /\ a.sid \in DOMAIN history[a.instance][a.frame]
        /\ history[a.instance][a.frame][a.sid] = "user"

\* No answer tells a result without an audit, a session not found included, though
\* a failed commit may leave an audit without an answer.
AnswersAudited == answers <= Cardinality(audits)
=============================================================================

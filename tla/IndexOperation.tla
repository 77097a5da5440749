---------------------------- MODULE IndexOperation ----------------------------
(***************************************************************************)
(* Index operations an administrator orders: creating a missing index or    *)
(* maintaining a fragmented one.  A request checks and writes an audit row;  *)
(* after the response a background task of the API process runs the         *)
(* statement on SQL Server in a thread and writes the result to the row.     *)
(* The audit row is all that remains when the process dies in between.       *)
(***************************************************************************)
EXTENDS Naturals, FiniteSets

CONSTANTS
    Requests,    \* requests to the API
    Indexes,     \* indexes by name, all of one instance
    MaxFaults    \* bound: process deaths and failures of PostgreSQL or connections

ASSUME FaultsAssumption == MaxFaults \in Nat

Actions == {"CREATE", "REBUILD"}    \* REORGANIZE is like REBUILD
Orders == [index : Indexes, action : Actions]

VARIABLES
    order,     \* what a request asks for
    handler,   \* where the request's handler is
    audit,     \* result of the request's row of index_operation_audits, or "none"
    task,      \* where its background task is
    server,    \* what became of its statement on SQL Server
    exists,    \* the indexes that exist there
    faults     \* faults so far

vars == <<order, handler, audit, task, server, exists, faults>>

Settled == {"success", "failed", "rejected"}
HandlerType == {"new", "checked", "audited", "over"}
TaskType == {"none", "queued", "executing", "returned", "raised"}
ServerType == {"none", "sent", "applied", "refused"}

TypeOK ==
    /\ order \in [Requests -> Orders]
    /\ handler \in [Requests -> HandlerType]
    /\ audit \in [Requests -> Settled \cup {"none", "running"}]
    /\ task \in [Requests -> TaskType]
    /\ server \in [Requests -> ServerType]
    /\ exists \in SUBSET Indexes
    /\ faults \in 0..MaxFaults

Init ==
    /\ order \in [Requests -> Orders]
    /\ handler = [r \in Requests |-> "new"]
    /\ audit = [r \in Requests |-> "none"]
    /\ task = [r \in Requests |-> "none"]
    /\ server = [r \in Requests |-> "none"]
    /\ exists \in SUBSET Indexes
    /\ faults = 0

-----------------------------------------------------------------------------
(* The request.                                                            *)

\* The name is taken: the audit row says rejected, the answer is a conflict.
RejectName(r) ==
    /\ handler[r] = "new"
    /\ order[r].action = "CREATE"
    /\ order[r].index \in exists
    /\ audit' = [audit EXCEPT ![r] = "rejected"]
    /\ handler' = [handler EXCEPT ![r] = "over"]
    /\ UNCHANGED <<order, task, server, exists, faults>>

\* Mutant: the task is queued with the check, ahead of the audit row.
PassCheckQueueing(r) ==
    /\ handler[r] = "new"
    /\ order[r].action = "CREATE" => order[r].index \notin exists
    /\ handler' = [handler EXCEPT ![r] = "checked"]
    /\ task' = [task EXCEPT ![r] = "queued"]
    /\ UNCHANGED <<order, audit, server, exists, faults>>

\* The name is free, or the action needs no name.
PassCheck(r) ==
    /\ handler[r] = "new"
    /\ order[r].action = "CREATE" => order[r].index \notin exists
    /\ handler' = [handler EXCEPT ![r] = "checked"]
    /\ UNCHANGED <<order, audit, task, server, exists, faults>>

\* The row is committed as running, before anything is executed.
WriteAudit(r) ==
    /\ handler[r] = "checked"
    /\ audit' = [audit EXCEPT ![r] = "running"]
    /\ handler' = [handler EXCEPT ![r] = "audited"]
    /\ UNCHANGED <<order, task, server, exists, faults>>

\* The response is sent and the task it carries is run.
Respond(r) ==
    /\ handler[r] = "audited"
    /\ handler' = [handler EXCEPT ![r] = "over"]
    /\ task' = [task EXCEPT ![r] = "queued"]
    /\ UNCHANGED <<order, audit, server, exists, faults>>

\* SQL Server cannot be asked for the names, or a write to PostgreSQL fails.
HandlerFails(r) ==
    /\ handler[r] \in {"new", "checked", "audited"}
    /\ faults < MaxFaults
    /\ faults' = faults + 1
    /\ handler' = [handler EXCEPT ![r] = "over"]
    /\ UNCHANGED <<order, audit, task, server, exists>>

-----------------------------------------------------------------------------
(* The background task.                                                    *)

\* The task reads the audit row and the instance and starts the statement in a
\* thread.
StartDdl(r) ==
    /\ task[r] = "queued"
    /\ task' = [task EXCEPT ![r] = "executing"]
    /\ server' = [server EXCEPT ![r] = "sent"]
    /\ UNCHANGED <<order, handler, audit, exists, faults>>

\* SQL Server commits the statement: an index can only be created where none
\* has its name and only be maintained where it exists.
ServerApplies(r) ==
    /\ server[r] = "sent"
    /\ order[r].action = "CREATE" <=> order[r].index \notin exists
    /\ exists' = exists \cup {order[r].index}
    /\ server' = [server EXCEPT ![r] = "applied"]
    /\ UNCHANGED <<order, handler, audit, task, faults>>

\* It refuses, gives up or rolls back, also because the client is gone.
ServerRefuses(r) ==
    /\ server[r] = "sent"
    /\ server' = [server EXCEPT ![r] = "refused"]
    /\ UNCHANGED <<order, handler, audit, task, exists, faults>>

\* client.execute returns, or raises what the server answered.
ServerAnswers(r) ==
    /\ task[r] = "executing"
    /\ server[r] \in {"applied", "refused"}
    /\ task' = [task EXCEPT ![r] = IF server[r] = "applied" THEN "returned" ELSE "raised"]
    /\ UNCHANGED <<order, handler, audit, server, exists, faults>>

\* The connection is lost before the answer: execute raises whatever the
\* statement's fate.
ConnectionLost(r) ==
    /\ task[r] = "executing"
    /\ faults < MaxFaults
    /\ faults' = faults + 1
    /\ task' = [task EXCEPT ![r] = "raised"]
    /\ UNCHANGED <<order, handler, audit, server, exists>>

\* Mutant: an exception is logged and the row marked like a return.
VerdictOptimistic(r) == "success"

\* Mutant: the mark of a success falls through to the mark of a failure.
VerdictFallingThrough(r) == "failed"

\* Mutant: an exception is marked with a result the audits do not know.
VerdictTimeout(r) == IF task[r] = "returned" THEN "success" ELSE "timeout"

\* The result the task writes.
Verdict(r) == IF task[r] = "returned" THEN "success" ELSE "failed"

\* Mutant: the exception handler returns without marking the row.
FinishReturned(r) ==
    /\ task[r] = "returned"
    /\ audit' = [audit EXCEPT ![r] = Verdict(r)]
    /\ task' = [task EXCEPT ![r] = "none"]
    /\ UNCHANGED <<order, handler, server, exists, faults>>

\* _mark_index_audit_finished.
Finish(r) ==
    /\ task[r] \in {"returned", "raised"}
    /\ audit' = [audit EXCEPT ![r] = Verdict(r)]
    /\ task' = [task EXCEPT ![r] = "none"]
    /\ UNCHANGED <<order, handler, server, exists, faults>>

\* PostgreSQL fails the task outside its try: while it reads the rows or while
\* it marks the audit.  The exception ends the task.
TaskFails(r) ==
    /\ task[r] \in {"queued", "returned", "raised"}
    /\ faults < MaxFaults
    /\ faults' = faults + 1
    /\ task' = [task EXCEPT ![r] = "none"]
    /\ UNCHANGED <<order, handler, audit, server, exists>>

\* Mutant: on its way down the process marks what is running as failed.
CrashMarking ==
    /\ faults < MaxFaults
    /\ faults' = faults + 1
    /\ handler' = [r \in Requests |-> IF handler[r] = "new" THEN "new" ELSE "over"]
    /\ task' = [r \in Requests |-> "none"]
    /\ audit' = [r \in Requests |-> IF audit[r] = "none" THEN "none" ELSE "failed"]
    /\ UNCHANGED <<order, server, exists>>

\* Mutant: after the restart the tasks of rows still running are queued again.
CrashRequeueing ==
    /\ faults < MaxFaults
    /\ faults' = faults + 1
    /\ handler' = [r \in Requests |-> IF handler[r] = "new" THEN "new" ELSE "over"]
    /\ task' = [r \in Requests |-> IF audit[r] = "running" THEN "queued" ELSE "none"]
    /\ UNCHANGED <<order, audit, server, exists>>

\* The API process dies and is started again: handlers and tasks are gone, the
\* rows stay as they are.
Crash ==
    /\ faults < MaxFaults
    /\ faults' = faults + 1
    /\ handler' = [r \in Requests |-> IF handler[r] = "new" THEN "new" ELSE "over"]
    /\ task' = [r \in Requests |-> "none"]
    /\ UNCHANGED <<order, audit, server, exists>>

HandlerStep(r) == RejectName(r) \/ PassCheck(r) \/ WriteAudit(r) \/ Respond(r)
TaskStep(r) == StartDdl(r) \/ ServerAnswers(r) \/ Finish(r)
ServerStep(r) == ServerApplies(r) \/ ServerRefuses(r)

Next ==
    \/ \E r \in Requests :
          \/ HandlerStep(r)
          \/ HandlerFails(r)
          \/ TaskStep(r)
          \/ ServerStep(r)
          \/ ConnectionLost(r)
          \/ TaskFails(r)
    \/ Crash

Spec == Init /\ [][Next]_vars

\* Handlers and tasks run in the API's event loop.  A statement may wait for a
\* lock for ever: nothing is assumed of the server.
FairSpec == Spec /\ \A r \in Requests : WF_vars(HandlerStep(r)) /\ WF_vars(TaskStep(r))

-----------------------------------------------------------------------------
(* Correctness.                                                            *)

\* No statement reaches SQL Server without a committed audit row, and none of a
\* rejected request does, wherever the process dies.
AuditedBeforeSent ==
    \A r \in Requests : server[r] # "none" => audit[r] \notin {"none", "rejected"}

\* An audit that says success is right, and of the requests to create one index
\* - all of which may have found its name free - at most one says so.
SuccessIsReal ==
    /\ \A r \in Requests : audit[r] = "success" => server[r] = "applied"
    /\ \A q, r \in Requests :
          /\ audit[q] = "success" /\ audit[r] = "success"
          /\ order[q] = order[r] /\ order[q].action = "CREATE"
          => q = r

\* A failed audit means the statement was not applied, unless something failed
\* between the two systems.
FailedIsReal ==
    \A r \in Requests : audit[r] = "failed" /\ faults = 0 => server[r] = "refused"

\* Where a request's handler is and what its row, task and statement can be then.
HandlerInOrder ==
    \A r \in Requests :
        /\ handler[r] \in {"new", "checked"} => audit[r] = "none"
        /\ handler[r] = "audited" => audit[r] = "running"
        /\ handler[r] # "over" => task[r] = "none" /\ server[r] = "none"

\* A task works on a running row, and its outcome is the server's unless a fault
\* came between.
TaskInOrder ==
    \A r \in Requests :
        /\ task[r] # "none" => audit[r] = "running"
        /\ task[r] = "queued" => server[r] = "none"
        /\ task[r] = "returned" => server[r] = "applied"
        /\ task[r] = "raised" /\ faults = 0 => server[r] = "refused"

\* An index that a statement created exists, and no other created it.
CreatedOnce ==
    /\ \A r \in Requests : server[r] = "applied" => order[r].index \in exists
    /\ \A q, r \in Requests :
          /\ server[q] = "applied" /\ server[r] = "applied"
          /\ order[q] = order[r] /\ order[q].action = "CREATE"
          => q = r

\* The inductive invariant behind the properties above.
OperationInv ==
    /\ TypeOK
    /\ AuditedBeforeSent
    /\ SuccessIsReal
    /\ FailedIsReal
    /\ HandlerInOrder
    /\ TaskInOrder
    /\ CreatedOnce

\* A settled audit is never written again, and a row still running only settles
\* through a task that has the server's answer or an exception.
SettledByItsTask ==
    [][\A r \in Requests : audit[r] # "none" /\ audit'[r] # audit[r] =>
          audit[r] = "running" /\ task[r] \in {"returned", "raised"}]_vars

\* Without faults no audit stays running but for a statement the server has not
\* decided.
AuditSettles ==
    \A r \in Requests :
        audit[r] = "running" /\ server[r] # "sent" ~>
            audit[r] \in Settled \/ server[r] = "sent" \/ faults > 0
=============================================================================

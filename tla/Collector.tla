------------------------------ MODULE Collector ------------------------------
(***************************************************************************)
(* The collection loop of app/collector: one process, one ORM session per  *)
(* cycle, one instance after the other, next to the API process that       *)
(* creates, edits, tests and deletes instances in the same PostgreSQL      *)
(* tables.                                                                  *)
(*                                                                          *)
(* The collector never reads a row twice in a cycle: it works on the copies *)
(* its session loaded when the cycle listed the instances (loaded).  Two    *)
(* rules of the ORM decide what it later writes:                            *)
(*   - a commit sends an UPDATE only for a column whose new value differs   *)
(*     from the loaded one (Stored);                                        *)
(*   - a rollback of an open transaction expires every loaded object        *)
(*     (Rollback); an expired column is always written, and reading one     *)
(*     outside an await raises, which nothing catches (DieOnExpired).       *)
(***************************************************************************)
EXTENDS CollectRecord, FiniteSets

CONSTANTS
    Unreachable,  \* instances whose SQL Server never answers
    ApiStatuses,  \* statuses that requests to create or edit an instance carry
    MaxTests,     \* bound: connection tests at a time
    MaxFaults     \* bound: crashes, PostgreSQL errors and lost acknowledgements

ASSUME UnreachableAssumption == Unreachable \subseteq Instances
ASSUME BoundsAssumption == MaxTests \in Nat /\ MaxFaults \in Nat

\* A column value of instances.status; "absent" stands for no row.
Statuses == {"online", "offline", "collect_error", "disabled"}
Absent == "absent"

ASSUME ApiStatusesAssumption == ApiStatuses \subseteq Statuses

VARIABLES
    status,      \* instances.status; "absent" before the row exists
    testing,     \* the instance's connection test in the API: the status it read
    pc,          \* where the collector process is
    pending,     \* instances this cycle has still to collect
    loaded,      \* the session's copies of the rows of the listed instances
    expired,     \* instances whose copies a rollback has expired
    tx,          \* the session has an open transaction
    attempt,     \* snapshot_time of the collection in progress
    captured,    \* consecutive_failures read when it began
    faults       \* crashes, PostgreSQL errors and lost acknowledgements so far

apiVars == <<status, testing>>
sessionVars == <<pending, loaded, expired, tx>>
localVars == <<attempt, captured>>
vars == <<recordVars, apiVars, pc, sessionVars, localVars, faults>>

\* The collector's copy of an instances row and of its instance_collect_status row.
LoadedType == [status : Statuses, result : Results, failures : 0..FailureCap]
NotLoaded == [status |-> "disabled", result |-> "unknown", failures |-> 0]

PcType == {"idle",      \* sleeping between cycles
           "turn",      \* about to take the next instance of the cycle
           "querying",  \* reading the SQL Server's DMVs
           "staged",    \* writing to PostgreSQL, not committed
           "failing",   \* rolled back, about to record the failure
           "down"}      \* the process has exited

TypeOK ==
    /\ RecordTypeOK
    /\ status \in [Instances -> Statuses \cup {Absent}]
    /\ testing \in [Instances -> Statuses \cup {Absent}]
    /\ pc \in PcType
    /\ pending \in SUBSET Instances
    /\ loaded \in [Instances -> LoadedType]
    /\ expired \in SUBSET Instances
    /\ tx \in BOOLEAN
    /\ attempt \in Times \cup {NoTime}
    /\ captured \in 0..FailureCap
    /\ faults \in 0..MaxFaults

Init ==
    /\ RecordInit
    /\ status = [i \in Instances |-> Absent]
    /\ testing = [i \in Instances |-> Absent]
    /\ pc = "idle"
    /\ pending = {}
    /\ loaded = [i \in Instances |-> NotLoaded]
    /\ expired = {}
    /\ tx = FALSE
    /\ attempt = NoTime
    /\ captured = 0
    /\ faults = 0

-----------------------------------------------------------------------------
(* The ORM session.                                                        *)

\* Mutant: a commit writes every column that was assigned, as an UPDATE statement in
\* place of the assignments would.
StoredAlways(i, old, new, current) == new

\* What a commit leaves in a column of i's rows: the loaded value is old, the
\* session set the column to new, the table holds current.
Stored(i, old, new, current) ==
    IF i \notin expired /\ old = new THEN current ELSE new

\* Mutant: a rollback without an open transaction expires the objects too.
RollbackExpiresAlways == expired' = pending /\ tx' = FALSE

\* session.rollback(): nothing happens when no transaction is open.  Otherwise
\* every object of the session expires; only those of pending are used again.
Rollback ==
    /\ expired' = IF tx THEN pending ELSE expired
    /\ tx' = FALSE

\* The session is closed, or its process is gone.
CloseSession ==
    /\ pending' = {}
    /\ loaded' = [i \in Instances |-> NotLoaded]
    /\ expired' = {}
    /\ tx' = FALSE
    /\ attempt' = NoTime
    /\ captured' = 0

-----------------------------------------------------------------------------
(* The API's handlers on instances, each a transaction of its own.  They    *)
(* await PostgreSQL between reading and committing, so that others commit   *)
(* in between.  What an edit or a deletion has read does not matter: if it  *)
(* was the value it writes, no column is updated and nothing changes, else  *)
(* its commit is what the action shows.  A connection test has two actions, *)
(* since what it writes depends on what it has read.                        *)

\* create_instance: a row of each table in one commit.  The rows collected
\* are ordered by created_at, so instances are created in order.
CreateInstance(i, s) ==
    /\ status[i] = Absent
    /\ \A j \in Instances : j < i => status[j] # Absent
    /\ status' = [status EXCEPT ![i] = s]
    /\ record' = [record EXCEPT ![i] = NewRecord]
    /\ UNCHANGED <<newest, doubt, testing, pc, sessionVars, localVars, faults>>

\* update_instance with a status in the request.
UpdateInstance(i, s) ==
    /\ status[i] # Absent
    /\ status' = [status EXCEPT ![i] = s]
    /\ UNCHANGED <<recordVars, testing, pc, sessionVars, localVars, faults>>

\* delete_instance.
DeleteInstance(i) ==
    /\ status[i] # Absent
    /\ status' = [status EXCEPT ![i] = "disabled"]
    /\ UNCHANGED <<recordVars, testing, pc, sessionVars, localVars, faults>>

\* test_existing_instance_connection reads the row, deleted or not, then connects
\* to the server.  Bounds: one test of an instance at a time, and MaxTests in all.
StartTest(i) ==
    /\ status[i] # Absent
    /\ testing[i] = Absent
    /\ Cardinality({j \in Instances : testing[j] # Absent}) < MaxTests
    /\ testing' = [testing EXCEPT ![i] = status[i]]
    /\ UNCHANGED <<recordVars, status, pc, sessionVars, localVars, faults>>

\* ... and writes what the connection showed, if it differs from what was read.
FinishTest(i, result) ==
    /\ testing[i] # Absent
    /\ i \in Unreachable => result = "offline"
    /\ status' = IF testing[i] = result THEN status
                 ELSE [status EXCEPT ![i] = result]
    /\ testing' = [testing EXCEPT ![i] = Absent]
    /\ UNCHANGED <<recordVars, pc, sessionVars, localVars, faults>>

ApiNext ==
    \E i \in Instances :
        \/ \E s \in ApiStatuses : CreateInstance(i, s)
        \/ \E s \in ApiStatuses : UpdateInstance(i, s)
        \/ DeleteInstance(i)
        \/ StartTest(i)
        \/ \E result \in {"online", "offline"} : FinishTest(i, result)

-----------------------------------------------------------------------------
(* The collector.                                                          *)

\* The instances list_collectable_instances selects.
Listed == {i \in Instances : status[i] \notin {Absent, "disabled"}}

\* Mutant: a status row that is created instead of read.
LoadedFresh(i) == [status |-> status[i], result |-> "unknown", failures |-> 0]

\* What the session keeps of i's two rows.
LoadedRow(i) ==
    [status |-> status[i], result |-> record[i].result, failures |-> record[i].failures]

\* A cycle opens a session and lists.  With nothing to collect it ends at once.
StartCycle ==
    /\ pc = "idle"
    /\ Listed # {}
    /\ pc' = "turn"
    /\ pending' = Listed
    /\ loaded' = [i \in Instances |-> IF i \in Listed THEN LoadedRow(i) ELSE NotLoaded]
    /\ expired' = {}
    /\ tx' = TRUE
    /\ UNCHANGED <<recordVars, apiVars, localVars, faults>>

\* The session is closed and the process sleeps.
EndCycle ==
    /\ pc = "turn"
    /\ pending = {}
    /\ pc' = "idle"
    /\ CloseSession
    /\ UNCHANGED <<recordVars, apiVars, faults>>

\* The instance whose turn it is, or that is being collected.
IsCurrent(i) == i \in pending /\ \A j \in pending : i <= j

\* Mutant: the counter is not read before the attempt.
CapturedNone(i) == 0

\* collect_status.consecutive_failures, read before anything can expire it.
CapturedFailures(i) == loaded[i].failures

\* collect_instance_snapshot reads instance.id and the failure counter.
BeginSnapshot(i) ==
    /\ pc = "turn"
    /\ IsCurrent(i)
    /\ i \notin expired
    /\ pc' = "querying"
    /\ captured' = CapturedFailures(i)
    /\ attempt' \in FreshTimes(i)
    /\ UNCHANGED <<recordVars, apiVars, sessionVars, faults>>

\* ... or raises on the expired instance.id, before its try: the exception
\* leaves the loop and the process exits.
DieOnExpired(i) ==
    /\ pc = "turn"
    /\ IsCurrent(i)
    /\ i \in expired
    /\ pc' = "down"
    /\ CloseSession
    /\ UNCHANGED <<recordVars, apiVars, faults>>

\* The connection or a query fails, or a row cannot be converted.
QueryFails ==
    /\ pc = "querying"
    /\ pc' = "failing"
    /\ Rollback
    /\ UNCHANGED <<recordVars, apiVars, pending, loaded, localVars, faults>>

\* Mutant: the frame is committed with its partition, ahead of the status row.
StageCommittingFrame(i) ==
    /\ pc = "querying"
    /\ IsCurrent(i)
    /\ i \notin Unreachable
    /\ pc' = "staged"
    /\ tx' = TRUE
    /\ newest' = [newest EXCEPT ![i] = attempt]
    /\ UNCHANGED <<record, doubt, apiVars, pending, loaded, expired, localVars, faults>>

\* All queries answered: partitions, SQL texts and the frame are written in an
\* open transaction that nobody else sees.
StageSnapshot(i) ==
    /\ pc = "querying"
    /\ IsCurrent(i)
    /\ i \notin Unreachable
    /\ pc' = "staged"
    /\ tx' = TRUE
    /\ UNCHANGED <<recordVars, apiVars, pending, loaded, expired, localVars, faults>>

\* PostgreSQL refuses one of these writes.
StageFails ==
    /\ pc = "staged"
    /\ faults < MaxFaults
    /\ faults' = faults + 1
    /\ pc' = "failing"
    /\ Rollback
    /\ UNCHANGED <<recordVars, apiVars, pending, loaded, localVars>>

\* What the commit of a collection writes: the frame, the status row and the
\* instance row together.
WriteSuccess(i) ==
    /\ newest' = [newest EXCEPT ![i] = attempt]
    /\ record' = [record EXCEPT ![i] =
           [result |-> Stored(i, loaded[i].result, "success", @.result),
            failures |-> Stored(i, loaded[i].failures, 0, @.failures),
            lastSuccess |-> attempt,
            lastFailure |-> @.lastFailure]]
    /\ status' = [status EXCEPT ![i] = Stored(i, loaded[i].status, "online", @)]

\* The turn goes to the next instance; the copies of this one are not used again.
EndAttempt(i) ==
    /\ pending' = pending \ {i}
    /\ loaded' = [loaded EXCEPT ![i] = NotLoaded]
    /\ expired' = expired \ {i}
    /\ tx' = FALSE
    /\ pc' = "turn"
    /\ attempt' = NoTime
    /\ captured' = 0
    /\ UNCHANGED <<testing, faults>>

\* The commit of a collection.  Then the index task of the instance is started:
\* IndexCollection.
CommitSnapshot(i) ==
    /\ pc = "staged"
    /\ IsCurrent(i)
    /\ WriteSuccess(i)
    /\ doubt' = [doubt EXCEPT ![i] = {}]
    /\ EndAttempt(i)

\* PostgreSQL commits, and the acknowledgement is lost with the connection: the
\* exception is that of a failed attempt.
CommitUnanswered(i) ==
    /\ pc = "staged"
    /\ IsCurrent(i)
    /\ faults < MaxFaults
    /\ faults' = faults + 1
    /\ WriteSuccess(i)
    /\ doubt' = [doubt EXCEPT ![i] = {record[i].failures}]
    /\ pc' = "failing"
    /\ Rollback
    /\ UNCHANGED <<testing, pending, loaded, localVars>>

\* Mutant: the instance gets the result of the status row, which its CHECK
\* constraint does not know.
ResultAsStatus == "failed"

\* instance.status after a failure.
FailureStatus == "collect_error"

\* _mark_collect_failed, committed on its own.  When this commit fails too, or is
\* not acknowledged, the exception ends the process: Crash.
MarkCollectFailed(i) ==
    /\ pc = "failing"
    /\ IsCurrent(i)
    /\ record' = [record EXCEPT ![i] =
           [result |-> Stored(i, loaded[i].result, "failed", @.result),
            failures |-> Stored(i, loaded[i].failures, Bump(captured), @.failures),
            lastSuccess |-> @.lastSuccess,
            lastFailure |-> attempt]]
    /\ status' = [status EXCEPT ![i] = Stored(i, loaded[i].status, FailureStatus, @)]
    /\ doubt' = IF attempt = newest[i] THEN doubt ELSE [doubt EXCEPT ![i] = {}]
    /\ UNCHANGED newest
    /\ EndAttempt(i)

\* The process is killed, its host restarts, or PostgreSQL fails where no
\* handler catches it.
Crash ==
    /\ pc # "down"
    /\ faults < MaxFaults
    /\ faults' = faults + 1
    /\ pc' = "down"
    /\ CloseSession
    /\ UNCHANGED <<recordVars, apiVars>>

\* systemd starts the process again, whatever its exit status.
Restart ==
    /\ pc = "down"
    /\ pc' = "idle"
    /\ UNCHANGED <<recordVars, apiVars, sessionVars, localVars, faults>>

CollectorStep ==
    \/ StartCycle
    \/ EndCycle
    \/ \E i \in Instances :
          \/ BeginSnapshot(i)
          \/ DieOnExpired(i)
          \/ StageSnapshot(i)
          \/ CommitSnapshot(i)
          \/ MarkCollectFailed(i)
    \/ QueryFails
    \/ Restart

Next ==
    \/ ApiNext
    \/ CollectorStep
    \/ StageFails
    \/ \E i \in Instances : CommitUnanswered(i)
    \/ Crash

Spec == Init /\ [][Next]_vars

\* The process is scheduled and restarted; a reachable server that is asked
\* again and again answers again and again.  Nothing else is fair.
Fairness ==
    /\ WF_vars(CollectorStep)
    /\ \A i \in Instances \ Unreachable : SF_vars(StageSnapshot(i))

FairSpec == Spec /\ Fairness

-----------------------------------------------------------------------------
(* Correctness.                                                            *)

\* The row of instance_collect_status and the frames of an instance tell one
\* story, also after a crash between writing the frame and the commit: the
\* newest frame is the last success, a failed row counts at least one failure
\* and has its time, an instance never attempted has no frame, and no attempt is
\* both a success and a failure unless the answer to its commit was lost.
CollectStatusCoherent ==
    \A i \in Instances :
        /\ record[i].lastSuccess = newest[i]
        /\ record[i].lastFailure = newest[i] => newest[i] = NoTime \/ doubt[i] # {}
        /\ record[i].result = "unknown" => newest[i] = NoTime /\ record[i].failures = 0
        /\ record[i].result = "success" => newest[i] # NoTime /\ record[i].failures = 0
        /\ record[i].result = "failed" =>
               record[i].failures > 0 /\ record[i].lastFailure # NoTime

\* Nobody but the current cycle writes the status row of an instance the cycle
\* has still to collect: until a rollback expires it, the copy read when the
\* cycle began is the row.  The columns a commit skips are therefore right.
LoadedIsCurrent ==
    \A i \in pending \ expired :
        /\ loaded[i].result = record[i].result
        /\ loaded[i].failures = record[i].failures

\* A cycle that listed i before its deletion ends the attempt with another status
\* than it had listed, or after a rollback that expired the copy.
OverwrittenByCycle(i) ==
    /\ i \in pending
    /\ loaded[i].status # "disabled"
    /\ \/ loaded[i].status # status'[i]
       \/ pc = "failing" /\ i \in expired

\* A deletion (delete_instance, or an edit that disables) is undone by an edit; by a
\* connection test whose result is not the status it has read; and by the one cycle
\* that holds the instance, if its attempt does not end in the status it was listed
\* with - by nothing else: not by later cycles, and not by a collection or a test
\* under way that finds the instance online, as it was.
DeletionUndoneOnlyIf ==
    [][\A i \in Instances :
          status[i] = "disabled" /\ status'[i] # "disabled" =>
              \/ \E s \in ApiStatuses : UpdateInstance(i, s)
              \/ \E result \in {"online", "offline"} :
                     FinishTest(i, result) /\ testing[i] # result
              \/ OverwrittenByCycle(i)]_vars

\* An instance is being collected.
Busy == pc \in {"querying", "staged", "failing"}

\* The attempt is not in the tables: the counter captured before it is the one in
\* the table, whatever a rollback has expired since, and it has a time of its own.
AttemptOpen(i) ==
    /\ captured = record[i].failures
    /\ attempt \in FreshTimes(i)
    /\ pc # "failing" => i \notin expired

\* The attempt is in the tables as a success that was not acknowledged.
AttemptInDoubt(i) ==
    /\ pc = "failing" /\ i \in expired
    /\ attempt = newest[i] /\ attempt # record[i].lastFailure
    /\ doubt[i] = {captured}

\* What the current attempt has captured is right.
CapturedIsCurrent ==
    /\ \A i \in Instances : Busy /\ IsCurrent(i) => AttemptOpen(i) \/ AttemptInDoubt(i)
    /\ Busy => attempt # NoTime
    /\ pc = "staged" => tx

\* Between cycles no instance is held, a row that does not exist has no record, and
\* a cycle holds no instance that was disabled when it listed.
NothingHeld ==
    /\ pc \in {"idle", "down"} => pending = {}
    /\ \A i \in Instances : status[i] = Absent => record[i] = NewRecord /\ i \notin pending
    /\ \A i \in pending : loaded[i].status # "disabled"

\* The inductive invariant behind the properties above.
CollectorInv ==
    /\ TypeOK
    /\ CollectStatusCoherent
    /\ LoadedIsCurrent
    /\ CapturedIsCurrent
    /\ NothingHeld

\* Every attempt is recorded once, as in CollectRecord: no failure is lost or
\* counted twice by stale copies, rollbacks and restarts, and a success whose
\* acknowledgement is lost turns at worst into one failure more than before it.
ImplementsCollectRecord == RecordSpec

Collectable(i) == status[i] \notin {Absent, "disabled"}

\* Instances whose server answers and that are not deleted are collected again
\* and again, next to instances whose server never answers - provided that the
\* oldest collectable instance is not one of the latter.
OldestAnswers ==
    \E i \in Instances \ Unreachable :
        Collectable(i) /\ \A j \in Instances : j < i => ~Collectable(j)

HealthyCollected ==
    <>[]OldestAnswers =>
        \A i \in Instances \ Unreachable :
            <>[]Collectable(i) => []<><<CommitSnapshot(i)>>_vars

\* tech-design.md 7.2: the failure of one instance does not affect the others.
\* The code violates it when the oldest collectable instance is the failing one.
FailureIsolation ==
    \A i \in Instances \ Unreachable :
        <>[]Collectable(i) => []<><<CommitSnapshot(i)>>_vars

=============================================================================

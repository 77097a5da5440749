--------------------------- MODULE IndexCollection ---------------------------
(***************************************************************************)
(* The index collection of one instance, as the background task the        *)
(* collector starts after a successful snapshot: which of the two index     *)
(* types are due, the pool of one-thread executors that queries the         *)
(* instance's databases concurrently, the timeout of each database, and the *)
(* transaction that persists each database's result.                       *)
(*                                                                          *)
(* The pool is a generator that the task drives: it pauses at each result   *)
(* until the task has persisted it, while threads go on and time passes.   *)
(***************************************************************************)
EXTENDS Naturals, FiniteSets

CONSTANTS
    Databases,    \* the user databases the instance may have
    Wildcard,     \* the database name "*" of a failure to list them
    Concurrency,  \* index_collect_database_concurrency
    Interval,     \* the collection interval of either index type
    MaxClock,     \* bound: the clock stops here
    MaxFaults     \* bound: exceptions that end the task, crashes of its process

ASSUME DatabasesAssumption == IsFiniteSet(Databases) /\ Wildcard \notin Databases
ASSUME ConcurrencyAssumption == Concurrency \in Nat
ASSUME IntervalAssumption == Interval \in Nat \ {0}
ASSUME ClockAssumption == MaxClock \in Nat
ASSUME FaultsAssumption == MaxFaults \in Nat

VARIABLES
    clock,        \* the time, from 1
    lastSuccess,  \* index_collection_status.last_success_at (0: never)
    failed,       \* databases whose row of index_collection_status is failed
    snapshot,     \* collected_at of a database's index snapshots (0: none)
    pc,           \* where the task is; "none" when there is none
    collectedAt,  \* the time the task began
    groups,       \* index types due and not yet collected by the task
    dbs,          \* the databases it listed
    todo,         \* databases not submitted yet
    active,       \* databases with a future in the pool
    thread,       \* what the thread of an active database has come to
    late,         \* active databases whose timeout has elapsed
    batch,        \* databases of the timed-out or done futures being yielded
    result,       \* the result yielded last
    faults        \* failures so far

tables == <<lastSuccess, failed, snapshot>>
task == <<pc, collectedAt, groups, dbs>>
pool == <<todo, active, thread, late, batch, result>>
vars == <<clock, tables, task, pool, faults>>

Types == {"missing", "fragmentation"}
Outcomes == {"items", "error"}
NoResult == [db |-> Wildcard, outcome |-> "error"]
PoolPcs == {"check", "wait", "timeouts", "done", "persist_timeout", "persist_done"}

TypeOK ==
    /\ clock \in 1..(MaxClock + 1)
    /\ lastSuccess \in [Types -> [Databases -> 0..(MaxClock + 1)]]
    /\ failed \in [Types -> SUBSET (Databases \cup {Wildcard})]
    /\ snapshot \in [Types -> [Databases -> 0..(MaxClock + 1)]]
    /\ pc \in {"none", "created", "listing"} \cup PoolPcs
    /\ collectedAt \in 0..(MaxClock + 1)
    /\ groups \in SUBSET Types
    /\ dbs \in SUBSET Databases
    /\ todo \in SUBSET dbs
    /\ active \in SUBSET dbs
    /\ thread \in [Databases -> {"running"} \cup Outcomes]
    /\ late \in SUBSET active
    /\ batch \in SUBSET active
    /\ result \in [db : Databases \cup {Wildcard}, outcome : Outcomes]
    /\ faults \in 0..MaxFaults

Running == [d \in Databases |-> "running"]

Init ==
    /\ clock = 1
    /\ lastSuccess = [ty \in Types |-> [d \in Databases |-> 0]]
    /\ failed = [ty \in Types |-> {}]
    /\ snapshot = [ty \in Types |-> [d \in Databases |-> 0]]
    /\ pc = "none"
    /\ collectedAt = 0
    /\ groups = {}
    /\ dbs = {}
    /\ todo = {} /\ active = {} /\ late = {} /\ batch = {}
    /\ thread = Running
    /\ result = NoResult
    /\ faults = 0

\* The task is over: its session is closed, what it did not commit is gone, and
\* threads still running are abandoned.  Their answers reach nobody.
EndTask ==
    /\ pc' = "none"
    /\ collectedAt' = 0
    /\ groups' = {}
    /\ dbs' = {}
    /\ todo' = {} /\ active' = {} /\ late' = {} /\ batch' = {}
    /\ thread' = Running
    /\ result' = NoResult

-----------------------------------------------------------------------------
(* Which types are due.                                                    *)

\* Mutant: any database that has not succeeded for an interval makes its type due.
DueSoon(ty) ==
    \E d \in Databases : lastSuccess[ty][d] = 0
                         \/ clock - lastSuccess[ty][d] >= Interval

\* No database has succeeded less than an interval ago; the row of "*" is ignored.
Due(ty) ==
    \A d \in Databases : lastSuccess[ty][d] = 0
                         \/ clock - lastSuccess[ty][d] >= Interval

\* schedule_index_collection_for_instance after a successful snapshot; with a
\* task still in the table it does nothing.
Schedule ==
    /\ pc = "none"
    /\ pc' = "created"
    /\ UNCHANGED <<clock, tables, collectedAt, groups, dbs, pool, faults>>

\* The task finds the instance deleted.
FindDisabled ==
    /\ pc = "created"
    /\ EndTask
    /\ UNCHANGED <<clock, tables, faults>>

\* It reads the status rows, once, and gives the read transaction back.
ComputeDue ==
    /\ pc = "created"
    /\ LET due == {ty \in Types : Due(ty)} IN
          IF due = {}
          THEN EndTask
          ELSE /\ pc' = "listing"
               /\ collectedAt' = clock
               /\ groups' = due
               /\ UNCHANGED <<dbs, pool>>
    /\ UNCHANGED <<clock, tables, faults>>

\* Listing the databases fails.  The rows of "*" are marked failed in the
\* session, but the task returns without a commit.
ListFails ==
    /\ pc = "listing"
    /\ EndTask
    /\ UNCHANGED <<clock, tables, faults>>

-----------------------------------------------------------------------------
(* The pool, for one index type after the other.                           *)

Least(m, n) == IF m < n THEN m ELSE n
Greatest(m, n) == IF m < n THEN n ELSE m

MaxWorkers(D) == Greatest(1, Least(Concurrency, Cardinality(D)))

\* "missing" comes first.
Group == IF "missing" \in groups THEN "missing" ELSE "fragmentation"

\* The first max_workers databases of D are submitted, each to its own thread.
OpenPool(D) ==
    \E first \in SUBSET D :
        /\ Cardinality(first) = MaxWorkers(D)
        /\ active' = first
        /\ todo' = D \ first
        /\ thread' = Running
        /\ late' = {} /\ batch' = {}
        /\ result' = NoResult
        /\ pc' = "check"

\* The databases are listed; without any the task ends.
ListSucceeds ==
    /\ pc = "listing"
    /\ \E D \in SUBSET Databases :
          IF D = {} THEN EndTask
          ELSE dbs' = D /\ OpenPool(D) /\ UNCHANGED <<collectedAt, groups>>
    /\ UNCHANGED <<clock, tables, faults>>

\* A thread comes back with the indexes or with an error; or it never does.
ThreadAnswers(d, outcome) ==
    /\ d \in active
    /\ thread[d] = "running"
    /\ thread' = [thread EXCEPT ![d] = outcome]
    /\ UNCHANGED <<clock, tables, task, todo, active, late, batch, result, faults>>

\* timeout_seconds have passed since d was submitted.
TimeoutElapses(d) ==
    /\ d \in active \ late
    /\ late' = late \cup {d}
    /\ UNCHANGED <<clock, tables, task, todo, active, thread, batch, result, faults>>

\* The top of the loop: timed-out futures go first, answered or not.
CheckTimeouts ==
    /\ pc = "check"
    /\ active # {}
    /\ pc' = IF late # {} THEN "timeouts" ELSE "wait"
    /\ batch' = late
    /\ UNCHANGED <<clock, tables, collectedAt, groups, dbs, todo, active, thread, late,
                   result, faults>>

\* wait() returns with the futures that are done, or with none after half a
\* second or at the next deadline.
WaitReturns ==
    /\ pc = "wait"
    /\ LET done == {d \in active : thread[d] # "running"} IN
          /\ batch' = done
          /\ pc' = IF done # {} THEN "done" ELSE "check"
    /\ UNCHANGED <<clock, tables, collectedAt, groups, dbs, todo, active, thread, late,
                   result, faults>>

\* Mutant: a timed-out future stays in the pool's table.
KeepActive(d) == active

\* Mutant: every future of the batch leaves the table with the first.
PopBatch(d) == active \ batch

\* active.pop(future).
Popped(d) == active \ {d}

\* A future of the batch leaves the pool and its result is yielded: a timeout
\* whatever its thread came to, or what its thread came to.
YieldResult(d) ==
    /\ pc \in {"timeouts", "done"}
    /\ d \in batch
    /\ result' = [db |-> d,
                  outcome |-> IF pc = "timeouts" THEN "error" ELSE thread[d]]
    /\ pc' = IF pc = "timeouts" THEN "persist_timeout" ELSE "persist_done"
    /\ active' = Popped(d)
    /\ late' = late \ {d}
    /\ batch' = batch \ {d}
    /\ thread' = [thread EXCEPT ![d] = "running"]
    /\ UNCHANGED <<clock, tables, collectedAt, groups, dbs, todo, faults>>

\* Mutant: old snapshots are deleted before the error is looked at.
ReplacedAlways == [snapshot EXCEPT ![Group][result.db] =
                      IF result.outcome = "items" THEN collectedAt ELSE 0]

\* A database's snapshots are replaced when it answered, kept when it did not.
Replaced == [snapshot EXCEPT ![Group][result.db] =
                IF result.outcome = "items" THEN collectedAt ELSE @]

\* Mutant: nothing is submitted in the place of a timed-out database.
SubmitAfterAnswer ==
    IF todo = {} \/ pc = "persist_timeout" THEN UNCHANGED <<todo, active>>
    ELSE \E d \in todo : todo' = todo \ {d} /\ active' = active \cup {d}

\* submit_next_database, when the generator is resumed.
SubmitNext ==
    IF todo = {} THEN UNCHANGED <<todo, active>>
    ELSE \E d \in todo : todo' = todo \ {d} /\ active' = active \cup {d}

\* Mutant: a timeout is not written to the status row.
MarkedUnlessTimeout ==
    IF pc = "persist_timeout" THEN failed
    ELSE [failed EXCEPT ![Group] = @ \cup {result.db}]

\* _mark_index_collection_failed: last_success_at stays as it is.
MarkedFailed == [failed EXCEPT ![Group] = @ \cup {result.db}]

\* One transaction: the snapshots of the yielded database and its status row.
\* Then the generator goes on with the batch, or with its loop.
Persist ==
    /\ pc \in {"persist_timeout", "persist_done"}
    /\ snapshot' = Replaced
    /\ IF result.outcome = "items"
       THEN /\ lastSuccess' = [lastSuccess EXCEPT ![Group][result.db] = collectedAt]
            /\ failed' = [failed EXCEPT ![Group] = @ \ {result.db}]
       ELSE /\ UNCHANGED lastSuccess
            /\ failed' = MarkedFailed
    /\ SubmitNext
    /\ result' = NoResult
    /\ pc' = CASE batch = {} -> "check"
               [] pc = "persist_timeout" -> "timeouts"
               [] OTHER -> "done"
    /\ UNCHANGED <<clock, collectedAt, groups, dbs, thread, late, batch, faults>>

\* The pool is empty: the other type if it is due too, or the end.
EndGroup ==
    /\ pc = "check"
    /\ active = {}
    /\ IF groups \ {Group} = {}
       THEN EndTask
       ELSE /\ groups' = groups \ {Group}
            /\ OpenPool(dbs)
            /\ UNCHANGED <<collectedAt, dbs>>
    /\ UNCHANGED <<clock, tables, faults>>

\* An exception that ends the task (PostgreSQL refuses a write), or the death of
\* the process: rolled back to the last commit.
Abort ==
    /\ pc # "none"
    /\ faults < MaxFaults
    /\ faults' = faults + 1
    /\ EndTask
    /\ UNCHANGED <<clock, tables>>

Tick ==
    /\ clock <= MaxClock
    /\ clock' = clock + 1
    /\ UNCHANGED <<tables, task, pool, faults>>

\* The steps of the task itself.
TaskStep ==
    \/ FindDisabled
    \/ ComputeDue
    \/ ListFails
    \/ ListSucceeds
    \/ CheckTimeouts
    \/ WaitReturns
    \/ \E d \in Databases : YieldResult(d)
    \/ Persist
    \/ EndGroup

Next ==
    \/ Schedule
    \/ TaskStep
    \/ \E d \in Databases :
          \/ \E outcome \in Outcomes : ThreadAnswers(d, outcome)
          \/ TimeoutElapses(d)
    \/ Abort
    \/ Tick

Spec == Init /\ [][Next]_vars

\* The event loop runs the task and time passes.  Threads owe nothing: a query
\* may hang for ever.
FairSpec ==
    /\ Spec
    /\ WF_vars(TaskStep)
    /\ \A d \in Databases : WF_vars(TimeoutElapses(d))

-----------------------------------------------------------------------------
(* Correctness.                                                            *)

InPool == pc \in PoolPcs

\* Databases in the pool, the one being persisted included: its place is only
\* given away when the task comes back for the next result.
Places == active \cup ({result.db} \ {Wildcard})

\* The concurrency limit holds on the pool, and no place stays free while a
\* database waits, however answers and timeouts interleave with persisting: so
\* the group cannot end before every database has had its turn.
PoolKeptFull ==
    InPool => /\ Cardinality(Places) <= MaxWorkers(dbs)
              /\ todo # {} => Cardinality(Places) = MaxWorkers(dbs)

\* Each database is submitted once: it waits, is active, or has been yielded.
SubmittedOnce ==
    /\ todo \cap active = {}
    /\ result.db \notin todo \cup active

\* No database is forgotten: one that is neither waiting nor in the pool has the
\* outcome of this task in the tables, a success of this very collection or a
\* failure, also when its answer raced its timeout.
EveryResultRecorded ==
    InPool => \A d \in dbs \ (todo \cup Places) :
                  d \in failed[Group] \/ lastSuccess[Group][d] = collectedAt

\* What is stored of a database is from its last success, as its status row
\* says: a failure, a timeout with a late answer or a crash never leaves half of
\* a replacement behind.
SnapshotOfLastSuccess ==
    \A ty \in Types, d \in Databases : snapshot[ty][d] = lastSuccess[ty][d]

\* A database is not queried again for a type within the interval of its last
\* success, even when other databases fail, time out or are cut off by a crash.
IntervalRespected ==
    InPool => \A d \in todo \cup active :
        \/ lastSuccess[Group][d] = 0
        \/ collectedAt - lastSuccess[Group][d] >= Interval

\* The task ends even if no query ever returns, so the instance's next
\* collection can be scheduled.
TaskEnds == pc # "none" ~> pc = "none"

\* test_real_instance_collector.py: when the databases cannot be listed, each due
\* type gets a failed status.  The code violates it: nothing is committed.
ListingFailureRecorded ==
    [][ListFails => \A ty \in groups : Wildcard \in failed'[ty]]_vars
=============================================================================

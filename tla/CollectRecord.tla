---------------------------- MODULE CollectRecord ----------------------------
(***************************************************************************)
(* What the collector promises about one instance, whatever else happens:  *)
(* each attempt is recorded once, as a frame together with the success row *)
(* of instance_collect_status, or as one more consecutive failure - except *)
(* that a success of which PostgreSQL's acknowledgement is lost may be     *)
(* recorded as a failure on top.  The module Collector implements it with  *)
(* an ORM session, a transaction and a process that may die at any time.   *)
(***************************************************************************)
EXTENDS Naturals

CONSTANTS
    Instances,    \* numbered in the order of instances.created_at
    Times,        \* values of snapshot_time
    NoTime,       \* a NULL timestamp, a table without frames
    FailureCap    \* bound: consecutive_failures is counted up to here

ASSUME InstancesAssumption == Instances \subseteq Nat
ASSUME NoTimeAssumption == NoTime \notin Times
ASSUME FailureCapAssumption == FailureCap \in Nat \ {0}

VARIABLES
    newest,   \* snapshot_time of the newest row of snapshot_frames, per instance
    record,   \* the row of instance_collect_status, per instance
    doubt     \* history: the failures counted before a success, {n}, if its commit was
              \* not acknowledged and no other attempt is recorded since; else {}

recordVars == <<newest, record, doubt>>

Results == {"unknown", "success", "failed"}

\* status, consecutive_failures, last_success_at and last_failure_at of
\* instance_collect_status.
RecordType == [result : Results, failures : 0..FailureCap,
               lastSuccess : Times \cup {NoTime}, lastFailure : Times \cup {NoTime}]

NewRecord == [result |-> "unknown", failures |-> 0,
              lastSuccess |-> NoTime, lastFailure |-> NoTime]

\* consecutive_failures + 1, counted up to FailureCap.
Bump(n) == IF n < FailureCap THEN n + 1 ELSE FailureCap

RecordTypeOK ==
    /\ newest \in [Instances -> Times \cup {NoTime}]
    /\ record \in [Instances -> RecordType]
    /\ doubt \in [Instances -> SUBSET (0..FailureCap)]

RecordInit ==
    /\ newest = [i \in Instances |-> NoTime]
    /\ record = [i \in Instances |-> NewRecord]
    /\ doubt = [i \in Instances |-> {}]

\* Values of snapshot_time for an attempt: not those of the newest frame and of
\* the last failure.
FreshTimes(i) == Times \ {newest[i], record[i].lastFailure}

\* The commit of a success is acknowledged or not.
RecordSuccess(i) ==
    /\ \E t \in FreshTimes(i) :
          /\ newest' = [newest EXCEPT ![i] = t]
          /\ record' = [record EXCEPT ![i] =
                 [result |-> "success", failures |-> 0,
                  lastSuccess |-> t, lastFailure |-> @.lastFailure]]
    /\ \E n \in {{}, {record[i].failures}} : doubt' = [doubt EXCEPT ![i] = n]

\* A failure counts once: it has a time of its own, so that one that is not
\* counted is not a step that changes nothing.
RecordFailure(i) ==
    /\ \E t \in FreshTimes(i) :
          record' = [record EXCEPT ![i].result = "failed",
                                   ![i].failures = Bump(@),
                                   ![i].lastFailure = t]
    /\ doubt' = [doubt EXCEPT ![i] = {}]
    /\ UNCHANGED newest

\* The collector takes an unacknowledged success for a failure: it counts on from
\* before it, and gives the failure the time of the frame.
RecordDoubt(i) ==
    /\ record[i].lastFailure # newest[i]
    /\ \E n \in doubt[i] :
          record' = [record EXCEPT ![i].result = "failed",
                                   ![i].failures = Bump(n),
                                   ![i].lastFailure = newest[i]]
    /\ UNCHANGED <<newest, doubt>>

RecordNext == \E i \in Instances : RecordSuccess(i) \/ RecordFailure(i) \/ RecordDoubt(i)

RecordSpec == RecordInit /\ [][RecordNext]_recordVars
=============================================================================

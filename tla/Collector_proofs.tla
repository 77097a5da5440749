-------------------------- MODULE Collector_proofs --------------------------
(***************************************************************************)
(* CollectorInv is inductive, hence the safety properties of Collector hold *)
(* for any set of instances, and Collector implements CollectRecord.       *)
(***************************************************************************)
EXTENDS Collector, TLAPS

USE InstancesAssumption, NoTimeAssumption, FailureCapAssumption,
    UnreachableAssumption, BoundsAssumption, ApiStatusesAssumption

\* The capped counter stays in its range and is never zero after a failure.
LEMMA BumpRange ==
    ASSUME NEW n \in 0..FailureCap
    PROVE  Bump(n) \in 1..FailureCap
BY DEF Bump

\* A column a commit leaves alone keeps a value of its type.
LEMMA StoredIn ==
    ASSUME NEW S, NEW i, NEW old, NEW new \in S, NEW current \in S
    PROVE  Stored(i, old, new, current) \in S
BY DEF Stored

\* One more fault stays within the bound.
LEMMA FaultRange ==
    ASSUME faults \in 0..MaxFaults, faults < MaxFaults
    PROVE  faults + 1 \in 0..MaxFaults
OBVIOUS

LEMMA ZeroInRange == 0 \in 0..FailureCap
OBVIOUS

LEMMA NotLoadedType == NotLoaded \in LoadedType
BY DEF NotLoaded, LoadedType, Statuses, Results

LEMMA CloseSessionType ==
    ASSUME CloseSession
    PROVE  /\ pending' \in SUBSET Instances
           /\ loaded' \in [Instances -> LoadedType]
           /\ expired' \in SUBSET Instances
           /\ tx' \in BOOLEAN
           /\ attempt' \in Times \cup {NoTime}
           /\ captured' \in 0..FailureCap
BY NotLoadedType, ZeroInRange DEF CloseSession

LEMMA EndAttemptType ==
    ASSUME TypeOK, NEW i \in Instances, EndAttempt(i)
    PROVE  /\ pc' \in PcType
           /\ UNCHANGED <<testing, faults>>
           /\ pending' \in SUBSET Instances
           /\ loaded' \in [Instances -> LoadedType]
           /\ expired' \in SUBSET Instances
           /\ tx' \in BOOLEAN
           /\ attempt' \in Times \cup {NoTime}
           /\ captured' \in 0..FailureCap
BY NotLoadedType, ZeroInRange DEF EndAttempt, TypeOK, PcType

LEMMA RollbackType ==
    ASSUME Rollback, pending \in SUBSET Instances, expired \in SUBSET Instances
    PROVE  expired' \in SUBSET Instances /\ tx' \in BOOLEAN
BY DEF Rollback

\* At most one instance has its turn.
LEMMA CurrentUnique ==
    ASSUME TypeOK, NEW i \in Instances, NEW j \in Instances,
           IsCurrent(i), IsCurrent(j)
    PROVE  i = j
BY DEF TypeOK, IsCurrent

LEMMA InitInv == Init => CollectorInv
<1> SUFFICES ASSUME Init PROVE CollectorInv
  OBVIOUS
<1> USE DEF Init, RecordInit
<1>1. RecordTypeOK
  BY DEF RecordTypeOK, RecordType, NewRecord, Results
<1>2. TypeOK
  <2>1. captured \in 0..FailureCap /\ faults \in 0..MaxFaults
    OBVIOUS
  <2> QED
    BY <1>1, <2>1, NotLoadedType DEF TypeOK, PcType
<1>3. CollectStatusCoherent /\ LoadedIsCurrent
  BY DEF CollectStatusCoherent, LoadedIsCurrent, NewRecord
<1> QED
  BY <1>2, <1>3 DEF CollectorInv, CapturedIsCurrent, NothingHeld, Busy

-----------------------------------------------------------------------------
(* Type correctness, action by action.                                     *)

LEMMA ApiType ==
    ASSUME TypeOK, ApiNext
    PROVE  TypeOK'
<1> USE DEF TypeOK, RecordTypeOK, recordVars, sessionVars, localVars
<1>1. ASSUME NEW i \in Instances, NEW s \in ApiStatuses, CreateInstance(i, s)
      PROVE  TypeOK'
  BY <1>1 DEF CreateInstance, RecordType, NewRecord, Results
<1>2. ASSUME NEW i \in Instances, NEW s \in ApiStatuses, UpdateInstance(i, s)
      PROVE  TypeOK'
  BY <1>2 DEF UpdateInstance
<1>3. ASSUME NEW i \in Instances, DeleteInstance(i)
      PROVE  TypeOK'
  BY <1>3 DEF DeleteInstance, Statuses
<1>4. ASSUME NEW i \in Instances, StartTest(i)
      PROVE  TypeOK'
  BY <1>4 DEF StartTest
<1>5. ASSUME NEW i \in Instances, NEW r \in {"online", "offline"}, FinishTest(i, r)
      PROVE  TypeOK'
  BY <1>5 DEF FinishTest, Statuses
<1> QED
  BY <1>1, <1>2, <1>3, <1>4, <1>5 DEF ApiNext

LEMMA CollectorType ==
    ASSUME TypeOK,
           CollectorStep \/ StageFails \/ (\E i \in Instances : CommitUnanswered(i)) \/ Crash
    PROVE  TypeOK'
<1> USE DEF TypeOK, RecordTypeOK, recordVars, apiVars, sessionVars, localVars
<1>1. CASE StartCycle
  <2>1. ASSUME NEW i \in Listed
        PROVE  LoadedRow(i) \in LoadedType
    BY DEF Listed, LoadedRow, LoadedType, RecordType
  <2>2. loaded' \in [Instances -> LoadedType]
    BY <1>1, <2>1, NotLoadedType DEF StartCycle
  <2> QED
    BY <1>1, <2>2 DEF StartCycle, Listed, PcType
<1>2. CASE EndCycle
  BY <1>2, CloseSessionType DEF EndCycle, PcType
<1>3. ASSUME NEW i \in Instances, BeginSnapshot(i)
      PROVE  TypeOK'
  BY <1>3 DEF BeginSnapshot, CapturedFailures, LoadedType, PcType, FreshTimes
<1>4. ASSUME NEW i \in Instances, DieOnExpired(i)
      PROVE  TypeOK'
  BY <1>4, CloseSessionType DEF DieOnExpired, PcType
<1>5. ASSUME NEW i \in Instances, StageSnapshot(i)
      PROVE  TypeOK'
  BY <1>5 DEF StageSnapshot, PcType
<1>6. ASSUME NEW i \in Instances, WriteSuccess(i)
      PROVE  /\ newest' = [newest EXCEPT ![i] = attempt]
             /\ record' \in [Instances -> RecordType]
             /\ status' \in [Instances -> Statuses \cup {Absent}]
  <2>1. Stored(i, loaded[i].result, "success", record[i].result) \in Results
    BY StoredIn DEF RecordType, Results
  <2>2. Stored(i, loaded[i].failures, 0, record[i].failures) \in 0..FailureCap
    BY StoredIn, ZeroInRange DEF RecordType
  <2>3. Stored(i, loaded[i].status, "online", status[i]) \in Statuses \cup {Absent}
    BY StoredIn DEF Statuses
  <2>4. record' \in [Instances -> RecordType]
    BY <1>6, <2>1, <2>2 DEF WriteSuccess, RecordType
  <2> QED
    BY <1>6, <2>3, <2>4 DEF WriteSuccess
<1>12. ASSUME NEW i \in Instances, CommitSnapshot(i)
       PROVE  TypeOK'
  BY <1>6, <1>12, EndAttemptType DEF CommitSnapshot
<1>13. ASSUME NEW i \in Instances, CommitUnanswered(i)
       PROVE  TypeOK'
  <2>1. {record[i].failures} \in SUBSET (0..FailureCap)
    BY DEF RecordType
  <2> QED
    BY <1>6, <1>13, <2>1, RollbackType, FaultRange DEF CommitUnanswered, PcType
<1>7. ASSUME NEW i \in Instances, MarkCollectFailed(i)
      PROVE  TypeOK'
  <2>1. Stored(i, loaded[i].result, "failed", record[i].result) \in Results
    BY StoredIn DEF RecordType, Results
  <2>2. Stored(i, loaded[i].failures, Bump(captured), record[i].failures) \in 0..FailureCap
    <3>1. Bump(captured) \in 0..FailureCap
      BY BumpRange
    <3> QED
      BY <3>1, StoredIn DEF RecordType
  <2>3. Stored(i, loaded[i].status, FailureStatus, status[i]) \in Statuses \cup {Absent}
    BY StoredIn DEF Statuses, FailureStatus
  <2>4. record' \in [Instances -> RecordType]
    BY <1>7, <2>1, <2>2 DEF MarkCollectFailed, RecordType
  <2>5. doubt' \in [Instances -> SUBSET (0..FailureCap)]
    BY <1>7 DEF MarkCollectFailed
  <2> QED
    BY <1>7, <2>3, <2>4, <2>5, EndAttemptType DEF MarkCollectFailed
<1>8. CASE QueryFails
  BY <1>8, RollbackType DEF QueryFails, PcType
<1>9. CASE Restart
  BY <1>9 DEF Restart, PcType
<1>10. CASE StageFails
  BY <1>10, RollbackType, FaultRange DEF StageFails, PcType
<1>11. CASE Crash
  BY <1>11, CloseSessionType, FaultRange DEF Crash, PcType
<1> QED
  BY <1>1, <1>2, <1>3, <1>4, <1>5, <1>7, <1>8, <1>9, <1>10, <1>11, <1>12, <1>13
     DEF CollectorStep
-----------------------------------------------------------------------------
(* The other conjuncts of CollectorInv.                                    *)

\* The API's handlers leave the collector's session and every written record alone.
LEMMA ApiInv ==
    ASSUME CollectorInv, ApiNext
    PROVE  CollectorInv'
<1>1. TypeOK'
  BY ApiType DEF CollectorInv
<1> DEFINE Untouched == /\ UNCHANGED <<recordVars, pc, sessionVars, localVars>>
                        /\ \A j \in Instances : status'[j] = Absent => status[j] = Absent
<1>2. Untouched
  <2> USE DEF CollectorInv, TypeOK, RecordTypeOK, recordVars, Absent, Statuses
  <2>1. ASSUME NEW i \in Instances, NEW s \in ApiStatuses, CreateInstance(i, s)
        PROVE  Untouched
    <3>1. record' = record
      BY <2>1 DEF CreateInstance, NothingHeld
    <3> QED
      BY <2>1, <3>1 DEF CreateInstance
  <2>2. ASSUME NEW i \in Instances, NEW s \in ApiStatuses, UpdateInstance(i, s)
        PROVE  Untouched
    BY <2>2 DEF UpdateInstance
  <2>3. ASSUME NEW i \in Instances, DeleteInstance(i)
        PROVE  Untouched
    BY <2>3 DEF DeleteInstance
  <2>4. ASSUME NEW i \in Instances, StartTest(i)
        PROVE  Untouched
    BY <2>4 DEF StartTest
  <2>5. ASSUME NEW i \in Instances, NEW r \in {"online", "offline"}, FinishTest(i, r)
        PROVE  Untouched
    BY <2>5 DEF FinishTest
  <2> QED
    BY <2>1, <2>2, <2>3, <2>4, <2>5 DEF ApiNext
<1> QED
  BY <1>1, <1>2 DEF CollectorInv, CollectStatusCoherent, LoadedIsCurrent, CapturedIsCurrent,
     AttemptOpen, AttemptInDoubt, NothingHeld, Busy, IsCurrent, FreshTimes, recordVars,
     sessionVars, localVars

\* A commit leaves the success row, whichever columns the UPDATE skipped.
LEMMA SuccessRow ==
    ASSUME CollectorInv, NEW i \in Instances, pc = "staged", IsCurrent(i), WriteSuccess(i)
    PROVE  /\ record' = [record EXCEPT ![i] =
                  [result |-> "success", failures |-> 0,
                   lastSuccess |-> attempt, lastFailure |-> record[i].lastFailure]]
           /\ attempt \in FreshTimes(i)
           /\ captured = record[i].failures
           /\ newest' = [newest EXCEPT ![i] = attempt]
           /\ status[i] # Absent
           /\ status' = [status EXCEPT ![i] = IF loaded[i].status = "online" THEN @ ELSE "online"]
<1> USE DEF CollectorInv, TypeOK, RecordTypeOK
<1>1. i \in pending \ expired /\ attempt \in FreshTimes(i) /\ captured = record[i].failures
  BY DEF CapturedIsCurrent, AttemptOpen, AttemptInDoubt, Busy, IsCurrent
<1>2. loaded[i].result = record[i].result /\ loaded[i].failures = record[i].failures
  BY <1>1 DEF LoadedIsCurrent
<1>3. Stored(i, loaded[i].result, "success", record[i].result) = "success"
  BY <1>2 DEF Stored
<1>4. Stored(i, loaded[i].failures, 0, record[i].failures) = 0
  BY <1>2 DEF Stored
<1>5. status' = [status EXCEPT ![i] = IF loaded[i].status = "online" THEN @ ELSE "online"]
  BY <1>1 DEF WriteSuccess, Stored
<1> QED
  BY <1>1, <1>3, <1>4, <1>5 DEF WriteSuccess, NothingHeld

\* A recorded failure counts one more than the row did before the attempt, be it the
\* row of now or, in doubt, that before the success.
LEMMA FailureRow ==
    ASSUME CollectorInv, NEW i \in Instances, MarkCollectFailed(i)
    PROVE  /\ record' = [record EXCEPT ![i].result = "failed", ![i].failures = Bump(captured),
                                       ![i].lastFailure = attempt]
           /\ AttemptOpen(i) \/ AttemptInDoubt(i)
           /\ captured \in 0..FailureCap /\ attempt # NoTime
           /\ status[i] # Absent
<1> USE DEF CollectorInv, TypeOK, RecordTypeOK
<1>1. /\ i \in pending
      /\ AttemptOpen(i) \/ AttemptInDoubt(i)
      /\ attempt # NoTime /\ status[i] # Absent
  BY DEF MarkCollectFailed, CapturedIsCurrent, Busy, IsCurrent, NothingHeld
<1>2. i \notin expired =>
         loaded[i].result = record[i].result /\ loaded[i].failures = record[i].failures
  BY <1>1 DEF LoadedIsCurrent
<1>3. i \notin expired => captured = record[i].failures
  BY <1>1 DEF AttemptOpen, AttemptInDoubt
<1>4. Stored(i, loaded[i].result, "failed", record[i].result) = "failed"
  BY <1>2 DEF Stored
<1>5. Stored(i, loaded[i].failures, Bump(captured), record[i].failures) = Bump(captured)
  BY <1>2, <1>3 DEF Stored
<1>6. record[i] \in RecordType
  OBVIOUS
<1> QED
  BY <1>1, <1>4, <1>5, <1>6 DEF MarkCollectFailed, RecordType

\* What the end of an attempt leaves of the session.
LEMMA EndAttemptSession ==
    ASSUME CollectorInv, NEW i \in Instances, EndAttempt(i),
           \A j \in Instances \ {i} : record'[j] = record[j],
           \A j \in Instances : status'[j] = Absent => j # i /\ status[j] = Absent
    PROVE  LoadedIsCurrent' /\ CapturedIsCurrent' /\ NothingHeld'
<1>1. LoadedIsCurrent'
  BY DEF EndAttempt, CollectorInv, TypeOK, LoadedIsCurrent
<1>2. CapturedIsCurrent'
  BY DEF EndAttempt, CapturedIsCurrent, Busy
<1>3. NothingHeld'
  BY DEF EndAttempt, CollectorInv, TypeOK, NothingHeld
<1> QED
  BY <1>1, <1>2, <1>3

LEMMA CollectorStepInv ==
    ASSUME CollectorInv,
           CollectorStep \/ StageFails \/ (\E i \in Instances : CommitUnanswered(i)) \/ Crash
    PROVE  CollectorInv'
<1>1. TypeOK'
  BY CollectorType DEF CollectorInv
<1> USE DEF CollectorInv, TypeOK, RecordTypeOK
<1>2. CASE StartCycle
  BY <1>1, <1>2 DEF StartCycle, Listed, LoadedRow, CollectStatusCoherent, LoadedIsCurrent,
     CapturedIsCurrent, NothingHeld, Busy, apiVars, localVars, recordVars
<1>3. CASE EndCycle \/ Crash \/ \E i \in Instances : DieOnExpired(i)
  BY <1>1, <1>3 DEF EndCycle, Crash, DieOnExpired, CloseSession, CollectStatusCoherent,
     LoadedIsCurrent, CapturedIsCurrent, NothingHeld, Busy, apiVars, recordVars
<1>4. ASSUME NEW i \in Instances, BeginSnapshot(i)
      PROVE  CollectorInv'
  <2>1. UNCHANGED <<recordVars, apiVars, sessionVars>> /\ pc' = "querying" /\ IsCurrent(i)
    BY <1>4 DEF BeginSnapshot
  <2>2. CollectStatusCoherent' /\ LoadedIsCurrent' /\ NothingHeld'
    BY <2>1 DEF CollectStatusCoherent, LoadedIsCurrent, NothingHeld, recordVars, apiVars,
       sessionVars
  <2>3. AttemptOpen(i)' /\ attempt' # NoTime
    <3>1. i \in pending \ expired
      BY <1>4 DEF BeginSnapshot, IsCurrent
    <3>2. captured' = record[i].failures
      BY <1>4, <3>1 DEF BeginSnapshot, CapturedFailures, LoadedIsCurrent
    <3> QED
      BY <1>4, <2>1, <3>1, <3>2 DEF BeginSnapshot, AttemptOpen, FreshTimes, recordVars, sessionVars
  <2>4. \A j \in Instances : IsCurrent(j)' => j = i
    BY <2>1, CurrentUnique DEF IsCurrent, sessionVars
  <2>5. CapturedIsCurrent'
    BY <2>1, <2>3, <2>4 DEF CapturedIsCurrent
  <2> QED
    BY <1>1, <2>2, <2>5
<1>5. ASSUME NEW i \in Instances, StageSnapshot(i)
      PROVE  CollectorInv'
  BY <1>1, <1>5 DEF StageSnapshot, CollectStatusCoherent, LoadedIsCurrent, CapturedIsCurrent,
     AttemptOpen, AttemptInDoubt, NothingHeld, Busy, IsCurrent, FreshTimes, recordVars, apiVars,
     localVars
<1>6. ASSUME NEW i \in Instances, pc = "staged", IsCurrent(i), WriteSuccess(i),
             doubt' \in {[doubt EXCEPT ![i] = {}], [doubt EXCEPT ![i] = {record[i].failures}]}
      PROVE  /\ CollectStatusCoherent'
             /\ \A j \in Instances \ {i} : record'[j] = record[j]
             /\ \A j \in Instances : status'[j] = Absent => j # i /\ status[j] = Absent
  <2>1. /\ record' = [record EXCEPT ![i] =
               [result |-> "success", failures |-> 0,
                lastSuccess |-> attempt, lastFailure |-> record[i].lastFailure]]
        /\ attempt \in FreshTimes(i)
        /\ newest' = [newest EXCEPT ![i] = attempt]
        /\ status[i] # Absent
        /\ status' = [status EXCEPT ![i] = IF loaded[i].status = "online" THEN @ ELSE "online"]
    BY <1>6, SuccessRow
  <2>2. CollectStatusCoherent'
    BY <1>6, <2>1 DEF CollectStatusCoherent, FreshTimes, RecordType
  <2> QED
    BY <2>1, <2>2 DEF Absent
<1>7. ASSUME NEW i \in Instances, CommitSnapshot(i)
      PROVE  CollectorInv'
  BY <1>1, <1>6, <1>7, EndAttemptSession DEF CommitSnapshot
<1>8. ASSUME NEW i \in Instances, CommitUnanswered(i)
      PROVE  CollectorInv'
  <2>1. /\ CollectStatusCoherent'
        /\ \A j \in Instances : status'[j] = Absent => j # i /\ status[j] = Absent
        /\ \A j \in Instances \ {i} : record'[j] = record[j]
    BY <1>6, <1>8 DEF CommitUnanswered
  <2>2. /\ pc' = "failing" /\ IsCurrent(i) /\ i \in pending
        /\ expired' = pending /\ UNCHANGED <<pending, loaded, attempt, captured>>
    BY <1>8 DEF CommitUnanswered, Rollback, CapturedIsCurrent, IsCurrent, localVars
  <2>3. LoadedIsCurrent'
    BY <2>2 DEF LoadedIsCurrent
  <2>4. NothingHeld'
    BY <2>1, <2>2 DEF NothingHeld
  <2>5. AttemptInDoubt(i)' /\ attempt' # NoTime
    <3>1. pc = "staged" /\ WriteSuccess(i) /\ doubt' = [doubt EXCEPT ![i] = {record[i].failures}]
      BY <1>8 DEF CommitUnanswered
    <3>2. /\ record'[i].lastFailure = record[i].lastFailure
          /\ attempt \in FreshTimes(i) /\ captured = record[i].failures
          /\ newest'[i] = attempt
      BY <2>2, <3>1, SuccessRow
    <3> QED
      BY <2>2, <3>1, <3>2 DEF AttemptInDoubt, FreshTimes
  <2>6. \A j \in Instances : IsCurrent(j)' => j = i
    BY <2>2, CurrentUnique DEF IsCurrent
  <2>7. CapturedIsCurrent'
    BY <2>2, <2>5, <2>6 DEF CapturedIsCurrent
  <2> QED
    BY <1>1, <2>1, <2>3, <2>4, <2>7
<1>9. ASSUME NEW i \in Instances, MarkCollectFailed(i)
      PROVE  CollectorInv'
  <2>1. /\ record' = [record EXCEPT ![i].result = "failed", ![i].failures = Bump(captured),
                                    ![i].lastFailure = attempt]
        /\ AttemptOpen(i) \/ AttemptInDoubt(i)
        /\ captured \in 0..FailureCap /\ attempt # NoTime
        /\ status[i] # Absent
    BY <1>9, FailureRow
  <2>2. Bump(captured) > 0
    BY <2>1, BumpRange
  <2>3. newest' = newest /\ EndAttempt(i)
    BY <1>9 DEF MarkCollectFailed
  <2>4. CollectStatusCoherent'
    <3>1. \A j \in Instances \ {i} : record'[j] = record[j] /\ doubt'[j] = doubt[j]
      BY <1>9, <2>1 DEF MarkCollectFailed
    <3>2. attempt = newest[i] => doubt'[i] # {}
      BY <1>9, <2>1 DEF MarkCollectFailed, AttemptOpen, AttemptInDoubt, FreshTimes
    <3>3. /\ record'[i].lastSuccess = record[i].lastSuccess /\ record'[i].result = "failed"
          /\ record'[i].failures = Bump(captured) /\ record'[i].lastFailure = attempt
      BY <2>1 DEF RecordType
    <3> QED
      BY <2>1, <2>2, <2>3, <3>1, <3>2, <3>3 DEF CollectStatusCoherent
  <2>5. /\ \A j \in Instances \ {i} : record'[j] = record[j]
        /\ \A j \in Instances : status'[j] = Absent => j # i /\ status[j] = Absent
    BY <1>9, <2>1 DEF MarkCollectFailed, Stored, FailureStatus, Absent
  <2> QED
    BY <1>1, <2>3, <2>4, <2>5, EndAttemptSession
<1>10. CASE QueryFails \/ StageFails
  <2>1. /\ UNCHANGED <<recordVars, status, pending, loaded, captured, attempt>>
        /\ pc \in {"querying", "staged"} /\ pc' = "failing"
        /\ expired' \in {pending, expired}
    BY <1>10 DEF QueryFails, StageFails, Rollback, apiVars, localVars
  <2>2. CollectStatusCoherent'
    BY <2>1 DEF CollectStatusCoherent, recordVars
  <2>3. LoadedIsCurrent'
    BY <2>1 DEF LoadedIsCurrent, recordVars
  <2>4. NothingHeld'
    BY <2>1 DEF NothingHeld, recordVars
  <2>5. CapturedIsCurrent'
    BY <2>1 DEF CapturedIsCurrent, AttemptOpen, AttemptInDoubt, Busy, IsCurrent, FreshTimes,
       recordVars
  <2> QED
    BY <1>1, <2>2, <2>3, <2>4, <2>5
<1>11. CASE Restart
  BY <1>1, <1>11 DEF Restart, CollectStatusCoherent, LoadedIsCurrent, CapturedIsCurrent,
     NothingHeld, Busy, recordVars, apiVars, sessionVars, localVars
<1> QED
  BY <1>2, <1>3, <1>4, <1>5, <1>7, <1>8, <1>9, <1>10, <1>11 DEF CollectorStep

LEMMA NextInv == CollectorInv /\ [Next]_vars => CollectorInv'
<1> SUFFICES ASSUME CollectorInv, [Next]_vars PROVE CollectorInv'
  OBVIOUS
<1>1. CASE Next
  BY <1>1, ApiInv, CollectorStepInv DEF Next
<1>2. CASE UNCHANGED vars
  BY <1>2 DEF vars, recordVars, apiVars, sessionVars, localVars, CollectorInv, TypeOK,
     RecordTypeOK, CollectStatusCoherent, LoadedIsCurrent, CapturedIsCurrent, AttemptOpen,
     AttemptInDoubt, NothingHeld, Busy, IsCurrent, FreshTimes
<1> QED
  BY <1>1, <1>2

-----------------------------------------------------------------------------
(* The theorems.                                                           *)

\* The invariant holds in every reachable state, for any instances, times and
\* bounds.
THEOREM InvariantHolds == Spec => []CollectorInv
BY InitInv, NextInv, PTL DEF Spec

\* Types.
THEOREM TypeCorrect == Spec => []TypeOK
<1>1. CollectorInv => TypeOK
  BY DEF CollectorInv
<1> QED
  BY <1>1, InvariantHolds, PTL

\* The newest frame and the status row of an instance always agree, across
\* rollbacks, lost acknowledgements, crashes and restarts of the collector.
THEOREM FrameAndStatusAgree == Spec => []CollectStatusCoherent
<1>1. CollectorInv => CollectStatusCoherent
  BY DEF CollectorInv
<1> QED
  BY <1>1, InvariantHolds, PTL

\* One step at a time: a deleted instance comes back by an edit, by a test that did
\* not find what it had read, or by the attempt of the cycle that holds it.
LEMMA DeletionStep ==
    ASSUME CollectorInv, [Next]_vars, NEW i \in Instances,
           status[i] = "disabled", status'[i] # "disabled"
    PROVE  \/ \E s \in ApiStatuses : UpdateInstance(i, s)
           \/ \E result \in {"online", "offline"} : FinishTest(i, result) /\ testing[i] # result
           \/ OverwrittenByCycle(i)
<1> USE DEF CollectorInv, TypeOK
<1>1. ASSUME ApiNext
      PROVE  \/ \E s \in ApiStatuses : UpdateInstance(i, s)
             \/ \E result \in {"online", "offline"} : FinishTest(i, result) /\ testing[i] # result
  <2>1. ASSUME NEW j \in Instances, NEW s \in ApiStatuses, CreateInstance(j, s)
        PROVE  FALSE
    BY <2>1 DEF CreateInstance, Absent
  <2>2. ASSUME NEW j \in Instances, NEW s \in ApiStatuses, UpdateInstance(j, s)
        PROVE  j = i
    BY <2>2 DEF UpdateInstance
  <2>3. ASSUME NEW j \in Instances, DeleteInstance(j) \/ StartTest(j)
        PROVE  FALSE
    BY <2>3 DEF DeleteInstance, StartTest
  <2>4. ASSUME NEW j \in Instances, NEW r \in {"online", "offline"}, FinishTest(j, r)
        PROVE  j = i /\ testing[i] # r
    BY <2>4 DEF FinishTest
  <2> QED
    BY <1>1, <2>1, <2>2, <2>3, <2>4 DEF ApiNext
<1>2. ASSUME NEW j \in Instances, CommitSnapshot(j) \/ CommitUnanswered(j)
      PROVE  OverwrittenByCycle(i)
  <2>1. /\ pc = "staged" /\ IsCurrent(j) /\ WriteSuccess(j)
        /\ status' = [status EXCEPT ![j] = IF loaded[j].status = "online" THEN @ ELSE "online"]
    BY <1>2, SuccessRow DEF CommitSnapshot, CommitUnanswered
  <2>2. j = i /\ status'[i] = "online" /\ loaded[i].status # "online"
    BY <2>1
  <2> QED
    BY <2>1, <2>2 DEF OverwrittenByCycle, IsCurrent, NothingHeld
<1>3. ASSUME NEW j \in Instances, MarkCollectFailed(j)
      PROVE  OverwrittenByCycle(i)
  <2>1. /\ pc = "failing" /\ IsCurrent(j)
        /\ status' = [status EXCEPT ![j] = Stored(j, loaded[j].status, FailureStatus, @)]
    BY <1>3 DEF MarkCollectFailed
  <2>2. /\ j = i /\ status'[i] = FailureStatus
        /\ i \in expired \/ loaded[i].status # FailureStatus
    BY <2>1 DEF Stored
  <2> QED
    BY <2>1, <2>2 DEF OverwrittenByCycle, IsCurrent, NothingHeld
<1>4. CASE UNCHANGED status
  BY <1>4
<1> QED
  BY <1>1, <1>2, <1>3, <1>4
     DEF Next, CollectorStep, StartCycle, EndCycle, BeginSnapshot, DieOnExpired, QueryFails,
         StageSnapshot, StageFails, Crash, Restart, vars, apiVars

\* A deletion is undone only in these cases, however many instances, requests, cycles,
\* crashes and restarts there are.
THEOREM DeletionsLast == Spec => DeletionUndoneOnlyIf
<1>1. CollectorInv /\ [Next]_vars =>
         [\A i \in Instances :
             status[i] = "disabled" /\ status'[i] # "disabled" =>
                 \/ \E s \in ApiStatuses : UpdateInstance(i, s)
                 \/ \E result \in {"online", "offline"} :
                        FinishTest(i, result) /\ testing[i] # result
                 \/ OverwrittenByCycle(i)]_vars
  BY DeletionStep
<1> QED
  BY <1>1, InvariantHolds, PTL DEF Spec, DeletionUndoneOnlyIf

\* Whatever the ORM session loads, skips, expires or loses, the tables change
\* as CollectRecord says: one success with its frame, one more failure, or a success
\* in doubt that is taken for a failure.
THEOREM RecordsImplemented == Spec => ImplementsCollectRecord
<1>1. Init => RecordInit
  BY DEF Init
<1>2. CollectorInv /\ [Next]_vars => [RecordNext]_recordVars
  <2> SUFFICES ASSUME CollectorInv, [Next]_vars
               PROVE  [RecordNext]_recordVars
    OBVIOUS
  <2>1. ASSUME NEW i \in Instances, NEW s \in ApiStatuses, CreateInstance(i, s)
        PROVE  UNCHANGED recordVars
    BY <2>1 DEF CreateInstance, recordVars, CollectorInv, NothingHeld, TypeOK, RecordTypeOK
  <2>2. ASSUME NEW i \in Instances, CommitSnapshot(i) \/ CommitUnanswered(i)
        PROVE  RecordSuccess(i)
    <3>1. /\ pc = "staged" /\ IsCurrent(i) /\ WriteSuccess(i)
          /\ \E n \in {{}, {record[i].failures}} : doubt' = [doubt EXCEPT ![i] = n]
      BY <2>2 DEF CommitSnapshot, CommitUnanswered
    <3> QED
      BY <3>1, SuccessRow DEF RecordSuccess
  <2>3. ASSUME NEW i \in Instances, MarkCollectFailed(i)
        PROVE  RecordFailure(i) \/ RecordDoubt(i)
    <3>1. /\ record' = [record EXCEPT ![i].result = "failed", ![i].failures = Bump(captured),
                                      ![i].lastFailure = attempt]
          /\ AttemptOpen(i) \/ AttemptInDoubt(i)
          /\ newest' = newest
          /\ doubt' = IF attempt = newest[i] THEN doubt ELSE [doubt EXCEPT ![i] = {}]
      BY <2>3, FailureRow DEF MarkCollectFailed
    <3>2. record \in [Instances -> RecordType]
      BY DEF CollectorInv, TypeOK, RecordTypeOK
    <3>3. CASE AttemptOpen(i)
      BY <3>1, <3>2, <3>3 DEF AttemptOpen, RecordFailure, FreshTimes, RecordType
    <3>4. CASE AttemptInDoubt(i)
      BY <3>1, <3>2, <3>4 DEF AttemptInDoubt, RecordDoubt, RecordType
    <3> QED
      BY <3>1, <3>3, <3>4
  <2>4. CASE UNCHANGED recordVars
    BY <2>4
  <2> QED
    BY <2>1, <2>2, <2>3, <2>4
       DEF Next, ApiNext, CollectorStep, UpdateInstance, DeleteInstance, StartTest,
           FinishTest, StartCycle, EndCycle, BeginSnapshot, DieOnExpired, QueryFails,
           StageSnapshot, StageFails, Crash, Restart, RecordNext, vars
<1> QED
  BY <1>1, <1>2, InvariantHolds, PTL DEF Spec, ImplementsCollectRecord, RecordSpec
=============================================================================

------------------------ MODULE IndexCollection_proofs ------------------------
(***************************************************************************)
(* The safety properties of IndexCollection for any databases, concurrency,  *)
(* interval and number of faults.                                           *)
(***************************************************************************)
EXTENDS IndexCollection, FiniteSetTheorems, TLAPS

USE DatabasesAssumption, ConcurrencyAssumption, IntervalAssumption, ClockAssumption,
    FaultsAssumption

\* The pool is empty where the task does not use it, and the task has a type to
\* collect where it does.
PoolWithTask ==
    /\ ~InPool => todo = {} /\ active = {} /\ late = {} /\ batch = {}
    /\ InPool \/ pc = "listing" => groups # {}

\* A result is in the task's hands while it is persisted, and only then.
ResultInHand ==
    IF pc \in {"persist_timeout", "persist_done"} THEN result.db \in dbs
    ELSE result = NoResult

\* The futures that wait() returned are done.
BatchIsDone ==
    pc \in {"done", "persist_done"} => \A d \in batch : thread[d] \in Outcomes

OldEnough(ty, d) == lastSuccess[ty][d] = 0 \/ collectedAt - lastSuccess[ty][d] >= Interval

\* What the task found due stays so until it persists a result: for a type it has
\* not opened a pool for, all databases; for the type in the pool, those to come.
StillDue ==
    /\ pc = "listing" => \A ty \in groups, d \in Databases : OldEnough(ty, d)
    /\ InPool => \A ty \in groups \ {Group}, d \in Databases : OldEnough(ty, d)
    /\ InPool => \A d \in todo \cup Places : OldEnough(Group, d)

CollectionInv ==
    /\ TypeOK
    /\ PoolWithTask
    /\ ResultInHand
    /\ BatchIsDone
    /\ StillDue
    /\ PoolKeptFull
    /\ SubmittedOnce
    /\ EveryResultRecorded
    /\ SnapshotOfLastSuccess

-----------------------------------------------------------------------------
(* Facts about the operators.                                              *)

LEMMA WildcardIsNoDatabase == \A D \in SUBSET Databases : Wildcard \notin D
OBVIOUS

LEMMA SubsetsFinite ==
    ASSUME NEW D \in SUBSET Databases
    PROVE  IsFiniteSet(D) /\ Cardinality(D) \in Nat
BY FS_Subset, FS_CardinalityType

LEMMA WorkersType == ASSUME NEW D \in SUBSET Databases PROVE MaxWorkers(D) \in Nat
BY SubsetsFinite DEF MaxWorkers, Least, Greatest

LEMMA GroupType == groups \in SUBSET Types /\ groups # {} => Group \in groups
BY DEF Group, Types

\* A place that is given away counts as before: x for y, neither among the others.
LEMMA PlaceGivenAway ==
    ASSUME NEW D \in SUBSET Databases, NEW x \in Databases \ D, NEW y \in Databases \ D
    PROVE  /\ Cardinality(D \cup {x}) = Cardinality(D \cup {y})
           /\ Cardinality(D) <= Cardinality(D \cup {x})
BY SubsetsFinite, FS_AddElement

-----------------------------------------------------------------------------
(* The invariant, step by step.                                            *)

LEMMA InitInv == Init => CollectionInv
<1> SUFFICES ASSUME Init PROVE CollectionInv
  OBVIOUS
<1> USE DEF Init
<1>1. TypeOK
  BY DEF TypeOK, Types, Outcomes, NoResult, Running, PoolPcs
<1>2. PoolWithTask /\ ResultInHand /\ BatchIsDone /\ StillDue
  BY DEF PoolWithTask, ResultInHand, BatchIsDone, StillDue, InPool, PoolPcs
<1>3. PoolKeptFull /\ SubmittedOnce /\ EveryResultRecorded /\ SnapshotOfLastSuccess
  BY DEF PoolKeptFull, SubmittedOnce, EveryResultRecorded, SnapshotOfLastSuccess, InPool,
         PoolPcs
<1> QED
  BY <1>1, <1>2, <1>3 DEF CollectionInv

\* However a task ends, the tables stay as they were committed.
LEMMA EndInv ==
    ASSUME CollectionInv, EndTask, UNCHANGED <<clock, tables>>, faults' \in 0..MaxFaults
    PROVE  CollectionInv'
<1> USE DEF CollectionInv, EndTask, tables
<1>1. TypeOK'
  BY DEF TypeOK, Types, Outcomes, NoResult, Running, PoolPcs
<1>2. PoolWithTask' /\ ResultInHand' /\ BatchIsDone' /\ StillDue'
  BY DEF PoolWithTask, ResultInHand, BatchIsDone, StillDue, InPool, PoolPcs
<1>3. PoolKeptFull' /\ SubmittedOnce' /\ EveryResultRecorded' /\ SnapshotOfLastSuccess'
  BY DEF PoolKeptFull, SubmittedOnce, EveryResultRecorded, SnapshotOfLastSuccess, InPool,
         PoolPcs
<1> QED
  BY <1>1, <1>2, <1>3

\* A pool opens full, or with all databases in it, for a type that is due.
LEMMA OpenInv ==
    ASSUME CollectionInv, NEW D \in SUBSET Databases, OpenPool(D), dbs' = D,
           groups' \in SUBSET Types, groups' # {},
           \A ty \in groups', d \in Databases : OldEnough(ty, d),
           UNCHANGED <<clock, tables, collectedAt, faults>>
    PROVE  CollectionInv'
<1> USE DEF CollectionInv, tables
<1>1. PICK first \in SUBSET D :
          /\ Cardinality(first) = MaxWorkers(D)
          /\ active' = first
          /\ todo' = D \ first
          /\ thread' = Running
          /\ late' = {} /\ batch' = {}
          /\ result' = NoResult
          /\ pc' = "check"
  BY DEF OpenPool
<1>2. TypeOK'
  BY <1>1 DEF TypeOK, Types, Outcomes, NoResult, Running, PoolPcs
<1>3. PoolWithTask' /\ ResultInHand' /\ BatchIsDone'
  BY <1>1 DEF PoolWithTask, ResultInHand, BatchIsDone, InPool, PoolPcs
<1>4. Places' = first
  BY <1>1 DEF Places, NoResult
<1>5. StillDue'
  <2>1. Group' \in groups'
    BY DEF Group, Types
  <2>2. \A ty \in groups', d \in Databases : OldEnough(ty, d)'
    BY DEF OldEnough
  <2> QED
    BY <1>1, <1>4, <2>1, <2>2 DEF StillDue
<1>6. PoolKeptFull'
  <2>1. Cardinality(Places)' = MaxWorkers(dbs)' /\ MaxWorkers(dbs)' \in Nat
    BY <1>1, <1>4, WorkersType DEF MaxWorkers
  <2> QED
    BY <2>1 DEF PoolKeptFull
<1>7. SubmittedOnce'
  BY <1>1, WildcardIsNoDatabase DEF SubmittedOnce, NoResult
<1>8. EveryResultRecorded'
  BY <1>1, <1>4 DEF EveryResultRecorded
<1>9. SnapshotOfLastSuccess'
  BY DEF SnapshotOfLastSuccess
<1> QED
  BY <1>2, <1>3, <1>5, <1>6, <1>7, <1>8, <1>9

LEMMA ScheduleInv == CollectionInv /\ Schedule => CollectionInv'
BY DEF Schedule, CollectionInv, tables, pool, TypeOK, PoolWithTask, ResultInHand, BatchIsDone,
       StillDue, PoolKeptFull, SubmittedOnce, EveryResultRecorded, SnapshotOfLastSuccess,
       InPool, PoolPcs

\* The types the task takes are due at the time it notes.
LEMMA ComputeDueInv ==
    ASSUME CollectionInv, ComputeDue
    PROVE  CollectionInv'
<1> DEFINE due == {ty \in Types : Due(ty)}
<1>1. CASE due = {}
  BY <1>1, EndInv DEF ComputeDue, CollectionInv, TypeOK
<1>2. CASE due # {}
  <2> USE DEF CollectionInv
  <2>1. /\ pc' = "listing" /\ collectedAt' = clock /\ groups' = due
        /\ UNCHANGED <<dbs, pool, clock, tables, faults>>
        /\ pc = "created"
    BY <1>2 DEF ComputeDue
  <2>2. todo' = {} /\ active' = {} /\ late' = {} /\ batch' = {} /\ result' = NoResult
    BY <2>1 DEF PoolWithTask, ResultInHand, pool, InPool, PoolPcs
  <2>3. TypeOK'
    BY <2>1 DEF TypeOK, tables, pool
  <2>4. PoolWithTask' /\ ResultInHand' /\ BatchIsDone'
    BY <1>2, <2>1, <2>2 DEF PoolWithTask, ResultInHand, BatchIsDone, InPool, PoolPcs
  <2>5. StillDue'
    BY <2>1 DEF StillDue, InPool, PoolPcs, OldEnough, Due, tables
  <2>6. PoolKeptFull' /\ SubmittedOnce' /\ EveryResultRecorded' /\ SnapshotOfLastSuccess'
    BY <2>1, <2>2 DEF PoolKeptFull, SubmittedOnce, EveryResultRecorded,
       SnapshotOfLastSuccess, InPool, PoolPcs, tables
  <2> QED
    BY <2>3, <2>4, <2>5, <2>6
<1> QED
  BY <1>1, <1>2

LEMMA ListInv ==
    ASSUME CollectionInv, ListSucceeds
    PROVE  CollectionInv'
<1>1. PICK D \in SUBSET Databases :
          IF D = {} THEN EndTask
          ELSE dbs' = D /\ OpenPool(D) /\ UNCHANGED <<collectedAt, groups>>
  BY DEF ListSucceeds
<1>2. pc = "listing" /\ UNCHANGED <<clock, tables, faults>>
  BY DEF ListSucceeds
<1>3. CASE D = {}
  BY <1>1, <1>2, <1>3, EndInv DEF CollectionInv, TypeOK
<1>4. CASE D # {}
  <2>1. groups' \in SUBSET Types /\ groups' # {}
        /\ \A ty \in groups', d \in Databases : OldEnough(ty, d)
    BY <1>1, <1>2, <1>4 DEF CollectionInv, TypeOK, PoolWithTask, StillDue
  <2> QED
    BY <1>1, <1>2, <1>4, <2>1, OpenInv
<1> QED
  BY <1>3, <1>4

\* What the threads and the clock do on their own changes nothing that is asked of
\* the pool.
LEMMA OutsideInv ==
    ASSUME CollectionInv,
           \/ \E d \in Databases : (\E o \in Outcomes : ThreadAnswers(d, o)) \/ TimeoutElapses(d)
           \/ Tick
    PROVE  CollectionInv'
<1> USE DEF CollectionInv, tables, task, pool
<1>1. CASE \E d \in Databases, o \in Outcomes : ThreadAnswers(d, o)
  BY <1>1 DEF ThreadAnswers, TypeOK, PoolWithTask, ResultInHand, BatchIsDone, StillDue,
     PoolKeptFull, SubmittedOnce, EveryResultRecorded, SnapshotOfLastSuccess, InPool, Places,
     OldEnough, Group, Outcomes
<1>2. CASE \E d \in Databases : TimeoutElapses(d)
  BY <1>2 DEF TimeoutElapses, TypeOK, PoolWithTask, ResultInHand, BatchIsDone, StillDue,
     PoolKeptFull, SubmittedOnce, EveryResultRecorded, SnapshotOfLastSuccess, InPool, Places,
     OldEnough, Group
<1>3. CASE Tick
  BY <1>3 DEF Tick, TypeOK, PoolWithTask, ResultInHand, BatchIsDone, StillDue,
     PoolKeptFull, SubmittedOnce, EveryResultRecorded, SnapshotOfLastSuccess, InPool, Places,
     OldEnough, Group
<1> QED
  BY <1>1, <1>2, <1>3

LEMMA CheckInv ==
    ASSUME CollectionInv, CheckTimeouts \/ WaitReturns
    PROVE  CollectionInv'
<1> USE DEF CollectionInv, tables
<1>1. CASE CheckTimeouts
  BY <1>1 DEF CheckTimeouts, TypeOK, PoolWithTask, ResultInHand, BatchIsDone, StillDue,
     PoolKeptFull, SubmittedOnce, EveryResultRecorded, SnapshotOfLastSuccess, InPool, Places,
     OldEnough, Group, PoolPcs
<1>2. CASE WaitReturns
  BY <1>2 DEF WaitReturns, TypeOK, PoolWithTask, ResultInHand, BatchIsDone, StillDue,
     PoolKeptFull, SubmittedOnce, EveryResultRecorded, SnapshotOfLastSuccess, InPool, Places,
     OldEnough, Group, PoolPcs
<1> QED
  BY <1>1, <1>2

\* The yielded database keeps its place until it is persisted.
LEMMA YieldInv ==
    ASSUME CollectionInv, NEW d \in Databases, YieldResult(d)
    PROVE  CollectionInv'
<1> USE DEF CollectionInv, tables, YieldResult, Popped
<1>1. /\ d \in active /\ d \in dbs /\ d \notin todo /\ d # Wildcard
      /\ result = NoResult /\ InPool /\ InPool' /\ result'.db = d
      /\ pc' \in {"persist_timeout", "persist_done"}
  BY DEF TypeOK, ResultInHand, SubmittedOnce, InPool, PoolPcs
<1>2. Places' = Places
  BY <1>1 DEF Places, NoResult
<1>3. TypeOK'
  BY <1>1 DEF TypeOK, BatchIsDone, Outcomes, PoolPcs
<1>4. PoolWithTask' /\ ResultInHand' /\ BatchIsDone'
  BY <1>1 DEF PoolWithTask, ResultInHand, BatchIsDone, TypeOK
<1>5. StillDue'
  BY <1>1, <1>2 DEF StillDue, OldEnough, Group
<1>6. PoolKeptFull'
  BY <1>1, <1>2 DEF PoolKeptFull
<1>7. SubmittedOnce'
  BY <1>1 DEF SubmittedOnce
<1>8. EveryResultRecorded'
  BY <1>1, <1>2 DEF EveryResultRecorded, Group
<1>9. SnapshotOfLastSuccess'
  BY DEF SnapshotOfLastSuccess
<1> QED
  BY <1>3, <1>4, <1>5, <1>6, <1>7, <1>8, <1>9

\* Its place goes to a database that waits, and what it left in the tables is all
\* that EveryResultRecorded asks.
LEMMA PersistInv ==
    ASSUME CollectionInv, Persist
    PROVE  CollectionInv'
<1> USE DEF CollectionInv
<1> DEFINE b == result.db
<1>1. /\ b \in dbs /\ b \in Databases /\ b # Wildcard /\ b \notin todo \cup active
      /\ Group \in Types /\ Group \in groups /\ InPool /\ InPool' /\ pc' \in {"check", "timeouts", "done"}
      /\ Group' = Group /\ dbs' = dbs /\ collectedAt' = collectedAt /\ groups' = groups
  BY GroupType DEF Persist, TypeOK, ResultInHand, SubmittedOnce, PoolWithTask, InPool, PoolPcs,
     Group, Types
<1>2. /\ result' = NoResult /\ batch' = batch /\ late' = late /\ thread' = thread
      /\ clock' = clock /\ faults' = faults
      /\ pc' = "done" => pc = "persist_done" \/ batch = {}
  BY DEF Persist
<1>3. \/ todo = {} /\ todo' = todo /\ active' = active
      \/ \E d \in todo : todo' = todo \ {d} /\ active' = active \cup {d}
  BY DEF Persist, SubmitNext
<1>4. /\ todo' \cup active' = todo \cup active
      /\ todo' \cap active' = {} /\ active \subseteq active'
      /\ todo' \in SUBSET dbs /\ active' \in SUBSET dbs
  BY <1>3 DEF SubmittedOnce, TypeOK
<1>5. Places = active \cup {b} /\ Places' = active'
  BY <1>1, <1>2 DEF Places, NoResult
<1>6. /\ \A ty \in Types, d \in Databases : ty # Group \/ d # b =>
             /\ lastSuccess'[ty][d] = lastSuccess[ty][d]
             /\ snapshot'[ty][d] = snapshot[ty][d]
             /\ (d \in failed[ty]) => (d \in failed'[ty])
      /\ snapshot'[Group][b] = lastSuccess'[Group][b]
      /\ b \in failed'[Group] \/ lastSuccess'[Group][b] = collectedAt
  BY <1>1 DEF Persist, Replaced, MarkedFailed, TypeOK, SnapshotOfLastSuccess
<1>7. TypeOK'
  <2>1. lastSuccess' \in [Types -> [Databases -> 0..(MaxClock + 1)]]
    <3>1. \/ UNCHANGED lastSuccess
          \/ lastSuccess' = [lastSuccess EXCEPT ![Group] = [@ EXCEPT ![b] = collectedAt]]
      BY DEF Persist
    <3>2. lastSuccess[Group] \in [Databases -> 0..(MaxClock + 1)]
          /\ collectedAt \in 0..(MaxClock + 1)
      BY <1>1 DEF TypeOK
    <3>3. [lastSuccess[Group] EXCEPT ![b] = collectedAt] \in [Databases -> 0..(MaxClock + 1)]
      BY <1>1, <3>2
    <3> QED
      BY <1>1, <3>1, <3>3 DEF TypeOK
  <2>2. failed' \in [Types -> SUBSET (Databases \cup {Wildcard})]
    BY <1>1 DEF TypeOK, Persist, MarkedFailed
  <2>3. snapshot' \in [Types -> [Databases -> 0..(MaxClock + 1)]]
    BY <1>1 DEF TypeOK, Persist, Replaced
  <2>4. late' \in SUBSET active' /\ batch' \in SUBSET active'
    BY <1>2, <1>4 DEF TypeOK
  <2>5. result' \in [db : Databases \cup {Wildcard}, outcome : Outcomes]
    BY <1>2 DEF NoResult, Outcomes
  <2>6. pc' \in {"none", "created", "listing"} \cup PoolPcs
    BY <1>1 DEF PoolPcs
  <2> QED
    BY <1>1, <1>2, <1>4, <2>1, <2>2, <2>3, <2>4, <2>5, <2>6 DEF TypeOK
<1>8. PoolWithTask' /\ ResultInHand'
  BY <1>1, <1>2 DEF PoolWithTask, ResultInHand
<1>9. BatchIsDone'
  BY <1>1, <1>2 DEF BatchIsDone
<1>10. StillDue'
  <2>1. \A ty \in groups \ {Group}, d \in Databases : OldEnough(ty, d)'
    BY <1>1, <1>6 DEF StillDue, OldEnough, TypeOK
  <2>2. \A d \in todo \cup active : OldEnough(Group, d)'
    BY <1>1, <1>5, <1>6 DEF StillDue, OldEnough, TypeOK
  <2> QED
    BY <1>1, <1>4, <1>5, <2>1, <2>2 DEF StillDue, OldEnough
<1>11. PoolKeptFull'
  <2>1. active \in SUBSET Databases /\ b \in Databases \ active
    BY <1>1 DEF TypeOK
  <2>2. CASE todo = {}
    <3>1. Places' = active /\ todo' = {}
      <4>1. active' = active /\ todo' = {}
        BY <1>3, <2>2
      <4> QED
        BY <1>5, <4>1
    <3>2. Cardinality(active) <= Cardinality(active \cup {b})
      BY <2>1, PlaceGivenAway
    <3>3. Cardinality(active) \in Nat /\ Cardinality(active \cup {b}) \in Nat
          /\ MaxWorkers(dbs) \in Nat
      BY <2>1, SubsetsFinite, WorkersType DEF TypeOK
    <3>4. Cardinality(active \cup {b}) <= MaxWorkers(dbs)
      BY <1>1, <1>5 DEF PoolKeptFull
    <3>5. Cardinality(Places') <= MaxWorkers(dbs)
      BY <3>1, <3>2, <3>3, <3>4
    <3> QED
      BY <1>1, <3>1, <3>5 DEF PoolKeptFull
  <2>3. CASE todo # {}
    <3>1. PICK d \in todo : active' = active \cup {d}
      BY <1>3, <2>3
    <3>2. d \in Databases \ active
      BY DEF SubmittedOnce, TypeOK
    <3>3. Cardinality(Places') = Cardinality(Places)
      BY <1>5, <2>1, <3>1, <3>2, PlaceGivenAway
    <3>4. Cardinality(Places) = MaxWorkers(dbs) /\ MaxWorkers(dbs) \in Nat
      BY <1>1, <2>3, WorkersType DEF PoolKeptFull, TypeOK
    <3> QED
      BY <1>1, <3>3, <3>4 DEF PoolKeptFull
  <2> QED
    BY <2>2, <2>3
<1>12. SubmittedOnce'
  BY <1>2, <1>4, WildcardIsNoDatabase DEF SubmittedOnce, NoResult, TypeOK
<1>13. EveryResultRecorded'
  <2>1. SUFFICES ASSUME NEW d \in dbs, d \notin todo \cup active
                 PROVE  d \in failed'[Group] \/ lastSuccess'[Group][d] = collectedAt
    BY <1>1, <1>4, <1>5 DEF EveryResultRecorded
  <2>2. CASE d = b
    BY <1>6, <2>2
  <2>3. CASE d # b
    BY <1>1, <1>5, <1>6, <2>1, <2>3 DEF EveryResultRecorded, TypeOK
  <2> QED
    BY <2>2, <2>3
<1>14. SnapshotOfLastSuccess'
  BY <1>6 DEF SnapshotOfLastSuccess
<1> QED
  BY <1>7, <1>8, <1>9, <1>10, <1>11, <1>12, <1>13, <1>14

LEMMA EndGroupInv ==
    ASSUME CollectionInv, EndGroup
    PROVE  CollectionInv'
<1>1. CASE groups \ {Group} = {}
  BY <1>1, EndInv DEF EndGroup, CollectionInv, TypeOK
<1>2. CASE groups \ {Group} # {}
  <2>1. /\ groups' = groups \ {Group} /\ OpenPool(dbs)
        /\ UNCHANGED <<clock, tables, collectedAt, dbs, faults>> /\ InPool
    BY <1>2 DEF EndGroup, InPool, PoolPcs
  <2>2. dbs \in SUBSET Databases /\ groups' \in SUBSET Types
        /\ \A ty \in groups', d \in Databases : OldEnough(ty, d)
    BY <2>1 DEF CollectionInv, TypeOK, StillDue
  <2> QED
    BY <1>2, <2>1, <2>2, OpenInv
<1> QED
  BY <1>1, <1>2

LEMMA NextInv == CollectionInv /\ [Next]_vars => CollectionInv'
<1> SUFFICES ASSUME CollectionInv, [Next]_vars PROVE CollectionInv'
  OBVIOUS
<1>1. CASE FindDisabled \/ ListFails
  BY <1>1, EndInv DEF FindDisabled, ListFails, CollectionInv, TypeOK
<1>2. CASE Abort
  <2>1. faults' \in 0..MaxFaults
    BY <1>2 DEF Abort, CollectionInv, TypeOK
  <2> QED
    BY <1>2, <2>1, EndInv DEF Abort
<1>3. CASE UNCHANGED vars
  BY <1>3 DEF vars, tables, task, pool, CollectionInv, TypeOK, PoolWithTask, ResultInHand,
     BatchIsDone, StillDue, PoolKeptFull, SubmittedOnce, EveryResultRecorded,
     SnapshotOfLastSuccess, InPool, Places, OldEnough, Group
<1>4. CASE \E d \in Databases : YieldResult(d)
  BY <1>4, YieldInv
<1> QED
  BY <1>1, <1>2, <1>3, <1>4, ScheduleInv, ComputeDueInv, ListInv, OutsideInv, CheckInv,
     PersistInv, EndGroupInv DEF Next, TaskStep

-----------------------------------------------------------------------------
(* The theorems.                                                           *)

\* The invariant holds in every reachable state.
THEOREM InvariantHolds == Spec => []CollectionInv
BY InitInv, NextInv, PTL DEF Spec

\* Every variable keeps its type, the pool's within the databases listed.
THEOREM TypeCorrect == Spec => []TypeOK
<1>1. CollectionInv => TypeOK
  BY DEF CollectionInv
<1> QED
  BY <1>1, InvariantHolds, PTL

\* Timeouts, late answers and slow persisting neither exceed the limit nor starve
\* a database that waits, for any number of databases and any limit.
THEOREM PoolNeverStarves == Spec => []PoolKeptFull
<1>1. CollectionInv => PoolKeptFull
  BY DEF CollectionInv
<1> QED
  BY <1>1, InvariantHolds, PTL

\* No database is submitted a second time, also after its timeout.
THEOREM NoDatabaseTwice == Spec => []SubmittedOnce
<1>1. CollectionInv => SubmittedOnce
  BY DEF CollectionInv
<1> QED
  BY <1>1, InvariantHolds, PTL

\* Every database that has left the pool has left its outcome in the tables.
THEOREM NoResultLost == Spec => []EveryResultRecorded
<1>1. CollectionInv => EveryResultRecorded
  BY DEF CollectionInv
<1> QED
  BY <1>1, InvariantHolds, PTL

\* Snapshots and the time of the last success agree after any failure or crash.
THEOREM SnapshotsAgree == Spec => []SnapshotOfLastSuccess
<1>1. CollectionInv => SnapshotOfLastSuccess
  BY DEF CollectionInv
<1> QED
  BY <1>1, InvariantHolds, PTL

\* No database is asked again within the interval of its last success.
THEOREM NeverTooEarly == Spec => []IntervalRespected
<1>1. CollectionInv => IntervalRespected
  BY DEF CollectionInv, StillDue, IntervalRespected, OldEnough, Places
<1> QED
  BY <1>1, InvariantHolds, PTL
=============================================================================

----------------------- MODULE IndexOperation_proofs -----------------------
(***************************************************************************)
(* OperationInv is inductive, hence audits and statements agree for any     *)
(* number of requests, indexes and faults.                                 *)
(***************************************************************************)
EXTENDS IndexOperation, TLAPS

USE FaultsAssumption DEF Orders, Actions, Settled, HandlerType, TaskType, ServerType

LEMMA InitInv == Init => OperationInv
BY DEF Init, OperationInv, TypeOK, AuditedBeforeSent, SuccessIsReal, FailedIsReal,
       HandlerInOrder, TaskInOrder, CreatedOnce

\* One more fault stays within the bound, and is one.
LEMMA FaultRange ==
    ASSUME faults \in 0..MaxFaults, faults < MaxFaults
    PROVE  faults + 1 \in 0..MaxFaults /\ faults + 1 # 0
OBVIOUS

-----------------------------------------------------------------------------
(* The request.                                                            *)

LEMMA HandlerInv ==
    ASSUME OperationInv, NEW r \in Requests, HandlerStep(r) \/ HandlerFails(r)
    PROVE  OperationInv'
<1> USE DEF OperationInv, TypeOK, AuditedBeforeSent, SuccessIsReal, FailedIsReal,
            HandlerInOrder, TaskInOrder, CreatedOnce
<1>1. CASE RejectName(r)
  BY <1>1 DEF RejectName
<1>2. CASE PassCheck(r)
  BY <1>2 DEF PassCheck
<1>3. CASE WriteAudit(r)
  BY <1>3 DEF WriteAudit
<1>4. CASE Respond(r)
  BY <1>4 DEF Respond
<1>5. CASE HandlerFails(r)
  BY <1>5, FaultRange DEF HandlerFails
<1> QED
  BY <1>1, <1>2, <1>3, <1>4, <1>5 DEF HandlerStep

-----------------------------------------------------------------------------
(* The task, and the server it talks to.                                   *)

\* Only a statement on its way is applied, and one to create an index only where
\* none has its name: so no earlier statement created it.
LEMMA ServerInv ==
    ASSUME OperationInv, NEW r \in Requests, ServerStep(r)
    PROVE  OperationInv'
<1> USE DEF OperationInv, TypeOK, AuditedBeforeSent, SuccessIsReal, FailedIsReal,
            HandlerInOrder, TaskInOrder, CreatedOnce
<1>1. CASE ServerApplies(r)
  <2>1. TypeOK'
    BY <1>1 DEF ServerApplies
  <2>2. ASSUME NEW q \in Requests, server[q] = "applied",
               order[q] = order[r], order[r].action = "CREATE"
        PROVE  FALSE
    BY <1>1, <2>2 DEF ServerApplies
  <2>3. CreatedOnce'
    BY <1>1, <2>2 DEF ServerApplies
  <2>4. AuditedBeforeSent' /\ SuccessIsReal' /\ FailedIsReal'
    BY <1>1 DEF ServerApplies
  <2>5. HandlerInOrder' /\ TaskInOrder'
    BY <1>1 DEF ServerApplies
  <2> QED
    BY <2>1, <2>3, <2>4, <2>5
<1>2. CASE ServerRefuses(r)
  BY <1>2 DEF ServerRefuses
<1> QED
  BY <1>1, <1>2 DEF ServerStep

LEMMA TaskInv ==
    ASSUME OperationInv, NEW r \in Requests,
           TaskStep(r) \/ ConnectionLost(r) \/ TaskFails(r)
    PROVE  OperationInv'
<1> USE DEF OperationInv, TypeOK, AuditedBeforeSent, SuccessIsReal, FailedIsReal,
            HandlerInOrder, TaskInOrder, CreatedOnce
<1>1. CASE StartDdl(r)
  BY <1>1 DEF StartDdl
<1>2. CASE ServerAnswers(r)
  BY <1>2 DEF ServerAnswers
<1>3. CASE Finish(r)
  BY <1>3 DEF Finish, Verdict
<1>4. CASE ConnectionLost(r)
  BY <1>4, FaultRange DEF ConnectionLost
<1>5. CASE TaskFails(r)
  BY <1>5, FaultRange DEF TaskFails
<1> QED
  BY <1>1, <1>2, <1>3, <1>4, <1>5 DEF TaskStep

-----------------------------------------------------------------------------
(* A crash stops handlers and tasks where they are; rows and statements stay. *)

LEMMA CrashInv ==
    ASSUME OperationInv, Crash
    PROVE  OperationInv'
BY FaultRange
   DEF Crash, OperationInv, TypeOK, AuditedBeforeSent, SuccessIsReal, FailedIsReal,
       HandlerInOrder, TaskInOrder, CreatedOnce

LEMMA NextInv == OperationInv /\ [Next]_vars => OperationInv'
<1> SUFFICES ASSUME OperationInv, [Next]_vars PROVE OperationInv'
  OBVIOUS
<1>1. CASE Next
  BY <1>1, HandlerInv, TaskInv, ServerInv, CrashInv DEF Next
<1>2. CASE UNCHANGED vars
  BY <1>2 DEF vars, OperationInv, TypeOK, AuditedBeforeSent, SuccessIsReal, FailedIsReal,
              HandlerInOrder, TaskInOrder, CreatedOnce
<1> QED
  BY <1>1, <1>2

-----------------------------------------------------------------------------
(* The theorems.                                                           *)

\* The invariant holds in every reachable state.
THEOREM OperationInvariant == Spec => []OperationInv
BY InitInv, NextInv, PTL DEF Spec

\* Handlers, tasks, rows and the server keep their shape.
THEOREM TypeCorrect == Spec => []TypeOK
<1>1. OperationInv => TypeOK
  BY DEF OperationInv
<1> QED
  BY <1>1, OperationInvariant, PTL

\* No statement is sent without its committed audit row, at whatever point
\* handlers, tasks or the process fail.
THEOREM NothingUnaudited == Spec => []AuditedBeforeSent
<1>1. OperationInv => AuditedBeforeSent
  BY DEF OperationInv
<1> QED
  BY <1>1, OperationInvariant, PTL

\* A success in the audits is one on the server, and one request at most created
\* an index.
THEOREM SuccessesAreReal == Spec => []SuccessIsReal
<1>1. OperationInv => SuccessIsReal
  BY DEF OperationInv
<1> QED
  BY <1>1, OperationInvariant, PTL

\* Without faults, a failed audit is of a statement the server refused.
THEOREM FailuresAreReal == Spec => []FailedIsReal
<1>1. OperationInv => FailedIsReal
  BY DEF OperationInv
<1> QED
  BY <1>1, OperationInvariant, PTL

\* Only the request's own task, with an answer or an exception, settles a row,
\* and only once.
THEOREM SettledOnce == Spec => SettledByItsTask
<1>1. ASSUME OperationInv, [Next]_vars
      PROVE  [\A r \in Requests : audit[r] # "none" /\ audit'[r] # audit[r] =>
                 audit[r] = "running" /\ task[r] \in {"returned", "raised"}]_vars
  <2> USE DEF OperationInv, TypeOK, HandlerInOrder, TaskInOrder
  <2>1. ASSUME NEW q \in Requests, RejectName(q) \/ WriteAudit(q)
        PROVE  audit[q] = "none" /\ \A r \in Requests : r # q => audit'[r] = audit[r]
    BY <1>1, <2>1 DEF RejectName, WriteAudit
  <2>2. ASSUME NEW q \in Requests, Finish(q)
        PROVE  /\ audit[q] = "running" /\ task[q] \in {"returned", "raised"}
               /\ \A r \in Requests : r # q => audit'[r] = audit[r]
    BY <1>1, <2>2 DEF Finish
  <2>3. \/ \E q \in Requests : RejectName(q) \/ WriteAudit(q) \/ Finish(q)
        \/ audit' = audit
    BY <1>1 DEF Next, HandlerStep, TaskStep, ServerStep, PassCheck, Respond, HandlerFails,
                StartDdl, ServerApplies, ServerRefuses, ServerAnswers, ConnectionLost,
                TaskFails, Crash, vars
  <2> QED
    BY <2>1, <2>2, <2>3
<1> QED
  BY <1>1, OperationInvariant, PTL DEF Spec, SettledByItsTask
=============================================================================

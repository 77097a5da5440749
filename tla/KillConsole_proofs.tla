-------------------------- MODULE KillConsole_proofs --------------------------
(***************************************************************************)
(* The safety properties of KillConsole for any instances, sessions, frames, *)
(* number of overlapping fetches and number of kills.                       *)
(***************************************************************************)
EXTENDS KillConsole, FiniteSetTheorems, SequenceTheorems, TLAPS

USE NumbersAssumption, BoundsAssumption

Call == {Idle} \cup [step : {"list", "rows"}, of : Instances]

\* A fetch that is alone is for the current instance, and hides what it replaces.
LoneFetch ==
    ~mixed => \A f \in Fetches : fetch[f] # Idle =>
                  /\ fetch[f].of = Current \/ Current = None
                  /\ loading
                  /\ \A g \in Fetches : fetch[g] # Idle => g = f

\* So what is visible after one is the current instance's.
RowsOfCurrent ==
    ~mixed /\ Visible /\ rows.sids # {} /\ Current # None => rows.of = Current

DialogOfCurrent ==
    dialog.sid # None /\ ~dialog.mixed /\ ~moved /\ Current # None => dialog.of = Current

\* What the handler has of a request, and of the frame it has read.
RequestInOrder ==
    request.step # "none" =>
        /\ request.instance \in Instances /\ request.sid \in Sids
        /\ request.instance # request.of => request.excused
        /\ request.since \in 0..Latest(request.instance)
        /\ request.step = "read" =>
               /\ request.frame \in request.since..Latest(request.instance)
               /\ request.kind = "user" =>
                      /\ request.frame # 0
                      /\ request.sid \in DOMAIN history[request.instance][request.frame]
                      /\ history[request.instance][request.frame][request.sid] = "user"

\* The frame of a success was there: frames are numbered from 1.
SuccessHasFrame == \A a \in audits : a.result = "success" => a.frame # 0 /\ a.since \in Nat

AuditsNumbered ==
    /\ IsFiniteSet(audits)
    /\ \A a \in audits : a.number \in Nat /\ a.number < Cardinality(audits)

KillInv ==
    /\ TypeOK
    /\ LoneFetch
    /\ RowsOfCurrent
    /\ DialogOfCurrent
    /\ RequestInOrder
    /\ AuditsNumbered
    /\ SuccessHasFrame
    /\ KillStraysOnlyIf
    /\ SuccessWasKillable
    /\ AnswersAudited

-----------------------------------------------------------------------------
(* Facts about the operators.                                              *)

\* The current instance is one of the list.
LEMMA CurrentInList ==
    ASSUME NEW list \in SUBSET Instances, NEW id
    PROVE  CurrentOf(list, id) \in list \cup {None}
BY GreatestAssumption DEF CurrentOf, First

LEMMA CurrentIsInstance ==
    ASSUME items \in SUBSET Instances
    PROVE  Current \in Instances \cup {None}
BY CurrentInList DEF Current

LEMMA NoneIsNoInstance == None \notin Instances
BY DEF None

LEMMA LatestIsNumber ==
    ASSUME history \in [Instances -> Seq(Frames)]
    PROVE  \A i \in Instances : Latest(i) \in Nat
BY LenProperties DEF Latest

LEMMA FrameOf ==
    ASSUME history \in [Instances -> Seq(Frames)], NEW i \in Instances,
           NEW k \in 1..Latest(i)
    PROVE  history[i][k] \in Frames
BY ElementOfSeq DEF Latest

LEMMA InitInv == Init => KillInv
<1> SUFFICES ASSUME Init PROVE KillInv
  OBVIOUS
<1> USE DEF Init
<1>1. TypeOK
  BY EmptySeq DEF TypeOK, Idle, Closed, NoRows, NoRequest, None, Request
<1>2. LoneFetch /\ RowsOfCurrent /\ DialogOfCurrent /\ RequestInOrder
  BY DEF LoneFetch, RowsOfCurrent, DialogOfCurrent, RequestInOrder, Closed, NoRows, NoRequest
<1>3. IsFiniteSet(audits) /\ Cardinality(audits) = 0
  BY FS_EmptySet
<1>4. AuditsNumbered /\ SuccessHasFrame /\ KillStraysOnlyIf /\ SuccessWasKillable /\ AnswersAudited
  BY <1>3 DEF AuditsNumbered, SuccessHasFrame, KillStraysOnlyIf, SuccessWasKillable, AnswersAudited
<1> QED
  BY <1>1, <1>2, <1>4 DEF KillInv

-----------------------------------------------------------------------------
(* The page.                                                               *)

\* What concerns requests and audits is kept where they and the frames are.
LEMMA KillsKept ==
    ASSUME KillInv, UNCHANGED <<history, request, audits, answers>>
    PROVE  /\ RequestInOrder' /\ AuditsNumbered' /\ SuccessHasFrame' /\ KillStraysOnlyIf'
           /\ SuccessWasKillable' /\ AnswersAudited'
BY DEF KillInv, RequestInOrder, AuditsNumbered, SuccessHasFrame, KillStraysOnlyIf,
       SuccessWasKillable, AnswersAudited, Latest

\* A fetch begins for the instance that is current from now on.
LEMMA BeginInv ==
    ASSUME KillInv, NEW calls \in [Fetches -> Call], NEW current \in Instances \cup {None},
           Begin(calls, current), Current' = current, UNCHANGED rows,
           \A f \in Fetches : /\ (calls[f] = Idle) <=> (fetch[f] = Idle)
                              /\ calls[f].of = fetch[f].of,
           current # None \/ current # Current \/ calls = fetch
    PROVE  /\ LoneFetch' /\ RowsOfCurrent'
           /\ fetch' \in [Fetches -> Call] /\ loading' \in BOOLEAN /\ error' \in BOOLEAN
           /\ mixed' \in BOOLEAN
<1> USE DEF KillInv
<1>1. CASE current = None
  <2>1. fetch' = calls /\ UNCHANGED <<loading, error, mixed>>
    BY <1>1 DEF Begin
  <2> QED
    BY <1>1, <2>1 DEF LoneFetch, RowsOfCurrent, TypeOK
<1>2. CASE current # None
  <2>1. PICK f \in Fetches :
            /\ calls[f] = Idle
            /\ fetch' = [calls EXCEPT ![f] = [step |-> "list", of |-> current]]
            /\ loading' = TRUE
            /\ error' = FALSE
            /\ mixed' = (\E g \in Fetches : calls[g] # Idle)
    BY <1>2 DEF Begin
  <2>2. fetch' \in [Fetches -> Call]
    BY <1>2, <2>1 DEF Call
  <2>3. LoneFetch'
    BY <1>2, <2>1 DEF LoneFetch
  <2>4. RowsOfCurrent'
    BY <2>1 DEF RowsOfCurrent, Visible
  <2> QED
    BY <2>1, <2>2, <2>3, <2>4
<1> QED
  BY <1>1, <1>2

\* The store changes, and with it perhaps the current instance.
LEMMA StoreInv ==
    ASSUME KillInv, NEW list \in SUBSET Instances, NEW id \in Instances \cup {None},
           NEW calls \in [Fetches -> Call], StoreBecomes(list, id, calls),
           UNCHANGED <<server, rows, dialog, request, audits, answers>>,
           \A f \in Fetches : /\ (calls[f] = Idle) <=> (fetch[f] = Idle)
                              /\ calls[f].of = fetch[f].of
    PROVE  KillInv'
<1> USE DEF KillInv
<1> DEFINE current == CurrentOf(list, id)
<1>1. items' = list /\ chosen' = id /\ Current' = current
      /\ moved' = (moved \/ (dialog.sid # None /\ current # Current))
  BY DEF StoreBecomes, Current
<1>2. current \in Instances \cup {None}
  BY CurrentInList
<1>3. /\ LoneFetch' /\ RowsOfCurrent'
      /\ fetch' \in [Fetches -> Call] /\ loading' \in BOOLEAN /\ error' \in BOOLEAN
      /\ mixed' \in BOOLEAN
  <2>1. CASE current # Current
    <3>1. Begin(calls, current)
      BY <2>1 DEF StoreBecomes, Rewatched
    <3> HIDE DEF current
    <3> QED
      BY <1>1, <1>2, <2>1, <3>1, BeginInv
  <2>2. CASE current = Current
    <3>1. fetch' = calls /\ UNCHANGED <<loading, error, mixed>>
      BY <2>2 DEF StoreBecomes
    <3> QED
      BY <1>1, <2>2, <3>1 DEF LoneFetch, RowsOfCurrent, Visible, TypeOK
  <2> QED
    BY <2>1, <2>2
<1>4. DialogOfCurrent'
  BY <1>1 DEF DialogOfCurrent
<1>5. TypeOK'
  BY <1>1, <1>3 DEF TypeOK, Call, server
<1> QED
  BY <1>3, <1>4, <1>5, KillsKept DEF server

LEMMA LoadListInv == ASSUME KillInv, LoadList PROVE KillInv'
<1>1. PICK list, id : list = listed /\ id = IF chosen = None THEN First(listed) ELSE chosen
  OBVIOUS
<1>2. PICK calls : calls = fetch
  OBVIOUS
<1>3. list \in SUBSET Instances /\ calls \in [Fetches -> Call]
  BY <1>1, <1>2 DEF KillInv, TypeOK, Call
<1>4. id \in Instances \cup {None}
  BY <1>1, <1>3, GreatestAssumption DEF First, KillInv, TypeOK
<1> QED
  BY <1>1, <1>2, <1>3, <1>4, StoreInv DEF LoadList

LEMMA ChooseInv == ASSUME KillInv, NEW i \in Instances, Choose(i) PROVE KillInv'
<1>1. PICK list, calls : list = items /\ calls = fetch
  OBVIOUS
<1>2. list \in SUBSET Instances /\ calls \in [Fetches -> Call]
  BY <1>1 DEF KillInv, TypeOK, Call
<1> QED
  BY <1>1, <1>2, StoreInv DEF Choose

LEMMA RefreshInv == ASSUME KillInv, Refresh PROVE KillInv'
<1> USE DEF KillInv
<1>1. PICK calls, current : calls = fetch /\ current = Current
  OBVIOUS
<1>2. calls \in [Fetches -> Call] /\ current \in Instances \cup {None}
  BY <1>1, CurrentIsInstance DEF TypeOK, Call
<1>3. Begin(calls, current) /\ Current' = current /\ UNCHANGED rows
      /\ UNCHANGED <<server, store, dialog, moved, request, audits, answers>>
  BY <1>1 DEF Refresh, store, Current
<1>4. /\ LoneFetch' /\ RowsOfCurrent'
      /\ fetch' \in [Fetches -> Call] /\ loading' \in BOOLEAN /\ error' \in BOOLEAN
      /\ mixed' \in BOOLEAN
  BY <1>1, <1>2, <1>3, BeginInv
<1>5. DialogOfCurrent'
  BY <1>1, <1>3 DEF DialogOfCurrent
<1>6. TypeOK'
  BY <1>3, <1>4 DEF TypeOK, Call, server, store
<1> QED
  BY <1>3, <1>4, <1>5, <1>6, KillsKept DEF server

LEMMA ListArrivesInv == ASSUME KillInv, NEW f \in Fetches, ListArrives(f) PROVE KillInv'
<1>1. PICK list, id : list = listed /\ id = IF chosen = None THEN First(listed) ELSE chosen
  OBVIOUS
<1>2. PICK calls : calls = [fetch EXCEPT ![f].step = "rows"]
  OBVIOUS
<1>3. list \in SUBSET Instances /\ fetch \in [Fetches -> Call] /\ fetch[f].step = "list"
  BY <1>1 DEF KillInv, TypeOK, Call, ListArrives
<1>4. calls \in [Fetches -> Call]
      /\ \A g \in Fetches : /\ (calls[g] = Idle) <=> (fetch[g] = Idle)
                            /\ calls[g].of = fetch[g].of
  BY <1>2, <1>3 DEF Call, Idle
<1>5. id \in Instances \cup {None}
  BY <1>1, <1>3, GreatestAssumption DEF First, KillInv, TypeOK
<1>6. StoreBecomes(list, id, calls) /\ UNCHANGED <<server, rows, dialog, request, audits, answers>>
  BY <1>1, <1>2 DEF ListArrives
<1> QED
  BY <1>3, <1>4, <1>5, <1>6, StoreInv

LEMMA RowsArriveInv == ASSUME KillInv, NEW f \in Fetches, RowsArrive(f) PROVE KillInv'
<1> USE DEF KillInv
<1> DEFINE i == fetch[f].of
<1>1. /\ fetch[f].step = "rows" /\ fetch[f] # Idle
      /\ rows' = [of |-> i, sids |-> DOMAIN history[i][Latest(i)]] /\ history[i] # <<>>
      /\ fetch' = [fetch EXCEPT ![f] = Idle] /\ loading' = FALSE
      /\ UNCHANGED <<server, store, error, mixed, dialog, moved, request, audits, answers>>
  BY DEF RowsArrive, Idle
<1>2. Current' = Current
  BY <1>1 DEF Current, store
<1>3. TypeOK'
  <2>1. fetch' \in [Fetches -> Call]
    BY <1>1 DEF TypeOK, Call, Idle
  <2>2. i \in Instances
    BY <1>1 DEF TypeOK
  <2>3. history[i][Latest(i)] \in Frames
    <3>1. Latest(i) \in 1..Latest(i)
      BY <1>1, <2>2, EmptySeq DEF TypeOK, Latest
    <3> QED
      BY <2>2, <3>1, FrameOf DEF TypeOK
  <2>4. rows'.of \in Instances \cup {None} /\ rows'.sids \subseteq Sids
    BY <1>1, <2>2, <2>3, FramesAssumption
  <2> QED
    BY <1>1, <2>1, <2>4 DEF TypeOK, Call, server, store
<1>4. LoneFetch' /\ RowsOfCurrent'
  BY <1>1, <1>2 DEF LoneFetch, RowsOfCurrent, TypeOK
<1>5. DialogOfCurrent'
  BY <1>1, <1>2 DEF DialogOfCurrent
<1> QED
  BY <1>1, <1>3, <1>4, <1>5, KillsKept DEF server

LEMMA FetchFailsInv == ASSUME KillInv, NEW f \in Fetches, FetchFails(f) PROVE KillInv'
<1> USE DEF KillInv
<1>1. /\ fetch' = [fetch EXCEPT ![f] = Idle] /\ loading' = FALSE /\ error' = TRUE
      /\ fetch[f] # Idle
      /\ UNCHANGED <<server, store, rows, mixed, dialog, moved, request, audits, answers>>
  BY DEF FetchFails
<1>2. Current' = Current
  BY <1>1 DEF Current, store
<1>3. TypeOK'
  BY <1>1 DEF TypeOK, server, store
<1>4. LoneFetch' /\ RowsOfCurrent'
  BY <1>1, <1>2 DEF LoneFetch, RowsOfCurrent, Visible, TypeOK
<1>5. DialogOfCurrent'
  BY <1>1, <1>2 DEF DialogOfCurrent
<1> QED
  BY <1>1, <1>3, <1>4, <1>5, KillsKept DEF server

\* The dialog takes a session of the current instance, or is excused.
LEMMA DialogInv ==
    ASSUME KillInv, CloseKill \/ \E s \in Sids : OpenKill(s)
    PROVE  KillInv'
<1> USE DEF KillInv
<1>1. UNCHANGED <<server, store, fetch, page, request, audits, answers>>
  BY DEF OpenKill, CloseKill
<1>2. Current' = Current
  BY <1>1 DEF Current, store
<1>3. LoneFetch' /\ RowsOfCurrent'
  BY <1>1, <1>2 DEF LoneFetch, RowsOfCurrent, Visible, page
<1>4. TypeOK' /\ DialogOfCurrent'
  <2>1. CASE CloseKill
    BY <1>1, <1>2, <2>1 DEF CloseKill, TypeOK, DialogOfCurrent, Closed, server, store, page
  <2>2. CASE \E s \in Sids : OpenKill(s)
    <3>1. PICK s \in Sids : /\ Visible /\ s \in rows.sids /\ moved' = FALSE
                            /\ dialog' = [sid |-> s, of |-> rows.of, mixed |-> mixed]
      BY <2>2 DEF OpenKill
    <3>2. dialog' \in [sid : Sids \cup {None}, of : Instances \cup {None}, mixed : BOOLEAN]
      BY <3>1 DEF TypeOK
    <3>3. TypeOK'
      BY <1>1, <3>1, <3>2 DEF TypeOK, server, store, page
    <3>4. DialogOfCurrent'
      BY <1>2, <3>1 DEF DialogOfCurrent, RowsOfCurrent
    <3> QED
      BY <3>3, <3>4
  <2> QED
    BY <2>1, <2>2
<1> QED
  BY <1>1, <1>3, <1>4, KillsKept DEF server

-----------------------------------------------------------------------------
(* The request.                                                            *)

\* What concerns the page is kept where it and the store are.
LEMMA PageKept ==
    ASSUME KillInv, UNCHANGED <<store, fetch, page, dialog, moved>>
    PROVE  LoneFetch' /\ RowsOfCurrent' /\ DialogOfCurrent'
<1>1. Current' = Current
  BY DEF Current, store
<1> QED
  BY <1>1 DEF KillInv, LoneFetch, RowsOfCurrent, DialogOfCurrent, Visible, page

LEMMA ConfirmInv ==
    ASSUME KillInv, NEW long \in BOOLEAN, ConfirmKill(long)
    PROVE  KillInv'
<1> USE DEF KillInv
<1>1. /\ UNCHANGED <<server, store, fetch, page, dialog, moved, audits, answers>>
      /\ request' = [NoRequest EXCEPT !.step = "received", !.instance = Current, !.sid = dialog.sid,
                                      !.long = long, !.since = Latest(Current),
                                      !.of = dialog.of, !.excused = dialog.mixed \/ moved]
  BY DEF ConfirmKill
<1>2. dialog.sid # None /\ dialog.sid \in Sids /\ Current # None /\ Current \in Instances
  BY CurrentIsInstance DEF ConfirmKill, CanConfirm, TypeOK
<1>3. /\ request'.step = "received" /\ request'.instance = Current /\ request'.sid = dialog.sid
      /\ request'.since = Latest(Current) /\ request'.of = dialog.of
      /\ request'.excused = (dialog.mixed \/ moved) /\ request'.kind = "none"
      /\ request' \in Request
  <2>1. Latest(Current) \in Nat
    <3>1. PICK i \in Instances : i = Current
      BY <1>2
    <3> QED
      BY <3>1, LatestIsNumber DEF TypeOK
  <2>2. dialog.of \in Instances \cup {None} /\ dialog.mixed \in BOOLEAN /\ moved \in BOOLEAN
    BY DEF TypeOK
  <2> QED
    BY <1>1, <1>2, <2>1, <2>2 DEF NoRequest, Request
<1>4. TypeOK'
  BY <1>1, <1>3 DEF TypeOK, server, store, page
<1>5. RequestInOrder'
  <2>1. PICK i \in Instances : i = Current
    BY <1>2
  <2>2. Latest(i) \in Nat /\ Latest(i)' = Latest(i)
    BY <1>1, LatestIsNumber DEF TypeOK, Latest, server
  <2>3. Current # dialog.of => dialog.mixed \/ moved
    BY <1>2 DEF DialogOfCurrent
  <2>4. request'.instance = i /\ request'.since = Latest(i)'
    BY <1>3, <2>1, <2>2
  <2>5. Latest(request.instance)' = Latest(i)'
    BY <2>4 DEF Latest
  <2> QED
    <3>1. request'.step # "read" /\ request'.instance \in Instances /\ request'.sid \in Sids
      BY <1>2, <1>3
    <3>2. request'.instance # request'.of => request'.excused
      BY <1>3, <2>3
    <3>3. request'.since \in 0..Latest(request.instance)'
      BY <2>2, <2>4, <2>5
    <3> QED
      BY <3>1, <3>2, <3>3 DEF RequestInOrder
<1>6. AuditsNumbered' /\ SuccessHasFrame' /\ KillStraysOnlyIf' /\ SuccessWasKillable' /\ AnswersAudited'
  BY <1>1 DEF AuditsNumbered, SuccessHasFrame, KillStraysOnlyIf, SuccessWasKillable, AnswersAudited,
     Latest, server
<1> QED
  BY <1>1, <1>4, <1>5, <1>6, PageKept

\* The handler finds the session in the frame that is the latest then.
LEMMA ReadTargetInv ==
    ASSUME KillInv, ReadTarget
    PROVE  KillInv'
<1> USE DEF KillInv
<1> DEFINE i == request.instance
           n == Latest(i)
           found == n # 0 /\ request.sid \in DOMAIN history[i][n]
           kind == IF found THEN history[i][n][request.sid] ELSE "none"
<1>1. /\ UNCHANGED <<server, store, fetch, page, dialog, moved, audits, answers>>
      /\ request' = [request EXCEPT !.step = "read", !.frame = n, !.kind = kind]
      /\ request.step = "received"
  BY DEF ReadTarget
<1>2. i \in Instances /\ request.sid \in Sids /\ n \in Nat /\ request.since \in 0..n
  BY <1>1, LatestIsNumber DEF RequestInOrder, TypeOK
<1>3. kind \in Kinds \cup {"none"}
  <2>1. n # 0 => history[i][n] \in Frames
    <3>1. PICK i0 \in Instances, n0 \in Nat : i0 = i /\ n0 = n
      BY <1>2
    <3>2. n0 = Latest(i0)
      BY <3>1
    <3>3. n0 # 0 => history[i0][n0] \in Frames
      <4>1. n0 # 0 => n0 \in 1..Latest(i0)
        BY <3>2
      <4> QED
        BY <4>1, FrameOf DEF TypeOK
    <3> QED
      BY <3>1, <3>3
  <2> QED
    BY <2>1, FramesAssumption
<1>4. request' \in Request /\ request'.step = "read" /\ request'.frame = n /\ request'.kind = kind
      /\ request'.instance = i /\ request'.sid = request.sid /\ request'.since = request.since
      /\ request'.of = request.of /\ request'.excused = request.excused
  <2>1. request \in Request
    BY DEF TypeOK
  <2>2. PICK n0 \in Nat, k0 \in Kinds \cup {"none"} : n0 = n /\ k0 = kind
    BY <1>2, <1>3
  <2>3. request' = [request EXCEPT !.step = "read", !.frame = n0, !.kind = k0]
    BY <1>1, <2>2
  <2> HIDE DEF n, kind
  <2> QED
    BY <2>1, <2>2, <2>3 DEF Request
<1>5. TypeOK' /\ RequestInOrder'
  <2>1. TypeOK'
    BY <1>1, <1>4 DEF TypeOK, server, store, page
  <2>2. PICK i0 \in Instances : i0 = i
    BY <1>2
  <2>3. Latest(i0)' = n /\ Latest(request.instance)' = Latest(i0)'
    BY <1>1, <1>4, <2>2 DEF Latest, server
  <2>4. kind = "user" => n # 0 /\ request.sid \in DOMAIN history[i][n]
                         /\ history[i][n][request.sid] = "user"
    OBVIOUS
  <2> QED
    BY <1>1, <1>2, <1>4, <2>1, <2>3, <2>4 DEF RequestInOrder, server
<1>6. AuditsNumbered' /\ SuccessHasFrame' /\ KillStraysOnlyIf' /\ SuccessWasKillable' /\ AnswersAudited'
  BY <1>1 DEF AuditsNumbered, SuccessHasFrame, KillStraysOnlyIf, SuccessWasKillable, AnswersAudited,
     Latest, server
<1> QED
  BY <1>1, <1>4, <1>5, <1>6, PageKept

\* The audit of a request in order is one more, with a number of its own.
LEMMA AuditInv ==
    ASSUME KillInv, request.step = "read", UNCHANGED <<history, server>>,
           audits' \in {audits, audits \cup {AuditOf(request)}},
           answers' = answers \/ (answers' = answers + 1 /\ audits' # audits)
    PROVE  /\ AuditsNumbered' /\ SuccessHasFrame' /\ KillStraysOnlyIf' /\ SuccessWasKillable'
           /\ AnswersAudited'
           /\ \A a \in audits' : a.instance \in Instances /\ a.sid \in Sids /\ a.result \in Results
           /\ answers' \in Nat
<1> USE DEF KillInv
<1> DEFINE a0 == AuditOf(request)
<1>1. /\ a0.number = Cardinality(audits) /\ a0.instance = request.instance
      /\ a0.sid = request.sid /\ a0.of = request.of /\ a0.excused = request.excused
      /\ a0.long = request.long /\ a0.kind = request.kind
      /\ a0.frame = request.frame /\ a0.since = request.since /\ a0.result \in Results
      /\ a0.result = "success" => Permits(request)
  BY DEF AuditOf, Results
<1>2. Cardinality(audits) \in Nat /\ IsFiniteSet(audits)
  BY FS_CardinalityType DEF AuditsNumbered
<1>3. a0 \notin audits
  BY <1>1, <1>2 DEF AuditsNumbered
<1>4. Cardinality(audits \cup {a0}) = Cardinality(audits) + 1 /\ IsFiniteSet(audits \cup {a0})
  BY <1>2, <1>3, FS_AddElement
<1> HIDE DEF a0
<1>5. audits' = audits \/ audits' = audits \cup {a0}
  BY DEF a0
<1>6. AuditsNumbered'
  <2>1. CASE audits' = audits
    BY <2>1 DEF AuditsNumbered
  <2>2. CASE audits' = audits \cup {a0}
    <3>1. Cardinality(audits') = Cardinality(audits) + 1 /\ IsFiniteSet(audits')
      BY <1>4, <2>2
    <3>2. \A a \in audits : a.number \in Nat /\ a.number < Cardinality(audits)
      BY DEF AuditsNumbered
    <3>3. \A a \in audits' : a.number \in Nat /\ a.number < Cardinality(audits')
      BY <1>1, <1>2, <2>2, <3>1, <3>2
    <3> QED
      BY <3>1, <3>3 DEF AuditsNumbered
  <2> QED
    BY <1>5, <2>1, <2>2
<1>7. KillStraysOnlyIf'
  BY <1>1, <1>5 DEF KillStraysOnlyIf, RequestInOrder
<1>8. \A i : Latest(i)' = Latest(i)
  BY DEF Latest
<1>9. SuccessHasFrame' /\ SuccessWasKillable'
  <2>1. a0.result = "success" =>
            /\ a0.long /\ a0.sid > MinKillable /\ a0.frame # 0
            /\ a0.since \in Nat /\ a0.frame \in a0.since..Latest(a0.instance)
            /\ a0.sid \in DOMAIN history[a0.instance][a0.frame]
            /\ history[a0.instance][a0.frame][a0.sid] = "user"
    BY <1>1 DEF RequestInOrder, Permits
  <2> QED
    BY <1>5, <1>8, <2>1 DEF SuccessHasFrame, SuccessWasKillable
<1>10. AnswersAudited' /\ answers' \in Nat
  <2>1. answers \in Nat /\ answers <= Cardinality(audits)
    BY DEF AnswersAudited, TypeOK
  <2>2. CASE audits' = audits
    BY <1>2, <2>1, <2>2 DEF AnswersAudited
  <2>3. CASE audits' = audits \cup {a0}
    <3>1. Cardinality(audits)' = Cardinality(audits) + 1
      BY <1>4, <2>3
    <3> QED
      BY <1>2, <2>1, <3>1 DEF AnswersAudited
  <2> QED
    BY <1>5, <2>2, <2>3
<1>11. \A a \in audits' : a.instance \in Instances /\ a.sid \in Sids /\ a.result \in Results
  BY <1>1, <1>5 DEF TypeOK, RequestInOrder
<1> QED
  BY <1>6, <1>7, <1>9, <1>10, <1>11

\* After its answer the page fetches again.
LEMMA EndInv ==
    ASSUME KillInv, Settle \/ AuditFails
    PROVE  KillInv'
<1> USE DEF KillInv
<1>1. PICK ok \in BOOLEAN : Ends(ok)
  BY DEF Settle, AuditFails
<1>2. /\ request.step = "read" /\ request' = NoRequest
      /\ UNCHANGED <<server, store, rows, moved>>
  BY <1>1 DEF Ends
<1>3. Current' = Current
  BY <1>2 DEF Current, store
<1>4. /\ LoneFetch' /\ RowsOfCurrent'
      /\ fetch' \in [Fetches -> Call] /\ loading' \in BOOLEAN /\ error' \in BOOLEAN
      /\ mixed' \in BOOLEAN
      /\ dialog' = dialog \/ dialog' = Closed
  <2>1. CASE ok
    <3>1. PICK calls, current : calls = fetch /\ current = Current
      OBVIOUS
    <3>2. Begin(calls, current) /\ dialog' = Closed
      BY <1>1, <2>1, <3>1 DEF Ends
    <3>3. calls \in [Fetches -> Call] /\ current \in Instances \cup {None}
      BY <3>1, CurrentIsInstance DEF TypeOK, Call
    <3> QED
      BY <1>2, <1>3, <3>1, <3>2, <3>3, BeginInv
  <2>2. CASE ~ok
    <3>1. UNCHANGED <<dialog, fetch, loading, error, mixed>>
      BY <1>1, <2>2 DEF Ends
    <3> QED
      BY <1>2, <1>3, <3>1 DEF LoneFetch, RowsOfCurrent, Visible, TypeOK, Call
  <2> QED
    BY <2>1, <2>2
<1>5. DialogOfCurrent'
  BY <1>2, <1>3, <1>4 DEF DialogOfCurrent, Closed
<1>6. /\ audits' \in {audits, audits \cup {AuditOf(request)}}
      /\ answers' = answers \/ (answers' = answers + 1 /\ audits' # audits)
  <2>1. AuditOf(request) \notin audits
    <3>1. Cardinality(audits) \in Nat
      BY FS_CardinalityType DEF AuditsNumbered
    <3> QED
      BY <3>1 DEF AuditsNumbered, AuditOf
  <2> QED
    BY <2>1 DEF Settle, AuditFails, Audits
<1>7. /\ AuditsNumbered' /\ SuccessHasFrame' /\ KillStraysOnlyIf' /\ SuccessWasKillable'
      /\ AnswersAudited'
      /\ \A a \in audits' : a.instance \in Instances /\ a.sid \in Sids /\ a.result \in Results
      /\ answers' \in Nat
  BY <1>2, <1>6, AuditInv DEF server
<1>8. RequestInOrder' /\ NoRequest \in Request
  BY <1>2 DEF RequestInOrder, NoRequest, Request
<1>9. TypeOK'
  <2>1. Closed \in [sid : Sids \cup {None}, of : Instances \cup {None}, mixed : BOOLEAN]
    BY DEF Closed
  <2>2. dialog' \in [sid : Sids \cup {None}, of : Instances \cup {None}, mixed : BOOLEAN]
    BY <1>4, <2>1 DEF TypeOK
  <2> QED
    BY <1>2, <1>4, <1>7, <1>8, <2>2 DEF TypeOK, Call, server, store
<1> QED
  BY <1>4, <1>5, <1>7, <1>8, <1>9

-----------------------------------------------------------------------------
(* The rest of the system.                                                 *)

\* Frames are only added.
LEMMA CommitInv ==
    ASSUME KillInv, NEW i \in Instances, NEW f \in Frames, Commit(i, f)
    PROVE  KillInv'
<1> USE DEF KillInv
<1>1. /\ history' = [history EXCEPT ![i] = Append(@, f)]
      /\ UNCHANGED <<listed, changes, store, fetch, page, dialog, moved, request, audits, answers>>
  BY DEF Commit
<1>2. history \in [Instances -> Seq(Frames)]
  BY DEF TypeOK
<1>3. history' \in [Instances -> Seq(Frames)]
  BY <1>1, <1>2, AppendProperties
<1>4. ASSUME NEW j \in Instances
      PROVE  /\ Latest(j) \in Nat /\ Latest(j)' \in Nat /\ Latest(j) <= Latest(j)'
             /\ \A k \in 1..Latest(j) : history'[j][k] = history[j][k]
  <2>1. CASE j = i
    <3>1. history'[j] = Append(history[j], f) /\ history[j] \in Seq(Frames)
      BY <1>1, <1>2, <2>1
    <3> QED
      BY <3>1, AppendProperties, LenProperties DEF Latest
  <2>2. CASE j # i
    <3>1. history'[j] = history[j] /\ history[j] \in Seq(Frames)
      BY <1>1, <1>2, <2>2
    <3> QED
      BY <3>1, LenProperties DEF Latest
  <2> QED
    BY <2>1, <2>2
<1>5. TypeOK'
  BY <1>1, <1>3 DEF TypeOK, store, page
<1>6. RequestInOrder'
  <2> SUFFICES ASSUME request.step # "none" PROVE RequestInOrder'
    BY <1>1 DEF RequestInOrder
  <2>1. PICK j \in Instances : j = request.instance
    BY DEF RequestInOrder
  <2>2. request.since \in 0..Latest(j) /\ request' = request
        /\ Latest(request.instance)' = Latest(j)'
    BY <1>1, <2>1 DEF RequestInOrder, Latest
  <2>3. request.since \in 0..Latest(j)'
    BY <1>4, <2>2
  <2>4. request.step = "read" => request.frame \in request.since..Latest(j)'
    <3>1. request.step = "read" => request.frame \in request.since..Latest(j)
      BY <2>1 DEF RequestInOrder
    <3> QED
      BY <1>4, <2>2, <3>1
  <2>5. request.step = "read" /\ request.kind = "user" =>
            /\ request.frame # 0
            /\ request.sid \in DOMAIN history'[j][request.frame]
            /\ history'[j][request.frame][request.sid] = "user"
    <3> SUFFICES ASSUME request.step = "read", request.kind = "user"
                 PROVE  /\ request.frame # 0
                        /\ request.sid \in DOMAIN history'[j][request.frame]
                        /\ history'[j][request.frame][request.sid] = "user"
      OBVIOUS
    <3>1. request.frame \in 1..Latest(j)
      BY <1>4, <2>1, <2>2 DEF RequestInOrder
    <3>2. history'[j][request.frame] = history[j][request.frame]
      BY <1>4, <3>1
    <3> QED
      BY <2>1, <3>2 DEF RequestInOrder
  <2> QED
    BY <2>1, <2>2, <2>3, <2>4, <2>5 DEF RequestInOrder
<1>7. SuccessWasKillable'
  <2> SUFFICES ASSUME NEW a \in audits, a.result = "success"
               PROVE  /\ a.long /\ a.sid > MinKillable
                      /\ a.frame \in a.since..Latest(a.instance)'
                      /\ a.sid \in DOMAIN history'[a.instance][a.frame]
                      /\ history'[a.instance][a.frame][a.sid] = "user"
    BY <1>1 DEF SuccessWasKillable, Latest
  <2>1. PICK j \in Instances : j = a.instance
    BY DEF TypeOK
  <2>2. a.frame \in a.since..Latest(j) /\ a.frame # 0 /\ a.since \in Nat
    BY <2>1 DEF SuccessWasKillable, SuccessHasFrame
  <2>3. a.frame \in 1..Latest(j)
    BY <1>4, <2>2
  <2>4. history'[j][a.frame] = history[j][a.frame]
    BY <1>4, <2>3
  <2>5. a.frame \in a.since..Latest(j)' /\ Latest(a.instance)' = Latest(j)'
    <3>1. Latest(a.instance)' = Latest(j)'
      BY <2>1 DEF Latest
    <3> QED
      BY <1>4, <2>2, <3>1
  <2> QED
    BY <2>1, <2>4, <2>5 DEF SuccessWasKillable
<1>8. AuditsNumbered' /\ SuccessHasFrame' /\ KillStraysOnlyIf' /\ AnswersAudited'
  BY <1>1 DEF AuditsNumbered, SuccessHasFrame, KillStraysOnlyIf, AnswersAudited
<1> QED
  BY <1>1, <1>5, <1>6, <1>7, <1>8, PageKept

LEMMA ChangeListInv == ASSUME KillInv, NEW i \in Instances, ChangeList(i) PROVE KillInv'
<1>1. /\ listed' = (IF i \in listed THEN listed \ {i} ELSE listed \cup {i})
      /\ UNCHANGED <<history, store, fetch, page, dialog, moved, request, audits, answers>>
  BY DEF ChangeList
<1>2. TypeOK'
  BY <1>1 DEF KillInv, TypeOK, store, page
<1> QED
  BY <1>1, <1>2, PageKept, KillsKept DEF KillInv

LEMMA NextInv == KillInv /\ [Next]_vars => KillInv'
<1> SUFFICES ASSUME KillInv, [Next]_vars PROVE KillInv'
  OBVIOUS
<1>1. CASE \E i \in Instances, f \in Frames : Commit(i, f)
  BY <1>1, CommitInv
<1>2. CASE \E i \in Instances : ChangeList(i)
  BY <1>2, ChangeListInv
<1>3. CASE Page
  <2>1. CASE LoadList
    BY <2>1, LoadListInv
  <2>2. CASE \E i \in Instances : Choose(i)
    BY <2>2, ChooseInv
  <2>3. CASE Refresh
    BY <2>3, RefreshInv
  <2>4. CASE \E f \in Fetches : ListArrives(f)
    BY <2>4, ListArrivesInv
  <2>5. CASE \E f \in Fetches : RowsArrive(f)
    BY <2>5, RowsArriveInv
  <2>6. CASE \E f \in Fetches : FetchFails(f)
    BY <2>6, FetchFailsInv
  <2>7. CASE CloseKill \/ \E s \in Sids : OpenKill(s)
    BY <2>7, DialogInv
  <2>8. CASE \E long \in BOOLEAN : ConfirmKill(long)
    BY <2>8, ConfirmInv
  <2> QED
    BY <1>3, <2>1, <2>2, <2>3, <2>4, <2>5, <2>6, <2>7, <2>8 DEF Page
<1>4. CASE Handler
  BY <1>4, ReadTargetInv, EndInv DEF Handler
<1>5. CASE UNCHANGED vars
  <2>1. TypeOK'
    BY <1>5 DEF KillInv, TypeOK, vars, server, store, page
  <2> QED
    BY <1>5, <2>1, PageKept, KillsKept DEF KillInv, vars, server
<1> QED
  BY <1>1, <1>2, <1>3, <1>4, <1>5 DEF Next

-----------------------------------------------------------------------------
(* Theorems.                                                               *)

\* Every state of the console, the handler and its audits is in order.
THEOREM InvariantHolds == Spec => []KillInv
BY InitInv, NextInv, PTL DEF Spec

\* Stores, fetches, requests and audits keep their shape.
THEOREM TypeCorrect == Spec => []TypeOK
<1>1. KillInv => TypeOK
  BY DEF KillInv
<1> QED
  BY InvariantHolds, <1>1, PTL

\* A kill reaches another instance than the row's only if fetches overlapped before
\* the click or the current instance changed under the dialog.
THEOREM KillsStayOnTarget == Spec => []KillStraysOnlyIf
<1>1. KillInv => KillStraysOnlyIf
  BY DEF KillInv
<1> QED
  BY InvariantHolds, <1>1, PTL

\* A success was killable in a frame that was the latest during the request.
THEOREM SuccessesWereKillable == Spec => []SuccessWasKillable
<1>1. KillInv => SuccessWasKillable
  BY DEF KillInv
<1> QED
  BY InvariantHolds, <1>1, PTL

\* There are never more answers that tell a result than audits.
THEOREM EveryAnswerAudited == Spec => []AnswersAudited
<1>1. KillInv => AnswersAudited
  BY DEF KillInv
<1> QED
  BY InvariantHolds, <1>1, PTL
=============================================================================

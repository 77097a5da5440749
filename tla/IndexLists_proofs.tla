--------------------------- MODULE IndexLists_proofs ---------------------------
(***************************************************************************)
(* The index lists: however many candidates there are, however large a page  *)
(* is and however often SQL Server reorders its view, a row that keeps its   *)
(* place is listed once, and an index page is dated rightly.                *)
(***************************************************************************)
EXTENDS IndexLists, FiniteSetTheorems, SequenceTheorems, TLAPS

StoredRow == [row : Candidates, at : Time]
StatusRow == [state : {"unknown", "success", "failed"}, success : Time]

\* A usable row that is not among those that moved.
Stays(kind, c, away) == c \notin away /\ (kind = "missing" => c.resolved /\ c.keys > 0)

Listings(list, c) == {i \in list : i.row = c}

\* The loop has listed the rows of the pages it has read, each once, and no other;
\* those it has counted are within the total.
ListedSoFar ==
    /\ pc \in {"count", "page"} => \A k \in 1..Len(view) : Stays(type, view[k], moved) =>
           IF k <= (page - 1) * PageSize THEN Cardinality(Listings(items, view[k])) = 1
           ELSE Listings(items, view[k]) = {}
    /\ pc = "page" => \A k \in 1..Len(view) : Stays(type, view[k], moved) => k <= total
    /\ pc = "listed" => \A k \in 1..Len(view) : Stays(type, view[k], moved) =>
           \/ Cardinality(Listings(items, view[k])) = 1
           \/ hollow /\ type = "missing" /\ Listings(items, view[k]) = {}

LoopInv ==
    /\ type \in {"missing", "fragmentation"}
    /\ view \in Seq(Candidates) /\ IsInjective(view)
    /\ changes \in 0..MaxChanges
    /\ pc \in {"idle", "count", "page", "listed"}
    /\ page \in Nat \ {0}
    /\ page = 1 \/ (page - 1) * PageSize < Cardinality(Candidates)
    /\ total \in 0..Cardinality(Candidates)
    /\ items \subseteq [page : 1..page, row : Candidates] /\ IsFiniteSet(items)
    /\ moved \subseteq Candidates
    /\ hollow \in BOOLEAN
    /\ ListedSoFar

\* The stored rows are those of the last success, which is older than the
\* collection in progress.
StoreInv ==
    /\ clock \in Time \ {0}
    /\ collectedAt \in Time
    /\ rows \in Seq(StoredRow)
    /\ status \in StatusRow
    /\ \A k \in 1..Len(rows) : rows[k].at = status.success
    /\ status.success = 0 => rows = <<>>
    /\ status.state = "unknown" => status.success = 0
    /\ status.success <= clock
    /\ pc # "idle" => status.success < collectedAt /\ collectedAt <= clock

\* How many rows page n shows of t.
PageLength(n, t, length) ==
    LET before == (n - 1) * ViewSize
    IN  /\ t <= before => length = 0
        /\ t \in before..(before + ViewSize) => length = t - before
        /\ t > before + ViewSize => length = ViewSize

\* All rows of s are of one collection that ended within these times.
DatedIn(s, low, high) ==
    \A j \in 1..Len(s) : /\ 0 < s[j].at /\ low <= s[j].at /\ s[j].at <= high
                         /\ \A k \in 1..Len(s) : s[k].at = s[j].at

AfterTotal == <<"rows", "status">>
AfterRows == <<"status">>

\* What a handler has read, of a request that was made at asked.success: unless a
\* collection was committed meanwhile, its total and its rows belong together.
ReadSoFar ==
    /\ plan \in {<<>>, AfterRows, AfterTotal, ReadOrder}
    /\ answer # NoAnswer => plan = <<>> /\ read = NothingRead
    /\ asked = NothingAsked => plan = <<>> /\ read = NothingRead /\ answer = NoAnswer
    /\ asked # NothingAsked => asked.page # 0 /\ asked.success <= status.success
    /\ plan = AfterTotal /\ status.success = asked.success => read.total = Len(rows)
    /\ plan = AfterRows =>
           /\ DatedIn(read.rows, asked.success, status.success)
           /\ status.success = asked.success =>
                  PageLength(asked.page, read.total, Len(read.rows))
    /\ plan = <<>> /\ asked # NothingAsked /\ answer = NoAnswer =>
           /\ asked.success <= read.status.success /\ read.status.success <= clock
           /\ read.status.state = "unknown" => read.status.success = 0
           /\ DatedIn(read.rows, asked.success, read.status.success)
           /\ read.status.success = asked.success =>
                  PageLength(asked.page, read.total, Len(read.rows))

AnswerDated ==
    answer # NoAnswer =>
        /\ DatedIn(answer.items, asked.success, answer.checked)
        /\ answer.checked = asked.success =>
               /\ PageLength(asked.page, answer.total, Len(answer.items))
               /\ ~answer.stale =>
                      \A j \in 1..Len(answer.items) : answer.items[j].at + Interval >= answer.now

PageInv ==
    /\ read \in [total : Nat, rows : Seq(StoredRow), status : StatusRow]
    /\ asked \in [page : 0..MaxPage, success : Time]
    /\ answer \in [items : Seq(StoredRow), total : Nat, checked : Time,
                   stale : BOOLEAN, now : Time]
    /\ ReadSoFar
    /\ AnswerDated

ListsInv == LoopInv /\ StoreInv /\ PageInv

-----------------------------------------------------------------------------
(* The loop of the collector.                                              *)

LEMMA CandidatesCounted ==
    /\ Cardinality(Candidates) \in Nat
    /\ \A s \in Seq(Candidates) : IsInjective(s) => Len(s) \in 0..Cardinality(Candidates)
<1>1. Cardinality(Candidates) \in Nat
  BY CandidatesAssumption, FS_CardinalityType
<1>2. ASSUME NEW s \in Seq(Candidates), IsInjective(s)
      PROVE  Len(s) \in 0..Cardinality(Candidates)
  <2>1. Len(s) \in Nat /\ s \in [1..Len(s) -> Candidates]
    BY LenProperties
  <2>2. s \in Injection(1..Len(s), Candidates)
    BY <1>2, <2>1 DEF Injection
  <2>3. Cardinality(1..Len(s)) <= Cardinality(Candidates)
    BY <2>2, CandidatesAssumption, FS_Injection
  <2>4. Cardinality(1..Len(s)) = Len(s)
    BY <2>1, FS_Interval
  <2> QED
    BY <1>1, <2>1, <2>3, <2>4
<1> QED
  BY <1>1, <1>2

\* Rows of a page lie after those of the page before.
LEMMA PageBounds ==
    ASSUME NEW n \in Nat \ {0}
    PROVE  /\ (n - 1) * PageSize \in Nat /\ n * PageSize \in Nat
           /\ (n - 1) * PageSize < n * PageSize
           /\ (n + 1 - 1) * PageSize = n * PageSize
<1>1. PageSize \in Nat \ {0}
  BY SizesAssumption
<1> QED
  BY <1>1

\* A new row, anywhere in the order.
LEMMA InsertedView ==
    ASSUME NEW s \in Seq(Candidates), IsInjective(s), NEW k \in 1..(Len(s) + 1),
           NEW c \in Candidates, c \notin ToSet(s)
    PROVE  InsertAt(s, k, c) \in Seq(Candidates) /\ IsInjective(InsertAt(s, k, c))
<1> DEFINE head == SubSeq(s, 1, k - 1)
           tail == SubSeq(s, k, Len(s))
           t == InsertAt(s, k, c)
<1>1. Len(s) \in Nat /\ \A i \in 1..Len(s) : s[i] \in Candidates
  BY LenProperties
<1>2. /\ head \in Seq(Candidates) /\ Len(head) = k - 1
      /\ \A i \in 1..(k - 1) : head[i] = s[i]
  BY <1>1, SubSeqProperties
<1>3. /\ tail \in Seq(Candidates) /\ Len(tail) = Len(s) - k + 1
      /\ \A i \in 1..(Len(s) - k + 1) : tail[i] = s[k + i - 1]
  BY <1>1, SubSeqProperties
<1>4. /\ <<c>> \in Seq(Candidates) /\ Len(<<c>>) = 1 /\ <<c>>[1] = c
  OBVIOUS
<1> HIDE DEF head, tail
<1>5. /\ head \o <<c>> \in Seq(Candidates) /\ Len(head \o <<c>>) = k
      /\ \A i \in 1..k : (head \o <<c>>)[i] = IF i < k THEN s[i] ELSE c
  BY <1>1, <1>2, <1>4, ConcatProperties
<1>6. /\ t = (head \o <<c>>) \o tail
  BY DEF InsertAt, head, tail
<1>7. /\ t \in Seq(Candidates) /\ Len(t) = Len(s) + 1
      /\ \A i \in 1..(Len(s) + 1) :
             t[i] = IF i < k THEN s[i] ELSE IF i = k THEN c ELSE s[i - 1]
  <2> DEFINE front == head \o <<c>>
  <2>1. front \in Seq(Candidates) /\ tail \in Seq(Candidates)
    BY <1>3, <1>5
  <2>2. /\ front \o tail \in Seq(Candidates)
        /\ Len(front \o tail) = Len(front) + Len(tail)
        /\ \A i \in 1..Len(front) + Len(tail) : (front \o tail)[i] =
               IF i <= Len(front) THEN front[i] ELSE tail[i - Len(front)]
    BY <2>1, ConcatProperties
  <2>3. Len(front) = k /\ \A i \in 1..k : front[i] = IF i < k THEN s[i] ELSE c
    BY <1>5
  <2> HIDE DEF front
  <2>4. Len(front) + Len(tail) = Len(s) + 1
    BY <1>1, <1>3, <2>3
  <2>5. \A i \in (k + 1)..(Len(s) + 1) : tail[i - k] = s[i - 1]
    BY <1>1, <1>3
  <2>6. \A i \in 1..(Len(s) + 1) : (front \o tail)[i] =
            IF i < k THEN s[i] ELSE IF i = k THEN c ELSE s[i - 1]
    <3> SUFFICES ASSUME NEW i \in 1..(Len(s) + 1)
                 PROVE  (front \o tail)[i] =
                            IF i < k THEN s[i] ELSE IF i = k THEN c ELSE s[i - 1]
      OBVIOUS
    <3>1. (front \o tail)[i] = IF i <= k THEN front[i] ELSE tail[i - k]
      BY <2>2, <2>3, <2>4
    <3>2. CASE i <= k
      BY <1>1, <2>3, <3>1, <3>2
    <3>3. CASE i > k
      BY <1>1, <2>5, <3>1, <3>3
    <3>4. i <= k \/ i > k
      BY <1>1
    <3> QED
      BY <3>2, <3>3, <3>4
  <2> QED
    BY <1>6, <2>2, <2>4, <2>6 DEF front
<1>8. \A i \in 1..Len(s) : s[i] # c
  BY <1>1 DEF ToSet
<1>9. \A i, j \in 1..Len(s) : s[i] = s[j] => i = j
  BY <1>1 DEF IsInjective
<1> HIDE DEF t
<1>10. ASSUME NEW i \in 1..(Len(s) + 1), NEW j \in 1..(Len(s) + 1), t[i] = t[j]
       PROVE  i = j
  <2> DEFINE at(n) == IF n < k THEN n ELSE n - 1
  <2>1. \A n \in 1..(Len(s) + 1) : n # k => at(n) \in 1..Len(s) /\ t[n] = s[at(n)]
    BY <1>1, <1>7
  <2>2. t[k] = c
    BY <1>1, <1>7
  <2>3. i = k <=> j = k
    <3> HIDE DEF at
    <3> QED
      BY <1>8, <1>10, <2>1, <2>2
  <2>4. CASE i # k /\ j # k
    <3>1. at(i) = at(j)
      <4> HIDE DEF at
      <4> QED
        BY <1>9, <1>10, <2>1, <2>4
    <3> QED
      BY <1>1, <2>4, <3>1
  <2> QED
    BY <2>3, <2>4
<1> QED
  BY <1>7, <1>10 DEF IsInjective, t

\* A row is gone.
LEMMA RemovedView ==
    ASSUME NEW s \in Seq(Candidates), IsInjective(s), NEW k \in 1..Len(s)
    PROVE  RemoveAt(s, k) \in Seq(Candidates) /\ IsInjective(RemoveAt(s, k))
<1> DEFINE head == SubSeq(s, 1, k - 1)
           tail == SubSeq(s, k + 1, Len(s))
           t == RemoveAt(s, k)
<1>1. Len(s) \in Nat /\ \A i \in 1..Len(s) : s[i] \in Candidates
  BY LenProperties
<1>2. /\ head \in Seq(Candidates) /\ Len(head) = k - 1
      /\ \A i \in 1..(k - 1) : head[i] = s[i]
  BY <1>1, SubSeqProperties
<1>3. /\ tail \in Seq(Candidates) /\ Len(tail) = Len(s) - k
      /\ \A i \in 1..(Len(s) - k) : tail[i] = s[k + i]
  BY <1>1, SubSeqProperties
<1> HIDE DEF head, tail
<1>4. t = head \o tail
  BY DEF RemoveAt, head, tail
<1>5. /\ t \in Seq(Candidates) /\ Len(t) = Len(s) - 1
      /\ \A i \in 1..(Len(s) - 1) : t[i] = IF i < k THEN s[i] ELSE s[i + 1]
  <2>1. /\ head \o tail \in Seq(Candidates)
        /\ Len(head \o tail) = Len(head) + Len(tail)
        /\ \A i \in 1..Len(head) + Len(tail) : (head \o tail)[i] =
               IF i <= Len(head) THEN head[i] ELSE tail[i - Len(head)]
    BY <1>2, <1>3, ConcatProperties
  <2>2. Len(head) = k - 1 /\ Len(head) + Len(tail) = Len(s) - 1
    BY <1>1, <1>2, <1>3
  <2>3. \A i \in k..(Len(s) - 1) : tail[i - (k - 1)] = s[i + 1]
    BY <1>1, <1>3
  <2>4. \A i \in 1..(Len(s) - 1) :
            (head \o tail)[i] = IF i < k THEN s[i] ELSE s[i + 1]
    BY <1>1, <1>2, <2>1, <2>2, <2>3
  <2> QED
    BY <1>4, <2>1, <2>2, <2>4
<1>6. \A i, j \in 1..Len(s) : s[i] = s[j] => i = j
  BY <1>1 DEF IsInjective
<1> HIDE DEF t
<1>7. ASSUME NEW i \in 1..(Len(s) - 1), NEW j \in 1..(Len(s) - 1), t[i] = t[j]
      PROVE  i = j
  BY <1>1, <1>5, <1>6, <1>7
<1> QED
  BY <1>5, <1>7 DEF IsInjective, t

\* Two neighbours change places.
LEMMA SwappedView ==
    ASSUME NEW s \in Seq(Candidates), IsInjective(s), NEW k \in 1..Len(s), k < Len(s),
           NEW t, t = [s EXCEPT ![k] = s[k + 1], ![k + 1] = s[k]]
    PROVE  t \in Seq(Candidates) /\ IsInjective(t)
<1>1. /\ Len(s) \in Nat /\ \A i \in 1..Len(s) : s[i] \in Candidates
      /\ s \in [1..Len(s) -> Candidates]
  BY LenProperties
<1>2. k + 1 \in 1..Len(s) /\ k # k + 1
  BY <1>1
<1>3. /\ t \in [1..Len(s) -> Candidates]
      /\ \A i \in 1..Len(s) :
             t[i] = IF i = k THEN s[k + 1] ELSE IF i = k + 1 THEN s[k] ELSE s[i]
  BY <1>1, <1>2
<1>4. \A i, j \in 1..Len(s) : s[i] = s[j] => i = j
  BY <1>1 DEF IsInjective
<1>5. ASSUME NEW i \in 1..Len(s), NEW j \in 1..Len(s), t[i] = t[j]
      PROVE  i = j
  BY <1>1, <1>2, <1>3, <1>4, <1>5
<1> QED
  BY <1>1, <1>3, <1>5 DEF IsInjective
LoopVars == <<type, view, changes, pc, page, total, items, moved, hollow>>

LEMMA LoopInit == Init => LoopInv
<1> SUFFICES ASSUME Init PROVE LoopInv
  OBVIOUS
<1>1. PICK n \in 0..Cardinality(Candidates) : view \in [1..n -> Candidates] /\ IsInjective(view)
  BY DEF Init
<1>2. view \in Seq(Candidates)
  BY <1>1, CandidatesCounted
<1>3. 0 \in 0..Cardinality(Candidates) /\ 0 \in 0..MaxChanges
  BY CandidatesCounted, BoundsAssumption
<1>4. /\ items \subseteq [page : 1..page, row : Candidates] /\ IsFiniteSet(items)
      /\ moved \subseteq Candidates
  BY FS_EmptySet DEF Init
<1>5. ListedSoFar
  BY DEF Init, ListedSoFar
<1>6. hollow \in BOOLEAN
  BY DEF Init
<1> QED
  BY <1>1, <1>2, <1>3, <1>4, <1>5, <1>6 DEF Init, LoopInv

LEMMA StaysUsable == \A c : Stays(type, c, moved) <=> Usable(c) /\ c \notin moved
BY DEF Stays, Usable

\* Whoever leaves the view and the loop alone keeps the invariant.
LEMMA LoopKept ==
    ASSUME LoopInv, UNCHANGED LoopVars
    PROVE  LoopInv'
BY DEF LoopInv, ListedSoFar, LoopVars

\* A row that has not moved was there, at the same place.
LEMMA ViewBecomesKeeps ==
    ASSUME LoopInv, NEW s \in Seq(Candidates), IsInjective(s), ViewBecomes(s)
    PROVE  LoopInv'
<1>1. /\ view' = s /\ changes < MaxChanges /\ changes' = changes + 1
      /\ moved' = moved \cup {c \in Candidates : Places(s, c) # Places(view, c)}
      /\ UNCHANGED <<type, pc, page, total, items, hollow>>
  BY DEF ViewBecomes
<1>2. ASSUME NEW k \in 1..Len(s), Stays(type, s[k], moved')
      PROVE  k \in 1..Len(view) /\ Stays(type, view[k], moved) /\ s[k] = view[k]
  <2>1. s[k] \in Candidates /\ s[k] \notin moved'
    BY <1>2, LenProperties DEF Stays
  <2>2. Places(s, s[k]) = Places(view, s[k]) /\ s[k] \notin moved
    BY <1>1, <2>1
  <2>3. k \in Places(s, s[k])
    BY DEF Places
  <2>4. k \in 1..Len(view) /\ view[k] = s[k]
    BY <2>2, <2>3 DEF Places
  <2> QED
    BY <1>2, <2>2, <2>4 DEF Stays
<1>3. ListedSoFar'
  <2>1. ASSUME pc \in {"count", "page"}, NEW k \in 1..Len(s), Stays(type, s[k], moved')
        PROVE  IF k <= (page - 1) * PageSize THEN Cardinality(Listings(items, s[k])) = 1
               ELSE Listings(items, s[k]) = {}
    BY <1>2, <2>1 DEF LoopInv, ListedSoFar
  <2>2. ASSUME pc = "page", NEW k \in 1..Len(s), Stays(type, s[k], moved') PROVE k <= total
    BY <1>2, <2>2 DEF LoopInv, ListedSoFar
  <2>3. ASSUME pc = "listed", NEW k \in 1..Len(s), Stays(type, s[k], moved')
        PROVE  \/ Cardinality(Listings(items, s[k])) = 1
               \/ hollow /\ type = "missing" /\ Listings(items, s[k]) = {}
    BY <1>2, <2>3 DEF LoopInv, ListedSoFar
  <2> QED
    BY <1>1, <2>1, <2>2, <2>3 DEF ListedSoFar
<1>4. changes + 1 \in 0..MaxChanges /\ moved' \subseteq Candidates
  BY <1>1, BoundsAssumption DEF LoopInv
<1> QED
  BY <1>1, <1>3, <1>4 DEF LoopInv

\* SQL Server's steps.
LEMMA ViewKeeps ==
    ASSUME LoopInv,
           \/ \E c \in Candidates : Appear(c)
           \/ \E k \in 1..Len(view) : Vanish(k) \/ Overtake(k)
    PROVE  LoopInv'
<1>1. view \in Seq(Candidates) /\ IsInjective(view)
  BY DEF LoopInv
<1>2. ASSUME NEW c \in Candidates, Appear(c) PROVE LoopInv'
  <2>1. PICK k \in 1..(Len(view) + 1) : c \notin ToSet(view) /\ ViewBecomes(InsertAt(view, k, c))
    BY <1>2 DEF Appear
  <2> QED
    BY <1>1, <2>1, InsertedView, ViewBecomesKeeps
<1>3. ASSUME NEW k \in 1..Len(view), Vanish(k) PROVE LoopInv'
  BY <1>1, <1>3, RemovedView, ViewBecomesKeeps DEF Vanish
<1>4. ASSUME NEW k \in 1..Len(view), Overtake(k) PROVE LoopInv'
  <2> DEFINE t == [view EXCEPT ![k] = view[k + 1], ![k + 1] = view[k]]
  <2>1. k < Len(view) /\ ViewBecomes(t)
    BY <1>4 DEF Overtake
  <2>2. t \in Seq(Candidates) /\ IsInjective(t)
    BY <1>1, <2>1, SwappedView
  <2> QED
    BY <2>1, <2>2, ViewBecomesKeeps
<1> QED
  BY <1>2, <1>3, <1>4

\* The list begins and ends empty; a count tells how far the rows reach.
LEMMA BeginsKeeps ==
    ASSUME LoopInv, StartListing \/ CountRows \/ Persist \/ PersistFailure
    PROVE  LoopInv'
<1>1. CASE StartListing
  <2>1. /\ pc' = "count" /\ page' = 1 /\ total' = 0 /\ items' = {}
        /\ moved' = {} /\ hollow' = FALSE /\ UNCHANGED <<type, view, changes>>
    BY <1>1 DEF StartListing, server
  <2>2. PageSize \in Nat /\ (page' - 1) * PageSize = 0
    BY <2>1, SizesAssumption
  <2>3. \A c : Listings({}, c) = {}
    BY DEF Listings
  <2>4. \A k \in 1..Len(view) : ~(k <= 0)
    BY LenProperties DEF LoopInv
  <2>5. ListedSoFar'
    BY <2>1, <2>2, <2>3, <2>4 DEF ListedSoFar
  <2>6. 0 \in 0..Cardinality(Candidates)
    BY CandidatesCounted
  <2>7. /\ items' \subseteq [page : 1..page', row : Candidates] /\ IsFiniteSet(items')
        /\ moved' \subseteq Candidates
    BY <2>1, FS_EmptySet
  <2>8. hollow' \in BOOLEAN
    BY <2>1
  <2> QED
    BY <2>1, <2>5, <2>6, <2>7, <2>8 DEF LoopInv
<1>2. CASE CountRows
  <2>1. /\ pc = "count" /\ pc' = "page" /\ total' = Len(view)
        /\ UNCHANGED <<type, view, changes, page, items, moved, hollow>>
    BY <1>2 DEF CountRows, server
  <2>2. \A k \in 1..Len(view) : k <= Len(view)
    BY LenProperties DEF LoopInv
  <2>4. ListedSoFar'
    BY <2>1, <2>2 DEF LoopInv, ListedSoFar
  <2>5. total' \in 0..Cardinality(Candidates)
    BY <2>1, CandidatesCounted DEF LoopInv
  <2> QED
    BY <2>1, <2>4, <2>5 DEF LoopInv
<1>3. CASE Persist \/ PersistFailure
  <2>1. /\ pc' = "idle" /\ page' = 1 /\ total' = 0 /\ items' = {}
        /\ moved' = {} /\ hollow' = FALSE /\ UNCHANGED <<type, view, changes>>
    BY <1>3 DEF Persist, PersistFailure, EndListing, server
  <2>2. ListedSoFar'
    BY <2>1 DEF ListedSoFar
  <2>3. 0 \in 0..Cardinality(Candidates)
    BY CandidatesCounted
  <2>4. /\ items' \subseteq [page : 1..page', row : Candidates] /\ IsFiniteSet(items')
        /\ moved' \subseteq Candidates
    BY <2>1, FS_EmptySet
  <2>8. hollow' \in BOOLEAN
    BY <2>1
  <2> QED
    BY <2>1, <2>2, <2>3, <2>4, <2>8 DEF LoopInv
<1> QED
  BY <1>1, <1>2, <1>3

\* A page lists its rows, and only these.
LEMMA ReadPageKeeps ==
    ASSUME LoopInv, ReadPage
    PROVE  LoopInv'
<1> DEFINE seen == PageOf(view, page)
           kept == {c \in seen : Usable(c)}
           first == (page - 1) * PageSize
           last == page * PageSize
<1>1. /\ pc = "page"
      /\ items' = items \cup [page : {page}, row : kept]
      /\ pc' = IF Ends(kept) THEN "listed" ELSE "count"
      /\ page' = IF Ends(kept) THEN page ELSE page + 1
      /\ hollow' = (seen # {} /\ kept = {})
      /\ UNCHANGED <<type, view, changes, total, moved>>
  BY DEF ReadPage, server
<1>2. /\ first \in Nat /\ last \in Nat /\ first < last
      /\ (page + 1 - 1) * PageSize = last
  BY PageBounds DEF LoopInv
<1>3. /\ Len(view) \in Nat /\ \A k \in 1..Len(view) : view[k] \in Candidates
      /\ \A j, k \in 1..Len(view) : view[j] = view[k] => j = k
  BY LenProperties DEF LoopInv, IsInjective
<1>4. \A k \in 1..Len(view) : view[k] \in seen <=> first < k /\ k <= last
  <2>1. seen = {view[k] : k \in {k \in 1..Len(view) : first + 1 <= k /\ k <= last}}
    BY DEF PageOf, RowsBetween
  <2> HIDE DEF seen, first, last
  <2> QED
    BY <1>2, <1>3, <2>1
<1>5. seen \subseteq Candidates
  BY <1>3 DEF PageOf, RowsBetween
<1>7. Ends(kept) <=> last >= total \/ kept = {}
  BY DEF Ends
<1>8. total \in Nat /\ page \in Nat \ {0}
  BY CandidatesCounted DEF LoopInv
<1> HIDE DEF seen, first, last
<1>9. ASSUME NEW c PROVE Listings(items', c) = Listings(items, c) \cup
                             (IF c \in kept THEN {[page |-> page, row |-> c]} ELSE {})
  <2>1. \A i \in [page : {page}, row : kept] : i = [page |-> page, row |-> i.row] /\ i.row \in kept
    OBVIOUS
  <2>2. c \in kept => [page |-> page, row |-> c] \in [page : {page}, row : kept]
    OBVIOUS
  <2> HIDE DEF kept
  <2> QED
    BY <1>1, <2>1, <2>2 DEF Listings
<1>10. ASSUME NEW k \in 1..Len(view), Stays(type, view[k], moved)
       PROVE  /\ k <= last => Cardinality(Listings(items', view[k])) = 1
              /\ k > last => Listings(items', view[k]) = {}
              /\ k <= total
              /\ view[k] \in kept <=> first < k /\ k <= last
  <2>1. IF k <= first THEN Cardinality(Listings(items, view[k])) = 1 ELSE Listings(items, view[k]) = {}
    BY <1>1, <1>10 DEF LoopInv, ListedSoFar, first
  <2>2. k <= total
    BY <1>1, <1>10 DEF LoopInv, ListedSoFar
  <2>3. view[k] \in kept <=> first < k /\ k <= last
    BY <1>4, <1>10, StaysUsable
  <2>4. CASE k <= first
    <3>1. view[k] \notin kept /\ k <= last
      BY <1>2, <1>3, <2>3, <2>4
    <3>2. Listings(items', view[k]) = Listings(items, view[k])
      BY <1>9, <3>1
    <3> QED
      BY <1>2, <1>3, <2>1, <2>2, <2>3, <2>4, <3>1, <3>2
  <2>5. CASE first < k /\ k <= last
    <3>1. Listings(items', view[k]) = {[page |-> page, row |-> view[k]]}
      BY <1>2, <1>9, <2>1, <2>3, <2>5
    <3>2. Cardinality(Listings(items', view[k])) = 1
      BY <3>1, FS_Singleton
    <3> QED
      BY <1>2, <2>2, <2>3, <2>5, <3>2
  <2>6. CASE k > last
    <3>1. Listings(items', view[k]) = {}
      BY <1>2, <1>9, <2>1, <2>3, <2>6
    <3> QED
      BY <1>2, <2>2, <2>3, <2>6, <3>1
  <2> QED
    BY <1>2, <2>4, <2>5, <2>6
<1>11. ListedSoFar'
  <2>1. CASE Ends(kept)
    <3>1. pc' = "listed"
      BY <1>1, <2>1
    <3>2. ASSUME NEW k \in 1..Len(view), Stays(type, view[k], moved)
          PROVE  \/ Cardinality(Listings(items', view[k])) = 1
                 \/ hollow' /\ type' = "missing" /\ Listings(items', view[k]) = {}
      <4>1. CASE k <= last
        BY <1>10, <3>2, <4>1
      <4>2. CASE k > last
        <5>1. kept = {}
          BY <1>2, <1>7, <1>8, <1>10, <2>1, <3>2, <4>2
        <5>2. first + 1 \in 1..Len(view) /\ first < first + 1 /\ first + 1 <= last
          BY <1>2, <1>3, <4>2
        <5>3. view[first + 1] \in seen
          BY <1>4, <5>2
        <5>4. hollow' /\ ~Usable(view[first + 1])
          BY <1>1, <5>1, <5>3
        <5>5. type' = "missing"
          BY <1>1, <5>4 DEF Usable
        <5> QED
          BY <1>10, <3>2, <4>2, <5>4, <5>5
      <4> QED
        BY <1>2, <4>1, <4>2
    <3> QED
      BY <1>1, <3>1, <3>2 DEF ListedSoFar
  <2>2. CASE ~Ends(kept)
    <3>1. pc' = "count" /\ page' = page + 1
      BY <1>1, <2>2
    <3>2. (page' - 1) * PageSize = last
      <4>1. page' - 1 = page
        BY <1>8, <3>1
      <4> QED
        BY <4>1 DEF last
    <3>3. ASSUME NEW k \in 1..Len(view), Stays(type, view[k], moved)
          PROVE  IF k <= last THEN Cardinality(Listings(items', view[k])) = 1
                 ELSE Listings(items', view[k]) = {}
      BY <1>2, <1>3, <1>10, <3>3
    <3> QED
      BY <1>1, <3>1, <3>2, <3>3 DEF ListedSoFar
  <2> QED
    BY <2>1, <2>2
<1>12. page' \in Nat \ {0} /\ (page' = 1 \/ (page' - 1) * PageSize < Cardinality(Candidates))
  <2>1. CASE Ends(kept)
    BY <1>1, <2>1 DEF LoopInv
  <2>2. CASE ~Ends(kept)
    <3>1. last < total /\ page' = page + 1
      BY <1>1, <1>2, <1>7, <1>8, <2>2
    <3>2. (page' - 1) * PageSize < Cardinality(Candidates)
      BY <1>2, <3>1, CandidatesCounted DEF LoopInv
    <3> QED
      BY <1>8, <3>1, <3>2
  <2> QED
    BY <2>1, <2>2
<1>13. items' \subseteq [page : 1..page', row : Candidates]
  <2>1. page' \in Nat /\ page <= page'
    BY <1>1, <1>8
  <2>2. items \subseteq [page : 1..page', row : Candidates]
    BY <1>8, <2>1 DEF LoopInv
  <2>3. [page : {page}, row : kept] \subseteq [page : 1..page', row : Candidates]
    BY <1>5, <1>8, <2>1
  <2> QED
    BY <1>1, <2>2, <2>3
<1>14. hollow' \in BOOLEAN /\ pc' \in {"listed", "count"}
  BY <1>1
<1>15. IsFiniteSet(items')
  <2> DEFINE F == [c \in kept |-> [page |-> page, row |-> c]]
             new == [page : {page}, row : kept]
  <2>1. IsFiniteSet(kept)
    <3>1. kept \subseteq Candidates
      BY <1>5
    <3> QED
      BY <3>1, CandidatesAssumption, FS_Subset
  <2>2. F \in Surjection(kept, new)
    BY DEF Surjection
  <2>3. IsFiniteSet(new)
    BY <2>1, <2>2, FS_Surjection
  <2> HIDE DEF new
  <2>4. IsFiniteSet(items \cup new)
    BY <2>3, FS_Union DEF LoopInv
  <2> QED
    BY <1>1, <2>4 DEF new
<1> QED
  BY <1>1, <1>11, <1>12, <1>13, <1>14, <1>15 DEF LoopInv

LEMMA LoopStep == LoopInv /\ [Next]_vars => LoopInv'
<1> SUFFICES ASSUME LoopInv, [Next]_vars PROVE LoopInv'
  OBVIOUS
<1>1. CASE \/ Tick
           \/ \E n \in 1..MaxPage : Ask(n)
           \/ ReadTotal \/ ReadRows \/ ReadStatus \/ Answer \/ Forget
           \/ UNCHANGED vars
  <2>1. UNCHANGED LoopVars
    BY <1>1 DEF Tick, Ask, ReadTotal, ReadRows, ReadStatus, Answer, Forget, Executes,
                vars, server, loop, LoopVars
  <2> QED
    BY <2>1, LoopKept
<1> QED
  BY <1>1, ViewKeeps, BeginsKeeps, ReadPageKeeps DEF Next
-----------------------------------------------------------------------------
(* The stored rows.                                                        *)

LEMMA StoreInit == Init => StoreInv
<1> SUFFICES ASSUME Init PROVE StoreInv
  OBVIOUS
<1>1. /\ clock = 1 /\ collectedAt = 0 /\ rows = <<>> /\ status = NoStatus /\ pc = "idle"
  BY DEF Init
<1>2. 0 \in Time /\ 1 \in Time \ {0}
  BY TimesAssumption DEF Time
<1>3. rows \in Seq(StoredRow) /\ Len(rows) = 0
  BY <1>1
<1> QED
  BY <1>1, <1>2, <1>3 DEF StoreInv, NoStatus, StatusRow

\* The new rows are those of the list, with the time the collection began.
LEMMA PersistedRows ==
    ASSUME LoopInv, StoreInv, Persist
    PROVE  /\ rows' \in Seq(StoredRow)
           /\ \A k \in 1..Len(rows') : rows'[k].at = collectedAt
<1> DEFINE stored == {i \in items : Worthwhile(i.row)}
<1>1. PICK s \in SetToSeqs(stored) :
          rows' = [k \in DOMAIN s |-> [row |-> s[k].row, at |-> collectedAt]]
  BY DEF Persist
<1>2. Cardinality(stored) \in Nat /\ stored \subseteq items
  <2>1. stored \subseteq items
    OBVIOUS
  <2>2. IsFiniteSet(stored)
    BY <2>1, FS_Subset DEF LoopInv
  <2> QED
    BY <2>1, <2>2, FS_CardinalityType
<1> DEFINE n == Cardinality(stored)
<1>3. s \in [1..n -> stored]
  BY DEF SetToSeqs
<1>4. \A k \in 1..n : s[k].row \in Candidates
  BY <1>2, <1>3 DEF LoopInv
<1> HIDE DEF stored, n
<1>5. rows' = [k \in 1..n |-> [row |-> s[k].row, at |-> collectedAt]]
  BY <1>1, <1>3
<1>6. \A k \in 1..n : [row |-> s[k].row, at |-> collectedAt] \in StoredRow
  BY <1>4 DEF StoreInv, StoredRow
<1>7. rows' \in [1..n -> StoredRow] /\ n \in Nat
  BY <1>2, <1>5, <1>6 DEF n
<1>8. rows' \in Seq(StoredRow) /\ Len(rows') = n
  BY <1>7
<1> QED
  BY <1>5, <1>8

LEMMA StoreStep == LoopInv /\ StoreInv /\ [Next]_vars => StoreInv'
<1> SUFFICES ASSUME LoopInv, StoreInv, [Next]_vars PROVE StoreInv'
  OBVIOUS
<1>0. /\ clock \in Nat \ {0} /\ status.success \in Nat /\ collectedAt \in Nat
      /\ MaxClock \in Nat /\ Interval \in Nat \ {0}
  BY TimesAssumption DEF StoreInv, StatusRow, Time
<1>1. CASE Tick
  <2>1. /\ clock <= MaxClock /\ clock' = clock + 1
        /\ UNCHANGED <<pc, collectedAt, rows, status>>
    BY <1>1 DEF Tick, loop, tables
  <2>2. clock' \in Time \ {0} /\ clock <= clock'
    BY <1>0, <2>1 DEF Time
  <2>3. status.success <= clock' /\ (pc # "idle" => collectedAt <= clock')
    BY <1>0, <2>1 DEF StoreInv
  <2> QED
    BY <2>1, <2>2, <2>3 DEF StoreInv
<1>2. CASE StartListing
  <2>1. /\ pc' = "count" /\ collectedAt' = clock
        /\ status.success = 0 \/ clock - status.success >= Interval
        /\ UNCHANGED <<clock, rows, status>>
    BY <1>2 DEF StartListing, server, tables
  <2>2. status.success < clock
    BY <1>0, <2>1
  <2> QED
    BY <1>0, <2>1, <2>2 DEF StoreInv
<1>3. CASE CountRows \/ ReadPage
  <2>1. pc # "idle" /\ UNCHANGED <<clock, collectedAt, rows, status>>
    BY <1>3 DEF CountRows, ReadPage, server, tables
  <2> QED
    BY <2>1 DEF StoreInv
<1>4. CASE Persist
  <2>1. /\ pc = "listed" /\ pc' = "idle" /\ collectedAt' = 0 /\ clock' = clock
        /\ status' = [state |-> "success", success |-> collectedAt]
    BY <1>4 DEF Persist, EndListing, server
  <2>2. status.success < collectedAt /\ collectedAt <= clock
    BY <2>1 DEF StoreInv
  <2>3. collectedAt # 0 /\ 0 \in Time
    BY <1>0, <2>2 DEF Time
  <2>4. /\ rows' \in Seq(StoredRow)
        /\ \A k \in 1..Len(rows') : rows'[k].at = collectedAt
    BY <1>4, PersistedRows
  <2>5. status' \in StatusRow /\ status'.success = collectedAt /\ status'.state = "success"
    BY <2>1 DEF StoreInv, StatusRow
  <2> QED
    BY <2>1, <2>2, <2>3, <2>4, <2>5 DEF StoreInv
<1>5. CASE PersistFailure
  <2>1. /\ pc' = "idle" /\ collectedAt' = 0 /\ UNCHANGED <<clock, rows>>
        /\ status' = [status EXCEPT !.state = "failed"]
    BY <1>5 DEF PersistFailure, EndListing, server
  <2>2. status' \in StatusRow /\ status'.success = status.success /\ status'.state = "failed"
    BY <2>1 DEF StoreInv, StatusRow
  <2>3. 0 \in Time
    BY <1>0 DEF Time
  <2> QED
    BY <2>1, <2>2, <2>3 DEF StoreInv
<1>6. CASE \/ \E c \in Candidates : Appear(c)
           \/ \E k \in 1..Len(view) : Vanish(k) \/ Overtake(k)
           \/ \E n \in 1..MaxPage : Ask(n)
           \/ ReadTotal \/ ReadRows \/ ReadStatus \/ Answer \/ Forget
           \/ UNCHANGED vars
  <2>1. UNCHANGED <<clock, pc, collectedAt, rows, status>>
    BY <1>6 DEF Appear, Vanish, Overtake, ViewBecomes, Ask, ReadTotal, ReadRows, ReadStatus,
                Answer, Forget, Executes, vars, server, loop, tables
  <2> QED
    BY <2>1 DEF StoreInv
<1> QED
  BY <1>1, <1>2, <1>3, <1>4, <1>5, <1>6 DEF Next
-----------------------------------------------------------------------------
(* The pages of the API.                                                   *)

LEMMA Plans ==
    /\ ReadOrder = <<"total", "rows", "status">>
    /\ Head(ReadOrder) = "total" /\ Tail(ReadOrder) = AfterTotal
    /\ Head(AfterTotal) = "rows" /\ Tail(AfterTotal) = AfterRows
    /\ Head(AfterRows) = "status" /\ Tail(AfterRows) = <<>>
    /\ ReadOrder # <<>> /\ AfterTotal # <<>> /\ AfterRows # <<>>
    /\ ReadOrder # AfterTotal /\ AfterTotal # AfterRows /\ ReadOrder # AfterRows
BY DEF ReadOrder, AfterTotal, AfterRows

LEMMA Empties ==
    /\ 0 \in Time
    /\ NothingRead \in [total : Nat, rows : Seq(StoredRow), status : StatusRow]
    /\ NothingAsked \in [page : 0..MaxPage, success : Time]
    /\ NoAnswer \in [items : Seq(StoredRow), total : Nat, checked : Time,
                     stale : BOOLEAN, now : Time]
    /\ NothingAsked.page = 0
<1>1. 0 \in Time /\ 0 \in 0..MaxPage
  BY TimesAssumption, BoundsAssumption DEF Time
<1>2. <<>> \in Seq(StoredRow)
  OBVIOUS
<1>3. NoStatus \in StatusRow
  BY <1>1 DEF NoStatus, StatusRow
<1> QED
  BY <1>1, <1>2, <1>3 DEF NothingRead, NothingAsked, NoAnswer

LEMMA PageInit == Init => PageInv
<1> SUFFICES ASSUME Init PROVE PageInv
  OBVIOUS
<1>1. plan = <<>> /\ asked = NothingAsked /\ read = NothingRead /\ answer = NoAnswer
  BY DEF Init
<1>2. ReadSoFar /\ AnswerDated
  BY <1>1, Plans DEF ReadSoFar, AnswerDated
<1> QED
  BY <1>1, <1>2, Empties DEF PageInv

LEMMA DatedRows ==
    ASSUME NEW s, NEW low \in Nat, NEW high \in Nat, low <= high, Len(s) \in Nat,
           \A j \in 1..Len(s) : s[j].at = high,
           Len(s) # 0 => high # 0
    PROVE  DatedIn(s, low, high)
<1> SUFFICES ASSUME NEW j \in 1..Len(s)
             PROVE  /\ 0 < s[j].at /\ low <= s[j].at /\ s[j].at <= high
                    /\ \A k \in 1..Len(s) : s[k].at = s[j].at
  BY DEF DatedIn
<1>1. s[j].at = high /\ \A k \in 1..Len(s) : s[k].at = s[j].at
  OBVIOUS
<1>2. 0 < high
  OBVIOUS
<1> QED
  BY <1>1, <1>2

\* A page of stored rows is of one collection and has the length its total gives it.
LEMMA PageOfRows ==
    ASSUME StoreInv, NEW n \in Nat \ {0}, NEW low \in Nat, low <= status.success,
           NEW end, end = IF (n - 1) * ViewSize + ViewSize < Len(rows)
                          THEN (n - 1) * ViewSize + ViewSize ELSE Len(rows),
           NEW s, s = SubSeq(rows, (n - 1) * ViewSize + 1, end)
    PROVE  /\ s \in Seq(StoredRow)
           /\ DatedIn(s, low, status.success)
           /\ PageLength(n, Len(rows), Len(s))
<1>1. /\ Len(rows) \in Nat /\ \A k \in 1..Len(rows) : rows[k] \in StoredRow
      /\ ViewSize \in Nat \ {0} /\ status.success \in Nat
  BY LenProperties, SizesAssumption DEF StoreInv, StatusRow, Time
<1>2. PICK before \in Nat : before = (n - 1) * ViewSize
  BY <1>1
<1>3. /\ end = IF before + ViewSize < Len(rows) THEN before + ViewSize ELSE Len(rows)
      /\ s = SubSeq(rows, before + 1, end)
  BY <1>2
<1>4. end \in Nat /\ end <= Len(rows) /\ \A i \in (before + 1)..end : rows[i] \in StoredRow
  BY <1>1, <1>3
<1>5. /\ s \in Seq(StoredRow)
      /\ Len(s) = IF before + 1 <= end THEN end - (before + 1) + 1 ELSE 0
      /\ \A i \in 1..(end - (before + 1) + 1) : s[i] = rows[before + 1 + i - 1]
  BY <1>2, <1>3, <1>4, SubSeqProperties
<1>6. PageLength(n, Len(rows), Len(s))
  <2>1. \A t, b, v, e, l \in Nat :
            /\ e = IF b + v < t THEN b + v ELSE t
            /\ l = IF b + 1 <= e THEN e - (b + 1) + 1 ELSE 0
            => /\ t <= b => l = 0
               /\ t \in b..(b + v) => l = t - b
               /\ t > b + v => l = v
    OBVIOUS
  <2>2. Len(s) \in Nat
    BY <1>5, LenProperties
  <2>3. /\ Len(rows) <= before => Len(s) = 0
        /\ Len(rows) \in before..(before + ViewSize) => Len(s) = Len(rows) - before
        /\ Len(rows) > before + ViewSize => Len(s) = ViewSize
    BY <1>1, <1>3, <1>4, <1>5, <2>1, <2>2
  <2> QED
    BY <1>2, <2>3 DEF PageLength
<1>7. \A i \in 1..Len(s) : s[i].at = status.success
  <2> SUFFICES ASSUME NEW i \in 1..Len(s) PROVE s[i].at = status.success
    OBVIOUS
  <2>0. PICK l \in Nat : l = Len(s)
    BY <1>5, LenProperties
  <2>1. /\ i \in 1..(end - (before + 1) + 1) /\ before + 1 + i - 1 = before + i
        /\ before + i \in 1..Len(rows)
    <3>1. i \in 1..l /\ l = IF before + 1 <= end THEN end - (before + 1) + 1 ELSE 0
      BY <1>5, <2>0
    <3>2. \A b, e, m, x, r \in Nat :
              /\ x \in 1..m /\ m = IF b + 1 <= e THEN e - (b + 1) + 1 ELSE 0
              /\ e <= r
              => x \in 1..(e - (b + 1) + 1) /\ b + 1 + x - 1 = b + x /\ b + x \in 1..r
      OBVIOUS
    <3> QED
      BY <1>1, <1>4, <2>0, <3>1, <3>2
  <2>2. before + i \in 1..Len(rows)
    BY <2>1
  <2>3. s[i] = rows[before + i]
    BY <1>5, <2>1
  <2> QED
    BY <2>2, <2>3 DEF StoreInv
<1>8. Len(s) # 0 => status.success # 0
  <2>1. Len(rows) = 0 => Len(s) = 0
    BY <1>3, <1>4, <1>5
  <2>2. rows = <<>> => Len(rows) = 0
    OBVIOUS
  <2> QED
    BY <2>1, <2>2 DEF StoreInv
<1>9. DatedIn(s, low, status.success)
  BY <1>1, <1>5, <1>7, <1>8, LenProperties, DatedRows
<1> QED
  BY <1>5, <1>6, <1>9

LEMMA DatedLater ==
    ASSUME NEW s \in Seq(StoredRow), NEW low, NEW high \in Nat, NEW later \in Nat,
           high <= later, DatedIn(s, low, high)
    PROVE  DatedIn(s, low, later)
<1> SUFFICES ASSUME NEW j \in 1..Len(s) PROVE s[j].at <= later
  BY DEF DatedIn
<1>1. s[j] \in StoredRow
  BY LenProperties
<1>2. s[j].at \in Nat
  BY <1>1, TimesAssumption DEF StoredRow, Time
<1>3. s[j].at <= high
  BY DEF DatedIn
<1> QED
  BY <1>2, <1>3

\* What the collector and the clock do keeps what the pages say true.
LEMMA PagesStand ==
    ASSUME StoreInv, StoreInv', PageInv, UNCHANGED handler, clock <= clock',
           \/ status'.success = status.success /\ UNCHANGED rows
           \/ status.success < status'.success
    PROVE  PageInv'
<1>1. UNCHANGED plan /\ UNCHANGED asked /\ UNCHANGED read /\ UNCHANGED answer
  BY DEF handler
<1>2. /\ status.success \in Nat /\ status'.success \in Nat /\ clock \in Nat /\ clock' \in Nat
      /\ asked.success \in Nat /\ read.status.success \in Nat
  BY TimesAssumption DEF StoreInv, PageInv, StatusRow, Time
<1>3. status.success <= status'.success
  BY <1>2
<1>4. asked # NothingAsked /\ status'.success = asked.success
      => status'.success = status.success /\ UNCHANGED rows
  <2>1. asked # NothingAsked => asked.success <= status.success
    BY DEF PageInv, ReadSoFar
  <2>2. \A a, x, y \in Nat : a <= x /\ y = a => ~(x < y)
    OBVIOUS
  <2> QED
    BY <1>2, <2>1, <2>2
<1>5. ReadSoFar'
  <2>1. /\ plan' \in {<<>>, AfterRows, AfterTotal, ReadOrder}
        /\ answer' # NoAnswer => plan' = <<>> /\ read' = NothingRead
        /\ asked' = NothingAsked => plan' = <<>> /\ read' = NothingRead /\ answer' = NoAnswer
    BY <1>1 DEF PageInv, ReadSoFar
  <2>2. asked' # NothingAsked => asked'.page # 0 /\ asked'.success <= status'.success
    <3>1. asked # NothingAsked => asked.page # 0 /\ asked.success <= status.success
      BY DEF PageInv, ReadSoFar
    <3> QED
      BY <1>1, <1>2, <1>3, <3>1
  <2>3. ASSUME plan' = AfterTotal, status'.success = asked'.success
        PROVE  read'.total = Len(rows')
    <3>1. asked # NothingAsked /\ plan = AfterTotal
      BY <1>1, <2>1, <2>3, Plans
    <3> QED
      BY <1>1, <1>4, <2>3, <3>1 DEF PageInv, ReadSoFar
  <2>4. ASSUME plan' = AfterRows
        PROVE  /\ DatedIn(read'.rows, asked'.success, status'.success)
               /\ status'.success = asked'.success =>
                      PageLength(asked'.page, read'.total, Len(read'.rows))
    <3>1. asked # NothingAsked /\ plan = AfterRows
      BY <1>1, <2>1, <2>4, Plans
    <3>2. /\ DatedIn(read.rows, asked.success, status.success)
          /\ status.success = asked.success =>
                 PageLength(asked.page, read.total, Len(read.rows))
      BY <3>1 DEF PageInv, ReadSoFar
    <3>3. read.rows \in Seq(StoredRow)
      BY DEF PageInv
    <3>4. DatedIn(read.rows, asked.success, status'.success)
      BY <1>2, <1>3, <3>2, <3>3, DatedLater
    <3> QED
      BY <1>1, <1>4, <3>1, <3>2, <3>4
  <2>5. ASSUME plan' = <<>>, asked' # NothingAsked, answer' = NoAnswer
        PROVE  /\ asked'.success <= read'.status.success /\ read'.status.success <= clock'
               /\ read'.status.state = "unknown" => read'.status.success = 0
               /\ DatedIn(read'.rows, asked'.success, read'.status.success)
               /\ read'.status.success = asked'.success =>
                      PageLength(asked'.page, read'.total, Len(read'.rows))
    <3>1. /\ asked.success <= read.status.success /\ read.status.success <= clock
          /\ read.status.state = "unknown" => read.status.success = 0
          /\ DatedIn(read.rows, asked.success, read.status.success)
          /\ read.status.success = asked.success =>
                 PageLength(asked.page, read.total, Len(read.rows))
      BY <1>1, <2>5 DEF PageInv, ReadSoFar
    <3>2. read.status.success <= clock'
      BY <1>2, <3>1
    <3> QED
      BY <1>1, <3>1, <3>2
  <2> QED
    BY <2>1, <2>2, <2>3, <2>4, <2>5 DEF ReadSoFar
<1>6. AnswerDated'
  BY <1>1 DEF PageInv, AnswerDated
<1> QED
  BY <1>1, <1>5, <1>6 DEF PageInv

LEMMA AskKeeps ==
    ASSUME StoreInv, PageInv, NEW n \in 1..MaxPage, Ask(n)
    PROVE  PageInv'
<1>1. /\ asked = NothingAsked /\ asked' = [page |-> n, success |-> status.success]
      /\ plan' = ReadOrder /\ read' = read /\ answer' = answer /\ status' = status
  BY DEF Ask, tables
<1>2. read = NothingRead /\ answer = NoAnswer
  BY <1>1 DEF PageInv, ReadSoFar
<1>3. n \in 0..MaxPage /\ n # 0 /\ status.success \in Time /\ status.success <= status.success
  BY BoundsAssumption, TimesAssumption DEF StoreInv, StatusRow, Time
<1>4. asked' \in [page : 0..MaxPage, success : Time] /\ asked'.page # 0
      /\ asked'.success <= status'.success /\ asked' # NothingAsked
  BY <1>1, <1>3, Empties
<1>5. ReadSoFar'
  BY <1>1, <1>2, <1>4, Plans DEF ReadSoFar
<1>6. AnswerDated'
  BY <1>1, <1>2 DEF AnswerDated
<1> QED
  BY <1>1, <1>4, <1>5, <1>6 DEF PageInv

LEMMA ReadTotalKeeps ==
    ASSUME StoreInv, PageInv, ReadTotal
    PROVE  PageInv'
<1>1. /\ plan # <<>> /\ Head(plan) = "total" /\ plan' = Tail(plan)
      /\ asked' = asked /\ answer' = answer /\ rows' = rows /\ status' = status
      /\ read' = [read EXCEPT !.total = Len(rows)]
  BY DEF ReadTotal, Executes, tables
<1>2. plan = ReadOrder /\ plan' = AfterTotal
  BY <1>1, Plans DEF PageInv, ReadSoFar
<1>3. asked # NothingAsked /\ answer = NoAnswer
  BY <1>2, Plans DEF PageInv, ReadSoFar
<1>4. Len(rows) \in Nat
  BY LenProperties DEF StoreInv
<1>5. /\ read' \in [total : Nat, rows : Seq(StoredRow), status : StatusRow]
      /\ read'.total = Len(rows)
  BY <1>1, <1>4 DEF PageInv
<1>6. ReadSoFar'
  BY <1>1, <1>2, <1>3, <1>5, Plans DEF PageInv, ReadSoFar
<1>7. AnswerDated'
  BY <1>1, <1>3 DEF AnswerDated
<1> QED
  BY <1>1, <1>5, <1>6, <1>7 DEF PageInv

LEMMA ReadRowsKeeps ==
    ASSUME StoreInv, PageInv, ReadRows
    PROVE  PageInv'
<1> DEFINE offset == (asked.page - 1) * ViewSize
           end == IF offset + ViewSize < Len(rows) THEN offset + ViewSize ELSE Len(rows)
           shown == SubSeq(rows, offset + 1, end)
<1>1. /\ plan # <<>> /\ Head(plan) = "rows" /\ plan' = Tail(plan)
      /\ asked' = asked /\ answer' = answer /\ rows' = rows /\ status' = status
      /\ read' = [read EXCEPT !.rows = shown]
  BY DEF ReadRows, Executes, tables
<1>2. plan = AfterTotal /\ plan' = AfterRows
  BY <1>1, Plans DEF PageInv, ReadSoFar
<1>3. asked # NothingAsked /\ answer = NoAnswer
  BY <1>2, Plans DEF PageInv, ReadSoFar
<1>4. asked.page \in Nat \ {0} /\ asked.success \in Nat /\ asked.success <= status.success
  BY <1>3, BoundsAssumption, TimesAssumption DEF PageInv, ReadSoFar, Time
<1>5. /\ shown \in Seq(StoredRow)
      /\ DatedIn(shown, asked.success, status.success)
      /\ PageLength(asked.page, Len(rows), Len(shown))
  BY <1>4, PageOfRows
<1> HIDE DEF shown
<1>6. /\ read' \in [total : Nat, rows : Seq(StoredRow), status : StatusRow]
      /\ read'.rows = shown /\ read'.total = read.total
  BY <1>1, <1>5 DEF PageInv
<1>7. status.success = asked.success => read.total = Len(rows)
  BY <1>2 DEF PageInv, ReadSoFar
<1>8. ReadSoFar'
  <2>1. /\ DatedIn(read'.rows, asked'.success, status'.success)
        /\ status'.success = asked'.success =>
               PageLength(asked'.page, read'.total, Len(read'.rows))
    BY <1>1, <1>5, <1>6, <1>7
  <2> QED
    BY <1>1, <1>2, <1>3, <1>4, <2>1, Plans DEF ReadSoFar
<1>9. AnswerDated'
  BY <1>1, <1>3 DEF AnswerDated
<1> QED
  BY <1>1, <1>6, <1>8, <1>9 DEF PageInv

LEMMA ReadStatusKeeps ==
    ASSUME StoreInv, PageInv, ReadStatus
    PROVE  PageInv'
<1>1. /\ plan # <<>> /\ Head(plan) = "status" /\ plan' = Tail(plan)
      /\ asked' = asked /\ answer' = answer /\ rows' = rows /\ status' = status
      /\ clock' = clock
      /\ read' = [read EXCEPT !.status = status]
  BY DEF ReadStatus, Executes, tables, server
<1>2. plan = AfterRows /\ plan' = <<>>
  BY <1>1, Plans DEF PageInv, ReadSoFar
<1>3. asked # NothingAsked /\ answer = NoAnswer
  BY <1>2, Plans DEF PageInv, ReadSoFar
<1>4. /\ read' \in [total : Nat, rows : Seq(StoredRow), status : StatusRow]
      /\ read'.status = status /\ read'.rows = read.rows /\ read'.total = read.total
  BY <1>1 DEF PageInv, StoreInv
<1>5. ReadSoFar'
  <2>1. asked.page # 0 /\ asked.success <= status.success
    BY <1>3 DEF PageInv, ReadSoFar
  <2>2. status.success <= clock /\ (status.state = "unknown" => status.success = 0)
    BY DEF StoreInv
  <2>3. /\ DatedIn(read.rows, asked.success, status.success)
        /\ status.success = asked.success =>
               PageLength(asked.page, read.total, Len(read.rows))
    BY <1>2 DEF PageInv, ReadSoFar
  <2>4. /\ asked'.success <= read'.status.success /\ read'.status.success <= clock'
        /\ read'.status.state = "unknown" => read'.status.success = 0
        /\ DatedIn(read'.rows, asked'.success, read'.status.success)
        /\ read'.status.success = asked'.success =>
               PageLength(asked'.page, read'.total, Len(read'.rows))
    BY <1>1, <1>4, <2>1, <2>2, <2>3
  <2> QED
    BY <1>1, <1>2, <1>3, <2>1, <2>4, Plans DEF ReadSoFar
<1>6. AnswerDated'
  BY <1>1, <1>3 DEF AnswerDated
<1> QED
  BY <1>1, <1>4, <1>5, <1>6 DEF PageInv

LEMMA ForgetKeeps ==
    ASSUME PageInv, Forget
    PROVE  PageInv'
<1>1. /\ answer # NoAnswer /\ asked' = NothingAsked /\ answer' = NoAnswer
      /\ plan' = plan /\ read' = read
  BY DEF Forget
<1>2. plan = <<>> /\ read = NothingRead
  BY <1>1 DEF PageInv, ReadSoFar
<1>3. ReadSoFar' /\ AnswerDated'
  BY <1>1, <1>2, Plans DEF ReadSoFar, AnswerDated
<1> QED
  BY <1>1, <1>2, <1>3, Empties DEF PageInv

\* Without a status row there are no rows: the time of the status is the time shown.
LEMMA StatusDates ==
    ASSUME PageInv, plan = <<>>, asked # NothingAsked, answer = NoAnswer
    PROVE  CheckedAt = read.status.success
<1>1. CASE read.status.state # "unknown"
  BY <1>1 DEF CheckedAt
<1>2. CASE read.status.state = "unknown"
  <2>1. read.status.success = 0 /\ DatedIn(read.rows, asked.success, 0)
    BY <1>2 DEF PageInv, ReadSoFar
  <2>2. read.rows \in Seq(StoredRow) /\ Len(read.rows) \in Nat
    BY LenProperties DEF PageInv
  <2>3. Len(read.rows) = 0
    <3> SUFFICES ASSUME Len(read.rows) # 0 PROVE FALSE
      OBVIOUS
    <3>1. 1 \in 1..Len(read.rows)
      BY <2>2
    <3>2. read.rows[1] \in StoredRow
      BY <2>2, <3>1, LenProperties
    <3>3. read.rows[1].at \in Nat
      BY <3>2, TimesAssumption DEF StoredRow, Time
    <3>4. 0 < read.rows[1].at /\ read.rows[1].at <= 0
      BY <2>1, <3>1 DEF DatedIn
    <3> QED
      BY <3>3, <3>4
  <2>4. read.rows = <<>>
    BY <2>2, <2>3
  <2> QED
    BY <1>2, <2>1, <2>4 DEF CheckedAt
<1> QED
  BY <1>1, <1>2

\* A row of the collection the status dates, in a page that is not stale.
LEMMA FreshRow ==
    \A at, checked, now, interval \in Nat :
        checked <= at /\ at <= checked /\ ~(now - checked > interval) => at + interval >= now
OBVIOUS

LEMMA AnswerKeeps ==
    ASSUME StoreInv, PageInv, Answer
    PROVE  PageInv'
<1>1. /\ asked # NothingAsked /\ plan = <<>> /\ answer = NoAnswer
      /\ answer' = [items |-> read.rows, total |-> read.total, checked |-> CheckedAt,
                    stale |-> Stale, now |-> clock]
      /\ read' = NothingRead /\ plan' = plan /\ asked' = asked
      /\ status' = status /\ clock' = clock
  BY DEF Answer, tables, server
<1>2. CheckedAt = read.status.success
  BY <1>1, StatusDates
<1>3. /\ read.rows \in Seq(StoredRow) /\ read.total \in Nat /\ read.status.success \in Time
      /\ clock \in Time \ {0}
  BY DEF PageInv, StoreInv, StatusRow
<1>4. Stale \in BOOLEAN
  BY DEF Stale
<1> DEFINE late == Stale
<1>5. /\ answer'.items = read.rows /\ answer'.total = read.total
      /\ answer'.checked = read.status.success /\ answer'.stale = late /\ answer'.now = clock
      /\ answer' \in [items : Seq(StoredRow), total : Nat, checked : Time,
                      stale : BOOLEAN, now : Time]
  BY <1>1, <1>2, <1>3, <1>4
<1>6. answer' # NoAnswer
  BY <1>3, <1>5 DEF NoAnswer
<1>7. ReadSoFar'
  <2>1. asked.page # 0 /\ asked.success <= status.success
    BY <1>1 DEF PageInv, ReadSoFar
  <2> QED
    BY <1>1, <1>6, <2>1, Plans DEF ReadSoFar
<1>8. /\ DatedIn(read.rows, asked.success, read.status.success)
      /\ read.status.success = asked.success =>
             PageLength(asked.page, read.total, Len(read.rows))
  BY <1>1 DEF PageInv, ReadSoFar
<1>9. ASSUME read.status.success = asked.success, ~Stale, NEW j \in 1..Len(read.rows)
      PROVE  read.rows[j].at + Interval >= clock
  <2>1. read.rows[j] \in StoredRow
    BY <1>3, LenProperties
  <2>2. read.rows[j].at \in Nat /\ read.status.success \in Nat /\ clock \in Nat
        /\ Interval \in Nat
    BY <1>3, <2>1, TimesAssumption DEF StoredRow, Time
  <2>3. asked.success <= read.rows[j].at /\ read.rows[j].at <= read.status.success
    BY <1>8 DEF DatedIn
  <2>4. ~(clock - read.status.success > Interval)
    BY <1>2, <1>9 DEF Stale
  <2> QED
    BY <1>9, <2>2, <2>3, <2>4, FreshRow
<1>10. AnswerDated'
  <2>1. ASSUME answer'.checked = asked'.success, ~answer'.stale
        PROVE  \A j \in 1..Len(answer'.items) : answer'.items[j].at + Interval >= answer'.now
    BY <1>1, <1>5, <1>9, <2>1
  <2>2. DatedIn(answer'.items, asked'.success, answer'.checked)
    BY <1>1, <1>5, <1>8
  <2>3. answer'.checked = asked'.success =>
            PageLength(asked'.page, answer'.total, Len(answer'.items))
    BY <1>1, <1>5, <1>8
  <2> QED
    BY <2>1, <2>2, <2>3 DEF AnswerDated
<1>11. read' \in [total : Nat, rows : Seq(StoredRow), status : StatusRow]
  BY <1>1, Empties
<1>12. asked' \in [page : 0..MaxPage, success : Time]
  BY <1>1 DEF PageInv
<1> QED
  BY <1>5, <1>7, <1>10, <1>11, <1>12 DEF PageInv

LEMMA PageStep == LoopInv /\ StoreInv /\ PageInv /\ [Next]_vars => PageInv'
<1> SUFFICES ASSUME LoopInv, StoreInv, PageInv, [Next]_vars PROVE PageInv'
  OBVIOUS
<1>0. StoreInv' /\ clock \in Nat
  BY StoreStep, TimesAssumption DEF StoreInv, Time
<1>1. CASE \/ Tick \/ StartListing \/ CountRows \/ ReadPage
           \/ \E c \in Candidates : Appear(c)
           \/ \E k \in 1..Len(view) : Vanish(k) \/ Overtake(k)
           \/ UNCHANGED vars
  <2>1. UNCHANGED handler /\ UNCHANGED tables /\ (clock' = clock \/ clock' = clock + 1)
    BY <1>1 DEF Tick, StartListing, CountRows, ReadPage, Appear, Vanish, Overtake, ViewBecomes,
                vars, server
  <2>2. UNCHANGED rows /\ status' = status /\ clock <= clock'
    BY <1>0, <2>1 DEF tables
  <2> QED
    BY <1>0, <2>1, <2>2, PagesStand
<1>2. CASE Persist
  <2>1. /\ UNCHANGED handler /\ clock' = clock /\ pc = "listed"
        /\ status'.success = collectedAt
    BY <1>2 DEF Persist, server
  <2>2. status.success < status'.success
    BY <2>1 DEF StoreInv
  <2>3. clock <= clock'
    BY <1>0, <2>1
  <2> QED
    BY <1>0, <2>1, <2>2, <2>3, PagesStand
<1>3. CASE PersistFailure
  <2>1. /\ UNCHANGED handler /\ clock' = clock /\ UNCHANGED rows
        /\ status'.success = status.success
    BY <1>3 DEF PersistFailure, server, StoreInv, StatusRow
  <2>2. clock <= clock'
    BY <1>0, <2>1
  <2> QED
    BY <1>0, <2>1, <2>2, PagesStand
<1> QED
  BY <1>1, <1>2, <1>3, AskKeeps, ReadTotalKeeps, ReadRowsKeeps, ReadStatusKeeps, AnswerKeeps,
     ForgetKeeps DEF Next
-----------------------------------------------------------------------------
(* The theorems.                                                           *)

LEMMA Elements ==
    ASSUME NEW S, NEW s \in Seq(S)
    PROVE  ToSet(s) \subseteq S /\ ToSet(s) = {s[j] : j \in 1..Len(s)}
BY LenProperties DEF ToSet

LEMMA InvTypes == ListsInv => TypeOK
<1> SUFFICES ASSUME ListsInv PROVE TypeOK
  OBVIOUS
<1>1. ToSet(view) \subseteq Candidates
  BY Elements DEF ListsInv, LoopInv
<1>2. \A r \in ToSet(rows) : r.row \in Candidates /\ r.at \in Time
  <2>1. ToSet(rows) \subseteq StoredRow
    BY Elements DEF ListsInv, StoreInv
  <2> QED
    BY <2>1 DEF StoredRow
<1>3. ToSet(plan) \subseteq Statements
  <2>1. ReadOrder \in Seq(Statements) /\ AfterTotal \in Seq(Statements)
    BY DEF ReadOrder, AfterTotal, Statements
  <2>2. AfterRows \in Seq(Statements) /\ <<>> \in Seq(Statements)
    BY DEF AfterRows, Statements
  <2>3. plan \in Seq(Statements)
    BY <2>1, <2>2 DEF ListsInv, PageInv, ReadSoFar
  <2> QED
    BY <2>3, Elements
<1>4. /\ ToSet(read.rows) \subseteq [row : Candidates, at : Time]
      /\ ToSet(answer.items) \subseteq [row : Candidates, at : Time]
  <2>1. read.rows \in Seq(StoredRow) /\ answer.items \in Seq(StoredRow)
    BY DEF ListsInv, PageInv
  <2> QED
    BY <2>1, Elements DEF StoredRow
<1>5. status.state \in {"unknown", "success", "failed"} /\ status.success \in Time
  BY DEF ListsInv, StoreInv, StatusRow
<1> QED
  BY <1>1, <1>2, <1>3, <1>4, <1>5 DEF ListsInv, LoopInv, StoreInv, TypeOK

LEMMA InvListedOnce == ListsInv => ListedOnce
<1> SUFFICES ASSUME ListsInv, pc = "listed", NEW k \in 1..Len(view),
                    Usable(view[k]), view[k] \notin moved
             PROVE  \/ Cardinality({i \in items : i.row = view[k]}) = 1
                    \/ /\ hollow /\ type = "missing"
                       /\ {i \in items : i.row = view[k]} = {}
  BY DEF ListedOnce
<1>1. Stays(type, view[k], moved)
  BY StaysUsable
<1> QED
  BY <1>1 DEF ListsInv, LoopInv, ListedSoFar, Listings

LEMMA InvPageDated == ListsInv => PageDated
<1> SUFFICES ASSUME ListsInv, answer # NoAnswer PROVE PageDated
  BY DEF PageDated
<1>1. ToSet(answer.items) = {answer.items[j] : j \in 1..Len(answer.items)}
      /\ Len(answer.items) \in Nat /\ answer.items \in Seq(StoredRow)
  BY Elements, LenProperties DEF ListsInv, PageInv
<1>2. /\ DatedIn(answer.items, asked.success, answer.checked)
      /\ answer.checked = asked.success =>
             /\ PageLength(asked.page, answer.total, Len(answer.items))
             /\ ~answer.stale =>
                    \A j \in 1..Len(answer.items) : answer.items[j].at + Interval >= answer.now
  BY DEF ListsInv, PageInv, AnswerDated
<1>3. ASSUME NEW r \in ToSet(answer.items)
      PROVE  /\ asked.success <= r.at /\ r.at <= answer.checked
             /\ \A s \in ToSet(answer.items) : s.at = r.at
  BY <1>1, <1>2 DEF DatedIn
<1>4. ASSUME answer.checked = asked.success, ~answer.stale, NEW r \in ToSet(answer.items)
      PROVE  r.at + Interval >= answer.now
  BY <1>1, <1>2, <1>4
<1>5. answer.checked = asked.success =>
          LET before == (asked.page - 1) * ViewSize
          IN  /\ answer.total <= before => answer.items = <<>>
              /\ answer.total \in before..(before + ViewSize)
                 => Len(answer.items) = answer.total - before
              /\ answer.total > before + ViewSize => Len(answer.items) = ViewSize
  <2> DEFINE before == (asked.page - 1) * ViewSize
  <2>1. Len(answer.items) = 0 => answer.items = <<>>
    BY <1>1
  <2>2. answer.checked = asked.success =>
            /\ answer.total <= before => Len(answer.items) = 0
            /\ answer.total \in before..(before + ViewSize)
               => Len(answer.items) = answer.total - before
            /\ answer.total > before + ViewSize => Len(answer.items) = ViewSize
    BY <1>2 DEF PageLength
  <2> HIDE DEF before
  <2>3. answer.checked = asked.success =>
            /\ answer.total <= before => answer.items = <<>>
            /\ answer.total \in before..(before + ViewSize)
               => Len(answer.items) = answer.total - before
            /\ answer.total > before + ViewSize => Len(answer.items) = ViewSize
    BY <2>1, <2>2
  <2> QED
    BY <2>3 DEF before
<1> QED
  BY <1>3, <1>4, <1>5 DEF PageDated

\* The listings follow the places of the view's rows, the stored rows are those of the
\* last success and what a handler has read belongs together unless a collection was
\* committed meanwhile: the inductive invariant.
THEOREM ListsInvariant == Spec => []ListsInv
<1>1. Init => ListsInv
  BY LoopInit, StoreInit, PageInit DEF ListsInv
<1>2. ListsInv /\ [Next]_vars => ListsInv'
  BY LoopStep, StoreStep, PageStep DEF ListsInv
<1> QED
  BY <1>1, <1>2, PTL DEF Spec

\* Every variable keeps its type; the loop asks for no page that begins after the last
\* candidate, however the view grows and shrinks between its statements.
THEOREM TypeCorrect == Spec => []TypeOK
BY ListsInvariant, InvTypes, PTL

\* However SQL Server changes its view between the statements of
\* list_missing_indexes and list_index_fragmentation, a usable row that keeps its
\* row_number is listed exactly once, unless a page of unusable missing indexes ended
\* the loop before it.
THEOREM StayersListedOnce == Spec => []ListedOnce
BY ListsInvariant, InvListedOnce, PTL

\* A page of get_missing_indexes or get_index_fragmentation mixes no two collections
\* and is not newer than its checked_at nor older than its request; without a commit in
\* between it has the rows its total promises, and is not shown as fresh too late.
THEOREM PagesDatedRightly == Spec => []PageDated
BY ListsInvariant, InvPageDated, PTL
================================================================================

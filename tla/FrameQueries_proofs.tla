------------------------- MODULE FrameQueries_proofs -------------------------
(***************************************************************************)
(* FrameQueries implements FrameReads: for any sessions, frames and replay   *)
(* window, what a handler gathers in several statements is the answer of one *)
(* moment.  The pages of one frame tell the same story.  The resource trends,*)
(* read by time and not by frame, leave no frame of their window out.        *)
(***************************************************************************)
EXTENDS FrameQueries, FunctionTheorems, FiniteSetTheorems, SequenceTheorems,
        WellFoundedInduction, TLAPS

-----------------------------------------------------------------------------
(* What the pages show of one frame without parallel requests.              *)

\* A one-to-one image of a finite set has its size.
LEMMA SameSize ==
    ASSUME NEW X, IsFiniteSet(X), NEW F, F \in [X -> {F[x] : x \in X}],
           \A x, y \in X : F[x] = F[y] => x = y
    PROVE  /\ IsFiniteSet({F[x] : x \in X})
           /\ Cardinality({F[x] : x \in X}) = Cardinality(X)
<1> DEFINE Y == {F[x] : x \in X}
<1>1. F \in Bijection(X, Y)
  BY DEF Bijection, Injection, Surjection, IsInjective
<1>2. ExistsBijection(X, Y)
  BY <1>1 DEF ExistsBijection
<1> QED
  BY <1>2, FS_Bijection

\* What is known of a frame's rows where no session has parallel requests.
Plain(rows) == /\ rows \subseteq ResultRow /\ IsFiniteSet(rows)
               /\ IsResult(rows) /\ Single(rows)

LEMMA RowTyped ==
    ASSUME NEW r \in ResultRow
    PROVE  /\ r.request \in Requests \cup {None}
           /\ r.blocker \in Sessions \cup Others \cup {None}
BY DEF ResultRow

\* Everything is kept.
LEMMA AllKept ==
    ASSUME NEW rows, Plain(rows)
    PROVE  Kept(rows) = {rows}
<1>1. rows \in Kept(rows)
  BY DEF Kept, Plain
<1>2. ASSUME NEW k \in Kept(rows) PROVE k = rows
  <2>1. k \subseteq rows /\ \A r \in rows : \E q \in k : q.session = r.session
    BY DEF Kept
  <2> QED
    BY <2>1 DEF Plain, Single
<1> QED
  BY <1>1, <1>2

\* Who is waiting, for whom, and with which request.
LEMMA WaitingRows ==
    ASSUME NEW rows, Plain(rows), NEW r \in Waiting(rows)
    PROVE  /\ r \in rows /\ r \in RequestRows(rows) /\ r.blocker # None
           /\ r.session \in DOMAIN BlockerOf(rows)
           /\ BlockerOf(rows)[r.session] = r.blocker
<1>1. r \in rows /\ r.blocker # None
  BY DEF Waiting
<1>2. r \in RequestRows(rows)
  BY <1>1 DEF RequestRows, Plain, IsResult
<1>3. (CHOOSE q \in rows : q.session = r.session) = r
  BY <1>1 DEF Plain, Single
<1> QED
  BY <1>1, <1>2, <1>3 DEF BlockerOf

LEMMA WaitingDomain ==
    ASSUME NEW rows, NEW s \in DOMAIN BlockerOf(rows)
    PROVE  \E r \in Waiting(rows) : r.session = s
BY DEF BlockerOf

\* The one request of a session, if it has one.
LEMMA OneRequest ==
    ASSUME NEW rows, Plain(rows), NEW r \in rows
    PROVE  /\ r.request # None => /\ LastOf(RequestRows(rows), r.session) = r
                                  /\ OneOf(FirstOf(RequestRows(rows), r.session)) = r
           /\ r.request = None => /\ LastOf(RequestRows(rows), r.session) = NoRow
                                  /\ OneOf(FirstOf(RequestRows(rows), r.session)) = NoRow
           /\ LastOf(RequestRows(rows), r.session).blocker = r.blocker
<1> DEFINE Rs == RequestRows(rows)
<1>1. \A q \in Rs : q \in rows /\ q.request # None
  BY DEF RequestRows
<1>2. \A q \in Rs : q.session = r.session => q = r
  BY <1>1 DEF Plain, Single
<1>3. r.request \in Nat
  <2>1. r \in ResultRow
    BY DEF Plain
  <2>2. r.request \in Requests \cup {None}
    BY <2>1, RowTyped
  <2>3. Requests \subseteq Nat
    BY RequestsAssumption
  <2>4. None \in Nat
    BY DEF None
  <2> QED
    BY <2>2, <2>3, <2>4
<1>4. CASE r.request # None
  <2>1. r \in Rs
    BY <1>4 DEF RequestRows
  <2>2. (CHOOSE q \in Rs : q.session = r.session /\ \A p \in Rs : p.session = r.session => p.request <= q.request) = r
    BY <1>2, <1>3, <2>1
  <2>3. FirstOf(Rs, r.session) = {r}
    BY <1>2, <1>3, <2>1 DEF FirstOf
  <2>4. LastOf(Rs, r.session) = r
    BY <2>1, <2>2 DEF LastOf
  <2>5. OneOf({r}) = r
    BY DEF OneOf
  <2> QED
    BY <1>4, <2>3, <2>4, <2>5
<1>5. CASE r.request = None
  <2>1. \A q \in Rs : q.session # r.session
    BY <1>1, <1>2, <1>5
  <2>2. FirstOf(Rs, r.session) = {}
    BY <2>1 DEF FirstOf
  <2>3. LastOf(Rs, r.session) = NoRow
    BY <2>1 DEF LastOf
  <2>4. r.blocker = None
    BY <1>5 DEF Plain, IsResult
  <2> QED
    BY <1>5, <2>2, <2>3, <2>4 DEF OneOf, NoRow
<1> QED
  BY <1>4, <1>5

\* An edge for each waiting row.
EdgeEach(rows, root, edges) ==
    /\ \A r \in Waiting(rows) : \E e \in edges :
           e.blocked = r.session /\ e.blocker = r.blocker
    /\ \A e \in edges :
           /\ e.root = root[e.blocked]
           /\ e.count = Cardinality({q \in Waiting(rows) : root[q.session] = e.root})
           /\ \E r \in Waiting(rows) : e.blocked = r.session /\ e.blocker = r.blocker

LEMMA EdgesOfRows ==
    ASSUME NEW rows, NEW root, NEW edges, edges = Edges(rows, root)
    PROVE  EdgeEach(rows, root, edges)
<1> DEFINE n(r) == Cardinality({q \in Waiting(rows) : root[q.session] = root[r.session]})
           edge(r) == [root |-> root[r.session], blocker |-> r.blocker,
                       blocked |-> r.session, count |-> n(r)]
<1>1. edges = {edge(r) : r \in Waiting(rows)}
  BY DEF Edges
<1>2. \A r \in Waiting(rows) :
          /\ edge(r).root = root[r.session] /\ edge(r).blocker = r.blocker
          /\ edge(r).blocked = r.session /\ edge(r).count = n(r)
  OBVIOUS
<1> HIDE DEF edge
<1>3. ASSUME NEW e \in edges
      PROVE  /\ e.root = root[e.blocked]
             /\ e.count = Cardinality({q \in Waiting(rows) : root[q.session] = e.root})
             /\ \E r \in Waiting(rows) : e.blocked = r.session /\ e.blocker = r.blocker
  <2>1. PICK r \in Waiting(rows) : e = edge(r)
    BY <1>1
  <2>2. e.root = root[r.session] /\ e.blocked = r.session /\ e.blocker = r.blocker
    BY <1>2, <2>1
  <2>3. e.count = Cardinality({q \in Waiting(rows) : root[q.session] = root[r.session]})
    BY <1>2, <2>1
  <2> QED
    BY <2>2, <2>3
<1> QED
  BY <1>1, <1>2, <1>3 DEF EdgeEach

\* Two edges of one session are the same, and the edges are as many as the rows.
LEMMA EdgePerRow ==
    ASSUME NEW rows, Plain(rows), NEW root, NEW edges, edges = Edges(rows, root),
           NEW Q, Q \subseteq edges
    PROVE  /\ \A e, f \in edges : e.blocked = f.blocked => e = f
           /\ IsFiniteSet(Q)
           /\ IsFiniteSet({e.blocked : e \in Q})
           /\ Cardinality({e.blocked : e \in Q}) = Cardinality(Q)
<1>1. ASSUME NEW e \in edges, NEW f \in edges, e.blocked = f.blocked PROVE e = f
  <2>1. PICK r \in Waiting(rows) :
            e = [root |-> root[r.session], blocker |-> r.blocker, blocked |-> r.session,
                 count |-> Cardinality({q \in Waiting(rows) : root[q.session] = root[r.session]})]
    BY DEF Edges
  <2>2. PICK q \in Waiting(rows) :
            f = [root |-> root[q.session], blocker |-> q.blocker, blocked |-> q.session,
                 count |-> Cardinality({p \in Waiting(rows) : root[p.session] = root[q.session]})]
    BY DEF Edges
  <2>3. r.session = q.session /\ r \in rows /\ q \in rows
    BY <1>1, <2>1, <2>2, WaitingRows
  <2>4. r = q
    BY <2>3 DEF Plain, Single
  <2> QED
    BY <2>1, <2>2, <2>4
<1>2. IsFiniteSet(edges)
  <2> DEFINE G == [r \in Waiting(rows) |->
                      [root |-> root[r.session], blocker |-> r.blocker, blocked |-> r.session,
                       count |-> Cardinality({q \in Waiting(rows) :
                                                 root[q.session] = root[r.session]})]]
  <2>1. IsFiniteSet(Waiting(rows))
    <3>1. Waiting(rows) \subseteq rows
      BY DEF Waiting
    <3> QED
      BY <3>1, FS_Subset DEF Plain
  <2>2. G \in Surjection(Waiting(rows), edges)
    BY DEF Edges, Surjection
  <2> QED
    BY <2>1, <2>2, FS_Surjection
<1>3. IsFiniteSet(Q)
  BY <1>2, FS_Subset
<1> DEFINE F == [e \in Q |-> e.blocked]
<1>4. {F[e] : e \in Q} = {e.blocked : e \in Q} /\ F \in [Q -> {F[e] : e \in Q}]
  OBVIOUS
<1>5. \A e, f \in Q : F[e] = F[f] => e = f
  BY <1>1
<1> HIDE DEF F
<1>6. /\ IsFiniteSet({F[e] : e \in Q})
      /\ Cardinality({F[e] : e \in Q}) = Cardinality(Q)
  BY <1>3, <1>4, <1>5, SameSize
<1> QED
  BY <1>1, <1>3, <1>4, <1>6

\* The rows waiting under one root are as many as their edges.
LEMMA RowPerSession ==
    ASSUME NEW rows, Plain(rows), NEW Q, Q \subseteq rows
    PROVE  /\ IsFiniteSet(Q)
           /\ IsFiniteSet({r.session : r \in Q})
           /\ Cardinality({r.session : r \in Q}) = Cardinality(Q)
<1> DEFINE F == [r \in Q |-> r.session]
<1>1. IsFiniteSet(Q)
  BY FS_Subset DEF Plain
<1>2. {F[r] : r \in Q} = {r.session : r \in Q} /\ F \in [Q -> {F[r] : r \in Q}]
  OBVIOUS
<1>3. \A r, q \in Q : F[r] = F[q] => r = q
  BY DEF Plain, Single
<1> HIDE DEF F
<1>4. /\ IsFiniteSet({F[r] : r \in Q})
      /\ Cardinality({F[r] : r \in Q}) = Cardinality(Q)
  BY <1>1, <1>2, <1>3, SameSize
<1> QED
  BY <1>1, <1>2, <1>4

\* A root is ahead of everybody whose root it is, so somebody waits for it; and who
\* waits for a session that does not wait itself has it as the root.
LEMMA RootsBlock ==
    ASSUME NEW rows, Plain(rows), NEW root \in Roots(rows), NEW s \in DOMAIN BlockerOf(rows)
    PROVE  /\ \E w \in DOMAIN BlockerOf(rows) : BlockerOf(rows)[w] = root[s]
           /\ BlockerOf(rows)[s] \notin DOMAIN BlockerOf(rows) =>
                  root[s] = BlockerOf(rows)[s]
<1> DEFINE blocker == BlockerOf(rows)
           All == Sessions \cup Others
<1>1. root[s] \in Ahead(rows, s) /\ root \in [DOMAIN blocker -> All]
  BY DEF Roots
<1>0. ASSUME NEW w \in DOMAIN blocker PROVE blocker[w] \in All
  <2>1. PICK r \in Waiting(rows) : r.session = w
    BY WaitingDomain
  <2>2. r \in ResultRow /\ r.blocker # None /\ blocker[w] = r.blocker
    BY <2>1, WaitingRows DEF Plain
  <2> QED
    BY <2>2, RowTyped
<1>5. s \in DOMAIN blocker
  OBVIOUS
<1> HIDE DEF blocker
<1>2. ASSUME NEW U \in SUBSET All,
             \A w \in DOMAIN blocker : w = s \/ w \in U => blocker[w] \in U
      PROVE  root[s] \in U
  BY <1>1, <1>2 DEF Ahead, blocker
<1>3. ASSUME \A w \in DOMAIN blocker : blocker[w] # root[s] PROVE FALSE
  <2> DEFINE U == All \ {root[s]}
  <2>1. U \in SUBSET All /\ \A w \in DOMAIN blocker : blocker[w] \in U
    BY <1>0, <1>3
  <2>2. root[s] \in U
    BY <1>2, <2>1
  <2> QED
    BY <2>2
<1>4. ASSUME blocker[s] \notin DOMAIN blocker
      PROVE  root[s] = blocker[s]
  <2> DEFINE U == {blocker[s]}
  <2>1. /\ U \in SUBSET All
        /\ \A w \in DOMAIN blocker : w = s \/ w \in U => blocker[w] \in U
    BY <1>0, <1>4, <1>5
  <2>2. root[s] \in U
    BY <1>2, <2>1
  <2> QED
    BY <2>2
<1> QED
  BY <1>3, <1>4 DEF blocker

\* The edges of a root, and their sessions.
EdgesUnder(edges, r0) == {b \in edges : b.root = r0}
SessionsUnder(edges, r0) == {b.blocked : b \in EdgesUnder(edges, r0)}

\* The chains of a frame: one for each root, with its edges' sessions.
LEMMA ChainOfRoot ==
    ASSUME NEW rows, Plain(rows), NEW root \in Roots(rows), NEW edges,
           edges = Edges(rows, root), NEW e \in edges
    PROVE  /\ Chain(edges, e.root).root = e.root
           /\ Chain(edges, e.root).blocked = SessionsUnder(edges, e.root)
           /\ Chain(edges, e.root).count = Cardinality(EdgesUnder(edges, e.root))
           /\ Chain(edges, e.root).count = Cardinality(Chain(edges, e.root).blocked)
<1> DEFINE r0 == e.root
           group == {b \in edges : b.root = r0}
           blocked == {b.blocked : b \in group}
           under == {q \in Waiting(rows) : root[q.session] = r0}
           counts == {b.count : b \in group} \cup {Cardinality(blocked)}
           n == Cardinality(group)
<1>1. /\ \A r \in Waiting(rows) : \E b \in edges :
             b.blocked = r.session /\ b.blocker = r.blocker
      /\ \A b \in edges :
             /\ b.root = root[b.blocked]
             /\ b.count = Cardinality({q \in Waiting(rows) : root[q.session] = b.root})
             /\ \E r \in Waiting(rows) : b.blocked = r.session /\ b.blocker = r.blocker
  <2>1. EdgeEach(rows, root, edges)
    BY EdgesOfRows
  <2> QED
    BY <2>1 DEF EdgeEach
<1>2. Cardinality(blocked) = n /\ IsFiniteSet(group) /\ n \in Nat
  <2>1. group \subseteq edges
    OBVIOUS
  <2> HIDE DEF group
  <2>2. IsFiniteSet(group) /\ Cardinality(blocked) = n
    BY <2>1, EdgePerRow
  <2> QED
    BY <2>2, FS_CardinalityType
<1>3. blocked = {q.session : q \in under}
  <2>1. ASSUME NEW b \in group PROVE \E q \in under : b.blocked = q.session
    <3>1. b \in edges /\ b.root = r0
      OBVIOUS
    <3>2. PICK q \in Waiting(rows) : b.blocked = q.session
      BY <1>1, <3>1
    <3>3. root[q.session] = r0
      BY <1>1, <3>1, <3>2
    <3> QED
      BY <3>2, <3>3
  <2>2. ASSUME NEW q \in under PROVE \E b \in group : b.blocked = q.session
    <3>1. q \in Waiting(rows) /\ root[q.session] = r0
      OBVIOUS
    <3>2. PICK b \in edges : b.blocked = q.session
      BY <1>1, <3>1
    <3>3. b.root = r0
      BY <1>1, <3>1, <3>2
    <3> QED
      BY <3>2, <3>3
  <2> HIDE DEF group, under
  <2> QED
    BY <2>1, <2>2
<1>4. Cardinality(under) = n
  <2>1. under \subseteq rows
    BY DEF Waiting
  <2>2. Cardinality({q.session : q \in under}) = Cardinality(under)
    BY <2>1, RowPerSession
  <2> QED
    BY <1>2, <1>3, <2>2
<1>5. \A b \in group : b.count = n
  BY <1>1, <1>4
<1>6. counts = {n}
  BY <1>2, <1>5
<1>7. (CHOOSE m \in counts : \A k \in counts : k <= m) = n
  <2>1. n \in Nat /\ counts = {n}
    BY <1>2, <1>6
  <2> HIDE DEF n, counts
  <2> QED
    BY <2>1
<1>8. /\ Chain(edges, r0).root = r0 /\ Chain(edges, r0).blocked = blocked
      /\ Chain(edges, r0).count = n
  <2> DEFINE most == CHOOSE m \in counts : \A k \in counts : k <= m
  <2>1. Chain(edges, r0) =
            [root |-> r0, blocked |-> blocked, count |-> most, risk |-> Risk(most)]
    BY DEF Chain
  <2>2. most = n
    BY <1>7
  <2> HIDE DEF most, blocked, r0
  <2> QED
    BY <2>1, <2>2
<1> QED
  BY <1>2, <1>8 DEF EdgesUnder, SessionsUnder

\* The session list shows each session once, and the waiting ones if asked to.
LEMMA ListOfRows ==
    ASSUME NEW rows, Plain(rows), NEW texts1
    PROVE  /\ {i.session : i \in SessionList(SessionRows(rows), RequestRows(rows), texts1, FALSE).items}
                  = {r.session : r \in rows}
           /\ {i.session : i \in SessionList(SessionRows(rows), RequestRows(rows), texts1, TRUE).items}
                  = {r.session : r \in Waiting(rows)}
           /\ SessionList(SessionRows(rows), RequestRows(rows), texts1, TRUE).total
                  = Cardinality(Waiting(rows))
           /\ \A i \in SessionList(SessionRows(rows), RequestRows(rows), texts1, FALSE).items :
                  SessionItem(CHOOSE s \in rows : s.session = i.session,
                              OneOf(FirstOf(RequestRows(rows), i.session)), texts1) = i
<1> DEFINE last(s) == LastOf(RequestRows(rows), s.session)
           item(s) == SessionItem(s, last(s), texts1)
           list(blocked) == SessionList(SessionRows(rows), RequestRows(rows), texts1, blocked)
           shown(blocked) == {s \in rows : Shown(last(s), blocked)}
<1>1. \A s \in rows : last(s).blocker = s.blocker
  BY OneRequest
<1>2. \A s \in rows : item(s).session = s.session
  BY DEF SessionItem
<1>3. ASSUME NEW blocked \in BOOLEAN
      PROVE  /\ list(blocked).total = Cardinality(shown(blocked))
             /\ list(blocked).items = {item(s) : s \in shown(blocked)}
  BY DEF SessionList, SessionRows
<1>4. shown(FALSE) = rows /\ shown(TRUE) = Waiting(rows)
  BY <1>1 DEF Shown, Waiting
<1>5. \A s \in rows : OneOf(FirstOf(RequestRows(rows), s.session)) = last(s)
  BY OneRequest
<1>6. \A s \in rows : (CHOOSE q \in rows : q.session = s.session) = s
  BY DEF Plain, Single
<1> HIDE DEF last, item, list, shown
<1>7. /\ list(FALSE).items = {item(s) : s \in rows}
      /\ list(TRUE).items = {item(s) : s \in Waiting(rows)}
      /\ list(TRUE).total = Cardinality(Waiting(rows))
  BY <1>3, <1>4
<1>8. Waiting(rows) \subseteq rows
  BY DEF Waiting
<1>9. /\ {i.session : i \in list(FALSE).items} = {r.session : r \in rows}
      /\ {i.session : i \in list(TRUE).items} = {r.session : r \in Waiting(rows)}
  <2>1. ASSUME NEW Q, Q \subseteq rows, NEW I, I = {item(s) : s \in Q}
        PROVE  {i.session : i \in I} = {r.session : r \in Q}
    <3>1. ASSUME NEW i \in I PROVE i.session \in {r.session : r \in Q}
      <4>1. PICK s \in Q : i = item(s)
        BY <2>1
      <4>2. i.session = s.session
        BY <1>2, <2>1, <4>1
      <4> QED
        BY <4>2
    <3>2. ASSUME NEW s \in Q PROVE \E i \in I : i.session = s.session
      <4>1. item(s) \in I /\ item(s).session = s.session
        BY <1>2, <2>1
      <4> QED
        BY <4>1
    <3> QED
      BY <3>1, <3>2
  <2> QED
    BY <1>7, <1>8, <2>1
<1>10. ASSUME NEW i \in list(FALSE).items
       PROVE  SessionItem(CHOOSE s \in rows : s.session = i.session,
                          OneOf(FirstOf(RequestRows(rows), i.session)), texts1) = i
  <2>1. PICK s \in rows : i = item(s)
    BY <1>7
  <2>2. i.session = s.session
    BY <1>2, <2>1
  <2>3. SessionItem(s, last(s), texts1) = i
    BY <2>1 DEF item
  <2>4. (CHOOSE q \in rows : q.session = i.session) = s
    BY <2>2 DEF Plain, Single
  <2>5. OneOf(FirstOf(RequestRows(rows), i.session)) = last(s)
    BY <1>5, <2>2
  <2> QED
    BY <2>3, <2>4, <2>5
<1> QED
  BY <1>7, <1>9, <1>10 DEF list

\* The waiting sessions are those of the edges, and those of the chains, each in one.
LEMMA ChainsPartition ==
    ASSUME NEW rows, Plain(rows), NEW root \in Roots(rows), NEW edges,
           edges = Edges(rows, root)
    PROVE  /\ {b.blocked : b \in edges} = {r.session : r \in Waiting(rows)}
           /\ Cardinality({b.blocked : b \in edges}) = Cardinality(Waiting(rows))
           /\ {r.session : r \in Waiting(rows)} = UNION {c.blocked : c \in Chains(edges)}
           /\ \A c, d \in Chains(edges) : c # d => c.blocked \cap d.blocked = {}
           /\ Cardinality({b.root : b \in edges}) = Cardinality(Chains(edges))
<1> DEFINE waiting == {r.session : r \in Waiting(rows)}
           roots == {b.root : b \in edges}
<1>0. /\ \A r \in Waiting(rows) : \E b \in edges :
             b.blocked = r.session /\ b.blocker = r.blocker
      /\ \A b \in edges :
             /\ b.root = root[b.blocked]
             /\ b.count = Cardinality({q \in Waiting(rows) : root[q.session] = b.root})
             /\ \E r \in Waiting(rows) : b.blocked = r.session /\ b.blocker = r.blocker
  <2>1. EdgeEach(rows, root, edges)
    BY EdgesOfRows
  <2> QED
    BY <2>1 DEF EdgeEach
<1>1. ASSUME NEW r \in Waiting(rows) PROVE \E b \in edges : b.blocked = r.session
  BY <1>0
<1>2. ASSUME NEW b \in edges PROVE \E r \in Waiting(rows) : b.blocked = r.session
  BY <1>0
<1>3. {b.blocked : b \in edges} = waiting
  BY <1>1, <1>2
<1>4. Cardinality({b.blocked : b \in edges}) = Cardinality(Waiting(rows))
  <2>1. Waiting(rows) \subseteq rows
    BY DEF Waiting
  <2>2. Cardinality(waiting) = Cardinality(Waiting(rows))
    BY <2>1, RowPerSession
  <2> QED
    BY <1>3, <2>2
<1>5. IsFiniteSet(roots)
  <2> DEFINE G == [b \in edges |-> b.root]
  <2>1. IsFiniteSet(edges)
    BY EdgePerRow
  <2>2. G \in Surjection(edges, roots)
    BY DEF Surjection
  <2> QED
    BY <2>1, <2>2, FS_Surjection
<1>6. ASSUME NEW r0 \in roots
      PROVE  /\ Chain(edges, r0).root = r0
             /\ Chain(edges, r0).blocked = SessionsUnder(edges, r0)
  <2>1. PICK e \in edges : e.root = r0
    OBVIOUS
  <2>2. /\ Chain(edges, e.root).root = e.root
        /\ Chain(edges, e.root).blocked = SessionsUnder(edges, e.root)
    BY ChainOfRoot
  <2> QED
    BY <2>1, <2>2
<1> HIDE DEF roots
<1>7. Chains(edges) = {Chain(edges, r0) : r0 \in roots}
  BY DEF Chains, roots
<1>8. \A b \in edges : b.root \in roots
  BY DEF roots
<1>9. waiting = UNION {c.blocked : c \in Chains(edges)}
  <2>1. ASSUME NEW b \in edges PROVE \E c \in Chains(edges) : b.blocked \in c.blocked
    <3>1. Chain(edges, b.root).blocked = SessionsUnder(edges, b.root)
      BY <1>6, <1>8
    <3>2. b.blocked \in Chain(edges, b.root).blocked
      BY <3>1 DEF SessionsUnder, EdgesUnder
    <3> QED
      BY <1>7, <1>8, <3>2
  <2>2. ASSUME NEW c \in Chains(edges), NEW s \in c.blocked
        PROVE  \E b \in edges : b.blocked = s
    <3>1. PICK r0 \in roots : c = Chain(edges, r0)
      BY <1>7
    <3>2. s \in SessionsUnder(edges, r0)
      BY <1>6, <3>1
    <3> QED
      BY <3>2 DEF SessionsUnder, EdgesUnder
  <2> DEFINE sessions == {b.blocked : b \in edges}
             chains == Chains(edges)
  <2>3. ASSUME NEW s \in sessions PROVE s \in UNION {c.blocked : c \in chains}
    BY <2>1
  <2>4. ASSUME NEW s \in UNION {c.blocked : c \in chains} PROVE s \in sessions
    BY <2>2
  <2> HIDE DEF sessions, chains
  <2>5. sessions = UNION {c.blocked : c \in chains}
    BY <2>3, <2>4
  <2> QED
    BY <1>3, <2>5 DEF sessions, chains
<1>10. ASSUME NEW c \in Chains(edges), NEW d \in Chains(edges), c # d
       PROVE  c.blocked \cap d.blocked = {}
  <2>1. PICK r0 \in roots, r1 \in roots : c = Chain(edges, r0) /\ d = Chain(edges, r1)
    BY <1>7
  <2>2. r0 # r1
    BY <1>10, <2>1
  <2>3. ASSUME NEW s \in c.blocked, s \in d.blocked PROVE FALSE
    <3>1. s \in SessionsUnder(edges, r0) /\ s \in SessionsUnder(edges, r1)
      BY <1>6, <2>1, <2>3
    <3>2. PICK b \in edges : b.blocked = s /\ b.root = r0
      BY <3>1 DEF SessionsUnder, EdgesUnder
    <3>3. PICK f \in edges : f.blocked = s /\ f.root = r1
      BY <3>1 DEF SessionsUnder, EdgesUnder
    <3>4. b = f
      BY <3>2, <3>3, EdgePerRow
    <3> QED
      BY <2>2, <3>2, <3>3, <3>4
  <2> QED
    BY <2>3
<1>11. Cardinality(roots) = Cardinality(Chains(edges))
  <2> DEFINE F == [r0 \in roots |-> Chain(edges, r0)]
  <2>1. {F[r0] : r0 \in roots} = Chains(edges) /\ F \in [roots -> {F[r0] : r0 \in roots}]
    BY <1>7
  <2>2. \A x, y \in roots : F[x] = F[y] => x = y
    BY <1>6
  <2> HIDE DEF F
  <2>3. Cardinality({F[r0] : r0 \in roots}) = Cardinality(roots)
    BY <1>5, <2>1, <2>2, SameSize
  <2> QED
    BY <2>1, <2>3
<1> QED
  BY <1>3, <1>4, <1>9, <1>10, <1>11 DEF roots

\* Of a chain: the count is that of its sessions, and the root blocks somebody, in
\* the chain unless it waits itself.
LEMMA ChainIsBlocked ==
    ASSUME NEW rows, Plain(rows), NEW root \in Roots(rows), NEW edges,
           edges = Edges(rows, root), NEW c \in Chains(edges)
    PROVE  /\ c.count = Cardinality(c.blocked)
           /\ Impact(edges, c.root) >= 1
           /\ (\A e \in edges : e.blocked # c.root) => Impact(edges, c.root) <= c.count
<1>1. PICK e \in edges : c = Chain(edges, e.root)
  BY DEF Chains
<1> DEFINE group == EdgesUnder(edges, e.root)
           impact == {b \in edges : b.blocker = e.root}
           blocker == BlockerOf(rows)
<1>2. /\ c.root = e.root
      /\ c.count = Cardinality(group) /\ c.count = Cardinality(c.blocked)
  BY <1>1, ChainOfRoot
<1>3. IsFiniteSet(group) /\ IsFiniteSet(impact)
  <2>1. group \subseteq edges /\ impact \subseteq edges
    BY DEF EdgesUnder
  <2> QED
    BY <2>1, EdgePerRow
<1>4. /\ \A r \in Waiting(rows) : \E b \in edges :
             b.blocked = r.session /\ b.blocker = r.blocker
      /\ \A b \in edges :
             /\ b.root = root[b.blocked]
             /\ b.count = Cardinality({q \in Waiting(rows) : root[q.session] = b.root})
             /\ \E r \in Waiting(rows) : b.blocked = r.session /\ b.blocker = r.blocker
  <2>1. EdgeEach(rows, root, edges)
    BY EdgesOfRows
  <2> QED
    BY <2>1 DEF EdgeEach
<1>5. ASSUME NEW b \in edges
      PROVE  b.blocked \in DOMAIN blocker /\ blocker[b.blocked] = b.blocker
  <2>1. PICK r \in Waiting(rows) : b.blocked = r.session /\ b.blocker = r.blocker
    BY <1>4
  <2> QED
    BY <2>1, WaitingRows
<1>6. impact # {}
  <2>1. e.blocked \in DOMAIN blocker /\ e.root = root[e.blocked]
    BY <1>4, <1>5
  <2>2. PICK w \in DOMAIN blocker : blocker[w] = e.root
    BY <2>1, RootsBlock
  <2>3. PICK r \in Waiting(rows) : r.session = w
    BY WaitingDomain
  <2>4. blocker[w] = r.blocker
    BY <2>3, WaitingRows
  <2>5. PICK b \in edges : b.blocker = r.blocker
    BY <1>4
  <2> QED
    BY <2>2, <2>4, <2>5
<1>7. Impact(edges, c.root) >= 1
  <2>1. Cardinality(impact) \in Nat /\ Cardinality(impact) # 0
    BY <1>3, <1>6, FS_CardinalityType, FS_EmptySet
  <2>2. Impact(edges, c.root) = Cardinality(impact)
    BY <1>2 DEF Impact
  <2> HIDE DEF impact
  <2> QED
    BY <2>1, <2>2
<1>8. ASSUME \A b \in edges : b.blocked # c.root
      PROVE  Impact(edges, c.root) <= c.count
  <2>1. e.root \notin DOMAIN blocker
    <3>1. ASSUME e.root \in DOMAIN blocker PROVE FALSE
      <4>1. PICK r \in Waiting(rows) : r.session = e.root
        BY <3>1, WaitingDomain
      <4>2. PICK b \in edges : b.blocked = r.session
        BY <1>4
      <4> QED
        BY <1>2, <1>8, <4>1, <4>2
    <3> QED
      BY <3>1
  <2>2. ASSUME NEW b \in impact PROVE b \in group
    <3>1. b.blocked \in DOMAIN blocker /\ blocker[b.blocked] = e.root
      BY <1>5
    <3>2. root[b.blocked] = blocker[b.blocked]
      BY <2>1, <3>1, RootsBlock
    <3>3. b.root = e.root
      BY <1>4, <3>1, <3>2
    <3> QED
      BY <3>3 DEF EdgesUnder
  <2>3. impact \subseteq group
    BY <2>2
  <2>4. Cardinality(impact) <= Cardinality(group)
    BY <1>3, <2>3, FS_Subset
  <2>5. Impact(edges, c.root) = Cardinality(impact)
    BY <1>2 DEF Impact
  <2> QED
    BY <1>2, <2>4, <2>5
<1> QED
  BY <1>2, <1>7, <1>8

\* Whatever root the cycles and the tails behind them got, the pages agree.
LEMMA ContentAgrees ==
    ASSUME NEW content, Plain(content.rows), content \in Contents(content.rows)
    PROVE  Agree(content)
<1> DEFINE rows == content.rows
           edges == content.edges
           texts1 == TextsOf(rows)
           list == SessionList(SessionRows(rows), RequestRows(rows), texts1, FALSE)
           waiting == SessionList(SessionRows(rows), RequestRows(rows), texts1, TRUE)
           dashboard == Dashboard(SessionRows(rows), RequestRows(rows), edges, texts1)
<1>1. PICK root \in Roots(rows) : edges = Edges(rows, root)
  <2>1. Contents(rows) = {[rows |-> rows, edges |-> Edges(rows, root)] : root \in Roots(rows)}
    BY AllKept DEF Contents
  <2>2. PICK root \in Roots(rows) : content = [rows |-> rows, edges |-> Edges(rows, root)]
    BY <2>1
  <2> QED
    BY <2>2
<1>2. Plain(rows)
  OBVIOUS
<1> HIDE DEF rows, edges
<1>3. /\ dashboard.sessions = Cardinality(rows)
      /\ dashboard.blocked = Cardinality({b.blocked : b \in edges})
      /\ dashboard.roots = Cardinality({b.root : b \in edges})
  BY DEF Dashboard, SessionRows
<1>4. /\ {i.session : i \in list.items} = {r.session : r \in rows}
      /\ {i.session : i \in waiting.items} = {r.session : r \in Waiting(rows)}
      /\ waiting.total = Cardinality(Waiting(rows))
      /\ \A i \in list.items :
             SessionItem(CHOOSE s \in rows : s.session = i.session,
                         OneOf(FirstOf(RequestRows(rows), i.session)), texts1) = i
  BY <1>2, ListOfRows
<1>5. Cardinality({r.session : r \in rows}) = Cardinality(rows)
  BY <1>2, RowPerSession
<1>6. /\ {b.blocked : b \in edges} = {r.session : r \in Waiting(rows)}
      /\ Cardinality({b.blocked : b \in edges}) = Cardinality(Waiting(rows))
      /\ {r.session : r \in Waiting(rows)} = UNION {c.blocked : c \in Chains(edges)}
      /\ \A c, d \in Chains(edges) : c # d => c.blocked \cap d.blocked = {}
      /\ Cardinality({b.root : b \in edges}) = Cardinality(Chains(edges))
  BY <1>1, <1>2, ChainsPartition
<1>7. \A c \in Chains(edges) :
          /\ c.count = Cardinality(c.blocked)
          /\ Impact(edges, c.root) >= 1
          /\ (\A e \in edges : e.blocked # c.root) => Impact(edges, c.root) <= c.count
  BY <1>1, <1>2, ChainIsBlocked
<1>8. /\ dashboard.sessions = Cardinality({i.session : i \in list.items})
      /\ dashboard.blocked = waiting.total
      /\ {i.session : i \in waiting.items} = UNION {c.blocked : c \in Chains(edges)}
      /\ dashboard.roots = Cardinality(Chains(edges))
  <2> HIDE DEF dashboard, list, waiting
  <2> QED
    BY <1>3, <1>4, <1>5, <1>6
<1> QED
  BY <1>4, <1>6, <1>7, <1>8 DEF Agree, rows, edges

-----------------------------------------------------------------------------
(* The handlers' invariant.                                                *)

USE SamplesAssumption, QuestionsAssumption, BoundsAssumption

SessionStatements == {"sessions", "session"}
RequestStatements == {"requests", "first", "hash"}

\* What a handler does once it has its frame.
Rest(page) ==
    CASE page = "dashboard" -> DashboardPlan
      [] page = "sessions" -> SessionsPlan
      [] page = "session" -> <<"session", "first", "texts">>
      [] page = "sqls" -> SqlsPlan
      [] page = "sql" -> <<"hash", "texts">>
      [] page = "blocking" -> <<"blocking">>
      [] page = "replay" -> DashboardPlan \o SessionsPlan \o SqlsPlan \o <<"blocking">>
      [] page = "target" -> <<"session", "first", "texts", "blocking">>

Mentions(p, names) == \E k \in 1..Len(p) : p[k] \in names

\* Texts are read after the requests whose hashes they are.
Ordered(p) ==
    /\ p \in Seq(Statements \ {"frame"})
    /\ \A k \in 1..Len(p) : p[k] \in RequestStatements =>
           \E j \in 1..Len(p) : j > k /\ p[j] = "texts"

Shape == [at : 1..MaxClock, content : {x.content : x \in Samples}, sent : Nat, lost : Nat,
          known : BOOLEAN, total : Nat]

\* Frames are stored with the texts of their rows.
TextsStored == \A k \in Stored : TextsOf(frames[k].content.rows) \subseteq texts

\* Between two questions nothing is kept; before the frame is selected the whole
\* plan is left, and after it an ordered rest.
HandlerAtWork ==
    /\ question \in Question \/ question = NoQuestion
    /\ question = NoQuestion => plan = <<>>
    /\ ref = 0 => /\ S = {} /\ R = {} /\ B = {} /\ T = {}
                  /\ plan = <<>> \/ plan = Plan(question.page)
    /\ ref # 0 => /\ Ordered(plan)
                  /\ question # NoQuestion
                  /\ Mentions(plan, {"session"}) => question.page \in {"session", "target"}
                  /\ Mentions(plan, {"hash"}) => question.page = "sql"

\* The frame is the one that was to be chosen when it was selected.
FrameChosen ==
    question # NoQuestion /\ (ref # 0 \/ plan = <<>>) =>
        \E m \in known..Len(frames) : ref = Reads!Chosen(question, m)

\* The statement that ends the detail of a row that is not there.
Missing ==
    \/ /\ question.page \in {"session", "target"} /\ S = {}
       /\ S \in SessionReads(question, RowsOfFrame.rows)
    \/ /\ question.page = "sql" /\ R = {}
       /\ R \in RequestReads(question, RowsOfFrame.rows)

\* What the page is made from has been read from the selected frame or is planned.
Gathered ==
    /\ question.page \in {"dashboard", "sessions", "replay", "session", "target"} =>
           \/ Mentions(plan, SessionStatements)
           \/ S \in SessionReads(question, RowsOfFrame.rows)
    /\ question.page # "blocking" =>
           /\ \/ Mentions(plan, RequestStatements)
              \/ R \in RequestReads(question, RowsOfFrame.rows)
           /\ Mentions(plan, {"texts"}) \/ T = TextsOf(R)
    /\ question.page \in {"dashboard", "replay", "blocking", "target"} =>
           Mentions(plan, {"blocking"}) \/ B = RowsOfFrame.edges

ReadFromFrame ==
    ref # 0 => R \subseteq RowsOfFrame.rows /\ ((plan = <<>> /\ Missing) \/ Gathered)

QueryInv ==
    /\ TypeOK
    /\ frames \in Seq(Shape)
    /\ TextsStored
    /\ HandlerAtWork
    /\ FrameChosen
    /\ ReadFromFrame

-----------------------------------------------------------------------------
(* Plans.                                                                  *)

LEMMA ConcatMentions ==
    ASSUME NEW p \in Seq(Statements), NEW q \in Seq(Statements), NEW names
    PROVE  Mentions(p \o q, names) <=> Mentions(p, names) \/ Mentions(q, names)
<1>1. Len(p \o q) = Len(p) + Len(q) /\ Len(p) \in Nat /\ Len(q) \in Nat
  BY ConcatProperties, LenProperties
<1>2. \A k \in 1..(Len(p) + Len(q)) :
          (p \o q)[k] = IF k <= Len(p) THEN p[k] ELSE q[k - Len(p)]
  BY ConcatProperties
<1>3. ASSUME NEW k \in 1..Len(p), p[k] \in names
      PROVE  Mentions(p \o q, names)
  BY <1>1, <1>2, <1>3 DEF Mentions
<1>4. ASSUME NEW k \in 1..Len(q), q[k] \in names
      PROVE  Mentions(p \o q, names)
  <2>1. k + Len(p) \in 1..Len(p \o q) /\ (p \o q)[k + Len(p)] = q[k]
    BY <1>1, <1>2
  <2> QED
    BY <1>4, <2>1 DEF Mentions
<1>5. ASSUME NEW k \in 1..Len(p \o q), (p \o q)[k] \in names
      PROVE  Mentions(p, names) \/ Mentions(q, names)
  <2>1. CASE k <= Len(p)
    BY <1>1, <1>2, <1>5, <2>1 DEF Mentions
  <2>2. CASE k > Len(p)
    <3>1. k - Len(p) \in 1..Len(q) /\ q[k - Len(p)] \in names
      BY <1>1, <1>2, <1>5, <2>2
    <3> QED
      BY <3>1 DEF Mentions
  <2> QED
    BY <1>1, <2>1, <2>2
<1> QED
  BY <1>3, <1>4, <1>5 DEF Mentions

LEMMA ConcatOrdered ==
    ASSUME NEW p, NEW q, Ordered(p), Ordered(q)
    PROVE  Ordered(p \o q)
<1> DEFINE St == Statements \ {"frame"}
<1>1. p \in Seq(St) /\ q \in Seq(St)
  BY DEF Ordered
<1>2. p \o q \in Seq(St) /\ Len(p \o q) = Len(p) + Len(q) /\ Len(p) \in Nat /\ Len(q) \in Nat
  BY <1>1, ConcatProperties, LenProperties
<1>3. \A k \in 1..(Len(p) + Len(q)) :
          (p \o q)[k] = IF k <= Len(p) THEN p[k] ELSE q[k - Len(p)]
  BY <1>1, ConcatProperties
<1>4. ASSUME NEW k \in 1..Len(p \o q), (p \o q)[k] \in RequestStatements
      PROVE  \E j \in 1..Len(p \o q) : j > k /\ (p \o q)[j] = "texts"
  <2>1. CASE k <= Len(p)
    <3>1. PICK j \in 1..Len(p) : j > k /\ p[j] = "texts"
      BY <1>2, <1>3, <1>4, <2>1 DEF Ordered
    <3> QED
      BY <1>2, <1>3, <3>1
  <2>2. CASE k > Len(p)
    <3>1. k - Len(p) \in 1..Len(q) /\ q[k - Len(p)] \in RequestStatements
      BY <1>2, <1>3, <1>4, <2>2
    <3>2. PICK j \in 1..Len(q) : j > k - Len(p) /\ q[j] = "texts"
      BY <3>1 DEF Ordered
    <3>3. j + Len(p) \in 1..Len(p \o q) /\ j + Len(p) > k /\ (p \o q)[j + Len(p)] = q[j]
      BY <1>2, <1>3, <3>2
    <3> QED
      BY <3>2, <3>3
  <2> QED
    BY <1>2, <2>1, <2>2
<1> QED
  BY <1>2, <1>4 DEF Ordered

\* Executing the first statement leaves the others.
LEMMA TailKeeps ==
    ASSUME NEW p, Ordered(p), p # <<>>
    PROVE  /\ Ordered(Tail(p))
           /\ Head(p) \in Statements \ {"frame"}
           /\ \A names : Mentions(Tail(p), names) => Mentions(p, names)
           /\ \A names : Mentions(p, names) => Head(p) \in names \/ Mentions(Tail(p), names)
           /\ Head(p) \in RequestStatements => Mentions(Tail(p), {"texts"})
           /\ \A names : Head(p) \in names => Mentions(p, names)
<1> DEFINE St == Statements \ {"frame"}
<1>1. p \in Seq(St)
  BY DEF Ordered
<1>2. /\ Tail(p) \in Seq(St) /\ Len(Tail(p)) = Len(p) - 1 /\ Len(p) \in Nat \ {0}
      /\ \A k \in 1..(Len(p) - 1) : Tail(p)[k] = p[k + 1]
      /\ Head(p) = p[1] /\ Head(p) \in St
  BY <1>1, HeadTailProperties, LenProperties, EmptySeq
<1>3. \A j \in 2..Len(p) : j - 1 \in 1..Len(Tail(p)) /\ Tail(p)[j - 1] = p[j]
  BY <1>2
<1>4. Ordered(Tail(p))
  <2>1. ASSUME NEW k \in 1..Len(Tail(p)), Tail(p)[k] \in RequestStatements
        PROVE  \E j \in 1..Len(Tail(p)) : j > k /\ Tail(p)[j] = "texts"
    <3>1. k + 1 \in 1..Len(p) /\ p[k + 1] \in RequestStatements
      BY <1>2, <2>1
    <3>2. PICK j \in 1..Len(p) : j > k + 1 /\ p[j] = "texts"
      BY <3>1 DEF Ordered
    <3>3. j - 1 \in 1..Len(Tail(p)) /\ j - 1 > k /\ Tail(p)[j - 1] = "texts"
      BY <1>2, <1>3, <3>2
    <3> QED
      BY <3>3
  <2> QED
    BY <1>2, <2>1 DEF Ordered
<1>5. ASSUME NEW names, Mentions(Tail(p), names)
      PROVE  Mentions(p, names)
  BY <1>2, <1>5 DEF Mentions
<1>6. ASSUME NEW names, Mentions(p, names)
      PROVE  Head(p) \in names \/ Mentions(Tail(p), names)
  <2>1. PICK k \in 1..Len(p) : p[k] \in names
    BY <1>6 DEF Mentions
  <2>2. CASE k = 1
    BY <1>2, <2>1, <2>2
  <2>3. CASE k # 1
    <3>1. k \in 2..Len(p)
      BY <1>2, <2>3
    <3>2. k - 1 \in 1..Len(Tail(p)) /\ Tail(p)[k - 1] \in names
      BY <1>3, <2>1, <3>1
    <3> QED
      BY <3>2 DEF Mentions
  <2> QED
    BY <2>2, <2>3
<1>7. ASSUME Head(p) \in RequestStatements
      PROVE  Mentions(Tail(p), {"texts"})
  <2>1. PICK j \in 1..Len(p) : j > 1 /\ p[j] = "texts"
    BY <1>2, <1>7 DEF Ordered
  <2>2. j \in 2..Len(p)
    BY <1>2, <2>1
  <2>3. j - 1 \in 1..Len(Tail(p)) /\ Tail(p)[j - 1] = "texts"
    BY <1>3, <2>1, <2>2
  <2> QED
    BY <2>3 DEF Mentions
<1>8. ASSUME NEW names, Head(p) \in names
      PROVE  Mentions(p, names)
  BY <1>2, <1>8 DEF Mentions
<1> QED
  BY <1>2, <1>4, <1>5, <1>6, <1>7, <1>8

LEMMA NothingPlanned == \A names : ~Mentions(<<>>, names)
BY DEF Mentions

\* The parts plans are put together from.
LEMMA PartsOrdered ==
    /\ Ordered(DashboardPlan) /\ Ordered(SessionsPlan) /\ Ordered(SqlsPlan)
    /\ Ordered(<<"blocking">>)
    /\ Ordered(<<"session", "first", "texts">>) /\ Ordered(<<"hash", "texts">>)
    /\ Ordered(<<"session", "first", "texts", "blocking">>)
BY DEF DashboardPlan, SessionsPlan, SqlsPlan, Ordered, Statements, RequestStatements

LEMMA PartsMention ==
    /\ \A names : Mentions(DashboardPlan, names) <=>
           names \cap {"sessions", "requests", "blocking", "texts", "points", "before"} # {}
    /\ \A names : Mentions(SessionsPlan, names) <=> names \cap {"sessions", "requests", "texts"} # {}
    /\ \A names : Mentions(SqlsPlan, names) <=> names \cap {"requests", "texts"} # {}
    /\ \A names : Mentions(<<"blocking">>, names) <=> "blocking" \in names
BY DEF DashboardPlan, SessionsPlan, SqlsPlan, Mentions

\* Every handler reads what its page is made from, texts after requests, and only
\* the detail pages have statements that may end it.
LEMMA RestShape ==
    ASSUME NEW page \in Pages
    PROVE  /\ Ordered(Rest(page))
           /\ Mentions(Rest(page), {"session"}) => page \in {"session", "target"}
           /\ Mentions(Rest(page), {"hash"}) => page = "sql"
           /\ page \in {"dashboard", "sessions", "replay", "session", "target"} =>
                  Mentions(Rest(page), SessionStatements)
           /\ page # "blocking" => Mentions(Rest(page), RequestStatements)
                                   /\ Mentions(Rest(page), {"texts"})
           /\ page \in {"dashboard", "replay", "blocking", "target"} =>
                  Mentions(Rest(page), {"blocking"})
           /\ Mentions(Rest(page), {"points"}) <=> page \in {"dashboard", "replay"}
           /\ page \in {"dashboard", "replay"} => Mentions(Rest(page), {"before"})
<1> USE DEF SessionStatements, RequestStatements
<1>1. CASE page = "dashboard"
  BY <1>1, PartsOrdered, PartsMention DEF Rest
<1>2. CASE page = "sessions"
  BY <1>2, PartsOrdered, PartsMention DEF Rest
<1>3. CASE page = "sqls"
  BY <1>3, PartsOrdered, PartsMention DEF Rest
<1>4. CASE page = "blocking"
  BY <1>4, PartsOrdered, PartsMention DEF Rest
<1>5. CASE page = "session"
  BY <1>5, PartsOrdered DEF Rest, Mentions
<1>6. CASE page = "sql"
  BY <1>6, PartsOrdered DEF Rest, Mentions
<1>7. CASE page = "target"
  BY <1>7, PartsOrdered DEF Rest, Mentions
<1>8. CASE page = "replay"
  <2> DEFINE c == SqlsPlan \o <<"blocking">>
             b == SessionsPlan \o c
  <2>1. Rest(page) = DashboardPlan \o b
    <3>1. Rest(page) = DashboardPlan \o SessionsPlan \o SqlsPlan \o <<"blocking">>
      BY <1>8 DEF Rest
    <3>2. /\ DashboardPlan \in Seq(Statements) /\ SessionsPlan \in Seq(Statements)
          /\ SqlsPlan \in Seq(Statements) /\ <<"blocking">> \in Seq(Statements)
      BY DEF DashboardPlan, SessionsPlan, SqlsPlan, Statements
    <3>3. DashboardPlan \o SessionsPlan \in Seq(Statements) /\ c \in Seq(Statements)
      BY <3>2, ConcatProperties
    <3>4. Rest(page) = (DashboardPlan \o SessionsPlan) \o c
      BY <3>1, <3>2, <3>3, ConcatAssociative
    <3>5. (DashboardPlan \o SessionsPlan) \o c = DashboardPlan \o b
      <4>1. \A p, q, r \in Seq(Statements) : (p \o q) \o r = p \o (q \o r)
        BY ConcatAssociative
      <4> HIDE DEF c
      <4> QED
        BY <3>2, <3>3, <4>1
    <3> QED
      BY <3>4, <3>5
  <2>2. Ordered(c) /\ Ordered(b) /\ Ordered(DashboardPlan \o b)
    BY PartsOrdered, ConcatOrdered
  <2>3. \A p : Ordered(p) => p \in Seq(Statements)
    BY SeqMonotonic DEF Ordered
  <2>4. \A names : Mentions(DashboardPlan \o b, names) <=>
            \/ Mentions(DashboardPlan, names) \/ Mentions(SessionsPlan, names)
            \/ Mentions(SqlsPlan, names) \/ Mentions(<<"blocking">>, names)
    BY <2>2, <2>3, PartsOrdered, ConcatMentions
  <2>5. \A names : Mentions(Rest(page), names) <=>
            names \cap {"sessions", "requests", "blocking", "texts", "points", "before"} # {}
    <3> HIDE DEF b, c
    <3> QED
      BY <2>1, <2>4, PartsMention
  <2>6. /\ ~Mentions(Rest(page), {"session"}) /\ ~Mentions(Rest(page), {"hash"})
        /\ Mentions(Rest(page), SessionStatements)
        /\ Mentions(Rest(page), RequestStatements)
        /\ Mentions(Rest(page), {"texts"}) /\ Mentions(Rest(page), {"blocking"})
        /\ Mentions(Rest(page), {"points"}) /\ Mentions(Rest(page), {"before"})
    BY <2>5
  <2> HIDE DEF b, c
  <2> QED
    BY <1>8, <2>1, <2>2, <2>6
<1> QED
  BY <1>1, <1>2, <1>3, <1>4, <1>5, <1>6, <1>7, <1>8 DEF Pages

\* A plan is the selection of a frame and the rest.
LEMMA PlanShape ==
    ASSUME NEW page \in Pages
    PROVE  /\ Plan(page) \in Seq(Statements) /\ Plan(page) # <<>>
           /\ Head(Plan(page)) = "frame" /\ Tail(Plan(page)) = Rest(page)
<1>1. Plan(page) = <<"frame">> \o Rest(page)
  BY DEF Plan, Rest
<1>2. Rest(page) \in Seq(Statements)
  BY RestShape, SeqMonotonic DEF Ordered
<1>3. <<"frame">> \in Seq(Statements) /\ Len(<<"frame">>) = 1 /\ <<"frame">>[1] = "frame"
  BY DEF Statements
<1>4. /\ Plan(page) \in Seq(Statements) /\ Len(Plan(page)) = 1 + Len(Rest(page))
      /\ Plan(page)[1] = "frame"
      /\ \A k \in 1..Len(Rest(page)) : Plan(page)[k + 1] = Rest(page)[k]
      /\ Len(Rest(page)) \in Nat
  BY <1>1, <1>2, <1>3, ConcatProperties, LenProperties
<1>5. Plan(page) # <<>>
  BY <1>4, EmptySeq
<1>6. /\ Head(Plan(page)) = "frame" /\ Tail(Plan(page)) \in Seq(Statements)
      /\ Len(Tail(Plan(page))) = Len(Rest(page))
      /\ \A k \in 1..Len(Rest(page)) : Tail(Plan(page))[k] = Rest(page)[k]
  BY <1>4, <1>5, HeadTailProperties
<1>7. Tail(Plan(page)) = Rest(page)
  BY <1>2, <1>6, SeqEqual
<1> QED
  BY <1>4, <1>5, <1>6, <1>7

-----------------------------------------------------------------------------
(* Reads and answers.                                                      *)

\* Every question can be answered from any rows, and its requests are among them.
LEMMA ReadsAreOfRows ==
    ASSUME NEW q, NEW rows
    PROVE  /\ SessionReads(q, rows) # {} /\ RequestReads(q, rows) # {}
           /\ \A r \in RequestReads(q, rows) : r \subseteq rows
           /\ \A s \in SessionReads(q, rows) : s \subseteq rows
BY DEF SessionReads, RequestReads, SessionRows, RequestRows, FirstOf

\* An answer is made from what its page needs, whatever else has been read.
LEMMA BodyIsAnswer ==
    ASSUME NEW q \in Question, NEW c, NEW s, NEW r, NEW b, NEW t,
           q.page \in {"dashboard", "sessions", "replay", "session", "target"} =>
               s \in SessionReads(q, c.rows),
           q.page # "blocking" => r \in RequestReads(q, c.rows) /\ t = TextsOf(r),
           q.page \in {"dashboard", "replay", "blocking", "target"} => b = c.edges
    PROVE  Body(q, s, r, b, t) \in Answers(q, c)
<1>1. q.page \in Pages
  BY DEF Question
<1>2. PICK s1 \in SessionReads(q, c.rows), r1 \in RequestReads(q, c.rows) :
          /\ s \in SessionReads(q, c.rows) => s1 = s
          /\ r \in RequestReads(q, c.rows) => r1 = r
  BY ReadsAreOfRows
<1>3. Body(q, s1, r1, c.edges, TextsOf(r1)) \in Answers(q, c)
  BY DEF Answers
<1>4. Body(q, s, r, b, t) = Body(q, s1, r1, c.edges, TextsOf(r1))
  <2>1. CASE q.page \in {"dashboard", "replay", "target"}
    BY <1>2, <2>1 DEF Body
  <2>2. CASE q.page \in {"sessions", "session"}
    BY <1>2, <2>2 DEF Body
  <2>3. CASE q.page \in {"sqls", "sql"}
    BY <1>2, <2>3 DEF Body
  <2>4. CASE q.page = "blocking"
    BY <2>4 DEF Body
  <2> QED
    BY <1>1, <2>1, <2>2, <2>3, <2>4 DEF Pages
<1> QED
  BY <1>3, <1>4

\* Where no such row is read the answer is the same at that moment.
LEMMA MissingIsAnswer ==
    ASSUME NEW q \in Question, NEW c, NEW s, NEW r, NEW b, NEW t,
           \/ q.page \in {"session", "target"} /\ s = {} /\ s \in SessionReads(q, c.rows)
           \/ q.page = "sql" /\ r = {} /\ r \in RequestReads(q, c.rows)
    PROVE  Body(q, s, r, b, t) \in Answers(q, c)
<1>1. PICK s1 \in SessionReads(q, c.rows), r1 \in RequestReads(q, c.rows) :
          /\ s \in SessionReads(q, c.rows) => s1 = s
          /\ r \in RequestReads(q, c.rows) => r1 = r
  BY ReadsAreOfRows
<1>2. Body(q, s1, r1, c.edges, TextsOf(r1)) \in Answers(q, c)
  BY DEF Answers
<1>3. Body(q, s, r, b, t) = Body(q, s1, r1, c.edges, TextsOf(r1))
  BY <1>1 DEF Body
<1> QED
  BY <1>2, <1>3

\* The abstract specification has the same answers.
LEMMA SameRows ==
    /\ \A rows : Reads!SessionRows(rows) = SessionRows(rows)
    /\ \A rows : Reads!RequestRows(rows) = RequestRows(rows)
    /\ \A rows : Reads!TextsOf(rows) = TextsOf(rows)
    /\ Reads!NoRow = NoRow /\ Reads!NoSql = NoSql /\ Reads!None = None
    /\ Reads!NotFound = NotFound
BY DEF Reads!SessionRows, SessionRows, Reads!RequestRows, RequestRows, Reads!TextsOf, TextsOf,
       Reads!NoRow, NoRow, Reads!NoSql, NoSql, Reads!None, None, Reads!NotFound, NotFound

LEMMA SameCardinality == \A X : Reads!Cardinality(X) = Cardinality(X)
BY DEF Reads!Cardinality, Cardinality

LEMMA SameItems ==
    /\ \A r, t : Reads!SqlItem(r, t) = SqlItem(r, t)
    /\ \A s, r, t : Reads!SessionItem(s, r, t) = SessionItem(s, r, t)
    /\ \A r, x : Reads!LastOf(r, x) = LastOf(r, x)
    /\ \A r, x : Reads!Shown(r, x) = Shown(r, x)
    /\ \A x : Reads!Risk(x) = Risk(x)
    /\ \A b, x : Reads!Impact(b, x) = Impact(b, x)
    /\ \A r : Reads!OneOf(r) = OneOf(r)
<1>1. \A r, t : Reads!SqlItem(r, t) = SqlItem(r, t)
  BY SameRows DEF Reads!SqlItem, SqlItem
<1>2. \A s, r, t : Reads!SessionItem(s, r, t) = SessionItem(s, r, t)
  BY SameRows DEF Reads!SessionItem, SessionItem
<1>3. \A r, x : Reads!LastOf(r, x) = LastOf(r, x)
  BY SameRows DEF Reads!LastOf, LastOf
<1>4. \A r, x : Reads!Shown(r, x) = Shown(r, x)
  BY SameRows DEF Reads!Shown, Shown
<1>5. \A x : Reads!Risk(x) = Risk(x)
  BY DEF Reads!Risk, Risk
<1>6. \A b, x : Reads!Impact(b, x) = Impact(b, x)
  BY SameCardinality DEF Reads!Impact, Impact
<1>7. \A r : Reads!OneOf(r) = OneOf(r)
  BY SameRows DEF Reads!OneOf, OneOf
<1> QED
  BY <1>1, <1>2, <1>3, <1>4, <1>5, <1>6, <1>7

LEMMA SameLists ==
    /\ \A r, t : Reads!TopSqls(r, t) = TopSqls(r, t)
    /\ \A r, t : Reads!SqlList(r, t) = SqlList(r, t)
    /\ \A s, r, t, x : Reads!SessionList(s, r, t, x) = SessionList(s, r, t, x)
    /\ \A b, x : Reads!Chain(b, x) = Chain(b, x)
    /\ \A b : Reads!Chains(b) = Chains(b)
    /\ \A s, r, b, t : Reads!Dashboard(s, r, b, t) = Dashboard(s, r, b, t)
    /\ \A s, r, t : Reads!SessionDetail(s, r, t) = SessionDetail(s, r, t)
<1>1. \A r, t : Reads!TopSqls(r, t) = TopSqls(r, t)
  BY SameItems DEF Reads!TopSqls, TopSqls
<1>2. \A r, t : Reads!SqlList(r, t) = SqlList(r, t)
  BY SameItems, SameCardinality DEF Reads!SqlList, SqlList
<1>3. \A s, r, t, x : Reads!SessionList(s, r, t, x) = SessionList(s, r, t, x)
  BY ZenonT(60), SameItems, SameCardinality DEF Reads!SessionList, SessionList
<1>4. \A b, x : Reads!Chain(b, x) = Chain(b, x)
  BY ZenonT(60), SameItems, SameCardinality DEF Reads!Chain, Chain
<1>5. \A b : Reads!Chains(b) = Chains(b)
  BY <1>4 DEF Reads!Chains, Chains
<1>6. \A s, r, b, t : Reads!Dashboard(s, r, b, t) = Dashboard(s, r, b, t)
  BY <1>1, SameCardinality DEF Reads!Dashboard, Dashboard
<1>7. \A s, r, t : Reads!SessionDetail(s, r, t) = SessionDetail(s, r, t)
  BY SameItems DEF Reads!SessionDetail, SessionDetail
<1> QED
  BY <1>1, <1>2, <1>3, <1>4, <1>5, <1>6, <1>7

LEMMA SameBody ==
    ASSUME NEW q \in Question, NEW s, NEW r, NEW b, NEW t
    PROVE  Reads!Body(q, s, r, b, t) = Body(q, s, r, b, t)
<1>1. \A s1, r1, b1, t1 : Reads!Replay(s1, r1, b1, t1) = Replay(s1, r1, b1, t1)
  BY SameLists DEF Reads!Replay, Replay
<1>2. \A x, s1, r1, b1, t1 :
          Reads!KillTarget(x, s1, r1, b1, t1) = KillTarget(x, s1, r1, b1, t1)
  BY SameLists, SameItems DEF Reads!KillTarget, KillTarget
<1>3. CASE q.page = "dashboard"
  BY <1>3, SameLists DEF Reads!Body, Body
<1>4. CASE q.page = "sessions"
  BY <1>4, SameLists DEF Reads!Body, Body
<1>5. CASE q.page = "sqls"
  BY <1>5, SameLists DEF Reads!Body, Body
<1>6. CASE q.page = "blocking"
  BY <1>6, SameLists DEF Reads!Body, Body
<1>7. CASE q.page = "replay"
  BY <1>7, <1>1 DEF Reads!Body, Body
<1>8. CASE q.page = "session"
  BY <1>8, SameLists, SameRows DEF Reads!Body, Body
<1>9. CASE q.page = "target"
  BY <1>9, <1>2, SameRows DEF Reads!Body, Body
<1>10. CASE q.page = "sql"
  BY <1>10, SameItems, SameRows DEF Reads!Body, Body
<1> QED
  BY <1>3, <1>4, <1>5, <1>6, <1>7, <1>8, <1>9, <1>10 DEF Question, Pages

LEMMA SameReads ==
    /\ \A q, rows : Reads!SessionReads(q, rows) = SessionReads(q, rows)
    /\ \A q, rows : Reads!RequestReads(q, rows) = RequestReads(q, rows)
BY DEF Reads!SessionReads, SessionReads, Reads!RequestReads, RequestReads, Reads!SessionRows,
       SessionRows, Reads!RequestRows, RequestRows, Reads!FirstOf, FirstOf, Reads!None, None

LEMMA SameAnswers == \A q \in Question : \A c : Reads!Answers(q, c) = Answers(q, c)
BY SameRows, SameBody, SameReads DEF Reads!Answers, Answers

LEMMA SameQuestions ==
    Reads!Question = Question /\ Reads!NoQuestion = NoQuestion
BY DEF Reads!Question, Question, Reads!Pages, Pages, Reads!NoSql, NoSql, Reads!None, None,
       NoQuestion, Reads!NoQuestion

-----------------------------------------------------------------------------
(* Frames.                                                                 *)

\* What the abstract specification may choose among the first m frames.
LEMMA ChosenIsNewest ==
    ASSUME NEW q, NEW m
    PROVE  Reads!Chosen(q, m) = Newest(Reads!Allowed(q, m))
BY DEF Reads!Chosen, Newest

\* The frame a handler selects.
LEMMA SelectionIsChosen ==
    ASSUME frames \in Seq(Shape)
    PROVE  (IF question.page = "replay" THEN FrameBefore(question.time) ELSE LatestFrame)
               = Reads!Chosen(question, Len(frames))
<1>1. CASE question.page = "replay"
  <2>1. Reads!Allowed(question, Len(frames)) =
            {k \in Stored : frames[k].at <= question.time
                            /\ frames[k].at + MaxDelay >= question.time}
    BY <1>1 DEF Reads!Allowed, Stored
  <2> QED
    BY <1>1, <2>1, ChosenIsNewest DEF FrameBefore
<1>2. CASE question.page # "replay"
  <2>1. Reads!Allowed(question, Len(frames)) = Stored
    BY <1>2 DEF Reads!Allowed, Stored
  <2> QED
    BY <1>2, <2>1, ChosenIsNewest DEF LatestFrame
<1> QED
  BY <1>1, <1>2

\* A choice among the frames there were is not changed by one more.
LEMMA ChoiceStays ==
    ASSUME frames \in Seq(Shape), NEW f \in Shape, frames' = Append(frames, f),
           NEW q, NEW m \in 0..Len(frames)
    PROVE  Reads!Chosen(q, m)' = Reads!Chosen(q, m)
<1>1. \A k \in 1..m : frames'[k] = frames[k]
  BY AppendProperties, LenProperties
<1>2. Reads!Allowed(q, m)' = Reads!Allowed(q, m)
  BY <1>1 DEF Reads!Allowed
<1> QED
  BY <1>2 DEF Reads!Chosen

LEMMA FrameFacts ==
    ASSUME frames \in Seq(Shape)
    PROVE  /\ Len(frames) \in Nat
           /\ \A k \in Stored : /\ frames[k] \in Shape /\ frames[k].at \in 1..MaxClock
                                /\ frames[k].content.rows \subseteq ResultRow
<1>1. Len(frames) \in Nat /\ \A k \in Stored : frames[k] \in Shape
  BY LenProperties, ElementOfSeq DEF Stored
<1>2. \A f \in Shape : f.at \in 1..MaxClock /\ f.content.rows \subseteq ResultRow
  BY DEF Shape
<1> QED
  BY <1>1, <1>2

\* What was to be chosen depends on the frames and the question only.
LEMMA ChosenStays ==
    ASSUME FrameChosen, UNCHANGED <<frames, question, known, plan, ref>>
    PROVE  FrameChosen'
<1>1. \A m : Reads!Allowed(question, m)' = Reads!Allowed(question, m)
  BY DEF Reads!Allowed
<1>2. \A m : Reads!Chosen(question, m)' = Reads!Chosen(question, m)
  <2>1. \A m : Reads!Chosen(question, m) = Newest(Reads!Allowed(question, m))
    BY DEF Reads!Chosen, Newest
  <2>2. \A m : Reads!Chosen(question, m)' = Newest(Reads!Allowed(question, m)')
    BY DEF Reads!Chosen, Newest
  <2> QED
    BY <1>1, <2>1, <2>2
<1>3. SUFFICES ASSUME question # NoQuestion, ref # 0 \/ plan = <<>>
               PROVE  \E m \in known'..Len(frames') : ref' = Reads!Chosen(question, m)'
  BY DEF FrameChosen
<1>4. PICK m \in known..Len(frames) : ref = Reads!Chosen(question, m)
  BY <1>3 DEF FrameChosen
<1>5. ref' = Reads!Chosen(question, m)'
  BY <1>2, <1>4
<1> QED
  BY <1>4, <1>5

\* The newest of a set of frames is one of them.
LEMMA NewestOf ==
    ASSUME NEW n \in Nat, NEW K \in SUBSET (1..n)
    PROVE  Newest(K) \in 0..n /\ (K # {} => Newest(K) \in K)
<1>1. CASE K = {}
  BY <1>1 DEF Newest
<1>2. CASE K # {}
  <2> DEFINE Gaps == {n - k : k \in K}
  <2>1. Gaps \subseteq Nat /\ Gaps # {}
    <3>1. \A k \in K : n - k \in Nat
      OBVIOUS
    <3>2. Gaps \subseteq Nat
      BY <3>1
    <3>3. Gaps # {}
      BY <1>2
    <3> QED
      BY <3>2, <3>3
  <2>2. PICK x \in Gaps : \A y \in Gaps : ~(<<y, x>> \in OpToRel(<, Nat))
    BY <2>1, WFMin, NatLessThanWellFounded
  <2>3. \A y \in Gaps : x <= y
    <3>1. \A a, b \in Nat : a < b => <<a, b>> \in OpToRel(<, Nat)
      BY DEF OpToRel
    <3>2. SUFFICES ASSUME NEW y \in Gaps PROVE ~(y < x)
      BY <2>1
    <3> QED
      BY <2>1, <2>2, <3>1
  <2>4. PICK k \in K : x = n - k
    BY <2>2
  <2>5. \A j \in K : j <= k
    <3>1. SUFFICES ASSUME NEW j \in K PROVE j <= k
      OBVIOUS
    <3>2. n - j \in Gaps
      OBVIOUS
    <3>3. n - k <= n - j
      BY <2>3, <2>4, <3>2
    <3>4. j \in Nat /\ k \in Nat
      OBVIOUS
    <3> HIDE DEF Gaps
    <3> QED
      BY <3>3, <3>4
  <2>6. Newest(K) \in K
    BY <1>2, <2>5 DEF Newest
  <2>7. \A j \in K : j \in 0..n
    OBVIOUS
  <2> QED
    BY <2>6, <2>7
<1> QED
  BY <1>1, <1>2

-----------------------------------------------------------------------------
(* The invariant, action by action.                                        *)

LEMMA NoQuestionIsNone == NoQuestion \notin Question
BY DEF NoQuestion, Reads!NoQuestion, Question, Pages

LEMMA EmptyPlan == Ordered(<<>>) /\ <<>> \in Seq(Statements) /\ Len(<<>>) = 0
BY EmptySeq DEF Ordered

LEMMA InitInv == Init => QueryInv
<1> SUFFICES ASSUME Init PROVE QueryInv
  OBVIOUS
<1> USE DEF Init
<1>1. TypeOK
  BY EmptyPlan DEF TypeOK, NoTrend, NoAnswer
<1>2. frames \in Seq(Shape) /\ TextsStored
  BY EmptyPlan, EmptySeq DEF TextsStored, Stored
<1>3. HandlerAtWork /\ FrameChosen /\ ReadFromFrame
  BY DEF HandlerAtWork, FrameChosen, ReadFromFrame
<1> QED
  BY <1>1, <1>2, <1>3 DEF QueryInv

LEMMA TickInv ==
    ASSUME QueryInv, Tick \/ StartCollection \/ AbandonCollection
    PROVE  QueryInv'
<1> USE DEF QueryInv
<1>1. UNCHANGED <<frames, texts, handler, answer>>
  BY DEF Tick, StartCollection, AbandonCollection
<1>2. TypeOK'
  BY <1>1 DEF Tick, StartCollection, AbandonCollection, TypeOK, handler
<1>3. TextsStored' /\ HandlerAtWork' /\ (frames \in Seq(Shape))'
  BY <1>1 DEF TextsStored, Stored, HandlerAtWork, handler
<1>4. FrameChosen'
  BY <1>1, ChosenStays DEF handler
<1>5. ReadFromFrame'
  BY <1>1 DEF ReadFromFrame, Gathered, Missing, RowsOfFrame, handler
<1> QED
  BY <1>2, <1>3, <1>4, <1>5

\* A new frame comes with its texts and leaves what handlers read where it was.
LEMMA CommitInv ==
    ASSUME QueryInv, NEW x \in Samples, CommitFrame(x)
    PROVE  QueryInv'
<1> DEFINE f == [at |-> taken, content |-> x.content, sent |-> x.sent, lost |-> x.lost,
                 known |-> x.known, total |-> LastTotal + x.sent - x.lost]
<1> USE DEF QueryInv
<1>1. frames' = Append(frames, f) /\ UNCHANGED <<clock, handler, answer>> /\ taken' = 0
      /\ texts' = texts \cup TextsOf(x.content.rows)
  BY DEF CommitFrame, StoredTexts
<1>2. Len(frames) \in Nat
  BY FrameFacts
<1>3. f \in Shape
  <2>1. LastTotal \in Nat
    <3>1. CASE frames = <<>>
      BY <3>1 DEF LastTotal
    <3>2. CASE frames # <<>>
      <4>1. frames[Len(frames)] \in Shape
        BY <3>2, EmptySeq, FrameFacts DEF Stored
      <4> QED
        BY <3>2, <4>1 DEF LastTotal, Shape
    <3> QED
      BY <3>1, <3>2
  <2>2. x.sent \in Nat /\ x.lost \in Nat /\ x.known \in BOOLEAN /\ x.lost <= LastTotal + x.sent
    BY DEF CommitFrame
  <2>3. taken \in 1..MaxClock
    BY DEF CommitFrame, TypeOK
  <2>4. LastTotal + x.sent - x.lost \in Nat
    BY <2>1, <2>2
  <2> QED
    BY <2>2, <2>3, <2>4 DEF Shape
<1>4. /\ frames' \in Seq(Shape) /\ Len(frames') = Len(frames) + 1
      /\ \A k \in 1..Len(frames) : frames'[k] = frames[k]
      /\ frames'[Len(frames) + 1] = f
  BY <1>1, <1>3, AppendProperties
<1>5. TypeOK'
  <2>1. \A k \in 1..Len(frames') : frames'[k].at \in 1..MaxClock
    <3>1. \A k \in 1..Len(frames') : frames'[k] \in Shape
      BY <1>4, ElementOfSeq
    <3>2. \A g \in Shape : g.at \in 1..MaxClock
      BY DEF Shape
    <3> QED
      BY <3>1, <3>2
  <2>2. texts' \subseteq Hashes
    <3>1. x.content.rows \subseteq ResultRow
      OBVIOUS
    <3>2. TextsOf(x.content.rows) \subseteq Hashes
      BY <3>1 DEF TextsOf, ResultRow
    <3> QED
      BY <1>1, <3>2 DEF TypeOK
  <2>3. /\ known' \in 0..Len(frames') /\ ref' \in 0..Len(frames')
        /\ trend' \in [points : SUBSET (1..Len(frames')), before : 0..Len(frames')]
        /\ answer'.frame \in 0..Len(frames')
    <3>1. 1..Len(frames) \subseteq 1..Len(frames') /\ 0..Len(frames) \subseteq 0..Len(frames')
      BY <1>2, <1>4
    <3> QED
      BY <1>1, <3>1 DEF TypeOK, handler
  <2> QED
    BY SMTT(30), <1>1, <2>1, <2>2, <2>3 DEF TypeOK, handler
<1>6. TextsStored'
  BY <1>1, <1>2, <1>4 DEF TextsStored, Stored
<1>7. HandlerAtWork'
  BY <1>1 DEF HandlerAtWork, handler
<1>8. FrameChosen'
  <2>1. question' = question /\ ref' = ref /\ plan' = plan /\ known' = known
    BY <1>1 DEF handler
  <2>2. SUFFICES ASSUME question # NoQuestion, ref # 0 \/ plan = <<>>
                 PROVE  \E m \in known..Len(frames') : ref = Reads!Chosen(question, m)'
    BY <2>1 DEF FrameChosen
  <2>3. PICK q : q = question
    OBVIOUS
  <2>4. PICK m \in known..Len(frames) : ref = Reads!Chosen(q, m)
    BY <2>2, <2>3 DEF FrameChosen
  <2>5. m \in 0..Len(frames) /\ m \in known..Len(frames')
    BY <1>2, <1>4 DEF TypeOK
  <2>6. Reads!Chosen(q, m)' = ref
    BY <1>1, <1>3, <2>4, <2>5, ChoiceStays
  <2>7. Reads!Chosen(question, m)' = Reads!Chosen(q, m)'
    BY <2>1, <2>3
  <2> QED
    BY <2>5, <2>6, <2>7
<1>9. ReadFromFrame'
  <2>1. ref # 0 => RowsOfFrame' = RowsOfFrame
    BY <1>1, <1>4 DEF TypeOK, RowsOfFrame, handler
  <2> QED
    BY <1>1, <2>1 DEF ReadFromFrame, Gathered, Missing, handler
<1> QED
  BY <1>4, <1>5, <1>6, <1>7, <1>8, <1>9

LEMMA AskInv ==
    ASSUME QueryInv, NEW q \in Questions, Ask(q)
    PROVE  QueryInv'
<1> USE DEF QueryInv
<1>1. /\ q \in Question /\ q.page \in Pages /\ question' = q /\ known' = Len(frames)
      /\ plan' = Plan(q.page) /\ answer' = NoAnswer
      /\ UNCHANGED <<clock, taken, frames, texts, ref, S, R, B, T, trend>>
  BY DEF Ask, Question, store
<1>2. ref = 0
  BY DEF Ask, HandlerAtWork
<1>3. plan' \in Seq(Statements) /\ plan' # <<>>
  BY <1>1, PlanShape
<1>4. TypeOK'
  <2>1. \A k \in 1..Len(plan') : plan'[k] \in Statements
    BY <1>3, ElementOfSeq
  <2>2. answer'.frame = 0 /\ known' \in 0..Len(frames') /\ Len(frames) \in Nat
    BY <1>1, FrameFacts DEF NoAnswer
  <2>3. 0 \in 0..Len(frames')
    BY <1>1, <2>2
  <2> QED
    BY <1>1, <2>1, <2>2, <2>3 DEF TypeOK
<1>5. TextsStored' /\ (frames \in Seq(Shape))'
  BY <1>1 DEF TextsStored, Stored
<1>6. HandlerAtWork'
  BY <1>1, <1>2, NoQuestionIsNone DEF HandlerAtWork
<1>7. FrameChosen' /\ ReadFromFrame'
  BY <1>1, <1>2, <1>3 DEF FrameChosen, ReadFromFrame
<1> QED
  BY <1>4, <1>5, <1>6, <1>7

\* The frame is selected among those there are, and the rest of the plan reads it.
LEMMA SelectInv ==
    ASSUME QueryInv, SelectFrame
    PROVE  QueryInv'
<1> USE DEF QueryInv
<1>1. question # NoQuestion /\ question \in Question /\ question.page \in Pages
  BY DEF SelectFrame, HandlerAtWork, Question
<1>2. ref = 0 /\ plan = Plan(question.page) /\ S = {} /\ R = {} /\ B = {} /\ T = {}
  <2>1. ref = 0
    <3>1. SUFFICES ASSUME ref # 0 PROVE FALSE
      OBVIOUS
    <3>2. Ordered(plan) /\ plan # <<>> /\ Head(plan) = "frame"
      BY <3>1 DEF HandlerAtWork, SelectFrame
    <3> QED
      BY <3>2, TailKeeps
  <2> QED
    BY <2>1 DEF HandlerAtWork, SelectFrame
<1>3. /\ ref' = Reads!Chosen(question, Len(frames))
      /\ plan' = IF ref' = 0 THEN <<>> ELSE Rest(question.page)
      /\ UNCHANGED <<store, question, known, answer, S, R, B, T, trend>>
  BY <1>1, <1>2, SelectionIsChosen, PlanShape DEF SelectFrame
<1>4. ref' \in 0..Len(frames)
  <2>1. Reads!Allowed(question, Len(frames)) \subseteq 1..Len(frames) /\ Len(frames) \in Nat
    BY FrameFacts DEF Reads!Allowed
  <2> QED
    BY <1>3, <2>1, ChosenIsNewest, NewestOf
<1>5. Ordered(plan')
  BY <1>1, <1>3, RestShape, EmptyPlan
<1>6. TypeOK'
  <2>1. \A k \in 1..Len(plan') : plan'[k] \in Statements
    BY <1>5, ElementOfSeq DEF Ordered
  <2> QED
    BY <1>3, <1>4, <2>1 DEF TypeOK, store
<1>7. TextsStored' /\ (frames \in Seq(Shape))'
  BY <1>3 DEF TextsStored, Stored, store
<1>8. HandlerAtWork'
  BY <1>1, <1>2, <1>3, <1>5, RestShape DEF HandlerAtWork, store
<1>9. FrameChosen'
  <2>1. frames' = frames /\ question' = question /\ known' = known
    BY <1>3 DEF store
  <2>2. Reads!Chosen(question, Len(frames))' = Reads!Chosen(question, Len(frames))
    BY <2>1 DEF Reads!Chosen, Reads!Allowed
  <2>3. Len(frames) \in known..Len(frames)
    BY FrameFacts DEF TypeOK
  <2> QED
    BY <1>3, <2>1, <2>2, <2>3 DEF FrameChosen
<1>10. ReadFromFrame'
  <2>1. SUFFICES ASSUME ref' # 0 PROVE Gathered' /\ R' = {}
    BY DEF ReadFromFrame
  <2>2. plan' = Rest(question.page) /\ R' = {} /\ question' = question
    BY <1>2, <1>3, <2>1
  <2> QED
    BY <1>1, <2>2, RestShape DEF Gathered
<1> QED
  BY <1>6, <1>7, <1>8, <1>9, <1>10

\* What executing any other statement leaves in order.
LEMMA ExecuteInv ==
    ASSUME QueryInv, plan # <<>>, Head(plan) # "frame", plan' \in {<<>>, Tail(plan)},
           UNCHANGED <<store, question, known, answer, ref>>,
           S' \subseteq ResultRow /\ R' \subseteq ResultRow /\ T' \subseteq Hashes,
           trend' \in [points : SUBSET (1..Len(frames)), before : 0..Len(frames)]
    PROVE  /\ TypeOK' /\ (frames \in Seq(Shape))' /\ TextsStored' /\ HandlerAtWork' /\ FrameChosen'
           /\ ref # 0 /\ ref \in Stored /\ question \in Question
           /\ RowsOfFrame' = RowsOfFrame /\ question' = question
           /\ Ordered(plan)
<1> USE DEF QueryInv
<1>1. UNCHANGED <<clock, taken, frames, texts, question, known, answer>>
  BY DEF store
<1>2. question \in Question /\ question # NoQuestion /\ question.page \in Pages
  BY <1>1 DEF HandlerAtWork, Question
<1>3. ref # 0
  BY <1>1, <1>2, PlanShape DEF HandlerAtWork
<1>4. Ordered(plan) /\ Ordered(Tail(plan)) /\ ref \in Stored /\ Len(frames) \in Nat
  BY <1>1, <1>3, TailKeeps, FrameFacts DEF HandlerAtWork, TypeOK, Stored
<1>5. Ordered(plan')
  BY <1>1, <1>4, EmptyPlan
<1>6. TypeOK'
  <2>1. \A k \in 1..Len(plan') : plan'[k] \in Statements
    BY <1>5, ElementOfSeq DEF Ordered
  <2> QED
    BY <1>1, <2>1 DEF TypeOK
<1>7. TextsStored' /\ (frames \in Seq(Shape))' /\ RowsOfFrame' = RowsOfFrame
  BY <1>1 DEF TextsStored, Stored, RowsOfFrame
<1>8. HandlerAtWork'
  <2>1. \A names : Mentions(plan', names) => Mentions(plan, names)
    BY <1>1, <1>4, TailKeeps, NothingPlanned
  <2> QED
    BY <1>1, <1>2, <1>3, <1>5, <2>1 DEF HandlerAtWork
<1>9. FrameChosen'
  <2>1. FrameChosen /\ UNCHANGED <<frames, question, known, ref>> /\ ref # 0
    BY <1>1, <1>3
  <2>2. \A m : Reads!Chosen(question, m)' = Reads!Chosen(question, m)
    BY <2>1 DEF Reads!Chosen, Reads!Allowed
  <2> QED
    BY <2>1, <2>2 DEF FrameChosen
<1> QED
  BY <1>1, <1>2, <1>3, <1>4, <1>6, <1>7, <1>8, <1>9

\* A handler that has not ended still gathers.
LEMMA StillGathers ==
    ASSUME QueryInv, ref # 0, plan # <<>>
    PROVE  Gathered /\ R \subseteq RowsOfFrame.rows
BY DEF QueryInv, ReadFromFrame

LEMMA FrameRows ==
    ASSUME QueryInv, ref \in Stored
    PROVE  /\ RowsOfFrame.rows \subseteq ResultRow
           /\ TextsOf(RowsOfFrame.rows) \subseteq texts
BY FrameFacts DEF QueryInv, RowsOfFrame, TextsStored

LEMMA ReadSessionsInv ==
    ASSUME QueryInv, ReadSessions
    PROVE  QueryInv'
<1>1. PICK name \in SessionStatements, missing \in BOOLEAN :
          Executes(name, missing) /\ (missing => name = "session" /\ S' = {})
  BY DEF ReadSessions, SessionStatements
<1>2. /\ S' \in SessionReads(question, RowsOfFrame.rows) /\ ref # 0
      /\ UNCHANGED <<ref, R, B, T, trend>>
  BY DEF ReadSessions
<1>3. S' \subseteq ResultRow
  <2>1. ref \in Stored
    BY <1>2, FrameFacts DEF QueryInv, TypeOK, Stored
  <2> QED
    BY <1>2, <2>1, FrameRows, ReadsAreOfRows
<1>4. name # "frame"
  BY <1>1 DEF SessionStatements
<1>5. /\ TypeOK' /\ (frames \in Seq(Shape))' /\ TextsStored' /\ HandlerAtWork' /\ FrameChosen'
      /\ ref \in Stored /\ question \in Question
      /\ RowsOfFrame' = RowsOfFrame /\ question' = question
      /\ Ordered(plan) /\ plan # <<>> /\ Head(plan) = name
      /\ plan' = IF missing THEN <<>> ELSE Tail(plan)
  BY <1>1, <1>2, <1>3, <1>4, ExecuteInv DEF Executes, QueryInv, TypeOK
<1>6. Gathered /\ R \subseteq RowsOfFrame.rows
  BY <1>2, <1>5, StillGathers
<1>7. CASE missing
  <2>1. Mentions(plan, {"session"}) /\ question.page \in {"session", "target"}
    BY <1>1, <1>2, <1>5, <1>7, TailKeeps DEF QueryInv, HandlerAtWork
  <2>2. Missing'
    BY <1>1, <1>2, <1>5, <1>7, <2>1 DEF Missing
  <2> QED
    BY <1>2, <1>5, <1>6, <1>7, <2>2 DEF QueryInv, ReadFromFrame
<1>8. CASE ~missing
  <2>1. \A names : Mentions(plan, names) => name \in names \/ Mentions(plan', names)
    BY <1>5, <1>8, TailKeeps
  <2>2. name \notin RequestStatements \cup {"texts", "blocking"}
    BY <1>1 DEF SessionStatements, RequestStatements
  <2>3. Gathered'
    BY <1>2, <1>5, <1>6, <2>1, <2>2 DEF Gathered
  <2> QED
    BY <1>2, <1>5, <1>6, <2>3 DEF QueryInv, ReadFromFrame
<1> QED
  BY <1>7, <1>8

\* After requests their texts are read again.
LEMMA ReadRequestsInv ==
    ASSUME QueryInv, ReadRequests
    PROVE  QueryInv'
<1>1. PICK name \in RequestStatements, missing \in BOOLEAN :
          Executes(name, missing) /\ (missing => name = "hash" /\ R' = {})
  BY DEF ReadRequests, RequestStatements
<1>2. /\ R' \in RequestReads(question, RowsOfFrame.rows) /\ ref # 0
      /\ UNCHANGED <<ref, S, B, T, trend>>
  BY DEF ReadRequests
<1>3. R' \subseteq ResultRow /\ R' \subseteq RowsOfFrame.rows
  <2>1. ref \in Stored
    BY <1>2, FrameFacts DEF QueryInv, TypeOK, Stored
  <2> QED
    BY <1>2, <2>1, FrameRows, ReadsAreOfRows
<1>4. name # "frame"
  BY <1>1 DEF RequestStatements
<1>5. /\ TypeOK' /\ (frames \in Seq(Shape))' /\ TextsStored' /\ HandlerAtWork' /\ FrameChosen'
      /\ ref \in Stored /\ question \in Question
      /\ RowsOfFrame' = RowsOfFrame /\ question' = question
      /\ Ordered(plan) /\ plan # <<>> /\ Head(plan) = name
      /\ plan' = IF missing THEN <<>> ELSE Tail(plan)
  BY <1>1, <1>2, <1>3, <1>4, ExecuteInv DEF Executes, QueryInv, TypeOK
<1>6. Gathered
  BY <1>2, <1>5, StillGathers
<1>7. CASE missing
  <2>1. Mentions(plan, {"hash"}) /\ question.page = "sql"
    BY <1>1, <1>2, <1>5, <1>7, TailKeeps DEF QueryInv, HandlerAtWork
  <2>2. Missing'
    BY <1>1, <1>2, <1>5, <1>7, <2>1 DEF Missing
  <2> QED
    BY <1>2, <1>3, <1>5, <1>7, <2>2 DEF QueryInv, ReadFromFrame
<1>8. CASE ~missing
  <2>1. /\ \A names : Mentions(plan, names) => name \in names \/ Mentions(plan', names)
        /\ Mentions(plan', {"texts"})
    BY <1>1, <1>5, <1>8, TailKeeps
  <2>2. name \notin SessionStatements \cup {"blocking"}
    BY <1>1 DEF SessionStatements, RequestStatements
  <2>3. Gathered'
    BY <1>2, <1>5, <1>6, <2>1, <2>2 DEF Gathered
  <2> QED
    BY <1>2, <1>3, <1>5, <2>3 DEF QueryInv, ReadFromFrame
<1> QED
  BY <1>7, <1>8

\* The texts of the requests read are all there.
LEMMA ReadTextsInv ==
    ASSUME QueryInv, ReadTexts
    PROVE  QueryInv'
<1>1. Executes("texts", FALSE) /\ T' = TextsOf(R) \cap texts /\ UNCHANGED <<ref, S, R, B, trend>>
  BY DEF ReadTexts
<1>2. T' \subseteq Hashes
  BY <1>1 DEF QueryInv, TypeOK
<1>3. /\ TypeOK' /\ (frames \in Seq(Shape))' /\ TextsStored' /\ HandlerAtWork' /\ FrameChosen'
      /\ ref # 0 /\ ref \in Stored /\ question \in Question
      /\ RowsOfFrame' = RowsOfFrame /\ question' = question
      /\ Ordered(plan) /\ plan # <<>> /\ Head(plan) = "texts"
      /\ plan' = Tail(plan)
  BY <1>1, <1>2, ExecuteInv DEF Executes, QueryInv, TypeOK
<1>4. Gathered /\ R \subseteq RowsOfFrame.rows
  BY <1>3, StillGathers
<1>5. T' = TextsOf(R)
  <2>1. TextsOf(R) \subseteq TextsOf(RowsOfFrame.rows)
    BY <1>4 DEF TextsOf
  <2> QED
    BY <1>1, <1>3, <2>1, FrameRows
<1>6. \A names : Mentions(plan, names) => "texts" \in names \/ Mentions(plan', names)
  BY <1>3, TailKeeps
<1>7. Gathered'
  BY <1>1, <1>3, <1>4, <1>5, <1>6 DEF Gathered, SessionStatements, RequestStatements
<1> QED
  BY <1>1, <1>3, <1>4, <1>7 DEF QueryInv, ReadFromFrame

LEMMA ReadBlockingInv ==
    ASSUME QueryInv, ReadBlocking
    PROVE  QueryInv'
<1>1. Executes("blocking", FALSE) /\ B' = RowsOfFrame.edges /\ UNCHANGED <<ref, S, R, T, trend>>
  BY DEF ReadBlocking
<1>2. /\ TypeOK' /\ (frames \in Seq(Shape))' /\ TextsStored' /\ HandlerAtWork' /\ FrameChosen'
      /\ ref # 0 /\ question \in Question
      /\ RowsOfFrame' = RowsOfFrame /\ question' = question
      /\ Ordered(plan) /\ plan # <<>> /\ Head(plan) = "blocking"
      /\ plan' = Tail(plan)
  BY <1>1, ExecuteInv DEF Executes, QueryInv, TypeOK
<1>3. Gathered /\ R \subseteq RowsOfFrame.rows
  BY <1>2, StillGathers
<1>4. \A names : Mentions(plan, names) => "blocking" \in names \/ Mentions(plan', names)
  BY <1>2, TailKeeps
<1>5. Gathered'
  BY <1>1, <1>2, <1>3, <1>4 DEF Gathered, SessionStatements, RequestStatements
<1> QED
  BY <1>1, <1>2, <1>3, <1>5 DEF QueryInv, ReadFromFrame

\* Trends are gathered beside the rest.
LEMMA ReadTrendInv ==
    ASSUME QueryInv, ReadPoints \/ ReadBefore
    PROVE  QueryInv'
<1>1. PICK name \in {"points", "before"} :
          /\ Executes(name, FALSE)
          /\ UNCHANGED <<ref, S, R, B, T>>
  BY DEF ReadPoints, ReadBefore
<1>2. trend' \in [points : SUBSET (1..Len(frames)), before : 0..Len(frames)]
  <2>1. WindowFrames \in SUBSET (1..Len(frames))
    BY DEF WindowFrames, Stored
  <2>2. NewestOutside \in 0..Len(frames)
    BY NewestOf, FrameFacts DEF NewestOutside, Stored, QueryInv
  <2> QED
    BY <2>1, <2>2 DEF ReadPoints, ReadBefore, QueryInv, TypeOK
<1>3. /\ TypeOK' /\ (frames \in Seq(Shape))' /\ TextsStored' /\ HandlerAtWork' /\ FrameChosen'
      /\ ref # 0 /\ question \in Question
      /\ RowsOfFrame' = RowsOfFrame /\ question' = question
      /\ Ordered(plan) /\ plan # <<>> /\ Head(plan) = name
      /\ plan' = Tail(plan)
  BY <1>1, <1>2, ExecuteInv DEF Executes, QueryInv, TypeOK
<1>4. Gathered /\ R \subseteq RowsOfFrame.rows
  BY <1>3, StillGathers
<1>5. \A names : Mentions(plan, names) => name \in names \/ Mentions(plan', names)
  BY <1>3, TailKeeps
<1>6. name \notin SessionStatements \cup RequestStatements \cup {"texts", "blocking"}
  BY <1>1 DEF SessionStatements, RequestStatements
<1>7. Gathered'
  BY <1>1, <1>3, <1>4, <1>5, <1>6 DEF Gathered
<1> QED
  BY <1>1, <1>3, <1>4, <1>7 DEF QueryInv, ReadFromFrame

LEMMA AnswerInv ==
    ASSUME QueryInv, Answer
    PROVE  QueryInv'
<1> USE DEF QueryInv
<1>1. /\ question' = NoQuestion /\ ref' = 0 /\ plan' = <<>>
      /\ S' = {} /\ R' = {} /\ B' = {} /\ T' = {} /\ trend' = NoTrend
      /\ UNCHANGED <<clock, taken, frames, texts, known>>
      /\ answer'.frame = ref \/ answer'.frame = 0
  BY DEF Answer, store, NoAnswer
<1>2. TypeOK'
  <2>1. Len(frames) \in Nat /\ 0 \in 0..Len(frames)
    BY FrameFacts
  <2>2. trend' \in [points : SUBSET (1..Len(frames')), before : 0..Len(frames')]
    BY <1>1, <2>1 DEF NoTrend
  <2>3. answer'.frame \in 0..Len(frames') /\ known' \in 0..Len(frames')
    BY <1>1, <2>1 DEF TypeOK
  <2> QED
    BY SMTT(30), <1>1, <2>1, <2>2, <2>3, EmptyPlan DEF TypeOK
<1>3. TextsStored' /\ (frames \in Seq(Shape))'
  BY <1>1 DEF TextsStored, Stored
<1>4. HandlerAtWork' /\ FrameChosen' /\ ReadFromFrame'
  BY <1>1 DEF HandlerAtWork, FrameChosen, ReadFromFrame
<1> QED
  BY <1>2, <1>3, <1>4

LEMMA NextInv == QueryInv /\ [Next]_vars => QueryInv'
<1> SUFFICES ASSUME QueryInv, [Next]_vars PROVE QueryInv'
  OBVIOUS
<1>1. CASE UNCHANGED vars
  <2> USE DEF QueryInv
  <2>1. UNCHANGED <<frames, texts, question, known, plan, ref, S, R, B, T, trend, answer, clock, taken>>
    BY <1>1 DEF vars, store, handler
  <2>2. TypeOK' /\ TextsStored' /\ HandlerAtWork' /\ (frames \in Seq(Shape))'
    BY <2>1 DEF TypeOK, TextsStored, Stored, HandlerAtWork
  <2>3. FrameChosen'
    BY <2>1, ChosenStays
  <2>4. ReadFromFrame'
    BY <2>1 DEF ReadFromFrame, Gathered, Missing, RowsOfFrame
  <2> QED
    BY <2>2, <2>3, <2>4
<1>2. CASE Next
  BY <1>2, TickInv, CommitInv, AskInv, SelectInv, ReadSessionsInv, ReadRequestsInv,
     ReadBlockingInv, ReadTextsInv, ReadTrendInv, AnswerInv DEF Next, Read
<1> QED
  BY <1>1, <1>2

-----------------------------------------------------------------------------
(* The refinement.                                                         *)

LEMMA InitImplements == Init => Reads!Init
BY SameRows, SameQuestions DEF Init, Reads!Init, Reads!NoAnswer, NoAnswer

LEMMA CommitImplements ==
    ASSUME QueryInv, NEW x \in Samples, CommitFrame(x)
    PROVE  Reads!Commit
<1>1. PICK f : frames' = Append(frames, f)
  BY DEF CommitFrame
<1>2. frames \in Seq(Shape \cup {f})
  BY SeqMonotonic DEF QueryInv
<1>3. Len(frames') = Len(frames) + 1 /\ \A k \in 1..Len(frames) : frames'[k] = frames[k]
  BY <1>1, <1>2, AppendProperties
<1> QED
  BY <1>3 DEF CommitFrame, handler, Reads!Commit

LEMMA AskImplements ==
    ASSUME QueryInv, NEW q \in Questions, Ask(q)
    PROVE  Reads!Ask
BY SameQuestions, SameRows DEF Ask, store, NoAnswer, Reads!Ask, Reads!NoAnswer

\* The answer is that of the moment when the frame was selected.
LEMMA AnswerImplements ==
    ASSUME QueryInv, Answer
    PROVE  Reads!Reply
<1>1. /\ question # NoQuestion /\ question \in Question /\ plan = <<>>
      /\ question' = NoQuestion /\ UNCHANGED <<frames, known>>
  BY DEF Answer, store, QueryInv, HandlerAtWork
<1>2. PICK m \in known..Len(frames) : ref = Reads!Chosen(question, m)
  BY <1>1 DEF QueryInv, FrameChosen
<1>3. [frame |-> answer'.frame, body |-> answer'.body] \in Reads!AnswersAt(question, m)
  <2>1. CASE ref = 0
    BY <1>2, <2>1, SameRows DEF Answer, NoAnswer, Reads!AnswersAt, Reads!NoAnswer
  <2>2. CASE ref # 0
    <3> DEFINE body == Body(question, S, R, B, T)
    <3>1. answer' = [frame |-> ref, body |-> body, trend |-> Trends(trend)]
      BY <2>2 DEF Answer
    <3>2. Gathered \/ Missing
      BY <2>2 DEF QueryInv, ReadFromFrame
    <3>3. body \in Answers(question, frames[ref].content)
      <4>1. CASE Missing
        BY <1>1, <4>1, MissingIsAnswer DEF Missing, RowsOfFrame
      <4>2. CASE Gathered
        BY <1>1, <4>2, BodyIsAnswer, NothingPlanned DEF Gathered, RowsOfFrame
      <4> QED
        BY <3>2, <4>1, <4>2
    <3>4. Reads!Answers(question, frames[ref].content) = Answers(question, frames[ref].content)
      BY <1>1, SameAnswers
    <3>5. Reads!AnswersAt(question, m) =
              {[frame |-> ref, body |-> b] : b \in Answers(question, frames[ref].content)}
      BY <1>2, <2>2, <3>4 DEF Reads!AnswersAt
    <3> HIDE DEF body
    <3> QED
      BY <3>1, <3>3, <3>5
  <2> QED
    BY <2>1, <2>2
<1> QED
  BY <1>1, <1>2, <1>3, SameQuestions DEF Reads!Reply

LEMMA StepImplements ==
    QueryInv /\ [Next]_vars => [Reads!Next]_(Reads!readVars)
<1> SUFFICES ASSUME QueryInv, [Next]_vars
             PROVE  [Reads!Next]_(Reads!readVars)
  OBVIOUS
<1>1. CASE UNCHANGED <<frames, question, known, answer>>
  BY <1>1 DEF Reads!readVars
<1>2. CASE \E x \in Samples : CommitFrame(x)
  BY <1>2, CommitImplements DEF Reads!Next
<1>3. CASE \E q \in Questions : Ask(q)
  BY <1>3, AskImplements DEF Reads!Next
<1>4. CASE Answer
  BY <1>4, AnswerImplements DEF Reads!Next
<1>5. Read \/ Tick \/ StartCollection \/ AbandonCollection \/ UNCHANGED vars =>
          UNCHANGED <<frames, question, known, answer>>
  BY DEF Read, SelectFrame, ReadSessions, ReadRequests, ReadBlocking, ReadTexts, ReadPoints,
         ReadBefore, Executes, Tick, StartCollection, AbandonCollection, store, handler, vars
<1> QED
  BY <1>1, <1>2, <1>3, <1>4, <1>5 DEF Next

-----------------------------------------------------------------------------
(* The theorems.                                                           *)

\* The invariant holds in every reachable state.
THEOREM InvariantHolds == Spec => []QueryInv
BY InitInv, NextInv, PTL DEF Spec

\* Statements, rows and texts keep their types.
THEOREM TypeCorrect == Spec => []TypeOK
<1>1. QueryInv => TypeOK
  BY DEF QueryInv
<1> QED
  BY <1>1, InvariantHolds, PTL

\* Every page is that of one frame at one moment of its request, for any sessions
\* and requests, any frames, and any number of collections meanwhile.
THEOREM PagesImplemented == Spec => ImplementsFrameReads
<1>1. Spec => Reads!Spec
  BY InitImplements, StepImplements, InvariantHolds, PTL DEF Spec, Reads!Spec
<1> QED
  BY <1>1 DEF ImplementsFrameReads

\* The pages of every stored frame without parallel requests agree, for any rows,
\* cycles of waiting sessions and tails behind them included.
THEOREM PagesTellOneStory == Spec => []PagesAgree
<1>1. QueryInv => PagesAgree
  <2> SUFFICES ASSUME QueryInv, NEW k \in Stored, Single(frames[k].content.rows)
               PROVE  Agree(frames[k].content)
    BY DEF PagesAgree
  <2> DEFINE content == frames[k].content
  <2>1. frames[k] \in Shape
    BY FrameFacts DEF QueryInv
  <2>2. PICK x \in Samples : content = x.content
    BY <2>1 DEF Shape
  <2>3. Plain(content.rows) /\ content \in Contents(content.rows)
    BY <2>2, SamplesAssumption DEF Plain
  <2> QED
    BY <2>3, ContentAgrees
<1> QED
  BY <1>1, InvariantHolds, PTL

-----------------------------------------------------------------------------
(* The resource trends.                                                    *)

HIDE SamplesAssumption

\* Frames are stored in the order of their times, and the next comes later.
TimesRise ==
    /\ \A j, k \in Stored : j < k => frames[j].at < frames[k].at
    /\ taken # 0 => \A k \in Stored : frames[k].at < taken

\* Each total is the one before it, with what was sent and without what was lost.
TotalsAdd ==
    \A k \in Stored : k - 1 \in Stored =>
        frames[k].total = frames[k - 1].total + frames[k].sent - frames[k].lost

WindowUpTo(n) == {k \in 1..n : frames[k].at + Window >= frames[ref].at}

\* What a page with trends has not planned any more it has read: the frames of the
\* window up to some later moment, and the newest outside it.
TrendFound ==
    /\ ref = 0 => trend = NoTrend
    /\ ref # 0 /\ question.page \notin {"dashboard", "replay"} =>
           trend.points = {} /\ ~Mentions(plan, {"points"})
    /\ ref # 0 /\ question.page \in {"dashboard", "replay"} =>
           /\ \/ Mentions(plan, {"points"})
              \/ \E n \in ref..Len(frames) : trend.points = WindowUpTo(n)
           /\ Mentions(plan, {"before"}) \/ trend.before = NewestOutside

TrendOfStored == answer.trend # {} => /\ answer.frame \in Stored
                                      /\ \A p \in answer.trend : p.frame \in Stored

TrendInv == QueryInv /\ TimesRise /\ TotalsAdd /\ TrendFound /\ TrendOfStored /\ TrendReachesBack

-----------------------------------------------------------------------------
(* Facts about trends.                                                     *)

\* The newest of a set is its greatest.
LEMMA NewestIs ==
    ASSUME NEW K \in SUBSET Nat, NEW m \in K, \A j \in K : j <= m
    PROVE  Newest(K) = m
<1>1. K # {} /\ \A x \in K : (\A j \in K : j <= x) => x = m
  OBVIOUS
<1>2. Newest(K) \in K /\ \A j \in K : j <= Newest(K)
  BY <1>1 DEF Newest
<1> QED
  BY <1>1, <1>2

\* Stored frames are ordered by their times.
LEMMA TimeOrders ==
    ASSUME QueryInv, TimesRise, NEW j \in Stored, NEW k \in Stored, frames[j].at < frames[k].at
    PROVE  j < k
<1>1. Len(frames) \in Nat /\ j \in Nat /\ k \in Nat
      /\ frames[j].at \in Nat /\ frames[k].at \in Nat
  BY FrameFacts DEF QueryInv, Stored
<1>2. SUFFICES ASSUME k <= j PROVE FALSE
  BY <1>1
<1>3. CASE k = j
  BY <1>1, <1>3
<1>4. CASE k < j
  BY <1>1, <1>4 DEF TimesRise
<1> QED
  BY <1>1, <1>2, <1>3, <1>4

\* Each frame of the window is measured against the frame before it.
LEMMA PreviousIsBefore ==
    ASSUME QueryInv, TimesRise, ref \in Stored, NEW n \in ref..Len(frames),
           NEW k \in WindowUpTo(n)
    PROVE  Newest({j \in WindowUpTo(n) : j < k} \cup ({NewestOutside} \ {0})) = k - 1
<1> DEFINE Outside == {j \in Stored : frames[j].at + Window < frames[ref].at}
           K == {j \in WindowUpTo(n) : j < k} \cup ({NewestOutside} \ {0})
<1>1. /\ Len(frames) \in Nat /\ k \in Stored /\ ref \in Stored /\ n \in Nat
      /\ \A j \in Stored : frames[j].at \in Nat /\ j \in Nat
      /\ 1..n \subseteq Stored /\ k \in 1..n
      /\ frames[k].at + Window >= frames[ref].at
  BY FrameFacts DEF QueryInv, Stored, WindowUpTo
<1>2. \A j \in Outside : j < k
  <2> SUFFICES ASSUME NEW j \in Outside PROVE j < k
    OBVIOUS
  <2>1. j \in Stored /\ frames[j].at + Window < frames[ref].at
    OBVIOUS
  <2>2. /\ frames[j].at \in Nat /\ frames[k].at \in Nat /\ frames[ref].at \in Nat
        /\ Window \in Nat /\ frames[k].at + Window >= frames[ref].at
    BY <1>1, <2>1, BoundsAssumption
  <2>3. \A a, b, c, w \in Nat : a + w < c /\ b + w >= c => a < b
    OBVIOUS
  <2>4. frames[j].at < frames[k].at
    <3> HIDE DEF Outside
    <3> QED
      BY <2>1, <2>2, <2>3
  <2> QED
    BY <1>1, <2>1, <2>4, TimeOrders
<1>3. NewestOutside = Newest(Outside)
  BY DEF NewestOutside
<1>4. (NewestOutside = 0 /\ Outside = {}) \/ NewestOutside \in Outside
  <2>1. Outside \in SUBSET (1..Len(frames))
    BY DEF Stored
  <2> QED
    BY <1>1, <1>3, <2>1, NewestOf DEF Newest
<1>5. \A j \in K : j \in 1..(k - 1)
  <2>1. \A j \in Outside : j \in 1..(k - 1)
    BY <1>1, <1>2 DEF Stored
  <2>2. \A j \in WindowUpTo(n) : j < k => j \in 1..(k - 1)
    BY <1>1 DEF WindowUpTo
  <2> QED
    BY <1>4, <2>1, <2>2
<1> HIDE DEF K, Outside
<1>6. CASE k = 1
  <2>1. K = {}
    BY <1>5, <1>6
  <2> QED
    BY <1>6, <2>1 DEF Newest, K
<1>7. CASE k # 1
  <2>1. k - 1 \in Stored /\ k - 1 \in 1..n
    BY <1>1, <1>7 DEF Stored
  <2>2. k - 1 \in K
    <3>1. CASE frames[k - 1].at + Window >= frames[ref].at
      BY <1>1, <2>1, <3>1 DEF WindowUpTo, K
    <3>2. CASE frames[k - 1].at + Window < frames[ref].at
      <4>1. k - 1 \in Outside /\ Outside \subseteq Stored
        BY <2>1, <3>2 DEF Outside
      <4>2. Outside \in SUBSET Nat /\ \A j \in Outside : j <= k - 1
        BY <1>1, <1>2, <4>1
      <4>3. NewestOutside = k - 1
        BY <1>3, <4>1, <4>2, NewestIs
      <4> QED
        BY <1>1, <1>7, <4>3 DEF K
    <3>3. frames[k - 1].at \in Nat /\ frames[ref].at \in Nat
      BY <1>1, <2>1
    <3> QED
      BY <3>1, <3>2, <3>3
  <2>3. K \in SUBSET Nat /\ \A j \in K : j <= k - 1
    BY <1>1, <1>5
  <2>4. Newest(K) = k - 1
    BY <2>2, <2>3, NewestIs
  <2> QED
    BY <2>4 DEF K
<1> QED
  BY <1>6, <1>7

-----------------------------------------------------------------------------
(* The invariant, action by action.                                        *)

LEMMA InitTrend == Init => TrendInv
<1> SUFFICES ASSUME Init PROVE TrendInv
  OBVIOUS
<1>1. QueryInv
  BY InitInv
<1>2. frames = <<>> /\ taken = 0 /\ ref = 0 /\ trend = NoTrend /\ answer.trend = {} /\ Stored = {}
  BY DEF Init, NoAnswer, Stored
<1> QED
  BY <1>1, <1>2 DEF TrendInv, TimesRise, TotalsAdd, TrendFound, TrendOfStored, TrendReachesBack, NoAnswer

\* What a step that stores no frame leaves in order.
LEMMA StoreKept ==
    ASSUME TrendInv, UNCHANGED <<frames, taken>>
    PROVE  TimesRise' /\ TotalsAdd'
BY DEF TrendInv, TimesRise, TotalsAdd, Stored

\* What a step that answers nothing leaves in order.
LEMMA AnswerKept ==
    ASSUME TrendInv, UNCHANGED <<frames, answer>>
    PROVE  TrendOfStored' /\ TrendReachesBack'
BY DEF TrendInv, TrendOfStored, TrendReachesBack, Stored

LEMMA TickTrend ==
    ASSUME TrendInv, Tick \/ StartCollection \/ AbandonCollection
    PROVE  TrendInv'
<1>1. UNCHANGED <<frames, question, plan, ref, trend, answer>>
  BY DEF Tick, StartCollection, AbandonCollection, handler
<1>2. QueryInv'
  BY TickInv DEF TrendInv
<1>3. TimesRise' /\ TotalsAdd'
  <2>1. CASE Tick
    BY <2>1, StoreKept DEF Tick
  <2>2. CASE AbandonCollection
    BY <2>2 DEF AbandonCollection, TrendInv, TimesRise, TotalsAdd, Stored
  <2>3. CASE StartCollection
    <3>1. ASSUME NEW k \in Stored PROVE frames[k].at < clock
      <4>1. Len(frames) \in Stored /\ k \in Nat /\ Len(frames) \in Nat /\ k <= Len(frames)
            /\ frames[k].at \in Nat /\ frames[Len(frames)].at \in Nat
        BY FrameFacts DEF TrendInv, QueryInv, Stored
      <4>2. frames[Len(frames)].at < clock /\ clock \in Nat
        BY <2>3, <4>1, EmptySeq DEF StartCollection, TrendInv, QueryInv, TypeOK, Stored
      <4> QED
        BY <4>1, <4>2 DEF TrendInv, TimesRise
    <3> QED
      BY <1>1, <2>3, <3>1 DEF StartCollection, TrendInv, TimesRise, TotalsAdd, Stored
  <2> QED
    BY <2>1, <2>2, <2>3
<1>4. TrendFound'
  BY <1>1 DEF TrendInv, TrendFound, WindowUpTo, NewestOutside, Stored
<1> QED
  BY <1>1, <1>2, <1>3, <1>4, AnswerKept DEF TrendInv

\* A frame that is committed is later than all and outside no window there is.
LEMMA CommitTrend ==
    ASSUME TrendInv, NEW x \in Samples, CommitFrame(x)
    PROVE  TrendInv'
<1> DEFINE n == Len(frames)
<1> USE DEF TrendInv
<1>1. QueryInv'
  BY CommitInv
<1>2. /\ frames' = Append(frames, [at |-> taken, content |-> x.content, sent |-> x.sent,
                                   lost |-> x.lost, known |-> x.known,
                                   total |-> LastTotal + x.sent - x.lost])
      /\ UNCHANGED <<question, plan, ref, trend, answer>> /\ taken' = 0 /\ taken # 0
  BY DEF CommitFrame, handler
<1>3. /\ frames \in Seq(Shape) /\ frames' \in Seq(Shape) /\ n \in Nat
      /\ \A k \in Stored : frames[k].at \in Nat /\ k \in Nat
      /\ Stored = 1..n /\ taken \in Nat
  BY SMTT(30), <1>1, FrameFacts DEF QueryInv, TypeOK, Stored
<1>4. /\ Len(frames') = n + 1 /\ \A k \in 1..n : frames'[k] = frames[k]
      /\ frames'[n + 1] = [at |-> taken, content |-> x.content, sent |-> x.sent,
                           lost |-> x.lost, known |-> x.known,
                           total |-> LastTotal + x.sent - x.lost]
  <2>1. Len(frames') = Len(frames) + 1 /\ \A k \in 1..Len(frames) : frames'[k] = frames[k]
    BY <1>2, <1>3, AppendProperties
  <2> QED
    BY <1>2, <1>3, <2>1, AppendProperties
<1>5. Stored' = 1..(n + 1)
  BY <1>4 DEF Stored
<1> HIDE DEF n
<1>6. TimesRise'
  <2>1. ASSUME NEW j \in 1..(n + 1), NEW k \in 1..(n + 1), j < k
        PROVE  frames'[j].at < frames'[k].at
    <3>1. j \in 1..n /\ frames'[j] = frames[j]
      BY <1>3, <1>4, <2>1
    <3>2. CASE k = n + 1
      BY <1>2, <1>3, <1>4, <3>1, <3>2 DEF TimesRise
    <3>3. CASE k # n + 1
      <4>1. k \in 1..n /\ frames'[k] = frames[k]
        BY <1>3, <1>4, <3>3
      <4> QED
        BY <1>3, <2>1, <3>1, <4>1 DEF TimesRise
    <3> QED
      BY <3>2, <3>3
  <2> QED
    BY <1>2, <1>5, <2>1 DEF TimesRise
<1>7. TotalsAdd'
  <2>1. ASSUME NEW k \in 1..(n + 1), k - 1 \in 1..(n + 1)
        PROVE  frames'[k].total = frames'[k - 1].total + frames'[k].sent - frames'[k].lost
    <3>1. k - 1 \in 1..n /\ frames'[k - 1] = frames[k - 1]
      BY <1>3, <1>4, <2>1
    <3>2. CASE k = n + 1
      <4>1. frames # <<>> /\ LastTotal = frames[n].total
        BY <1>3, <3>1, EmptySeq DEF LastTotal, n
      <4>2. k - 1 = n
        BY <1>3, <3>2
      <4> QED
        BY <1>4, <3>1, <3>2, <4>1, <4>2
    <3>3. CASE k # n + 1
      <4>1. k \in 1..n /\ frames'[k] = frames[k]
        BY <1>3, <1>4, <3>3
      <4> QED
        BY <1>3, <3>1, <4>1 DEF TotalsAdd
    <3> QED
      BY <3>2, <3>3
  <2> QED
    BY <1>5, <2>1 DEF TotalsAdd
<1>8. TrendFound'
  <2>1. CASE ref = 0
    BY <1>2, <2>1 DEF TrendFound
  <2>2. CASE ref # 0
    <3>1. ref \in 1..n /\ frames'[ref] = frames[ref] /\ frames[ref].at \in Nat
          /\ frames[ref].at < taken
      BY <1>2, <1>3, <1>4, <2>2 DEF QueryInv, TypeOK, TimesRise, n
    <3>2. \A m \in ref..n : WindowUpTo(m)' = WindowUpTo(m)
      BY <1>2, <1>3, <1>4, <3>1 DEF WindowUpTo
    <3>3. NewestOutside' = NewestOutside
      <4>1. {k \in 1..(n + 1) : frames'[k].at + Window < frames'[ref].at}
                = {k \in 1..n : frames[k].at + Window < frames[ref].at}
        <5>1. ~(frames'[n + 1].at + Window < frames'[ref].at)
          BY <1>3, <1>4, <3>1
        <5>2. \A k : k \in 1..(n + 1) <=> k \in 1..n \/ k = n + 1
          BY <1>3
        <5> QED
          BY <1>3, <1>4, <3>1, <5>1, <5>2
      <4> QED
        BY <1>2, <1>3, <1>5, <4>1 DEF NewestOutside
    <3>4. \A m \in ref..n : m \in ref..(n + 1)
      BY <1>3, <3>1
    <3> QED
      BY <1>2, <1>4, <2>2, <3>2, <3>3, <3>4 DEF TrendFound, n
  <2> QED
    BY <2>1, <2>2
<1>9. TrendOfStored' /\ TrendReachesBack'
  <2>1. CASE answer.trend = {}
    BY <1>2, <2>1 DEF TrendOfStored, TrendReachesBack
  <2>2. CASE answer.trend # {}
    <3>1. answer.frame \in 1..n /\ \A p \in answer.trend : p.frame \in 1..n
      BY <1>3, <2>2 DEF TrendOfStored
    <3>2. TrendOfStored'
      BY <1>2, <1>3, <1>5, <3>1 DEF TrendOfStored
    <3>3. \A k \in 1..answer.frame : k \in 1..n
      BY <1>3, <3>1
    <3>4. TrendReachesBack'
      BY <1>2, <1>4, <3>1, <3>3 DEF TrendReachesBack
    <3> QED
      BY <3>2, <3>4
  <2> QED
    BY <2>1, <2>2
<1> QED
  BY <1>1, <1>6, <1>7, <1>8, <1>9

\* A new question takes the last answer away.
LEMMA AskTrend ==
    ASSUME TrendInv, NEW q \in Questions, Ask(q)
    PROVE  TrendInv'
<1>1. /\ UNCHANGED <<frames, taken, ref, trend>> /\ answer'.trend = {} /\ ref = 0
  BY DEF Ask, store, NoAnswer, TrendInv, QueryInv, HandlerAtWork
<1>2. QueryInv'
  BY AskInv DEF TrendInv
<1>3. TrendFound' /\ TrendOfStored' /\ TrendReachesBack'
  BY <1>1 DEF TrendInv, TrendFound, TrendOfStored, TrendReachesBack
<1> QED
  BY <1>1, <1>2, <1>3, StoreKept DEF TrendInv

\* Only the dashboard and a replay plan to read trends.
LEMMA SelectTrend ==
    ASSUME TrendInv, SelectFrame
    PROVE  TrendInv'
<1>1. QueryInv'
  BY SelectInv DEF TrendInv
<1>2. ref = 0 /\ trend = NoTrend /\ question \in Question /\ question.page \in Pages
  <2>1. question \in Question /\ question.page \in Pages
    BY DEF SelectFrame, TrendInv, QueryInv, HandlerAtWork, Question
  <2>2. SUFFICES ASSUME ref # 0 PROVE FALSE
    BY <2>1 DEF TrendInv, TrendFound
  <2>3. Ordered(plan) /\ plan # <<>> /\ Head(plan) = "frame"
    BY <2>2 DEF SelectFrame, TrendInv, QueryInv, HandlerAtWork
  <2> QED
    BY <2>3, TailKeeps
<1>3. /\ UNCHANGED <<frames, taken, question, trend, answer>>
      /\ ref' # 0 => plan' = Rest(question.page)
  <2>1. plan = Plan(question.page)
    BY <1>2 DEF SelectFrame, TrendInv, QueryInv, HandlerAtWork
  <2> QED
    BY <1>2, <2>1, PlanShape DEF SelectFrame, store
<1>4. TrendFound'
  BY <1>2, <1>3, RestShape DEF TrendFound, NoTrend
<1> QED
  BY <1>1, <1>3, <1>4, StoreKept, AnswerKept DEF TrendInv

\* A statement of a handler that has a frame, by its name.
LEMMA StatementTrend ==
    ASSUME TrendInv, NEW name \in Statements, NEW missing \in BOOLEAN, Executes(name, missing),
           name # "frame"
    PROVE  /\ ref \in Stored /\ ref # 0 /\ UNCHANGED <<frames, taken, question, answer>>
           /\ \A names : Mentions(plan, names) => name \in names \/ Mentions(Tail(plan), names)
           /\ \A names : Mentions(Tail(plan), names) => Mentions(plan, names)
           /\ Mentions(plan, {name})
           /\ plan' = IF missing THEN <<>> ELSE Tail(plan)
<1>1. plan # <<>> /\ Head(plan) = name /\ UNCHANGED <<store, question, answer>>
      /\ plan' = IF missing THEN <<>> ELSE Tail(plan)
  BY DEF Executes
<1>2. question \in Question /\ question # NoQuestion /\ question.page \in Pages
  BY <1>1 DEF TrendInv, QueryInv, HandlerAtWork, Question
<1>3. ref # 0
  BY <1>1, <1>2, PlanShape DEF TrendInv, QueryInv, HandlerAtWork
<1>4. Ordered(plan) /\ ref \in Stored
  BY <1>3, FrameFacts DEF TrendInv, QueryInv, HandlerAtWork, TypeOK, Stored
<1> QED
  BY <1>1, <1>3, <1>4, TailKeeps DEF store

\* The other statements leave the trends alone; one that ends its handler is not
\* of a page with trends.
LEMMA OtherTrend ==
    ASSUME TrendInv, ReadSessions \/ ReadRequests \/ ReadBlocking \/ ReadTexts
    PROVE  TrendInv'
<1>1. QueryInv'
  BY ReadSessionsInv, ReadRequestsInv, ReadBlockingInv, ReadTextsInv DEF TrendInv
<1>2. PICK name \in Statements \ {"frame", "points", "before"}, missing \in BOOLEAN :
          Executes(name, missing) /\ (missing => name \in {"session", "hash"})
  BY DEF ReadSessions, ReadRequests, ReadBlocking, ReadTexts, Statements
<1>3. UNCHANGED <<ref, trend>>
  BY DEF ReadSessions, ReadRequests, ReadBlocking, ReadTexts
<1>4. /\ ref # 0 /\ UNCHANGED <<frames, taken, question, answer>>
      /\ \A names : Mentions(plan, names) => name \in names \/ Mentions(Tail(plan), names)
      /\ \A names : Mentions(Tail(plan), names) => Mentions(plan, names)
      /\ Mentions(plan, {name})
      /\ plan' = IF missing THEN <<>> ELSE Tail(plan)
  BY <1>2, StatementTrend
<1>5. missing => question.page \notin {"dashboard", "replay"}
  BY <1>2, <1>4 DEF TrendInv, QueryInv, HandlerAtWork
<1>6. TrendFound'
  <2>1. NewestOutside' = NewestOutside /\ \A n : WindowUpTo(n)' = WindowUpTo(n)
    BY <1>3, <1>4 DEF NewestOutside, WindowUpTo, Stored
  <2>2. CASE question.page \notin {"dashboard", "replay"}
    BY <1>3, <1>4, <2>2, NothingPlanned DEF TrendInv, TrendFound
  <2>3. CASE question.page \in {"dashboard", "replay"}
    <3>1. plan' = Tail(plan)
      BY <1>4, <1>5, <2>3
    <3>2. /\ Mentions(plan, {"points"}) => Mentions(Tail(plan), {"points"})
          /\ Mentions(plan, {"before"}) => Mentions(Tail(plan), {"before"})
      BY <1>2, <1>4
    <3>3. /\ Mentions(plan, {"points"}) \/ \E n \in ref..Len(frames) : trend.points = WindowUpTo(n)
          /\ Mentions(plan, {"before"}) \/ trend.before = NewestOutside
      BY <1>4, <2>3 DEF TrendInv, TrendFound
    <3> QED
      BY <1>3, <1>4, <2>1, <2>3, <3>1, <3>2, <3>3 DEF TrendFound
  <2> QED
    BY <2>2, <2>3
<1> QED
  BY <1>1, <1>4, <1>6, StoreKept, AnswerKept DEF TrendInv

\* The two statements that read trends.
LEMMA ReadTrend ==
    ASSUME TrendInv, ReadPoints \/ ReadBefore
    PROVE  TrendInv'
<1>1. QueryInv'
  BY ReadTrendInv DEF TrendInv
<1>2. PICK name \in {"points", "before"} :
          /\ Executes(name, FALSE) /\ ref' = ref
          /\ name = "points" => trend' = [trend EXCEPT !.points = WindowFrames]
          /\ name = "before" => trend' = [trend EXCEPT !.before = NewestOutside]
  BY DEF ReadPoints, ReadBefore
<1>3. name \in Statements /\ name # "frame"
  BY <1>2 DEF Statements
<1>4. PICK missing \in BOOLEAN : missing = FALSE
  OBVIOUS
<1>5. /\ ref \in Stored /\ ref # 0 /\ UNCHANGED <<frames, taken, question, answer>>
      /\ \A names : Mentions(plan, names) => name \in names \/ Mentions(Tail(plan), names)
      /\ \A names : Mentions(Tail(plan), names) => Mentions(plan, names)
      /\ Mentions(plan, {name})
      /\ plan' = Tail(plan)
  BY <1>2, <1>3, <1>4, StatementTrend
<1>6. trend \in [points : SUBSET (1..Len(frames)), before : 0..Len(frames)] /\ Len(frames) \in Nat
  BY FrameFacts DEF TrendInv, QueryInv, TypeOK
<1>7. NewestOutside' = NewestOutside /\ \A n : WindowUpTo(n)' = WindowUpTo(n)
  BY <1>2, <1>5 DEF NewestOutside, WindowUpTo, Stored
<1>8. TrendFound'
  <2>1. CASE question.page \notin {"dashboard", "replay"}
    <3>1. name = "before" /\ trend'.points = trend.points
      BY <1>2, <1>5, <1>6, <2>1 DEF TrendInv, TrendFound
    <3> QED
      BY <1>2, <1>5, <2>1, <3>1 DEF TrendInv, TrendFound
  <2>2. CASE question.page \in {"dashboard", "replay"}
    <3>1. CASE name = "points"
      <4>1. trend'.points = WindowUpTo(Len(frames)) /\ trend'.before = trend.before
        BY <1>2, <1>6, <3>1 DEF WindowFrames, WindowUpTo, Stored
      <4>2. Len(frames) \in ref..Len(frames)
        BY <1>5, <1>6 DEF Stored
      <4>3. Mentions(plan', {"before"}) \/ trend'.before = NewestOutside'
        BY <1>5, <1>7, <2>2, <3>1, <4>1 DEF TrendInv, TrendFound
      <4> QED
        BY <1>2, <1>5, <1>7, <2>2, <4>1, <4>2, <4>3 DEF TrendFound
    <3>2. CASE name = "before"
      <4>1. trend'.before = NewestOutside /\ trend'.points = trend.points
        BY <1>2, <1>6, <3>2
      <4>2. Mentions(plan', {"points"}) \/ \E n \in ref..Len(frames) : trend.points = WindowUpTo(n)
        BY <1>5, <2>2, <3>2 DEF TrendInv, TrendFound
      <4> QED
        BY <1>2, <1>5, <1>7, <2>2, <4>1, <4>2 DEF TrendFound
    <3> QED
      BY <1>2, <3>1, <3>2
  <2> QED
    BY <2>1, <2>2
<1> QED
  BY <1>1, <1>5, <1>8, StoreKept, AnswerKept DEF TrendInv

\* The answer's trends are those of the window.
LEMMA AnswerTrend ==
    ASSUME TrendInv, Answer
    PROVE  TrendInv'
<1>1. QueryInv'
  BY AnswerInv DEF TrendInv
<1>2. /\ plan = <<>> /\ ref' = 0 /\ trend' = NoTrend /\ UNCHANGED <<frames, taken>>
      /\ ref = 0 => answer'.trend = {}
      /\ ref # 0 => answer'.frame = ref /\ answer'.trend = Trends(trend)
  BY DEF Answer, store, NoAnswer
<1>3. TrendFound'
  BY <1>2 DEF TrendFound
<1>4. CASE answer'.trend = {}
  <2>1. TrendOfStored' /\ TrendReachesBack'
    BY <1>4 DEF TrendOfStored, TrendReachesBack
  <2> QED
    BY <1>1, <1>2, <1>3, <2>1, StoreKept DEF TrendInv
<1>5. CASE answer'.trend # {}
  <2>1. ref # 0 /\ ref \in Stored /\ Len(frames) \in Nat
    BY <1>2, <1>5, FrameFacts DEF TrendInv, QueryInv, TypeOK, Stored
  <2>2. trend.points # {}
    BY <1>2, <1>5, <2>1 DEF Trends
  <2>3. PICK n \in ref..Len(frames) : trend.points = WindowUpTo(n) /\ trend.before = NewestOutside
    BY <1>2, <2>1, <2>2, NothingPlanned DEF TrendInv, TrendFound
  <2>4. /\ 1..n \subseteq Stored /\ ref \in 1..n
        /\ \A j \in Stored : frames[j].at \in Nat
    BY <2>1, FrameFacts DEF Stored, TrendInv, QueryInv
  <2>5. answer'.trend = {[frame |-> k, previous |-> k - 1] : k \in WindowUpTo(n)}
    <3>1. \A k \in WindowUpTo(n) :
              Newest({j \in WindowUpTo(n) : j < k} \cup ({NewestOutside} \ {0})) = k - 1
      BY <2>1, PreviousIsBefore DEF TrendInv
    <3> QED
      BY <1>2, <2>1, <2>3, <3>1 DEF Trends
  <2>6. \A k : k \in WindowUpTo(n) <=> k \in 1..n /\ frames[k].at + Window >= frames[ref].at
    BY DEF WindowUpTo
  <2>7. ref \in WindowUpTo(n)
    BY <2>1, <2>4, <2>6
  <2>8. TrendOfStored'
    <3>1. Stored' = Stored
      BY <1>2 DEF Stored
    <3> QED
      BY <1>2, <2>1, <2>4, <2>5, <2>6, <3>1 DEF TrendOfStored
  <2>9. TrendReachesBack'
    <3> DEFINE Point(k) == [frame |-> k, previous |-> k - 1]
    <3>0. \A k \in WindowUpTo(n) : Point(k) \in answer'.trend /\ Point(k).frame = k
      BY <2>5
    <3> HIDE DEF Point
    <3>1. \E p \in answer'.trend : p.frame = ref
      BY <2>7, <3>0
    <3>2. \A p \in answer'.trend : /\ p.previous = p.frame - 1
                                   /\ frames[p.frame].at + Window >= frames[ref].at
      BY <2>5, <2>6
    <3>3. \A k \in 1..ref : frames[k].at + Window >= frames[ref].at =>
              \E p \in answer'.trend : p.frame = k
      <4>1. \A k \in 1..ref : k \in 1..n
        BY <2>4
      <4> QED
        BY <2>6, <3>0, <4>1
    <3> QED
      BY <1>2, <2>1, <3>1, <3>2, <3>3 DEF TrendReachesBack
  <2> QED
    BY <1>1, <1>2, <1>3, <2>8, <2>9, StoreKept DEF TrendInv
<1> QED
  BY <1>4, <1>5

LEMMA NextTrend == TrendInv /\ [Next]_vars => TrendInv'
<1> SUFFICES ASSUME TrendInv, [Next]_vars PROVE TrendInv'
  OBVIOUS
<1>1. CASE UNCHANGED vars
  <2>1. QueryInv'
    BY <1>1, NextInv DEF TrendInv
  <2>2. UNCHANGED <<frames, taken, question, plan, ref, trend, answer>>
    BY <1>1 DEF vars, store, handler
  <2>3. TrendFound'
    BY <2>2 DEF TrendInv, TrendFound, WindowUpTo, NewestOutside, Stored
  <2> QED
    BY <2>1, <2>2, <2>3, StoreKept, AnswerKept DEF TrendInv
<1>2. CASE Next
  BY <1>2, TickTrend, CommitTrend, AskTrend, SelectTrend, OtherTrend, ReadTrend, AnswerTrend
  DEF Next, Read
<1> QED
  BY <1>1, <1>2

-----------------------------------------------------------------------------
(* The theorems.                                                           *)

\* What handlers read for trends, and what they answer, is in order in every state.
THEOREM TrendInvariant == Spec => []TrendInv
BY InitTrend, NextTrend, PTL DEF Spec

\* Trends reach back over the whole window, frame by frame, however many frames are
\* committed while they are read.
THEOREM TrendsComplete == Spec => []TrendReachesBack
<1>1. TrendInv => TrendReachesBack
  BY DEF TrendInv
<1> QED
  BY <1>1, TrendInvariant, PTL

\* The rates of a trend are of traffic that was there.
THEOREM TrendsAreReal == Spec => []RatesAreReal
<1>1. TrendInv => RatesAreReal
  <2> SUFFICES ASSUME TrendInv, NEW p \in answer.trend, p.previous # 0,
                      NEW r \in Rate(frames[p.previous], frames[p.frame])
               PROVE  /\ r <= frames[p.frame].sent
                      /\ frames[p.frame].lost = 0 => r = frames[p.frame].sent
    BY DEF RatesAreReal
  <2> DEFINE k == p.frame
  <2>1. k \in Stored /\ p.previous = k - 1 /\ Len(frames) \in Nat
    BY FrameFacts DEF TrendInv, QueryInv, TrendOfStored, TrendReachesBack
  <2>2. k - 1 \in Stored
    BY <2>1 DEF Stored
  <2>3. frames[k] \in Shape /\ frames[k - 1] \in Shape
    BY <2>1, <2>2, FrameFacts DEF TrendInv, QueryInv
  <2>4. frames[k].total = frames[k - 1].total + frames[k].sent - frames[k].lost
    BY <2>1, <2>2 DEF TrendInv, TotalsAdd
  <2>5. /\ frames[k].total \in Nat /\ frames[k - 1].total \in Nat
        /\ frames[k].sent \in Nat /\ frames[k].lost \in Nat
    BY <2>3 DEF Shape
  <2>6. r = IF frames[k].total < frames[k - 1].total THEN 0
            ELSE frames[k].total - frames[k - 1].total
    BY <2>1 DEF Rate
  <2> QED
    BY <2>4, <2>5, <2>6
<1> QED
  BY <1>1, TrendInvariant, PTL
=============================================================================

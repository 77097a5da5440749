------------------------ MODULE BlockingGraph_proofs ------------------------
(***************************************************************************)
(* Proofs about BlockingGraph, for any sessions and any blockers: first what *)
(* the rows and the climb keep, then where the edges are placed, by induction *)
(* over the steps up from a session.                                       *)
(***************************************************************************)
EXTENDS BlockingGraph, FunctionTheorems, FiniteSetTheorems, WellFoundedInduction,
        TLAPS

\* What the type invariant says of the rows.
LEMMA RowsTyped ==
    ASSUME TypeOK
    PROVE  /\ DOMAIN rowMap \subseteq Sessions
           /\ rowMap \in [DOMAIN rowMap -> Blockers \cup {NoBlocker}]
  BY DEF TypeOK

\* A session with a row that is blocked by a session is waiting.
LEMMA BlockedByASession ==
    ASSUME TypeOK, NEW s \in DOMAIN rowMap, rowMap[s] \in Sessions
    PROVE  s \in Waiting
  BY BlockersAssumption DEF Waiting

\* The end of a path, and the sessions before it.
LEMMA PathEnd ==
    ASSUME TypeOK, PathClimbs, path # <<>>
    PROVE  /\ Len(path) \in Nat \ {0}
           /\ Current \in DOMAIN rowMap
           /\ \A k \in 1..Len(path) : path[k] \in DOMAIN rowMap
           /\ \A k \in 1..Len(path) - 1 : path[k] \in Waiting
  <1>1. Len(path) \in Nat \ {0}
    BY DEF TypeOK
  <1>2. \A k \in 1..Len(path) : path[k] \in DOMAIN rowMap
    BY DEF TypeOK
  <1>3. ASSUME NEW k \in 1..Len(path) - 1
        PROVE  path[k] \in Waiting
    <2>1. /\ path[k] \in DOMAIN rowMap
          /\ path[k + 1] \in DOMAIN rowMap
          /\ rowMap[path[k]] = path[k + 1]
      BY <1>1, <1>2 DEF PathClimbs
    <2> QED
      BY <2>1, RowsTyped, BlockedByASession
  <1> QED
    BY <1>1, <1>2, <1>3 DEF Current

\* Keeping a chain of the path's first n sessions, all of them waiting and the
\* row's session among them, preserves the invariant and gives the row its edge.
LEMMA KeepPreserves ==
    ASSUME GraphInv, path # <<>>,
           NEW root \in Blockers, NEW n \in 1..Len(path), NEW closing \in BOOLEAN,
           \A k \in 1..n : path[k] \in Waiting,
           Keep(root, n, closing)
    PROVE  GraphInv'
  <1> USE DEF GraphInv
  <1> DEFINE new == {e \in Chain(root, n, closing) : Unseen(e)}
  <1>1. /\ edges' = edges \cup new
        /\ path' = <<>>
        /\ rowMap' = rowMap
        /\ todo' = todo
        /\ Waiting' = Waiting
    BY DEF Keep, Waiting
  <1>2. Len(path) \in Nat \ {0} /\ \A k \in 1..n : path[k] \in DOMAIN rowMap
    BY PathEnd
  <1>3. ASSUME NEW k \in 1..n
        PROVE  /\ rowMap[path[k]] \in Blockers
               /\ path[k] \in Sessions
               /\ Depth(k, n) \in Nat
    BY <1>2, RowsTyped DEF Waiting, Depth
  <1>4. ASSUME NEW e \in new
        PROVE  /\ e \in Edge
               /\ e.blocked \in Waiting
               /\ e.blocker = rowMap[e.blocked]
               /\ Unseen(e)
    <2>1. PICK k \in 1..n :
              e = [root |-> root, blocker |-> rowMap[path[k]], blocked |-> path[k],
                   depth |-> Depth(k, n), cycle |-> closing /\ k = n]
      BY DEF Chain
    <2>2. (closing /\ k = n) \in BOOLEAN
      OBVIOUS
    <2> QED
      BY <2>1, <2>2, <1>3 DEF Edge
  <1>5. ASSUME NEW e \in new, NEW f \in new, e.blocked = f.blocked
        PROVE  e = f
    <2>1. PICK j \in 1..n :
              e = [root |-> root, blocker |-> rowMap[path[j]], blocked |-> path[j],
                   depth |-> Depth(j, n), cycle |-> closing /\ j = n]
      BY DEF Chain
    <2>2. PICK k \in 1..n :
              f = [root |-> root, blocker |-> rowMap[path[k]], blocked |-> path[k],
                   depth |-> Depth(k, n), cycle |-> closing /\ k = n]
      BY DEF Chain
    <2>3. path[j] = path[k]
      BY <1>5, <2>1, <2>2
    <2>4. j = k
      BY <2>3, <1>2 DEF ClimbsOnce
    <2> QED
      BY <2>1, <2>2, <2>4
  <1>6. ASSUME NEW e \in new, NEW f \in edges
        PROVE  e.blocked # f.blocked
    BY <1>4 DEF Unseen, EachWaitHasItsEdge
  <1>7. path[1] \in Waiting /\ path[1] \notin todo /\ 1 \in 1..n
    BY DEF PathClimbs
  <1>8. \E e \in edges' : e.blocked = path[1]
    <2> DEFINE c == [root |-> root, blocker |-> rowMap[path[1]], blocked |-> path[1],
                     depth |-> Depth(1, n), cycle |-> closing /\ 1 = n]
    <2>1. c \in Chain(root, n, closing) /\ c.blocked = path[1]
          /\ c.blocker = rowMap[path[1]]
      BY <1>7 DEF Chain
    <2>2. CASE Unseen(c)
      BY <2>1, <2>2, <1>1
    <2>3. CASE ~Unseen(c)
      BY <2>1, <2>3, <1>1 DEF Unseen
    <2> QED
      BY <2>2, <2>3
  <1>9. TypeOK'
    BY <1>1, <1>4 DEF TypeOK
  <1>10. TakenRowHasItsEdge'
    BY <1>1, <1>8 DEF TakenRowHasItsEdge
  <1>11. EachWaitHasItsEdge'
    <2>1. \A e \in edges' : e.blocked \in Waiting' /\ e.blocker = rowMap'[e.blocked]
      BY <1>1, <1>4 DEF EachWaitHasItsEdge
    <2>2. \A e, f \in edges' : e.blocked = f.blocked => e = f
      BY <1>1, <1>5, <1>6 DEF EachWaitHasItsEdge
    <2>3. \A s \in (Waiting \ todo)' : \E e \in edges' : e.blocked = s
      BY <1>1, <1>10 DEF TakenRowHasItsEdge
    <2> QED
      BY <2>1, <2>2, <2>3 DEF EachWaitHasItsEdge
  <1>12. ClimbsOnce' /\ PathClimbs'
    BY <1>1 DEF ClimbsOnce, PathClimbs
  <1> QED
    BY <1>9, <1>10, <1>11, <1>12

LEMMA InitGraph == Init => GraphInv
  <1> SUFFICES ASSUME Init PROVE GraphInv
    OBVIOUS
  <1>1. /\ path = <<>> /\ edges = {} /\ todo = DOMAIN rowMap
        /\ Waiting \ todo = {}
        /\ Len(path) = 0
        /\ path \in Seq(DOMAIN rowMap)
    BY DEF Init, Waiting
  <1>2. TypeOK
    BY <1>1 DEF Init, TypeOK
  <1>3. EachWaitHasItsEdge /\ ClimbsOnce /\ PathClimbs /\ TakenRowHasItsEdge
    BY <1>1 DEF EachWaitHasItsEdge, ClimbsOnce, PathClimbs, TakenRowHasItsEdge
  <1> QED
    BY <1>2, <1>3 DEF GraphInv

\* A row without a blocker is skipped, another begins a climb.
LEMMA TakeRowPreserves ==
    ASSUME GraphInv, NEW s \in Sessions, TakeRow(s)
    PROVE  GraphInv'
  <1> USE DEF GraphInv
  <1>0. /\ rowMap' = rowMap /\ edges' = edges /\ Waiting' = Waiting
        /\ path = <<>> /\ s \in todo /\ s \in DOMAIN rowMap
        /\ todo' = todo \ {s}
    BY DEF TakeRow, Start, Waiting, TypeOK
  <1>1. CASE rowMap[s] = NoBlocker
    <2>1. path' = <<>> /\ s \notin Waiting
      BY <1>1 DEF TakeRow, Waiting
    <2>2. TypeOK'
      BY <1>0, <2>1 DEF TypeOK
    <2>3. EachWaitHasItsEdge' /\ TakenRowHasItsEdge'
      BY <1>0, <2>1 DEF EachWaitHasItsEdge, TakenRowHasItsEdge
    <2> QED
      BY <2>1, <2>2, <2>3, <1>0 DEF ClimbsOnce, PathClimbs
  <1>2. CASE rowMap[s] # NoBlocker
    <2>1. path' = <<s>> /\ s \in Waiting
      BY <1>0, <1>2 DEF TakeRow, Start, Waiting
    <2>2. /\ Len(path') = 1
          /\ path'[1] = s
          /\ path' # <<>>
          /\ path' \in Seq(DOMAIN rowMap)
      BY <1>0, <2>1
    <2>3. TypeOK'
      BY <1>0, <2>2 DEF TypeOK
    <2>4. EachWaitHasItsEdge' /\ TakenRowHasItsEdge'
      BY <1>0, <2>2 DEF EachWaitHasItsEdge, TakenRowHasItsEdge
    <2>5. ClimbsOnce'
      BY <2>2 DEF ClimbsOnce
    <2>6. PathClimbs'
      BY <1>0, <2>1, <2>2 DEF PathClimbs
    <2> QED
      BY <2>3, <2>4, <2>5, <2>6
  <1> QED
    BY <1>1, <1>2

\* A climb only goes on to a session it has not visited.
LEMMA ClimbPreserves ==
    ASSUME GraphInv, Climb
    PROVE  GraphInv'
  <1> USE DEF GraphInv
  <1>1. /\ rowMap' = rowMap /\ edges' = edges /\ todo' = todo /\ Waiting' = Waiting
        /\ path # <<>>
        /\ path' = Append(path, Blocker)
        /\ Blocker \in DOMAIN rowMap
        /\ Blocker \notin Visited
    BY DEF Climb, Waiting, ReachesVisited
  <1>2. /\ Len(path) \in Nat \ {0}
        /\ path \in Seq(DOMAIN rowMap)
    BY <1>1, PathEnd DEF TypeOK
  <1>3. /\ Len(path') = Len(path) + 1
        /\ \A k \in 1..Len(path) : path'[k] = path[k]
        /\ path'[Len(path) + 1] = Blocker
        /\ path' \in Seq(DOMAIN rowMap)
        /\ path' # <<>>
    BY <1>1, <1>2
  <1>4. TypeOK'
    BY <1>1, <1>3 DEF TypeOK
  <1>5. EachWaitHasItsEdge' /\ TakenRowHasItsEdge'
    BY <1>1, <1>2, <1>3 DEF EachWaitHasItsEdge, TakenRowHasItsEdge
  <1>6. ClimbsOnce'
    <2> SUFFICES ASSUME NEW j \in 1..Len(path'), NEW k \in 1..Len(path'),
                        path'[j] = path'[k]
                 PROVE  j = k
      BY DEF ClimbsOnce
    <2>1. \A m \in 1..Len(path) : path[m] # Blocker
      BY <1>1 DEF Visited
    <2>2. (j \in 1..Len(path) \/ j = Len(path) + 1) /\ (k \in 1..Len(path) \/ k = Len(path) + 1)
      BY <1>2, <1>3
    <2>3. CASE j \in 1..Len(path) /\ k \in 1..Len(path)
      BY <2>3, <1>3 DEF ClimbsOnce
    <2> QED
      BY <2>1, <2>2, <2>3, <1>3
  <1>7. PathClimbs'
    <2>1. path'[1] = path[1] /\ path[1] \in Waiting \ todo
      BY <1>1, <1>2, <1>3 DEF PathClimbs
    <2>2. ASSUME NEW k \in 1..Len(path') - 1
          PROVE  rowMap[path'[k]] = path'[k + 1]
      <3>1. k \in 1..Len(path)
        BY <1>2, <1>3
      <3>2. CASE k = Len(path)
        BY <3>1, <3>2, <1>3 DEF Blocker, Current
      <3>3. CASE k # Len(path)
        BY <3>1, <3>3, <1>2, <1>3 DEF PathClimbs
      <3> QED
        BY <3>2, <3>3
    <2> QED
      BY <1>1, <1>3, <2>1, <2>2 DEF PathClimbs
  <1> QED
    BY <1>4, <1>5, <1>6, <1>7

\* The three ends of a climb: all sessions kept are waiting.
LEMMA EndPreserves ==
    ASSUME GraphInv, EndAtTop \/ EndOutside \/ EndInCycle
    PROVE  GraphInv'
  <1>0. path # <<>> /\ TypeOK /\ PathClimbs
    BY DEF GraphInv, EndAtTop, EndOutside, EndInCycle
  <1>1. /\ Len(path) \in Nat \ {0}
        /\ Current \in DOMAIN rowMap
        /\ \A k \in 1..Len(path) : path[k] \in DOMAIN rowMap
        /\ \A k \in 1..Len(path) - 1 : path[k] \in Waiting
        /\ path[1] \in Waiting
    BY <1>0, PathEnd DEF PathClimbs
  <1>2. CASE EndAtTop
    <2>1. Keep(Current, Len(path) - 1, FALSE) /\ Current \notin Waiting
      BY <1>2 DEF EndAtTop, Blocker, Waiting
    <2>2. Len(path) # 1
      BY <1>1, <2>1 DEF Current
    <2>3. Len(path) - 1 \in 1..Len(path)
      <3>1. ASSUME NEW m \in Nat \ {0}, m # 1 PROVE m - 1 \in 1..m
        BY <3>1
      <3> QED
        BY <1>1, <2>2, <3>1
    <2>4. Current \in Blockers
      BY <1>0, <1>1, RowsTyped DEF Blockers
    <2>5. \A k \in 1..Len(path) - 1 : path[k] \in Waiting
      BY <1>1
    <2> QED
      BY <1>0, <2>1, <2>3, <2>4, <2>5, KeepPreserves
  <1>3. ASSUME NEW closing \in BOOLEAN, Keep(Blocker, Len(path), closing),
               Blocker \in Blockers
        PROVE  GraphInv'
    <2>1. Blocker # NoBlocker
      BY <1>3, BlockersAssumption DEF Blockers
    <2>2. Current \in Waiting
      BY <1>1, <2>1 DEF Blocker, Waiting
    <2>3. \A k \in 1..Len(path) : path[k] \in Waiting
      BY <1>1, <2>2 DEF Current
    <2>4. Len(path) \in 1..Len(path)
      BY <1>1
    <2> QED
      BY <1>0, <1>3, <2>3, <2>4, KeepPreserves
  <1>4. CASE EndOutside
    BY <1>4, <1>3 DEF EndOutside, Blockers
  <1>5. CASE EndInCycle
    <2>1. Blocker \in Blockers
      BY <1>0, <1>1, <1>5, RowsTyped DEF EndInCycle, ReachesVisited, Visited, Blockers
    <2> QED
      BY <1>3, <1>5, <2>1 DEF EndInCycle
  <1> QED
    BY <1>2, <1>4, <1>5

LEMMA StepGraph == GraphInv /\ [Next]_vars => GraphInv'
  <1> SUFFICES ASSUME GraphInv, [Next]_vars PROVE GraphInv'
    OBVIOUS
  <1>1. CASE \E s \in Sessions : TakeRow(s)
    BY <1>1, TakeRowPreserves
  <1>2. CASE Climb
    BY <1>2, ClimbPreserves
  <1>3. CASE EndAtTop \/ EndOutside \/ EndInCycle
    BY <1>3, EndPreserves
  <1>4. CASE UNCHANGED vars
    BY <1>4 DEF vars, GraphInv, TypeOK, EachWaitHasItsEdge, ClimbsOnce, PathClimbs,
                TakenRowHasItsEdge, Waiting
  <1> QED
    BY <1>1, <1>2, <1>3, <1>4 DEF Next

\* The invariant holds of every run of build_blocking_edges, on any number of
\* rows in any order.
THEOREM GraphInvariant == Spec => []GraphInv
  BY InitGraph, StepGraph, PTL DEF Spec

\* rowMap, the edges and the path keep their types.
THEOREM TypeCorrect == Spec => []TypeOK
  BY GraphInvariant, PTL DEF GraphInv

\* build_blocking_edges returns, for every blocking graph, one edge for each
\* waiting session and no other: no chain's edge is lost or kept twice.
THEOREM EachWaitOneEdge == Spec => []EachWaitHasItsEdge
  BY GraphInvariant, PTL DEF GraphInv

\* A climb never passes a session twice, whatever cycles the graph has.
THEOREM ClimbsOnceAlways == Spec => []ClimbsOnce
  BY GraphInvariant, PTL DEF GraphInv

-----------------------------------------------------------------------------
(* The steps up from a session.                                            *)

\* Induction over the natural numbers, for a set of them.
LEMMA NatSetInduction ==
    ASSUME NEW T, 0 \in T, \A n \in Nat : n \in T => n + 1 \in T
    PROVE  Nat \subseteq T
  <1> DEFINE Out == Nat \ T
  <1>1. SUFFICES ASSUME Out # {} PROVE FALSE
    OBVIOUS
  <1>2. PICK x \in Out : \A y \in Out : ~(<<y, x>> \in OpToRel(<, Nat))
    BY <1>1, WFMin, NatLessThanWellFounded
  <1>3. x - 1 \in Out /\ x - 1 < x
    <2>1. x \in Nat /\ x # 0 /\ x \notin T
      OBVIOUS
    <2>2. x - 1 \in Nat /\ (x - 1) + 1 = x
      BY <2>1
    <2> QED
      BY <2>1, <2>2
  <1>4. \A a, b \in Nat : a < b => <<a, b>> \in OpToRel(<, Nat)
    BY DEF OpToRel
  <1> QED
    BY <1>2, <1>3, <1>4

\* Who blocks a session, or nobody.
LEMMA UpTyped ==
    ASSUME TypeOK, NEW v
    PROVE  /\ Up(v) \in Blockers \cup {NoBlocker}
           /\ v \notin Waiting => Up(v) = NoBlocker
           /\ NoBlocker \notin Waiting
  BY RowsTyped, BlockersAssumption DEF Up, Waiting, Blockers

\* The first k steps up from v, as a sequence of values.
Climbs(v, n, g) == 
    /\ g \in [0..n -> {v} \cup Blockers \cup {NoBlocker}]
    /\ g[0] = v
    /\ \A k \in 0..n - 1 : g[k + 1] = Up(g[k])

LEMMA ClimbsExist ==
    ASSUME TypeOK, NEW v, NEW n \in Nat
    PROVE  \E g : Climbs(v, n, g)
  <1> DEFINE V == {v} \cup Blockers \cup {NoBlocker}
             T == {m \in Nat : \E g : Climbs(v, m, g)}
  <1>1. 0 \in T
    <2> DEFINE g == [k \in 0..0 |-> v]
    <2>1. Climbs(v, 0, g)
      BY DEF Climbs
    <2> QED
      BY <2>1
  <1>2. ASSUME NEW m \in Nat, m \in T
        PROVE  m + 1 \in T
    <2>1. PICK g : Climbs(v, m, g)
      BY <1>2
    <2> DEFINE h == [k \in 0..m + 1 |-> IF k = m + 1 THEN Up(g[m]) ELSE g[k]]
    <2>2. h \in [0..m + 1 -> V]
      BY <2>1, UpTyped DEF Climbs
    <2>3. h[0] = v
      BY <2>1 DEF Climbs
    <2>4. \A k \in 0..m : h[k + 1] = Up(h[k])
      BY <2>1 DEF Climbs
    <2>5. Climbs(v, m + 1, h)
      <3>1. 0..(m + 1) - 1 = 0..m
        OBVIOUS
      <3> HIDE DEF h
      <3> QED
        BY <2>2, <2>3, <2>4, <3>1 DEF Climbs
    <2> QED
      BY <2>5
  <1> HIDE DEF T
  <1>3. Nat \subseteq T
    BY <1>1, <1>2, NatSetInduction
  <1> QED
    BY <1>3 DEF T

\* Two climbs agree as far as both go.
LEMMA ClimbsAgree ==
    ASSUME NEW v, NEW m \in Nat, NEW n \in Nat, NEW g, NEW h,
           Climbs(v, m, g), Climbs(v, n, h), NEW k \in Nat, k <= m, k <= n
    PROVE  g[k] = h[k]
  <1> DEFINE T == {i \in Nat : i <= m /\ i <= n => g[i] = h[i]}
  <1>1. 0 \in T
    BY DEF Climbs
  <1>2. ASSUME NEW i \in Nat, i \in T PROVE i + 1 \in T
    BY <1>2 DEF Climbs
  <1> HIDE DEF T
  <1>3. Nat \subseteq T
    BY <1>1, <1>2, NatSetInduction
  <1> QED
    BY <1>3 DEF T

\* The recursion of Above.
LEMMA AboveSteps ==
    ASSUME TypeOK, NEW v
    PROVE  Above(v, 0) = v /\ \A k \in Nat : Above(v, k + 1) = Up(Above(v, k))
  <1> DEFINE u == [k \in Nat |-> (CHOOSE g : Climbs(v, k, g))[k]]
  <1>1. \A k \in Nat : Climbs(v, k, CHOOSE g : Climbs(v, k, g))
    BY ClimbsExist
  <1>2. u[0] = v
    BY <1>1 DEF Climbs
  <1>3. ASSUME NEW k \in Nat PROVE u[k + 1] = Up(u[k])
    <2> DEFINE g == CHOOSE x : Climbs(v, k, x)
               h == CHOOSE x : Climbs(v, k + 1, x)
    <2>1. Climbs(v, k, g) /\ Climbs(v, k + 1, h) /\ k + 1 \in Nat
      BY <1>1
    <2> HIDE DEF g, h
    <2>2. g[k] = h[k]
      BY <2>1, ClimbsAgree
    <2>3. h[k + 1] = Up(h[k])
      BY <2>1 DEF Climbs
    <2> QED
      BY <2>2, <2>3 DEF g, h
  <1> HIDE DEF u
  <1> DEFINE Rec(f) == f = [k \in Nat |-> IF k = 0 THEN v ELSE Up(f[k - 1])]
  <1>4. Rec(u)
    <2>1. u = [k \in Nat |-> u[k]]
      BY DEF u
    <2>2. \A k \in Nat : u[k] = IF k = 0 THEN v ELSE Up(u[k - 1])
      <3>1. ASSUME NEW k \in Nat \ {0} PROVE u[k] = Up(u[k - 1])
        BY <1>3, k - 1 \in Nat, (k - 1) + 1 = k
      <3> QED
        BY <1>2, <3>1
    <2> QED
      BY <2>1, <2>2
  <1> DEFINE above == CHOOSE f : Rec(f)
  <1>5. \A k : Above(v, k) = above[k]
    BY DEF Above
  <1> HIDE DEF Rec
  <1>6. Rec(above)
    BY <1>4
  <1> HIDE DEF above
  <1> USE DEF Rec
  <1>7. \A k \in Nat : above[k] = IF k = 0 THEN v ELSE Up(above[k - 1])
    BY <1>6
  <1>8. ASSUME NEW k \in Nat PROVE above[k + 1] = Up(above[k])
    BY <1>7, k + 1 \in Nat, k + 1 # 0, (k + 1) - 1 = k
  <1> QED
    BY <1>5, <1>7, <1>8

\* Climbing a steps and then b more.
LEMMA AboveAdds ==
    ASSUME TypeOK, NEW v, NEW a \in Nat, NEW b \in Nat
    PROVE  Above(Above(v, a), b) = Above(v, a + b)
  <1> DEFINE w == Above(v, a)
             T == {m \in Nat : Above(w, m) = Above(v, a + m)}
  <1>1. 0 \in T
    BY AboveSteps
  <1>2. ASSUME NEW m \in Nat, m \in T PROVE m + 1 \in T
    <2>1. Above(w, m + 1) = Up(Above(w, m))
      BY AboveSteps
    <2>2. Above(v, (a + m) + 1) = Up(Above(v, a + m))
      BY AboveSteps, a + m \in Nat
    <2> QED
      BY <1>2, <2>1, <2>2, (a + m) + 1 = a + (m + 1)
  <1> HIDE DEF T
  <1>3. Nat \subseteq T
    BY <1>1, <1>2, NatSetInduction
  <1> QED
    BY <1>3 DEF T

\* ... up to the c-th above it.
LEMMA AboveFrom ==
    ASSUME TypeOK, NEW v, NEW a \in Nat, NEW b \in Nat, NEW c \in Nat, a + b = c
    PROVE  Above(Above(v, a), b) = Above(v, c)
  BY AboveAdds

\* Of two sessions above one, the farther is above the nearer.
LEMMA FartherAbove ==
    ASSUME TypeOK, NEW v, NEW a \in Nat, NEW c \in Nat, a < c
    PROVE  \E b \in Nat \ {0} : Above(Above(v, a), b) = Above(v, c)
  <1>1. PICK b \in Nat : b = c - a
    OBVIOUS
  <1>2. a + b = c /\ b # 0
    BY <1>1
  <1>3. Above(Above(v, a), b) = Above(v, c)
    <2>1. Above(Above(v, a), b) = Above(v, a + b)
      BY AboveAdds
    <2> QED
      BY <1>2, <2>1
  <1> QED
    BY <1>2, <1>3

\* Nobody is above a session that nobody blocks.
LEMMA NobodyAboveTop ==
    ASSUME TypeOK, NEW r, r \notin Waiting, NEW k \in Nat \ {0}
    PROVE  Above(r, k) = NoBlocker
  <1> DEFINE T == {m \in Nat : Above(r, m + 1) = NoBlocker}
  <1>0. Above(r, 0) = r /\ \A m \in Nat : Above(r, m + 1) = Up(Above(r, m))
    BY AboveSteps
  <1>1. 0 \in T
    BY <1>0, UpTyped
  <1>2. ASSUME NEW m \in Nat, m \in T PROVE m + 1 \in T
    <2>1. m + 1 \in Nat /\ Above(r, (m + 1) + 1) = Up(Above(r, m + 1))
      BY <1>0
    <2> QED
      BY <1>2, <2>1, UpTyped
  <1> HIDE DEF T
  <1>3. k - 1 \in T
    BY <1>1, <1>2, NatSetInduction
  <1> QED
    BY <1>3 DEF T

\* What is above a session of a cycle is on the cycle.
LEMMA CycleGoesOn ==
    ASSUME TypeOK, NEW s, OnCycle(s), NEW i \in Nat
    PROVE  OnCycle(Above(s, i))
  <1> DEFINE T == {m \in Nat : OnCycle(Above(s, m))}
  <1>0. Heights \subseteq Nat \ {0}
    BY SessionsAssumption, FS_CardinalityType DEF Heights
  <1>1. 0 \in T
    BY AboveSteps
  <1>2. ASSUME NEW m \in Nat, m \in T PROVE m + 1 \in T
    <2> DEFINE w == Above(s, m)
               u == Above(s, m + 1)
    <2>1. w \in Waiting
      BY <1>2 DEF OnCycle
    <2>2. PICK p \in Heights : Above(w, p) = w
      BY <1>2 DEF OnCycle
    <2>3. p \in Nat \ {0} /\ p - 1 \in Nat /\ 1 + (p - 1) = p
      BY <1>0
    <2>4. u = Above(w, 1)
      <3>1. 1 \in Nat /\ m + 1 \in Nat
        OBVIOUS
      <3> QED
        BY <3>1, AboveFrom
    <2> HIDE DEF w, u
    <2>5. Above(u, p - 1) = w
      <3>1. Above(Above(w, 1), p - 1) = Above(w, p)
        BY <2>3, AboveFrom
      <3> QED
        BY <2>2, <2>3, <2>4, <3>1
    <2>6. Above(u, p) = u
      <3>1. /\ Above(u, (p - 1) + 1) = Up(Above(u, p - 1))
            /\ Above(w, 0 + 1) = Up(Above(w, 0))
            /\ Above(w, 0) = w
        BY <2>3, AboveSteps
      <3> QED
        BY <2>3, <2>4, <2>5, <3>1
    <2>7. u \in Waiting
      <3>1. ASSUME u \notin Waiting PROVE FALSE
        <4>1. u = NoBlocker
          BY <2>3, <2>6, <3>1, NobodyAboveTop
        <4>2. p - 1 # 0 => w = NoBlocker
          BY <2>3, <2>5, <3>1, NobodyAboveTop
        <4>3. p - 1 = 0 => w = u
          BY <2>5, AboveSteps
        <4> QED
          BY <2>1, <4>1, <4>2, <4>3, UpTyped
      <3> QED
        BY <3>1
    <2>8. OnCycle(u)
      BY <2>6, <2>7 DEF OnCycle
    <2> QED
      BY <2>8 DEF u
  <1> HIDE DEF T
  <1>3. Nat \subseteq T
    BY <1>1, <1>2, NatSetInduction
  <1> QED
    BY <1>3 DEF T

\* A session whose climb leaves the waiting ones is on no cycle.
LEMMA LeavesNoCycle ==
    ASSUME TypeOK, NEW s, NEW d \in Nat, Above(s, d) \notin Waiting
    PROVE  ~OnCycle(s)
  BY CycleGoesOn DEF OnCycle

\* Two sessions of one cycle have different blockers.
LEMMA OneBlockedPerCycle ==
    ASSUME TypeOK, NEW s, OnCycle(s), NEW a \in Nat, NEW b \in Nat,
           Up(Above(s, a)) = Up(Above(s, b))
    PROVE  Above(s, a) = Above(s, b)
  <1>1. PICK p \in Heights : Above(s, p) = s
    BY DEF OnCycle
  <1>2. p \in Nat /\ p - 1 \in Nat /\ 1 + (p - 1) = p
    BY SessionsAssumption, FS_CardinalityType DEF Heights
  <1>3. ASSUME NEW i \in Nat
        PROVE  Above(Up(Above(s, i)), p - 1) = Above(s, i)
    <2> DEFINE v == Above(s, i)
    <2>1. Above(v, p) = v
      <3>1. i + p \in Nat /\ p + i = i + p
        BY <1>2
      <3>2. Above(v, p) = Above(s, i + p)
        BY <1>2, <3>1, AboveFrom
      <3>3. Above(Above(s, p), i) = Above(s, i + p)
        BY <1>2, <3>1, AboveFrom
      <3> QED
        BY <1>1, <3>2, <3>3
    <2> HIDE DEF v
    <2>2. Above(v, 0) = v /\ Above(v, 0 + 1) = Up(Above(v, 0)) /\ 0 + 1 = 1
      BY AboveSteps
    <2>3. Above(Above(v, 1), p - 1) = Above(v, p)
      BY <1>2, AboveFrom
    <2>4. Above(Up(v), p - 1) = v
      BY <2>1, <2>2, <2>3
    <2> QED
      BY <2>4 DEF v
  <1> QED
    BY <1>3

\* The path is what is above its sessions.
LEMMA PathIsAbove ==
    ASSUME TypeOK, PathClimbs, path # <<>>, NEW k \in 1..Len(path)
    PROVE  \A i \in 0..Len(path) - k : Above(path[k], i) = path[k + i]
  <1> DEFINE T == {i \in Nat : i <= Len(path) - k => Above(path[k], i) = path[k + i]}
  <1>0. Len(path) \in Nat
    BY PathEnd
  <1>1. 0 \in T
    <2>1. Above(path[k], 0) = path[k]
      BY AboveSteps
    <2>2. k + 0 = k
      BY <1>0
    <2> QED
      BY <2>1, <2>2
  <1>2. ASSUME NEW i \in Nat, i \in T PROVE i + 1 \in T
    <2>1. SUFFICES ASSUME i + 1 <= Len(path) - k
                   PROVE  Above(path[k], i + 1) = path[k + (i + 1)]
      OBVIOUS
    <2>2. k + i \in 1..Len(path) - 1 /\ (k + i) + 1 = k + (i + 1)
      BY <1>0, <2>1
    <2>3. Above(path[k], i) = path[k + i]
      BY <1>0, <1>2, <2>1
    <2>4. Up(path[k + i]) = path[(k + i) + 1]
      BY <2>2, PathEnd DEF PathClimbs, Up
    <2>5. Above(path[k], i + 1) = Up(Above(path[k], i))
      BY AboveSteps
    <2> QED
      BY <2>2, <2>3, <2>4, <2>5
  <1> HIDE DEF T
  <1>3. Nat \subseteq T
    BY <1>1, <1>2, NatSetInduction
  <1> QED
    BY <1>0, <1>3 DEF T

\* A path has no more sessions than there are.
LEMMA PathIsShort ==
    ASSUME GraphInv
    PROVE  /\ Cardinality(Sessions) \in Nat
           /\ Len(path) <= Cardinality(Sessions)
  <1>1. path \in Seq(Sessions) /\ Len(path) \in Nat
    BY RowsTyped DEF GraphInv, TypeOK
  <1>2. path \in Injection(1..Len(path), Sessions)
    <2>1. path \in [1..Len(path) -> Sessions]
      BY <1>1
    <2>2. \A j, k \in 1..Len(path) : path[j] = path[k] => j = k
      BY DEF GraphInv, ClimbsOnce
    <2> QED
      BY <2>1, <2>2 DEF Injection, IsInjective
  <1>3. Cardinality(1..Len(path)) = Len(path)
    <2>1. 1 \in Int /\ Len(path) \in Int
          /\ (IF 1 > Len(path) THEN 0 ELSE Len(path) - 1 + 1) = Len(path)
      BY <1>1
    <2> QED
      BY <2>1, FS_Interval
  <1> QED
    BY <1>1, <1>2, <1>3, SessionsAssumption, FS_CardinalityType, FS_Injection

\* From each session of a path it is as far to what blocks the last of its first
\* n sessions as the depth of its edge in a chain of n.
LEMMA ChainLeadsToRoot ==
    ASSUME GraphInv, path # <<>>, NEW n \in 1..Len(path), NEW k \in 1..n
    PROVE  /\ Depth(k, n) \in 1..Cardinality(Sessions)
           /\ Above(path[k], Depth(k, n)) = Up(path[n])
           /\ Above(path[k], n - k) = path[n]
  <1>1. TypeOK /\ PathClimbs /\ Len(path) \in Nat \ {0}
    BY PathEnd DEF GraphInv
  <1>2. Above(path[k], n - k) = path[n]
    <2>1. k \in 1..Len(path) /\ n - k \in 0..Len(path) - k /\ k + (n - k) = n
      BY <1>1
    <2> QED
      BY <1>1, <2>1, PathIsAbove
  <1>3. Depth(k, n) = (n - k) + 1 /\ n - k \in Nat
    BY <1>1 DEF Depth
  <1>4. Depth(k, n) \in 1..Cardinality(Sessions)
    <2>1. ASSUME NEW a \in Nat, NEW c \in Nat, c <= a, NEW m \in 1..c, NEW i \in 1..m
          PROVE  (m - i) + 1 \in 1..a
      BY <2>1
    <2>2. /\ Len(path) \in Nat /\ Cardinality(Sessions) \in Nat
          /\ Len(path) <= Cardinality(Sessions)
      BY <1>1, PathIsShort
    <2> QED
      BY <1>3, <2>1, <2>2
  <1>5. Above(path[k], (n - k) + 1) = Up(path[n])
    <2>1. \A i \in Nat : Above(path[k], i + 1) = Up(Above(path[k], i))
      BY <1>1, AboveSteps
    <2> QED
      BY <1>2, <1>3, <2>1
  <1> QED
    BY <1>2, <1>3, <1>4, <1>5

-----------------------------------------------------------------------------
(* Where a chain's edges are placed.                                       *)

\* The edges of a chain that ends at somebody nobody blocks.
LEMMA OpenChain ==
    ASSUME GraphInv, path # <<>>, NEW n \in 1..Len(path), NEW root,
           root = Up(path[n]), root \notin Waiting,
           NEW e \in Chain(root, n, FALSE)
    PROVE  EdgePlaced(e) /\ ~OnCycle(e.blocked)
  <1>1. PICK k \in 1..n :
            e = [root |-> root, blocker |-> rowMap[path[k]], blocked |-> path[k],
                 depth |-> Depth(k, n), cycle |-> FALSE]
    BY DEF Chain
  <1>2. /\ Depth(k, n) \in 1..Cardinality(Sessions)
        /\ Above(path[k], Depth(k, n)) = root
    BY ChainLeadsToRoot
  <1>3. ~OnCycle(path[k])
    <2>1. Depth(k, n) \in Nat /\ TypeOK
      BY <1>2, PathIsShort DEF GraphInv
    <2> QED
      BY <1>2, <2>1, LeavesNoCycle
  <1>4. /\ e.root = root /\ e.blocked = path[k]
        /\ e.depth = Depth(k, n) /\ e.cycle = FALSE
    BY <1>1
  <1> QED
    BY <1>2, <1>3, <1>4 DEF EdgePlaced

\* Where a climb comes back to its j-th session, the cycle is what it passed from
\* there on.
LEMMA CycleOfPath ==
    ASSUME GraphInv, path # <<>>, NEW j \in 1..Len(path), Blocker = path[j]
    PROVE  /\ Current \in Waiting
           /\ \A k \in 1..Len(path) : OnCycle(path[k]) <=> k >= j
           /\ \A q, k \in j..Len(path) : \E i \in Nat : Above(path[q], i) = path[k]
  <1> DEFINE L == Len(path)
  <1>1. /\ TypeOK /\ PathClimbs /\ ClimbsOnce /\ L \in Nat \ {0}
        /\ \A k \in 1..L : path[k] \in DOMAIN rowMap
        /\ \A k \in 1..L - 1 : path[k] \in Waiting
    BY PathEnd DEF GraphInv
  <1>2. Cardinality(Sessions) \in Nat /\ L <= Cardinality(Sessions)
    BY PathIsShort
  <1>3. Current \in Waiting /\ Current = path[L] /\ Up(path[L]) = path[j]
    BY <1>1, RowsTyped, BlockedByASession DEF Current, Blocker, Up
  <1>4. \A k \in 1..L : path[k] \in Waiting
    BY <1>1, <1>3
  <1> HIDE DEF L
  <1>5. ASSUME NEW k \in 1..L
        PROVE  L - k + 1 \in Nat /\ Above(path[k], L - k + 1) = path[j]
    <2>1. L \in 1..L /\ k \in 1..L /\ Depth(k, L) = L - k + 1 /\ L - k + 1 \in Nat
      BY <1>1 DEF Depth
    <2> QED
      BY <2>1, <1>3, ChainLeadsToRoot DEF L
  <1>6. ASSUME NEW q \in j..L, NEW k \in j..L
        PROVE  Above(path[q], (L - q + 1) + (k - j)) = path[k]
    <2>1. /\ j \in 1..L /\ q \in 1..L /\ k - j \in 0..L - j /\ j + (k - j) = k
          /\ k - j \in Nat
      BY <1>1 DEF L
    <2>2. Above(path[j], k - j) = path[k]
      BY <1>1, <2>1, PathIsAbove DEF L
    <2>3. L - q + 1 \in Nat /\ Above(path[q], L - q + 1) = path[j]
      BY <2>1, <1>5
    <2>4. PICK x \in Nat, y \in Nat : x = L - q + 1 /\ y = k - j
      BY <2>1, <2>3
    <2>5. Above(Above(path[q], x), y) = Above(path[q], x + y)
      BY <1>1, AboveAdds
    <2> QED
      BY <2>2, <2>3, <2>4, <2>5
  <1>7. ASSUME NEW k \in j..L PROVE OnCycle(path[k])
    <2>1. (L - k + 1) + (k - j) = L - j + 1 /\ k \in 1..L
      BY <1>1 DEF L
    <2>2. L - j + 1 \in Heights
      BY <1>1, <1>2 DEF L, Heights
    <2> QED
      BY <1>4, <1>6, <2>1, <2>2 DEF OnCycle
  <1>8. ASSUME NEW k \in 1..L, k < j, OnCycle(path[k]) PROVE FALSE
    <2> DEFINE x == path[j - 1]
    <2>1. /\ j - 1 \in 1..L /\ j - 1 - k \in 0..L - k /\ k + (j - 1 - k) = j - 1
          /\ j - 1 - k \in Nat /\ (j - 1) + 1 = j /\ j - 1 \in 1..L - 1
          /\ L - (j - 1) \in 0..L - (j - 1) /\ L - (j - 1) \in Nat
          /\ (j - 1) + (L - (j - 1)) = L /\ L # j - 1 /\ L \in 1..L
      BY <1>1, <1>8 DEF L
    <2>2. Above(path[k], j - 1 - k) = x
      BY <1>1, <2>1, PathIsAbove DEF L
    <2>3. OnCycle(x)
      BY <1>1, <1>8, <2>1, <2>2, CycleGoesOn
    <2>4. Above(x, L - (j - 1)) = path[L]
      BY <1>1, <2>1, PathIsAbove DEF L
    <2>5. Up(x) = path[j]
      BY <1>1, <2>1 DEF PathClimbs, Up, L
    <2>6. Above(x, L - (j - 1)) = x
      <3>1. Above(x, 0) = x /\ Up(Above(x, 0)) = Up(Above(x, L - (j - 1)))
        BY <1>1, <1>3, <2>4, <2>5, AboveSteps
      <3> QED
        BY <1>1, <2>1, <2>3, <3>1, OneBlockedPerCycle
    <2> QED
      BY <1>1, <2>1, <2>4, <2>6 DEF ClimbsOnce, L
  <1>9. ASSUME NEW k \in 1..L PROVE OnCycle(path[k]) <=> k >= j
    <2>1. k >= j <=> k \in j..L
      BY <1>1 DEF L
    <2>2. k < j \/ k >= j
      BY <1>1 DEF L
    <2> QED
      BY <1>7, <1>8, <2>1, <2>2
  <1>10. ASSUME NEW q \in j..L, NEW k \in j..L
         PROVE  (L - q + 1) + (k - j) \in Nat
    BY <1>1 DEF L
  <1> QED
    BY <1>3, <1>6, <1>9, <1>10 DEF L

\* The edges of a chain that ends where it has been.
LEMMA ClosingChain ==
    ASSUME GraphInv, path # <<>>, NEW j \in 1..Len(path), Blocker = path[j],
           NEW k \in 1..Len(path), NEW e,
           e = [root |-> Blocker, blocker |-> rowMap[path[k]], blocked |-> path[k],
                depth |-> Depth(k, Len(path)), cycle |-> TRUE /\ k = Len(path)]
    PROVE  EdgePlaced(e)
  <1> DEFINE L == Len(path)
  <1>1. /\ TypeOK /\ PathClimbs /\ ClimbsOnce /\ L \in Nat \ {0}
        /\ Cardinality(Sessions) \in Nat /\ L <= Cardinality(Sessions)
    BY PathEnd, PathIsShort DEF GraphInv
  <1>2. /\ Current \in Waiting
        /\ \A m \in 1..L : OnCycle(path[m]) <=> m >= j
    BY CycleOfPath
  <1>3. /\ e.root = path[j] /\ e.blocked = path[k] /\ e.blocker = rowMap[path[k]]
        /\ e.depth = Depth(k, L) /\ (e.cycle <=> k = L)
    OBVIOUS
  <1>4. Depth(k, L) \in 1..Cardinality(Sessions) /\ Above(path[k], Depth(k, L)) = path[j]
    <2>1. L \in 1..L /\ Current = path[L] /\ Up(path[L]) = Blocker
      BY <1>1, <1>2 DEF Current, Blocker, Up
    <2> QED
      BY <2>1, ChainLeadsToRoot
  <1>5. OnCycle(path[j])
    BY <1>1, <1>2
  <1> HIDE DEF L
  <1>6. CASE k < j
    <2>1. ~OnCycle(path[k])
      BY <1>1, <1>2, <1>6 DEF L
    <2>2. EntersCycleAt(path[k], path[j])
      <3>1. j - k \in Heights /\ j - k \in 0..L - k /\ k + (j - k) = j
        BY <1>1, <1>6 DEF L, Heights
      <3>2. Above(path[k], j - k) = path[j]
        BY <1>1, <3>1, PathIsAbove DEF L
      <3>3. ASSUME NEW i \in 0..(j - k) - 1 PROVE ~OnCycle(Above(path[k], i))
        <4>1. i \in 0..L - k /\ k + i \in 1..L /\ ~(k + i >= j)
          BY <1>1, <1>6 DEF L
        <4>2. Above(path[k], i) = path[k + i]
          BY <1>1, <4>1, PathIsAbove DEF L
        <4> QED
          BY <1>2, <4>1, <4>2
      <3> QED
        BY <1>5, <3>1, <3>2, <3>3 DEF EntersCycleAt
    <2>3. k # L
      BY <1>1, <1>6 DEF L
    <2> QED
      BY <1>3, <1>4, <1>5, <2>1, <2>2, <2>3 DEF EdgePlaced
  <1>7. CASE k >= j
    <2>1. OnCycle(path[k])
      BY <1>2, <1>7 DEF L
    <2>2. k = L => rowMap[path[k]] = path[j]
      BY DEF L, Current, Blocker
    <2>3. k # L => rowMap[path[k]] # path[j]
      <3>1. SUFFICES ASSUME k # L PROVE rowMap[path[k]] # path[j]
        OBVIOUS
      <3>2. k \in 1..L - 1 /\ k + 1 \in 1..L /\ k + 1 # j
        BY <1>1, <1>7, <3>1 DEF L
      <3>3. rowMap[path[k]] = path[k + 1]
        BY <1>1, <3>2 DEF PathClimbs, L
      <3> QED
        BY <1>1, <3>2, <3>3 DEF ClimbsOnce, L
    <2> QED
      BY <1>3, <1>4, <1>5, <2>1, <2>2, <2>3 DEF EdgePlaced
  <1> QED
    BY <1>1, <1>6, <1>7 DEF L

\* Once one edge of a cycle is kept, all are, with one root.
LEMMA CycleHasEdges ==
    ASSUME GraphInv, CyclesTogether, NEW e \in edges, OnCycle(e.blocked), NEW i \in Nat
    PROVE  \E f \in edges : f.blocked = Above(e.blocked, i) /\ f.root = e.root
  <1> DEFINE T == {m \in Nat : \E f \in edges : /\ f.blocked = Above(e.blocked, m)
                                                /\ f.root = e.root}
  <1>0. TypeOK /\ EachWaitHasItsEdge
    BY DEF GraphInv
  <1>1. 0 \in T
    BY <1>0, AboveSteps
  <1>2. ASSUME NEW m \in Nat, m \in T PROVE m + 1 \in T
    <2>1. PICK f \in edges : f.blocked = Above(e.blocked, m) /\ f.root = e.root
      BY <1>2
    <2>2. OnCycle(f.blocked)
      BY <1>0, <2>1, CycleGoesOn
    <2>3. PICK g \in edges : g.blocked = f.blocker /\ g.root = f.root
      BY <2>2 DEF CyclesTogether
    <2>4. f.blocker = Up(f.blocked)
      BY <1>0 DEF EachWaitHasItsEdge, Up
    <2>5. Above(e.blocked, m + 1) = Up(Above(e.blocked, m))
      BY <1>0, AboveSteps
    <2>6. g.blocked = Above(e.blocked, m + 1) /\ g.root = e.root
      BY <2>1, <2>3, <2>4, <2>5
    <2> QED
      BY <2>6
  <1> HIDE DEF T
  <1>3. Nat \subseteq T
    BY <1>1, <1>2, NatSetInduction
  <1> QED
    BY <1>3 DEF T

\* What the relation says of sessions does not change with the rows done.
LEMMA SameRows ==
    ASSUME UNCHANGED rowMap
    PROVE  /\ Waiting' = Waiting
           /\ \A v, k : Above(v, k)' = Above(v, k)
           /\ \A s : OnCycle(s)' <=> OnCycle(s)
           /\ \A e : EdgePlaced(e)' <=> EdgePlaced(e)
  <1>1. Waiting' = Waiting
    BY DEF Waiting
  <1>2. ASSUME NEW v PROVE Up(v)' = Up(v)
    BY <1>1 DEF Up
  <1>3. ASSUME NEW v, NEW k PROVE Above(v, k)' = Above(v, k)
    BY <1>1 DEF Above, Up
  <1>4. ASSUME NEW s PROVE OnCycle(s)' <=> OnCycle(s)
    BY <1>1, <1>3 DEF OnCycle, Heights
  <1>5. ASSUME NEW s, NEW r PROVE EntersCycleAt(s, r)' <=> EntersCycleAt(s, r)
    BY <1>3, <1>4 DEF EntersCycleAt, Heights
  <1>6. ASSUME NEW e PROVE EdgePlaced(e)' <=> EdgePlaced(e)
    BY <1>1, <1>3, <1>4, <1>5 DEF EdgePlaced
  <1> QED
    BY <1>1, <1>3, <1>4, <1>6

\* Keeping a chain whose edges are placed, and whose edges on cycles stay together.
LEMMA KeepPlaces ==
    ASSUME PlaceInv, GraphInv',
           NEW root, NEW n \in 1..Len(path), NEW closing, Keep(root, n, closing),
           \A e \in Chain(root, n, closing) : EdgePlaced(e),
           \A e \in Chain(root, n, closing) : OnCycle(e.blocked) /\ Unseen(e) =>
               \E f \in edges' : f.blocked = e.blocker /\ f.root = e.root
    PROVE  PlaceInv'
  <1>1. /\ edges' = edges \cup {e \in Chain(root, n, closing) : Unseen(e)}
        /\ UNCHANGED rowMap
    BY DEF Keep
  <1>2. \A e \in edges' : EdgePlaced(e)
    BY <1>1 DEF PlaceInv
  <1>3. \A e \in edges' : OnCycle(e.blocked) =>
            \E f \in edges' : f.blocked = e.blocker /\ f.root = e.root
    BY <1>1 DEF PlaceInv, CyclesTogether
  <1>4. (\A e \in edges : EdgePlaced(e))'
    BY <1>1, <1>2, SameRows
  <1>5. CyclesTogether'
    BY <1>1, <1>3, SameRows DEF CyclesTogether
  <1> QED
    BY <1>4, <1>5 DEF PlaceInv

LEMMA EndPlaces ==
    ASSUME PlaceInv, GraphInv', EndAtTop \/ EndOutside \/ EndInCycle
    PROVE  PlaceInv'
  <1>1. /\ GraphInv /\ TypeOK /\ PathClimbs /\ path # <<>> /\ Len(path) \in Nat \ {0}
        /\ path[1] \in Waiting
        /\ \A k \in 1..Len(path) - 1 : path[k] \in Waiting
    BY PathEnd DEF PlaceInv, GraphInv, PathClimbs, EndAtTop, EndOutside, EndInCycle
  <1>2. ASSUME NEW n \in 1..Len(path), NEW root, root = Up(path[n]), root \notin Waiting,
               Keep(root, n, FALSE)
        PROVE  PlaceInv'
    <2>1. \A e \in Chain(root, n, FALSE) : EdgePlaced(e) /\ ~OnCycle(e.blocked)
      BY <1>1, <1>2, OpenChain
    <2> QED
      BY <1>2, <2>1, KeepPlaces
  <1>3. CASE EndAtTop
    <2>1. Keep(Current, Len(path) - 1, FALSE) /\ Current \notin Waiting
      BY <1>3 DEF EndAtTop, Blocker, Waiting
    <2>2. Len(path) # 1
      BY <1>1, <2>1 DEF Current
    <2>3. Len(path) - 1 \in 1..Len(path) /\ Len(path) - 1 \in 1..Len(path) - 1
          /\ (Len(path) - 1) + 1 = Len(path)
      <3>1. ASSUME NEW m \in Nat \ {0}, m # 1
            PROVE  m - 1 \in 1..m /\ m - 1 \in 1..m - 1 /\ (m - 1) + 1 = m
        BY <3>1
      <3> QED
        BY <1>1, <2>2, <3>1
    <2>4. Up(path[Len(path) - 1]) = Current
      BY <1>1, <2>3 DEF Up, PathClimbs, Current
    <2> QED
      BY <1>2, <2>1, <2>3, <2>4
  <1>4. CASE EndOutside
    <2>1. Keep(Blocker, Len(path), FALSE) /\ Blocker \notin DOMAIN rowMap
          /\ Blocker # NoBlocker
      BY <1>1, <1>4, RowsTyped, BlockersAssumption DEF EndOutside
    <2>2. Current \in Waiting /\ Blocker \notin Waiting
      BY <1>1, <2>1, PathEnd DEF Waiting, Blocker
    <2>3. Up(path[Len(path)]) = Blocker /\ Len(path) \in 1..Len(path)
      BY <1>1, <2>2 DEF Up, Blocker, Current
    <2> QED
      BY <1>2, <2>1, <2>2, <2>3
  <1>5. CASE EndInCycle
    <2> DEFINE L == Len(path)
               c(k) == [root |-> Blocker, blocker |-> rowMap[path[k]], blocked |-> path[k],
                        depth |-> Depth(k, L), cycle |-> TRUE /\ k = L]
    <2>1. Keep(Blocker, L, TRUE) /\ \E j \in 1..L : Blocker = path[j]
      BY <1>5 DEF EndInCycle, ReachesVisited, Visited
    <2>2. PICK j \in 1..L : Blocker = path[j]
      BY <2>1
    <2>3. /\ Current \in Waiting
          /\ \A k \in 1..L : OnCycle(path[k]) <=> k >= j
          /\ \A q, k \in j..L : \E i \in Nat : Above(path[q], i) = path[k]
      BY <1>1, <2>2, CycleOfPath
    <2>4. Chain(Blocker, L, TRUE) = {c(k) : k \in 1..L}
      BY DEF Chain
    <2>5. \A e \in Chain(Blocker, L, TRUE) : EdgePlaced(e)
      BY <1>1, <2>2, <2>4, ClosingChain
    <2>6. ASSUME NEW k \in 1..L, OnCycle(path[k]), Unseen(c(k))
          PROVE  \E f \in edges' : f.blocked = rowMap[path[k]] /\ f.root = Blocker
      <3>1. k >= j
        BY <2>3, <2>6
      <3>2. PICK q \in j..L : path[q] = rowMap[path[k]]
        <4>1. CASE k = L
          BY <1>1, <2>2, <4>1 DEF Blocker, Current
        <4>2. CASE k # L
          <5>1. k \in 1..L - 1 /\ k + 1 \in j..L
            BY <1>1, <3>1, <4>2
          <5> QED
            BY <1>1, <5>1 DEF PathClimbs
        <4> QED
          BY <4>1, <4>2
      <3>3. q \in 1..L /\ OnCycle(path[q]) /\ k \in j..L
        BY <1>1, <2>3, <3>1
      <3>4. c(q).blocked = path[q] /\ c(q).blocker = rowMap[path[q]] /\ c(q).root = Blocker
            /\ c(k).blocked = path[k] /\ c(k).blocker = rowMap[path[k]]
        OBVIOUS
      <3>5. CASE Unseen(c(q))
        <4>1. c(q) \in edges'
          BY <2>1, <2>4, <3>3, <3>5 DEF Keep
        <4> QED
          BY <3>2, <3>4, <4>1
      <3>6. CASE ~Unseen(c(q))
        <4>1. PICK g \in edges : g.blocked = path[q]
          BY <3>4, <3>6 DEF Unseen
        <4>2. PICK i \in Nat : Above(path[q], i) = path[k]
          BY <2>3, <3>3
        <4>3. PICK h \in edges : h.blocked = path[k]
          <5>1. GraphInv /\ CyclesTogether /\ OnCycle(g.blocked)
            BY <3>3, <4>1 DEF PlaceInv
          <5> QED
            BY <4>1, <4>2, <5>1, CycleHasEdges
        <4>4. h.blocker = rowMap[path[k]]
          BY <1>1, <4>3 DEF GraphInv, EachWaitHasItsEdge
        <4> QED
          BY <2>6, <3>4, <4>3, <4>4 DEF Unseen
      <3> QED
        BY <3>5, <3>6
    <2>7. \A e \in Chain(Blocker, L, TRUE) : OnCycle(e.blocked) /\ Unseen(e) =>
              \E f \in edges' : f.blocked = e.blocker /\ f.root = e.root
      <3>1. ASSUME NEW k \in 1..L, OnCycle(c(k).blocked), Unseen(c(k))
            PROVE  \E f \in edges' : f.blocked = c(k).blocker /\ f.root = c(k).root
        <4>1. c(k).blocked = path[k] /\ c(k).blocker = rowMap[path[k]] /\ c(k).root = Blocker
          OBVIOUS
        <4> HIDE DEF c
        <4> QED
          BY <2>6, <3>1, <4>1
      <3> HIDE DEF c
      <3> QED
        BY <2>4, <3>1
    <2>8. L \in 1..Len(path)
      BY <1>1
    <2> HIDE DEF L, c
    <2> QED
      BY <2>1, <2>5, <2>7, <2>8, KeepPlaces
  <1> QED
    BY <1>3, <1>4, <1>5

\* Nothing but the ends of climbs changes the edges.
LEMMA StepPlaces == PlaceInv /\ [Next]_vars => PlaceInv'
  <1> SUFFICES ASSUME PlaceInv, [Next]_vars PROVE PlaceInv'
    OBVIOUS
  <1>1. GraphInv'
    BY StepGraph DEF PlaceInv
  <1>2. CASE UNCHANGED <<rowMap, edges>>
    <2>1. (\A e \in edges : EdgePlaced(e))'
      BY <1>2, SameRows DEF PlaceInv
    <2>2. CyclesTogether'
      BY <1>2, SameRows DEF PlaceInv, CyclesTogether
    <2> QED
      BY <1>1, <2>1, <2>2 DEF PlaceInv
  <1>3. CASE EndAtTop \/ EndOutside \/ EndInCycle
    BY <1>1, <1>3, EndPlaces
  <1> QED
    BY <1>2, <1>3 DEF Next, TakeRow, Climb, vars

LEMMA InitPlaces == Init => PlaceInv
  <1> SUFFICES ASSUME Init PROVE PlaceInv
    OBVIOUS
  <1>1. GraphInv /\ edges = {}
    BY InitGraph DEF Init
  <1> QED
    BY <1>1 DEF PlaceInv, CyclesTogether

-----------------------------------------------------------------------------
(* What the placed edges mean for roots, depths, counts and marks.         *)

\* An edge's root and the sessions on the way to it.
LEMMA RootIsReal ==
    ASSUME PlaceInv, NEW e \in edges
    PROVE  /\ e.blocked \in Waiting /\ e.root \in Blockers
           /\ e.depth \in Nat \ {0} /\ e.depth \in 0..Cardinality(Sessions)
           /\ e.depth \in Heights /\ e.depth - 1 \in 0..Cardinality(Sessions)
           /\ Above(e.blocked, e.depth) = e.root
           /\ e.root \in Waiting => OnCycle(e.root)
           /\ NoBlocker \notin Blockers
  <1>1. Cardinality(Sessions) \in Nat
    BY PathIsShort DEF PlaceInv
  <1>2. e.depth \in 1..Cardinality(Sessions)
    BY DEF PlaceInv, EdgePlaced
  <1>3. /\ e.depth \in Nat \ {0} /\ e.depth \in 0..Cardinality(Sessions)
        /\ e.depth \in Heights /\ e.depth - 1 \in 0..Cardinality(Sessions)
    BY <1>1, <1>2 DEF Heights
  <1> QED
    BY <1>3, BlockersAssumption
       DEF PlaceInv, EdgePlaced, GraphInv, EachWaitHasItsEdge, TypeOK, Edge, Blockers

\* A waiting session has as its root the only session above it that nobody blocks.
LEMMA TopIsRoot ==
    ASSUME PlaceInv, NEW e \in edges, NEW k \in Nat, NEW r \in Blockers,
           Above(e.blocked, k) = r, r \notin Waiting
    PROVE  e.root = r /\ e.depth = k
  <1>1. TypeOK /\ NoBlocker \notin Waiting
    BY UpTyped DEF PlaceInv, GraphInv
  <1>2. PICK d \in Nat : d = e.depth
    BY RootIsReal
  <1>3. /\ e.root \in Blockers /\ Above(e.blocked, d) = e.root
        /\ e.root \in Waiting => OnCycle(e.root)
        /\ NoBlocker \notin Blockers
    BY <1>2, RootIsReal
  <1>4. CASE d < k
    <2>1. PICK g \in Nat \ {0} : Above(e.root, g) = r
      BY <1>1, <1>3, <1>4, FartherAbove
    <2>2. e.root \notin Waiting => r = NoBlocker
      BY <1>1, <2>1, NobodyAboveTop
    <2>3. e.root \in Waiting => r \in Waiting
      BY <1>1, <1>3, <2>1, CycleGoesOn DEF OnCycle
    <2> QED
      BY <1>3, <2>2, <2>3
  <1>5. CASE k < d
    <2>1. PICK g \in Nat \ {0} : Above(r, g) = e.root
      BY <1>1, <1>3, <1>5, FartherAbove
    <2> QED
      BY <1>1, <1>3, <2>1, NobodyAboveTop
  <1>6. CASE d = k
    BY <1>2, <1>3, <1>6
  <1> QED
    BY <1>4, <1>5, <1>6

\* The edge of a session under a cycle has its root on the cycle.
LEMMA UnderCycleRoot ==
    ASSUME PlaceInv, NEW e \in edges
    PROVE  UnderCycle(e.blocked) <=> e.root \in Waiting
  <1>1. TypeOK /\ NoBlocker \notin Waiting /\ Cardinality(Sessions) \in Nat
    BY UpTyped, PathIsShort DEF PlaceInv, GraphInv
  <1>2. PICK d \in Nat : d = e.depth
    BY RootIsReal
  <1>3. /\ d \in 0..Cardinality(Sessions) /\ Above(e.blocked, d) = e.root
        /\ e.root \in Waiting => OnCycle(e.root)
    BY <1>2, RootIsReal
  <1>4. ASSUME e.root \in Waiting PROVE UnderCycle(e.blocked)
    BY <1>3, <1>4 DEF UnderCycle
  <1>5. ASSUME UnderCycle(e.blocked), e.root \notin Waiting PROVE FALSE
    <2>1. PICK k \in Nat : OnCycle(Above(e.blocked, k))
      BY <1>1, <1>5 DEF UnderCycle
    <2> DEFINE s == Above(e.blocked, k)
    <2>2. CASE k < d
      <3>1. PICK g \in Nat \ {0} : Above(s, g) = e.root
        BY <1>1, <1>3, <2>2, FartherAbove
      <3> HIDE DEF s
      <3>2. OnCycle(e.root)
        BY <1>1, <2>1, <3>1, CycleGoesOn DEF s
      <3> QED
        BY <1>5, <3>2 DEF OnCycle
    <2>3. CASE d < k
      <3>1. PICK g \in Nat \ {0} : Above(e.root, g) = s
        BY <1>1, <1>3, <2>3, FartherAbove
      <3>2. s = NoBlocker
        BY <1>1, <1>5, <3>1, NobodyAboveTop
      <3> QED
        BY <1>1, <2>1, <3>2 DEF OnCycle
    <2>4. CASE k = d
      BY <1>3, <1>5, <2>1, <2>4 DEF OnCycle
    <2> QED
      BY <2>2, <2>3, <2>4
  <1> QED
    BY <1>4, <1>5

\* The edges of a cycle's sessions have one root.
LEMMA OneRootPerCycle ==
    ASSUME PlaceInv, NEW e \in edges, OnCycle(e.blocked), NEW k \in Nat,
           NEW f \in edges, f.blocked = Above(e.blocked, k)
    PROVE  f.root = e.root
  <1>1. GraphInv /\ CyclesTogether
    BY DEF PlaceInv
  <1>2. PICK g \in edges : g.blocked = Above(e.blocked, k) /\ g.root = e.root
    BY <1>1, CycleHasEdges
  <1> QED
    BY <1>1, <1>2 DEF GraphInv, EachWaitHasItsEdge

\* blocked_count of a tree is the number of sessions in it.
LEMMA CountsAgree ==
    ASSUME PlaceInv, Done, NEW e \in edges, e.root \notin Waiting
    PROVE  BlockedCount(e.root) = Cardinality(Below(e.root))
  <1> DEFINE r == e.root
             T == {f \in edges : f.root = r}
             F == [f \in T |-> f.blocked]
  <1>1. /\ \A f \in edges : f.blocked \in Waiting
        /\ \A f, g \in edges : f.blocked = g.blocked => f = g
        /\ \A s \in Waiting : \E f \in edges : f.blocked = s
    BY DEF Done, PlaceInv, GraphInv, EachWaitHasItsEdge
  <1>2. Heights \subseteq Nat /\ r \in Blockers
    BY RootIsReal, SessionsAssumption, FS_CardinalityType DEF Heights
  <1>3. \A f \in T : f.blocked \in Below(r)
    BY <1>1, RootIsReal DEF Below
  <1>4. ASSUME NEW s \in Below(r) PROVE \E f \in T : f.blocked = s
    <2>1. PICK f \in edges : f.blocked = s
      BY <1>1 DEF Below
    <2>2. f.root = r
      BY <1>2, <2>1, TopIsRoot DEF Below
    <2> QED
      BY <2>1, <2>2
  <1>5. F \in Bijection(T, Below(r))
    BY <1>1, <1>3, <1>4 DEF Bijection, Injection, Surjection, IsInjective
  <1>6. IsFiniteSet(Below(r))
    <2>1. Below(r) \subseteq Sessions
      BY RowsTyped DEF Below, Waiting, PlaceInv, GraphInv
    <2> QED
      BY <2>1, SessionsAssumption, FS_Subset
  <1> HIDE DEF r, T, F
  <1>7. ExistsBijection(T, Below(r))
    BY <1>5 DEF ExistsBijection
  <1>8. Cardinality(T) = Cardinality(Below(r))
    BY <1>6, <1>7, FS_Bijection, Fun_ExistsBijSymmetric
  <1> QED
    BY <1>8 DEF r, T, BlockedCount

LEMMA PlacedRoots == PlaceInv => RootsAndDepths
  <1> SUFFICES ASSUME PlaceInv PROVE RootsAndDepths
    OBVIOUS
  <1>1. \A e \in edges : e.depth \in Heights /\ Above(e.blocked, e.depth) = e.root
    BY RootIsReal
  <1>2. ASSUME NEW e \in edges, ~UnderCycle(e.blocked)
        PROVE  e.root \notin Waiting /\ IsBelow(e.blocked, e.root, e.depth)
    <2>1. /\ e.root \notin Waiting /\ e.root \in Blockers /\ e.depth \in Nat
          /\ Above(e.blocked, e.depth) = e.root
      BY <1>2, UnderCycleRoot, RootIsReal
    <2>2. ASSUME NEW j \in 1..e.depth - 1, Above(e.blocked, j) = e.root PROVE FALSE
      <3>1. j \in Nat /\ j # e.depth
        BY <2>1
      <3> QED
        BY <2>1, <2>2, <3>1, TopIsRoot
    <2> QED
      BY <2>1, <2>2 DEF IsBelow
  <1>3. ASSUME NEW e \in edges, UnderCycle(e.blocked)
        PROVE  IF OnCycle(e.blocked)
               THEN \A f \in edges : f.blocked \in CycleOf(e.blocked) => f.root = e.root
               ELSE EntersCycleAt(e.blocked, e.root)
    <2>1. OnCycle(e.blocked) \/ EntersCycleAt(e.blocked, e.root)
      BY <1>3, UnderCycleRoot DEF PlaceInv, EdgePlaced
    <2>2. Heights \subseteq Nat
      BY SessionsAssumption, FS_CardinalityType DEF Heights
    <2>3. ASSUME OnCycle(e.blocked), NEW f \in edges, f.blocked \in CycleOf(e.blocked)
          PROVE  f.root = e.root
      BY <2>2, <2>3, OneRootPerCycle DEF CycleOf
    <2> QED
      BY <2>1, <2>3
  <1>4. ASSUME Done, NEW e \in edges, ~UnderCycle(e.blocked)
        PROVE  BlockedCount(e.root) = Cardinality(Below(e.root))
    BY <1>4, UnderCycleRoot, CountsAgree
  <1> QED
    BY <1>1, <1>2, <1>3, <1>4 DEF RootsAndDepths

LEMMA PlacedMarks == PlaceInv => OneMarkPerCycle
  <1> SUFFICES ASSUME PlaceInv PROVE OneMarkPerCycle
    OBVIOUS
  <1>0. /\ TypeOK /\ GraphInv /\ CyclesTogether
        /\ Heights \subseteq Nat
        /\ \A e \in edges : e.cycle <=> OnCycle(e.blocked) /\ e.blocker = e.root
    BY SessionsAssumption, FS_CardinalityType DEF Heights, PlaceInv, GraphInv, EdgePlaced
  <1>1. \A e \in edges : e.blocked \in Waiting /\ e.blocker = Up(e.blocked)
    BY <1>0 DEF GraphInv, EachWaitHasItsEdge, Up
  <1>2. \A f, g \in edges : f.blocked = g.blocked => f = g
    BY <1>0 DEF GraphInv, EachWaitHasItsEdge
  <1>3. ASSUME Done, NEW s \in Waiting, OnCycle(s)
        PROVE  \E e \in edges : /\ e.cycle /\ e.blocked \in CycleOf(s)
                                /\ \A f \in edges :
                                       f.cycle /\ f.blocked \in CycleOf(s) => f = e
    <2>1. PICK b \in edges : b.blocked = s
      BY <1>3 DEF Done, PlaceInv, GraphInv, EachWaitHasItsEdge
    <2> DEFINE i == b.depth - 1
    <2>2. i \in Nat /\ i + 1 = b.depth /\ (i # 0 => i \in Heights)
      BY RootIsReal, PathIsShort, <1>0 DEF Heights
    <2> HIDE DEF i
    <2>3. Up(Above(s, i)) = b.root
      <3>1. Above(s, i + 1) = Up(Above(s, i))
        BY <1>0, <2>2, AboveSteps
      <3> QED
        BY <2>1, <2>2, <3>1, RootIsReal
    <2>4. PICK e \in edges : e.blocked = Above(s, i) /\ e.root = b.root
      BY <1>0, <1>3, <2>1, <2>2, CycleHasEdges
    <2>5. e.cycle
      BY <1>0, <1>1, <1>3, <2>2, <2>3, <2>4, CycleGoesOn
    <2>6. e.blocked \in CycleOf(s)
      <3>1. CASE i = 0
        <4>1. e.blocked = s
          BY <1>0, <2>4, <3>1, AboveSteps
        <4> QED
          BY <1>3, <4>1 DEF CycleOf, OnCycle
      <3>2. CASE i # 0
        BY <1>1, <2>2, <2>4, <3>2 DEF CycleOf
      <3> QED
        BY <3>1, <3>2
    <2>7. ASSUME NEW f \in edges, f.cycle, f.blocked \in CycleOf(s)
          PROVE  f = e
      <3>1. PICK k \in Nat : Above(s, k) = f.blocked
        BY <1>0, <2>7 DEF CycleOf
      <3>2. f.root = b.root
        BY <1>3, <2>1, <3>1, OneRootPerCycle
      <3>3. Up(Above(s, k)) = Up(Above(s, i))
        BY <1>0, <1>1, <2>3, <2>7, <3>1, <3>2
      <3>4. f.blocked = e.blocked
        BY <1>0, <1>3, <2>2, <2>4, <3>1, <3>3, OneBlockedPerCycle
      <3> QED
        BY <1>2, <3>4
    <2> QED
      BY <2>5, <2>6, <2>7
  <1> QED
    BY <1>0, <1>3 DEF OneMarkPerCycle

-----------------------------------------------------------------------------
(* The frame: what the edges are to the pages.                             *)

RowOf(s) == [session |-> s, request |-> 1, blocker |-> rowMap[s], sql |-> Stored!NoSql]

\* The blocking relation as the frame's rows hold it.
LEMMA StoredRows ==
    ASSUME TypeOK
    PROVE  /\ KeptRows = {RowOf(s) : s \in DOMAIN rowMap}
           /\ Stored!Waiting(KeptRows) = {RowOf(s) : s \in Waiting}
           /\ Stored!BlockerOf(KeptRows) = [s \in Waiting |-> rowMap[s]]
  <1>1. KeptRows = {RowOf(s) : s \in DOMAIN rowMap}
    BY DEF KeptRows, RowOf
  <1>2. \A s : RowOf(s).session = s /\ RowOf(s).blocker = rowMap[s]
    BY DEF RowOf
  <1>3. Stored!Waiting(KeptRows) = {RowOf(s) : s \in Waiting}
    BY <1>1, <1>2 DEF Stored!Waiting, Stored!None, Waiting, NoBlocker
  <1>4. {r.session : r \in Stored!Waiting(KeptRows)} = Waiting
    BY <1>2, <1>3
  <1>5. ASSUME NEW s \in Waiting
        PROVE  (CHOOSE r \in KeptRows : r.session = s) = RowOf(s)
    <2>1. RowOf(s) \in KeptRows /\ RowOf(s).session = s
      BY <1>1, <1>2 DEF Waiting
    <2>2. \A r \in KeptRows : r.session = s => r = RowOf(s)
      BY <1>1, <1>2
    <2> QED
      BY <2>1, <2>2
  <1>6. Stored!BlockerOf(KeptRows) = [s \in Waiting |-> rowMap[s]]
    <2>1. \A s \in Waiting : (CHOOSE r \in KeptRows : r.session = s).blocker = rowMap[s]
      BY <1>2, <1>5
    <2> QED
      BY <1>4, <2>1 DEF Stored!BlockerOf
  <1> QED
    BY <1>1, <1>3, <1>6

\* A set of sessions that holds the blocker of s and of each of its members.
ClosedAhead(s, U) == \A w \in Waiting : w = s \/ w \in U => rowMap[w] \in U

LEMMA StoredAhead ==
    ASSUME TypeOK, NEW s
    PROVE  Stored!Ahead(KeptRows, s) =
               {t \in Blockers : \A U \in SUBSET Blockers : ClosedAhead(s, U) => t \in U}
  <1>1. Sessions \cup (Others \cup Specials) = Blockers
    BY DEF Blockers
  <1> DEFINE blocker == [w \in Waiting |-> rowMap[w]]
  <1>2. DOMAIN blocker = Waiting /\ \A w \in Waiting : blocker[w] = rowMap[w]
    OBVIOUS
  <1>3. Stored!BlockerOf(KeptRows) = blocker
    BY StoredRows
  <1> HIDE DEF blocker
  <1> QED
    BY <1>1, <1>2, <1>3 DEF Stored!Ahead, ClosedAhead

\* Whom s waits for are those above it.
LEMMA AheadIsAbove ==
    ASSUME TypeOK, NEW s, NEW t
    PROVE  t \in Stored!Ahead(KeptRows, s)
           <=> t \in Blockers /\ \E k \in Nat \ {0} : Above(s, k) = t
  <1>0. /\ Above(s, 0) = s /\ \A k \in Nat : Above(s, k + 1) = Up(Above(s, k))
        /\ \A w \in Waiting : Up(w) = rowMap[w]
        /\ \A w : w \notin Waiting => Up(w) = NoBlocker
        /\ NoBlocker \notin Blockers
    BY AboveSteps, UpTyped, BlockersAssumption DEF Up, Blockers
  <1>1. ASSUME t \in Stored!Ahead(KeptRows, s)
        PROVE  t \in Blockers /\ \E k \in Nat \ {0} : Above(s, k) = t
    <2> DEFINE U == {u \in Blockers : \E k \in Nat \ {0} : Above(s, k) = u}
    <2>1. ASSUME NEW w \in Waiting, w = s \/ w \in U PROVE rowMap[w] \in U
      <3>1. PICK k \in Nat : Above(s, k) = w
        BY <1>0, <2>1
      <3>2. Above(s, k + 1) = rowMap[w] /\ k + 1 \in Nat \ {0}
        BY <1>0, <3>1
      <3>3. rowMap[w] \in Blockers
        BY RowsTyped DEF Waiting
      <3> QED
        BY <3>2, <3>3
    <2>2. U \in SUBSET Blockers /\ ClosedAhead(s, U)
      BY <2>1 DEF ClosedAhead
    <2>3. t \in U
      <3> HIDE DEF U
      <3> QED
        BY <1>1, <2>2, StoredAhead
    <2> QED
      BY <2>3
  <1>2. ASSUME t \in Blockers, NEW k \in Nat \ {0}, Above(s, k) = t
        PROVE  t \in Stored!Ahead(KeptRows, s)
    <2>1. ASSUME NEW U \in SUBSET Blockers, ClosedAhead(s, U) PROVE t \in U
      <3> DEFINE T == {m \in Nat : Above(s, m + 1) \in Blockers => Above(s, m + 1) \in U}
      <3>1. ASSUME NEW m \in Nat, Above(s, m) = s \/ Above(s, m) \in U
                                  \/ Above(s, m) \notin Blockers
            PROVE  m \in T
        <4>1. Above(s, m + 1) = Up(Above(s, m))
          BY <1>0
        <4>2. CASE Above(s, m) \in Waiting
          <5>1. Above(s, m) \in Blockers
            BY <4>2, RowsTyped DEF Waiting, Blockers
          <5> QED
            BY <1>0, <2>1, <3>1, <4>1, <4>2, <5>1 DEF ClosedAhead
        <4>3. CASE Above(s, m) \notin Waiting
          BY <1>0, <4>1, <4>3
        <4> QED
          BY <4>2, <4>3
      <3>2. 0 \in T
        BY <1>0, <3>1
      <3>3. ASSUME NEW m \in Nat, m \in T PROVE m + 1 \in T
        <4>1. m + 1 \in Nat
          OBVIOUS
        <4> QED
          BY <3>1, <3>3, <4>1
      <3>4. k - 1 \in Nat /\ (k - 1) + 1 = k
        BY <1>2
      <3> HIDE DEF T
      <3>5. k - 1 \in T
        BY <3>2, <3>3, <3>4, NatSetInduction
      <3> QED
        BY <1>2, <3>4, <3>5 DEF T
    <2> QED
      BY <1>2, <2>1, StoredAhead
  <1> QED
    BY <1>1, <1>2

\* A session that waits for itself, however far round, is on a cycle as the edges know it.
LEMMA WaitsForItself ==
    ASSUME PlaceInv, NEW e \in edges, NEW k \in Nat \ {0}, Above(e.blocked, k) = e.blocked
    PROVE  OnCycle(e.blocked)
  <1>1. TypeOK /\ NoBlocker \notin Waiting /\ e.blocked \in Waiting
    BY UpTyped, RootIsReal DEF PlaceInv, GraphInv
  <1> DEFINE s == e.blocked
             T == {m \in Nat : \E n \in Nat : m <= n /\ Above(s, n) = s}
  <1>2. 0 \in T
    BY <1>1, AboveSteps
  <1>3. ASSUME NEW m \in Nat, m \in T PROVE m + 1 \in T
    <2>1. PICK n \in Nat : m <= n /\ Above(s, n) = s
      BY <1>3
    <2>2. Above(Above(s, n), k) = Above(s, n + k)
      BY <1>1, AboveAdds
    <2>3. n + k \in Nat /\ m + 1 <= n + k
      BY <2>1
    <2> QED
      BY <2>1, <2>2, <2>3
  <1> HIDE DEF T
  <1>4. PICK d \in Nat : d = e.depth
    BY RootIsReal
  <1>5. Above(s, d) = e.root /\ (e.root \in Waiting => OnCycle(e.root))
    BY <1>4, RootIsReal
  <1>6. d + 1 \in T
    BY <1>2, <1>3, NatSetInduction
  <1>7. PICK n \in Nat : d < n /\ Above(s, n) = s
    BY <1>6 DEF T
  <1>8. PICK g \in Nat \ {0} : Above(e.root, g) = s
    BY <1>1, <1>5, <1>7, FartherAbove
  <1>9. e.root \in Waiting
    BY <1>1, <1>8, NobodyAboveTop
  <1> QED
    BY <1>1, <1>5, <1>8, <1>9, CycleGoesOn

\* The cycles of the frame are those of the graph.
LEMMA StoredCycles ==
    ASSUME PlaceInv, NEW e \in edges
    PROVE  Stored!OnCycle(KeptRows, e.blocked) <=> OnCycle(e.blocked)
  <1>1. TypeOK /\ e.blocked \in Waiting /\ e.blocked \in Blockers
    BY RootIsReal, RowsTyped DEF PlaceInv, GraphInv, Waiting, Blockers
  <1>2. Stored!OnCycle(KeptRows, e.blocked)
        <=> \E k \in Nat \ {0} : Above(e.blocked, k) = e.blocked
    BY <1>1, AheadIsAbove DEF Stored!OnCycle
  <1>3. OnCycle(e.blocked) => \E k \in Nat \ {0} : Above(e.blocked, k) = e.blocked
    BY SessionsAssumption, FS_CardinalityType DEF OnCycle, Heights
  <1> QED
    BY <1>2, <1>3, WaitsForItself

\* The edge of each waiting session, when the function has returned.
LEMMA EdgeOfEach ==
    ASSUME PlaceInv, Done, NEW s \in Waiting
    PROVE  /\ (CHOOSE e \in edges : e.blocked = s) \in edges
           /\ (CHOOSE e \in edges : e.blocked = s).blocked = s
           /\ \A f \in edges : f.blocked = s => f = CHOOSE e \in edges : e.blocked = s
  BY DEF PlaceInv, GraphInv, EachWaitHasItsEdge, Done

RootOf == [s \in Waiting |-> (CHOOSE e \in edges : e.blocked = s).root]

\* A session of no cycle is below its root by a step that leaves no cycle.
LEMMA LastStep ==
    ASSUME PlaceInv, NEW e \in edges, ~OnCycle(e.blocked)
    PROVE  \E k \in Nat : LET t == Above(e.blocked, k)
                          IN  t \in Waiting /\ ~OnCycle(t) /\ rowMap[t] = e.root
  <1>0. TypeOK /\ e.root \in Blockers /\ NoBlocker \notin Blockers
    BY RootIsReal DEF PlaceInv, GraphInv
  <1>1. /\ TypeOK /\ e.root \in Blockers /\ NoBlocker \notin Blockers
        /\ \A k \in Nat : Above(e.blocked, k + 1) = Up(Above(e.blocked, k))
        /\ Heights \subseteq Nat \ {0}
    <2>1. \A k \in Nat : Above(e.blocked, k + 1) = Up(Above(e.blocked, k))
      BY <1>0, AboveSteps
    <2>2. Heights \subseteq Nat \ {0}
      BY SessionsAssumption, FS_CardinalityType DEF Heights
    <2> QED
      BY <1>0, <2>1, <2>2
  <1>2. ASSUME NEW k \in Nat, Above(e.blocked, k + 1) = e.root
        PROVE  Above(e.blocked, k) \in Waiting /\ rowMap[Above(e.blocked, k)] = e.root
    <2>1. Up(Above(e.blocked, k)) = e.root
      BY <1>1, <1>2
    <2> QED
      BY <1>1, <2>1 DEF Up
  <1>3. CASE e.root \in Waiting
    <2>1. PICK h \in Heights : /\ Above(e.blocked, h) = e.root
                               /\ \A j \in 0..h - 1 : ~OnCycle(Above(e.blocked, j))
      BY <1>3 DEF PlaceInv, EdgePlaced, EntersCycleAt
    <2>2. h - 1 \in Nat /\ h - 1 \in 0..h - 1 /\ (h - 1) + 1 = h
      BY <1>1
    <2>3. ~OnCycle(Above(e.blocked, h - 1))
      BY <2>1, <2>2
    <2> QED
      BY <1>2, <2>1, <2>2, <2>3
  <1>4. CASE e.root \notin Waiting
    <2>1. PICK d \in Nat \ {0} : d = e.depth
      BY RootIsReal
    <2>2. d - 1 \in Nat /\ (d - 1) + 1 = d /\ Above(e.blocked, d) = e.root
      BY <2>1, RootIsReal
    <2> DEFINE t == Above(e.blocked, d - 1)
    <2>3. t \in Waiting /\ rowMap[t] = e.root
      BY <1>2, <2>2
    <2> HIDE DEF t
    <2>4. Above(t, 1) = e.root
      <3>1. Above(t, 0 + 1) = Up(Above(t, 0)) /\ Above(t, 0) = t
        BY <1>1, AboveSteps
      <3> QED
        BY <2>3, <3>1 DEF Up
    <2>5. ~OnCycle(t)
      BY <1>1, <1>4, <2>4, LeavesNoCycle
    <2> QED
      BY <2>2, <2>3, <2>5 DEF t
  <1> QED
    BY <1>3, <1>4

\* The roots are among those the pages are shown right for.
LEMMA RootsFit ==
    ASSUME PlaceInv, Done
    PROVE  RootOf \in Stored!Roots(KeptRows)
  <1> DEFINE blocker == [w \in Waiting |-> rowMap[w]]
             edge(s) == CHOOSE e \in edges : e.blocked = s
  <1>0. TypeOK /\ Waiting \subseteq Blockers
    BY RowsTyped DEF PlaceInv, GraphInv, Waiting, Blockers
  <1>1. \A s \in Waiting : /\ edge(s) \in edges /\ edge(s).blocked = s
                           /\ RootOf[s] = edge(s).root
    BY EdgeOfEach DEF RootOf
  <1> HIDE DEF edge
  <1>2. ASSUME NEW s \in Waiting
        PROVE  /\ RootOf[s] \in Blockers
               /\ RootOf[s] \in Stored!Ahead(KeptRows, s)
               /\ RootOf[s] \in Waiting => Stored!OnCycle(KeptRows, RootOf[s])
    <2>1. /\ edge(s).root \in Blockers /\ Above(s, edge(s).depth) = edge(s).root
          /\ edge(s).depth \in Nat \ {0}
          /\ edge(s).root \in Waiting => OnCycle(edge(s).root)
      BY <1>1, RootIsReal
    <2>2. RootOf[s] \in Stored!Ahead(KeptRows, s)
      BY <1>0, <1>1, <2>1, AheadIsAbove
    <2>3. ASSUME RootOf[s] \in Waiting PROVE Stored!OnCycle(KeptRows, RootOf[s])
      BY <1>1, <2>1, <2>3, StoredCycles
    <2> QED
      BY <1>1, <2>1, <2>2, <2>3
  <1>3. ASSUME NEW s \in Waiting, Stored!OnCycle(KeptRows, s),
               NEW t \in Stored!Ahead(KeptRows, s)
        PROVE  RootOf[t] = RootOf[s]
    <2>1. OnCycle(s)
      BY <1>1, <1>3, StoredCycles
    <2>2. PICK k \in Nat : Above(s, k) = t
      BY <1>0, AheadIsAbove
    <2>3. t \in Waiting
      BY <1>0, <2>1, <2>2, CycleGoesOn DEF OnCycle
    <2> QED
      BY <1>1, <2>1, <2>2, <2>3, OneRootPerCycle
  <1>4. ASSUME NEW s \in Waiting, ~Stored!OnCycle(KeptRows, s)
        PROVE  \E t \in Stored!Ahead(KeptRows, s) \cup {s} :
                   /\ ~Stored!OnCycle(KeptRows, t) /\ t \in Waiting /\ rowMap[t] = RootOf[s]
    <2>1. ~OnCycle(s)
      BY <1>1, <1>4, StoredCycles
    <2>2. PICK k \in Nat : /\ Above(s, k) \in Waiting /\ ~OnCycle(Above(s, k))
                           /\ rowMap[Above(s, k)] = RootOf[s]
      BY <1>1, <2>1, LastStep
    <2> DEFINE t == Above(s, k)
    <2>3. t \in Stored!Ahead(KeptRows, s) \cup {s}
      <3>1. CASE k = 0
        BY <1>0, <3>1, AboveSteps
      <3>2. CASE k # 0
        BY <1>0, <2>2, <3>2, AheadIsAbove
      <3> QED
        BY <3>1, <3>2
    <2>4. ~Stored!OnCycle(KeptRows, t)
      BY <1>1, <2>2, StoredCycles
    <2> QED
      BY <2>2, <2>3, <2>4
  <1>5. /\ Stored!BlockerOf(KeptRows) = blocker /\ DOMAIN blocker = Waiting
        /\ \A s \in Waiting : blocker[s] = rowMap[s]
        /\ Sessions \cup (Others \cup Specials) = Blockers
    BY <1>0, StoredRows DEF Blockers
  <1>6. RootOf \in [Waiting -> Blockers]
    BY <1>2 DEF RootOf
  <1> HIDE DEF blocker
  <1> QED
    BY <1>2, <1>3, <1>4, <1>5, <1>6 DEF Stored!Roots

LEMMA StoredCardinality == \A X : Stored!Cardinality(X) = Cardinality(X)
  BY DEF Stored!Cardinality, Cardinality, Stored!IsFiniteSet, IsFiniteSet

\* blocked_count counts the edges of a root, the frame its rows.
LEMMA SameCounts ==
    ASSUME PlaceInv, Done, NEW r
    PROVE  BlockedCount(r)
           = Cardinality({q \in Stored!Waiting(KeptRows) : RootOf[q.session] = r})
  <1> DEFINE T == {e \in edges : e.root = r}
             Q == {q \in Stored!Waiting(KeptRows) : RootOf[q.session] = r}
             F == [q \in Q |-> CHOOSE e \in edges : e.blocked = q.session]
  <1>0. TypeOK /\ \A s : RowOf(s).session = s
    BY DEF PlaceInv, GraphInv, RowOf
  <1>1. Stored!Waiting(KeptRows) = {RowOf(s) : s \in Waiting}
    BY <1>0, StoredRows
  <1>2. ASSUME NEW q \in Q
        PROVE  /\ q.session \in Waiting /\ q = RowOf(q.session)
               /\ F[q] \in T /\ F[q].blocked = q.session
    <2>1. q.session \in Waiting /\ q = RowOf(q.session)
      BY <1>0, <1>1
    <2> QED
      BY <2>1, EdgeOfEach DEF RootOf
  <1>3. ASSUME NEW e \in T PROVE \E q \in Q : F[q] = e
    <2>1. e.blocked \in Waiting
      BY RootIsReal
    <2>2. e = CHOOSE f \in edges : f.blocked = e.blocked
      BY <2>1, EdgeOfEach
    <2>3. RootOf[e.blocked] = r
      BY <2>1, <2>2 DEF RootOf
    <2>4. RowOf(e.blocked) \in Q
      BY <1>0, <1>1, <2>1, <2>3
    <2>5. F[RowOf(e.blocked)] = e
      BY <1>0, <2>2, <2>4
    <2> QED
      BY <2>4, <2>5
  <1>4. IsFiniteSet(Q)
    <2>1. Waiting \subseteq Sessions
      BY <1>0, RowsTyped DEF Waiting
    <2>2. IsFiniteSet(Waiting)
      BY <2>1, SessionsAssumption, FS_Subset
    <2>3. IsFiniteSet({RowOf(s) : s \in Waiting})
      <3> DEFINE G == [s \in Waiting |-> RowOf(s)]
      <3>1. G \in Surjection(Waiting, {RowOf(s) : s \in Waiting})
        BY DEF Surjection
      <3> QED
        BY <2>2, <3>1, FS_Surjection
    <2> QED
      BY <1>1, <2>3, FS_Subset
  <1>5. F \in Bijection(Q, T)
    <2>1. F \in [Q -> T]
      BY <1>2
    <2>2. \A p, q \in Q : F[p] = F[q] => p = q
      <3> HIDE DEF Q, F
      <3> QED
        BY <1>2
    <2> HIDE DEF Q, F, T
    <2> QED
      BY <1>3, <2>1, <2>2 DEF Bijection, Injection, Surjection, IsInjective
  <1> HIDE DEF Q, T, F
  <1>6. ExistsBijection(Q, T)
    BY <1>5 DEF ExistsBijection
  <1>7. Cardinality(Q) = Cardinality(T)
    BY <1>4, <1>6, FS_Bijection
  <1> QED
    BY <1>7 DEF Q, T, BlockedCount

\* What the function returns, as the frame stores it.
LEMMA EdgesFit ==
    ASSUME PlaceInv, Done
    PROVE  {Snapshot(e) : e \in edges} = Stored!Edges(KeptRows, RootOf)
  <1> DEFINE stored(r) == [root |-> RootOf[r.session], blocker |-> r.blocker,
                           blocked |-> r.session, count |-> BlockedCount(RootOf[r.session])]
  <1>0. TypeOK /\ \A s : RowOf(s).session = s /\ RowOf(s).blocker = rowMap[s]
    BY DEF PlaceInv, GraphInv, RowOf
  <1>1. Stored!Waiting(KeptRows) = {RowOf(s) : s \in Waiting}
    BY <1>0, StoredRows
  <1>2. Stored!Edges(KeptRows, RootOf) = {stored(r) : r \in Stored!Waiting(KeptRows)}
    BY SameCounts, StoredCardinality DEF Stored!Edges
  <1>3. ASSUME NEW e \in edges
        PROVE  e.blocked \in Waiting /\ Snapshot(e) = stored(RowOf(e.blocked))
    <2>1. e.blocked \in Waiting /\ e.blocker = rowMap[e.blocked]
      BY DEF PlaceInv, GraphInv, EachWaitHasItsEdge
    <2>2. RootOf[e.blocked] = e.root
      BY <2>1, EdgeOfEach DEF RootOf
    <2> QED
      BY <1>0, <2>1, <2>2 DEF Snapshot
  <1>4. \A s \in Waiting : \E e \in edges : e.blocked = s
    BY EdgeOfEach
  <1> HIDE DEF stored
  <1> QED
    BY <1>1, <1>2, <1>3, <1>4

LEMMA PlacedFit == PlaceInv => FitsFrame
  BY RootsFit, EdgesFit DEF FitsFrame, RootOf

-----------------------------------------------------------------------------
(* The number of turns.                                                    *)

LEMMA StillToClimb ==
    ASSUME GraphInv
    PROVE  /\ LeftToClimb \in 0..Cardinality(Sessions)
           /\ path # <<>> => LeftToClimb = Cardinality(Sessions) + 1 - Len(path)
                             /\ LeftToClimb # 0
  <1>1. Cardinality(Sessions) \in Nat /\ Len(path) <= Cardinality(Sessions)
    BY PathIsShort
  <1>2. Len(path) \in Nat /\ (path # <<>> => Len(path) # 0)
    BY DEF GraphInv, TypeOK
  <1> QED
    BY <1>1, <1>2 DEF LeftToClimb

ClimbWithin == LeftToClimb \in 0..Cardinality(Sessions)

LEMMA StillWithin == GraphInv => ClimbWithin
  BY StillToClimb DEF ClimbWithin

LEMMA TurnTakes ==
    ASSUME GraphInv, ClimbWithin, ClimbWithin', Next
    PROVE  /\ {LeftToClimb, LeftToClimb'} \subseteq 0..Cardinality(Sessions)
           /\ \/ Cardinality(todo') < Cardinality(todo)
              \/ todo' = todo /\ LeftToClimb' < LeftToClimb
  <1>1. /\ LeftToClimb \in 0..Cardinality(Sessions)
        /\ LeftToClimb' \in 0..Cardinality(Sessions)
        /\ Cardinality(Sessions) \in Nat
    BY PathIsShort DEF ClimbWithin
  <1>2. ASSUME NEW s \in Sessions, TakeRow(s)
        PROVE  Cardinality(todo') < Cardinality(todo)
    <2>1. s \in todo /\ todo' = todo \ {s}
      BY <1>2 DEF TakeRow, Start
    <2>2. todo \subseteq Sessions
      BY RowsTyped DEF GraphInv, TypeOK
    <2>3. IsFiniteSet(todo)
      BY <2>2, SessionsAssumption, FS_Subset
    <2>4. Cardinality(todo') = Cardinality(todo) - 1 /\ Cardinality(todo) \in Nat
      BY <2>1, <2>3, FS_RemoveElement, FS_CardinalityType
    <2> QED
      BY <2>4
  <1>3. CASE Climb
    <2>1. path # <<>> /\ path' = Append(path, Blocker) /\ todo' = todo
      BY <1>3 DEF Climb
    <2>2. path \in Seq(DOMAIN rowMap) /\ Blocker \in DOMAIN rowMap
      BY <1>3 DEF GraphInv, TypeOK, Climb
    <2>3. Len(path') = Len(path) + 1 /\ path' # <<>> /\ Len(path) \in Nat
      BY <2>1, <2>2
    <2>4. /\ LeftToClimb = Cardinality(Sessions) + 1 - Len(path)
          /\ LeftToClimb' = Cardinality(Sessions) + 1 - Len(path')
      BY <2>1, <2>3 DEF LeftToClimb
    <2> QED
      BY <1>1, <2>1, <2>3, <2>4
  <1>4. CASE EndAtTop \/ EndOutside \/ EndInCycle
    <2>1. path # <<>> /\ path' = <<>> /\ todo' = todo
      BY <1>4 DEF EndAtTop, EndOutside, EndInCycle, Keep
    <2>2. LeftToClimb # 0 /\ LeftToClimb' = 0
      BY <2>1, StillToClimb DEF LeftToClimb
    <2> QED
      BY <1>1, <2>1, <2>2
  <1> QED
    BY <1>1, <1>2, <1>3, <1>4 DEF Next

\* The inductive invariant about the places of the edges holds of every run.
THEOREM PlaceInvariant == Spec => []PlaceInv
  BY InitPlaces, StepPlaces, PTL DEF Spec

\* Whichever chain contributed an edge, build_blocking_edges gives it the root and
\* the depth the blocking relation has, and blocked_count is the size of its tree.
THEOREM RootsAreRight == Spec => []RootsAndDepths
  BY PlaceInvariant, PlacedRoots, PTL

\* However many chains run into a cycle, exactly one of its edges is marked.
THEOREM MarkedOnce == Spec => []OneMarkPerCycle
  BY PlaceInvariant, PlacedMarks, PTL

\* Whatever the order of the rows, what build_blocking_edges returns and
\* _build_blocking_snapshots stores is a content that Frame gives the pages: what is
\* proved of the pages for every such content holds of what the collector stores.
THEOREM SnapshotsFitFrame == Spec => []FitsFrame
  BY PlaceInvariant, PlacedFit, PTL

\* Every turn of build_blocking_edges takes a row away or comes nearer to the end of a
\* climb: with n sessions it makes at most (n + 1) * n turns, whatever cycles there are.
THEOREM TurnsBounded == Spec => TurnsRunOut
  <1>1. GraphInv /\ ClimbWithin /\ ClimbWithin' /\ [Next]_vars
        => [/\ {LeftToClimb, LeftToClimb'} \subseteq 0..Cardinality(Sessions)
            /\ \/ Cardinality(todo') < Cardinality(todo)
               \/ todo' = todo /\ LeftToClimb' < LeftToClimb]_vars
    BY TurnTakes
  <1> QED
    BY <1>1, GraphInvariant, StillWithin, PTL DEF Spec, TurnsRunOut
=============================================================================

---------------------------- MODULE BlockingGraph ----------------------------
(***************************************************************************)
(* build_blocking_edges of app/collector/blocking_graph.py: from the rows   *)
(* of one query, who waits for whom, the edges of the blocking trees, each  *)
(* with its root, its depth and whether it closes a cycle.                 *)
(*                                                                          *)
(* Every row's chain is climbed anew from the row to its root, and only the *)
(* edges no earlier chain has contributed are kept.  The query has no order, *)
(* so neither have the rows.                                               *)
(***************************************************************************)
EXTENDS Naturals, Sequences, FiniteSets

CONSTANTS
    Sessions,   \* session ids of the rows
    Others,     \* blockers without a row: sessions that are not user processes
    Specials    \* the blockers -2, -3 and -4

NoBlocker == 0   \* NULL is read as 0

ASSUME SessionsAssumption == IsFiniteSet(Sessions)
ASSUME BlockersAssumption ==
    /\ Sessions \cap (Others \cup Specials \cup {NoBlocker}) = {}
    /\ Others \cap (Specials \cup {NoBlocker}) = {}
    /\ NoBlocker \notin Specials

Blockers == Sessions \cup Others \cup Specials

VARIABLES
    rowMap,   \* the blocker of each session with a row
    todo,     \* rows not looked at yet
    path,     \* sessions climbed from the current row up; <<>> between rows
    edges     \* the edges built so far

vars == <<rowMap, todo, path, edges>>

Edge == [root : Blockers, blocker : Blockers, blocked : Sessions,
         depth : Nat, cycle : BOOLEAN]

TypeOK ==
    /\ \E S \in SUBSET Sessions : rowMap \in [S -> Blockers \cup {NoBlocker}]
    /\ todo \subseteq DOMAIN rowMap
    /\ path \in Seq(DOMAIN rowMap)
    /\ \A e \in edges : e \in Edge

Init ==
    /\ \E S \in SUBSET Sessions : rowMap \in [S -> Blockers \cup {NoBlocker}]
    /\ todo = DOMAIN rowMap
    /\ path = <<>>
    /\ edges = {}

\* The climb starts at the row's session.
Start(s) == path' = <<s>> /\ todo' = todo \ {s}

\* The next row: nothing to do when it has no blocker.
TakeRow(s) ==
    /\ path = <<>>
    /\ s \in todo
    /\ IF rowMap[s] = NoBlocker
       THEN todo' = todo \ {s} /\ UNCHANGED path
       ELSE Start(s)
    /\ UNCHANGED <<rowMap, edges>>

Current == path[Len(path)]
Blocker == rowMap[Current]
Visited == {path[k] : k \in 1..Len(path)}

\* Mutant: a chain only notices that it is back where it started.
ReachesStart == Blocker = path[1]

\* The blocker was climbed through before.
ReachesVisited == Blocker \in Visited

\* The blocker is one to climb to.
Climb ==
    /\ path # <<>>
    /\ Blocker \in DOMAIN rowMap
    /\ ~ReachesVisited
    /\ path' = Append(path, Blocker)
    /\ UNCHANGED <<rowMap, todo, edges>>

\* Mutant: depth counted from the waiting end.
DepthFromRow(k, n) == k

\* Depth counted from the root's end of n edges.
Depth(k, n) == n - k + 1

\* Mutant: an edge another chain contributed is kept a second time.
NotKept(e) == e \notin edges

\* (blocker_id, blocked_id) is not in seen_edges.
Unseen(e) == \A f \in edges : <<f.blocker, f.blocked>> # <<e.blocker, e.blocked>>

\* Mutant: every edge of a chain that enters a cycle is marked.
ChainAllMarked(root, n, closing) ==
    {[root |-> root, blocker |-> rowMap[path[k]], blocked |-> path[k],
      depth |-> Depth(k, n), cycle |-> closing] : k \in 1..n}

\* The edges of the first n sessions of the path.
Chain(root, n, closing) ==
    {[root |-> root, blocker |-> rowMap[path[k]], blocked |-> path[k],
      depth |-> Depth(k, n), cycle |-> closing /\ k = n] : k \in 1..n}

Keep(root, n, closing) ==
    /\ edges' = edges \cup {e \in Chain(root, n, closing) : Unseen(e)}
    /\ path' = <<>>
    /\ UNCHANGED <<rowMap, todo>>

\* The climb ends at a session that nobody blocks.
EndAtTop ==
    /\ path # <<>>
    /\ Blocker = NoBlocker
    /\ Keep(Current, Len(path) - 1, FALSE)

\* Mutant: a user session whose row is missing is not noticed.
EndAtOthers ==
    /\ path # <<>>
    /\ Blocker \in Specials \cup Others
    /\ Keep(Blocker, Len(path), FALSE)

\* ... at a blocker that has no row: a special code, or another session.
EndOutside ==
    /\ path # <<>>
    /\ Blocker \in Specials \cup Others
       \/ Blocker \in Sessions \ DOMAIN rowMap
    /\ Keep(Blocker, Len(path), FALSE)

\* ... or where it has been before.
EndInCycle ==
    /\ path # <<>>
    /\ ReachesVisited
    /\ Keep(Blocker, Len(path), TRUE)

Done == path = <<>> /\ todo = {}

Next ==
    \/ \E s \in Sessions : TakeRow(s)
    \/ Climb
    \/ EndAtTop
    \/ EndOutside
    \/ EndInCycle

Spec == Init /\ [][Next]_vars

\* The function runs until it returns.
FairSpec == Spec /\ WF_vars(Next)

\* blocked_count of the snapshots with this root.
BlockedCount(root) == Cardinality({e \in edges : e.root = root})

\* Mutant: the count is looked up by the blocker.
SnapshotByBlocker(e) == [root |-> e.root, blocker |-> e.blocker, blocked |-> e.blocked,
                         count |-> BlockedCount(e.blocker)]

\* _build_blocking_snapshots: an edge in the frame.
Snapshot(e) == [root |-> e.root, blocker |-> e.blocker, blocked |-> e.blocked,
                count |-> BlockedCount(e.root)]

-----------------------------------------------------------------------------
(* Correctness, against the blocking relation itself.                      *)

Waiting == {s \in DOMAIN rowMap : rowMap[s] # NoBlocker}

\* Who blocks v; NoBlocker from the top on.
Up(v) == IF v \in Waiting THEN rowMap[v] ELSE NoBlocker

\* The k-th session above v.
Above(v, k) ==
    LET above[j \in Nat] == IF j = 0 THEN v ELSE Up(above[j - 1])
    IN  above[k]

Heights == 1..Cardinality(Sessions) + 1
OnCycle(s) == s \in Waiting /\ \E k \in Heights : Above(s, k) = s
CycleOf(s) == {t \in Waiting : \E k \in Heights : Above(s, k) = t}
UnderCycle(s) == \E k \in 0..Cardinality(Sessions) : OnCycle(Above(s, k))
Below(r) == {s \in Waiting : \E k \in Heights : Above(s, k) = r}
IsBelow(s, r, k) == Above(s, k) = r /\ (\A j \in 1..k - 1 : Above(s, j) # r)

\* r is the first session above s that waits for itself.
EntersCycleAt(s, r) ==
    \E k \in Heights : /\ Above(s, k) = r
                       /\ OnCycle(r)
                       /\ \A j \in 0..k - 1 : ~OnCycle(Above(s, j))

\* Whatever the order of the rows and whichever chain an edge came from, each
\* waiting session whose row is done has exactly one edge, from its blocker.
EachWaitHasItsEdge ==
    /\ \A e \in edges : e.blocked \in Waiting /\ e.blocker = rowMap[e.blocked]
    /\ \A e, f \in edges : e.blocked = f.blocked => e = f
    /\ path = <<>> => \A s \in Waiting \ todo : \E e \in edges : e.blocked = s

\* Whichever row's chain an edge was first met in, its depth leads to its root.
\* Outside cycles the root is the session nobody blocks and the depth the waiting
\* session's distance from it, so each tree is one group and blocked_count its
\* size.  A chain that runs into a cycle has the session where it enters as its
\* root, and all sessions of one cycle have the same.
RootsAndDepths ==
    /\ \A e \in edges : e.depth \in Heights /\ Above(e.blocked, e.depth) = e.root
    /\ \A e \in edges : ~UnderCycle(e.blocked) =>
           e.root \notin Waiting /\ IsBelow(e.blocked, e.root, e.depth)
    /\ \A e \in edges : UnderCycle(e.blocked) =>
           IF OnCycle(e.blocked)
           THEN \A f \in edges : f.blocked \in CycleOf(e.blocked) => f.root = e.root
           ELSE EntersCycleAt(e.blocked, e.root)
    /\ Done => \A e \in edges : ~UnderCycle(e.blocked) =>
           BlockedCount(e.root) = Cardinality(Below(e.root))

\* Exactly one edge of each cycle is marked, and none outside cycles, although
\* many chains run into the same cycle at different places.
OneMarkPerCycle ==
    /\ \A e \in edges : e.cycle => OnCycle(e.blocked)
    /\ Done => \A s \in Waiting : OnCycle(s) =>
           \E e \in edges : /\ e.cycle /\ e.blocked \in CycleOf(s)
                            /\ \A f \in edges :
                                   f.cycle /\ f.blocked \in CycleOf(s) => f = e

\* The frame as the pages know it: the rows that were kept, and what may be made of them.
Stored == INSTANCE Frame WITH Others <- Others \cup Specials, Requests <- {1}, Hashes <- {}
KeptRows ==
    {[session |-> s, request |-> 1, blocker |-> rowMap[s], sql |-> Stored!NoSql] :
        s \in DOMAIN rowMap}

\* What the function returns is one of the frames Frame allows: whatever the order
\* of the rows, its roots are those of the relation and its counts those of the roots.
FitsFrame ==
    Done => LET root == [s \in Waiting |-> (CHOOSE e \in edges : e.blocked = s).root]
            IN  /\ root \in Stored!Roots(KeptRows)
                /\ {Snapshot(e) : e \in edges} = Stored!Edges(KeptRows, root)

\* A climb passes each session at most once, so it ends after as many steps as
\* there are rows, also when it enters a cycle half way up.
ClimbsOnce == \A j, k \in 1..Len(path) : path[j] = path[k] => j = k

\* Each session of the path is blocked by the next; the first is the row's.
PathClimbs ==
    /\ \A k \in 1..Len(path) - 1 : rowMap[path[k]] = path[k + 1]
    /\ path # <<>> => path[1] \in Waiting \ todo

\* A row that was taken has its edge, or is the one being climbed from.
TakenRowHasItsEdge ==
    \A s \in Waiting \ todo :
        (\E e \in edges : e.blocked = s) \/ (path # <<>> /\ s = path[1])

\* The inductive invariant behind EachWaitHasItsEdge and ClimbsOnce.
GraphInv ==
    /\ TypeOK
    /\ EachWaitHasItsEdge
    /\ ClimbsOnce
    /\ PathClimbs
    /\ TakenRowHasItsEdge

\* What an edge says by itself: its depth leads to its root, which nobody blocks
\* or which is where its chain enters a cycle, and it is marked when it closes one.
EdgePlaced(e) ==
    /\ e.depth \in 1..Cardinality(Sessions)
    /\ Above(e.blocked, e.depth) = e.root
    /\ e.root \in Waiting =>
           /\ OnCycle(e.root)
           /\ OnCycle(e.blocked) \/ EntersCycleAt(e.blocked, e.root)
    /\ e.cycle <=> OnCycle(e.blocked) /\ e.blocker = e.root

\* The edges of a cycle are kept together, from one chain.
CyclesTogether ==
    \A e \in edges : OnCycle(e.blocked) =>
        \E f \in edges : f.blocked = e.blocker /\ f.root = e.root

\* The inductive invariant behind RootsAndDepths and OneMarkPerCycle.
PlaceInv ==
    /\ GraphInv
    /\ \A e \in edges : EdgePlaced(e)
    /\ CyclesTogether

\* How many sessions a climb may still pass.
LeftToClimb == IF path = <<>> THEN 0 ELSE Cardinality(Sessions) + 1 - Len(path)

\* Every turn of the loops takes a row away or comes nearer to the end of a climb, so
\* the function makes at most (n + 1) * n of them for n sessions.
TurnsRunOut ==
    [][/\ {LeftToClimb, LeftToClimb'} \subseteq 0..Cardinality(Sessions)
       /\ \/ Cardinality(todo') < Cardinality(todo)
          \/ todo' = todo /\ LeftToClimb' < LeftToClimb]_vars

\* The function returns.
Returns == <>Done
=============================================================================

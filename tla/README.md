# sql-monitor in TLA+

sql-monitor watches SQL Server instances. A collector process reads DMVs
every few seconds and stores frames in PostgreSQL. A FastAPI process
manages instances, shows the frames, and orders kills and index operations.
A Vue console talks to the API. This directory models the parts where
processes, transactions and failures meet, checks them with TLC and proves
all of their safety properties with TLAPS.

All paths below are relative to `src/`; RIC stands for
`backend/app/collector/real_instance_collector.py`.

## 1. Inventory

| Component | State | Operations | Hard part | What makes it correct |
|---|---|---|---|---|
| Collection cycle (`backend/app/collector/main.py`, RIC) | `instances.status`, `instance_collect_status`, `snapshot_frames`; the ORM session of a cycle; `_index_collection_tasks` | list, collect one instance, record success or failure, sleep | one session lives through a whole cycle: stale copies, rollbacks that expire them, crashes | frames and status rows agree; each attempt recorded once; no instance starves another |
| Instance handlers (`services/instance_service.py`) | the same rows, other process | create, edit, delete (disable), test a connection | write what the cycle also writes | a deletion is undone only where a column read before it differs |
| Index collection (RIC 238-699) | `index_collection_status`, two snapshot tables; a pool of one-thread executors | due?, list databases, query concurrently, time out, persist | answers race timeouts while the generator is suspended | no database lost, limit kept, snapshots replaced whole |
| Blocking graph (`collector/blocking_graph.py`) | rows of one query | build edges, roots, depths, cycle marks | cycles, missing blockers, unordered rows | one edge per wait, right root and depth, termination |
| Index operations (`services/index_service.py`, `routes/indexes.py`) | `index_operation_audits`; a background task; the index on SQL Server | check the name, audit, execute in a thread, settle the audit | two systems and no transaction over both; restarts | nothing unaudited; audits do not lie; audits settle |
| Index lists (RIC, `services/index_service.py`) | SQL Server's views, the loop's page and items; the stored rows and `index_collection_status` | list page by page, keep what is usable, store; serve a page with its date | the view changes between pages; a collection is committed between the three statements of a page | each row listed once; a page says no younger a date than its rows have |
| Kill (`services/kill_service.py`, `routes/kill.py`) | `kill_audits` | validate against the latest frame, execute, audit | the target is seconds old; the audit follows the act | what is audited as a success was killable; every answer has its audit |
| Console (`frontend/src/stores`, `views`) | current instance, rows shown, open dialogs | fetch, refresh, switch instance, confirm | overlapping requests, dialogs over changing state | a kill goes to the instance whose row was clicked |
| Users, login, captcha (`services/user_service.py`, `auth_service.py`, `captcha_service.py`, `deps.py`) | `users`; tokens and captchas, which are signed and not stored | create, edit, disable, reset, log in, authorise | administrators acting on each other at the same time; tokens that outlive a change | access follows a login; a disabling lasts; an administrator remains |
| Queries (`dashboard_`, `session_`, `sql_`, `blocking_`, `replay_service.py`) | none | reports over frames, each in several statements | no common snapshot of the statements; one session in several rows; counters that restart | a page is that of one frame at one moment; pages agree; rates are real |
| Rest: migrations, schemas, SQL text normalisation, mock collector, deployment | | | | |

The processes share nothing but PostgreSQL. The collector never sends a
message to the API; the API never wakes the collector. The console polls.
`PROJECT.json` lists every component with its status and every hazard with its
line; a hazard without a property has a note that says why.

## 2. Modules

- `CollectRecord` - the abstract promise of the collector about each instance:
  an attempt is recorded once, as a frame together with a success row, or as one
  more consecutive failure. Each attempt has a time of its own, so that a failure that
  is recorded but not counted is a step the specification forbids, not a stutter. The one
  exception is a success whose commit PostgreSQL applies without the collector learning of
  it: the failure path then records the same attempt as failed, on the count before it
  (`RecordDoubt`). The history variable `doubt` says when that may be.
- `Collector` (extends it) - the collector process and the API's instance
  handlers over the same tables. `status`, `record` and `newest` are the tables;
  `pending`, `loaded`, `expired` and `tx` are the ORM session; `pc`, `attempt`,
  `captured` the local state of `collect_instance_snapshot`; `testing`
  is a connection test that has read its row and waits for SQL Server. Other requests, and the
  cycle, commit between its read and its write.
- `IndexCollection` - the index task of one instance. `pc` walks through
  `_collect_index_snapshots_if_due` and the generator
  `_collect_index_databases_concurrently`; `todo`, `active`, `thread`, `late`
  and `batch` are the generator's iterator, its table of futures, what the threads
  have come to, which deadlines have passed, and the loop of futures being
  yielded; `lastSuccess`, `failed` and `snapshot` are the tables.
- `BlockingGraph` - `build_blocking_edges`, one action per turn of its loops.
  The relation (`rowMap`) is chosen in `Init`, the order of rows by `TakeRow`.
- `IndexOperation` - requests (`handler`), audit rows (`audit`), background
  tasks (`task`) and the statements on SQL Server (`server`, `exists`).
- `Frame` - what the collector stores of one result of `SESSION_REQUEST_SQL`, and what
  every page makes of it: constant operators on sets of rows.
- `FrameReads` (extends it) - the abstract promise of the pages: an answer is made
  from one frame, the one the question selects at some moment of the request, as if
  the handler had read everything at that moment.
- `FrameQueries` (extends `Frame`, refines `FrameReads`) - the collector's commits and
  a handler that works off its `plan`, one SQL statement an action, for all eight pages
  (dashboard, session list and detail, SQL list and detail, blocking, replay, target of
  a kill). `ref` is the frame it has selected, `S`, `R`, `B`, `T` are the rows it has
  read, `trend` is what the dashboard reads by time.
- `IndexLists` - the other end of the index collection: the loop of
  `list_missing_indexes` and `list_index_fragmentation` over a view of SQL Server that
  changes meanwhile (`page`, `total`, `items`), the replacement of the stored rows, and
  the API's page with its `checked_at` and staleness (`plan`, `read`, `answer`). The
  collector's list is the set `items` of listings, each a row with the page it was read
  from, since a row may be listed twice and the table forgets the order; the table's
  `rows` are a sequence in the order of the API's queries, fixed by `Persist`.
- `KillConsole` - the session page (`rows`, `loading`, `error`, `dialog`, the calls in
  `fetch`), the store of instances (`items`, `chosen`), the kill handler (`request`) and
  `audits`, while frames are committed and the list of instances changes.
- `Users` - `accounts`; `captchas` and `tokens` by the times they were issued; the
  handlers of `routes/users.py`, several at a time, each in three steps: authorised,
  loaded, committed. `raced` and `at` are history variables.
- `Collector_proofs`, `BlockingGraph_proofs`, `IndexOperation_proofs`,
  `IndexCollection_proofs`, `FrameQueries_proofs`, `IndexLists_proofs`, `Users_proofs`,
  `KillConsole_proofs` - the theorems.
- `MC*` - instances for TLC.

`Collector` and `IndexCollection` meet at the table `_index_collection_tasks`:
after `CommitSnapshot` the loop calls `schedule_index_collection_for_instance`,
which is the action `Schedule`, and the task's end callback is part of `EndTask`;
`pc = "none"` means the table has no task of the instance. The two modules are not
composed: the index task has its own session and tables and gives the cycle
nothing back but its place in the table. `KillConsole` takes the reading of a kill's target for
one step because `FrameQueries` shows that it may (page `target`). `Frame` says without any
order of rows which roots an edge may have (`Roots`): the session nobody blocks, and with
cycles some member. `BlockingGraph` instantiates it (`Stored`), and `FitsFrame` says that
what the function returns is one of these contents, so that what holds of the pages
for all contents holds of what the collector stores.

### The ORM rules

`Collector`, and `Users` for the first, rest on three facts about SQLAlchemy's sessions, marked external:

- a commit updates only columns whose value differs from the loaded one
  (`Stored`), so assigning `online` to a copy that already says `online` leaves a
  concurrent `disabled` alone, and assigning it to a copy that says `offline` does not;
- `rollback()` expires all objects if a transaction is open, and does nothing
  otherwise (`Rollback`); `expire_on_commit=False` keeps a commit from expiring
  them (`backend/app/db/postgres.py:14`);
- reading an expired column outside an await raises. `instance.id` is read at
  RIC 91, before the `try`: `DieOnExpired`.

A transaction is open from the first SELECT of the listing until the first commit
or rollback, so a failure of the first instance of a cycle expires the others, and
a failure of a later one, before it has written anything, expires none.

### What is abstracted

Payloads (sessions, requests, waits, SQL texts, index rows, DSNs, error texts)
have no place in the models: a query answers or fails, a result has items or an
error. An edit and a deletion are one action each: of what their handler read before,
only the column it writes matters, and if that had its value already nothing is written.
A connection test writes what differs from the status it read, so it has two. Times are
compared only for equality in `Collector` and are small numbers in `IndexCollection`,
`IndexLists`, `FrameQueries` and `Users`, where intervals matter. The counter of failures
has no limit in the code; `FailureCap` is a bound of the model.
`snapshot_time` is assumed to differ between consecutive attempts on an instance
(microseconds, cycles seconds apart); three times let an attempt differ from the
last success and the last failure.

- `FrameQueries`: texts a page reads twice are one statement; waits, sorting, the
  dashboard's top five, the cut of lists into pages and columns that are only copied are
  left out. One instance, one handler: handlers share nothing but the tables they
  read. The trends are not part of the one-moment answer, since they are read by time; they
  have properties of their own. Where a session has parallel requests the pages
  choose different rows of it and count differently (PRD lines 251, 253), and so they do
  below a cycle (254): `PagesAgree` speaks of results without parallel requests and
  compares roots with chains, which cycles do not separate.
- `KillConsole`: `instance_exists` is true of disabled instances, which keep their rows;
  refusals for a role or an unknown instance leave no state and are left out. Of a
  frame only the kind of each session remains.
- `IndexLists`: one database and one type. The list of databases and the quoting of
  identifiers are left out. Missing indexes may overtake each other as their use changes;
  the indexes of a database keep the order of their names, but those of two schemas may
  tie, since the order leaves the schema out. Two habits of the code are in the model and in the
  properties: a page of nothing but unusable missing indexes ends the loop and hides
  what is behind it (`hollow`), and a page read across a commit may say a younger
  `checked_at` than its rows have.
- `Users`: display names are left out; password hashes and signatures are taken to do
  what they are for. An operator's own row is the one the session read to authorise
  him, so that editing himself works on that copy.

## 3. Runs

| Run | Instance | Shows |
|---|---|---|
| `collector` | 2 instances, 3 times, failures counted to 2, 1 connection test at a time, 1 fault | `TypeOK`, `CollectStatusCoherent`, `DeletionUndoneOnlyIf`; refinement of `CollectRecord`. 2.0 million states, symmetric times |
| `collector_live` | 3 instances, the middle one unreachable, no crashes | `HealthyCollected` |
| `collector_isolation` | 2 instances, the first unreachable | violation of `FailureIsolation` |
| `index_collection` | 3 databases, 2 at a time, interval 2, 3 clock values, 1 fault | pool, results, snapshots and intervals: six invariants. 7.3 million states, symmetric databases |
| `index_collection_live` | 3 databases, the clock stands still (time still passes for the deadlines) | `TaskEnds` |
| `index_listing` | 2 databases | violation of `ListingFailureRecorded` |
| `blocking_graph` | 4 sessions, one blocker without a row, one special code | edges, roots, depths, cycle marks, the content of a frame, termination for every relation and order |
| `index_operation` | 3 requests on one index, 2 faults | audits against the statements; 104 thousand states |
| `frame_queries` | 3 sessions, 5 results with every content a frame may hold of them, 3 kinds of traffic, 10 questions, 3 ticks, window 1, replay delay 1 | `TypeOK`, `PagesAgree`, `TrendReachesBack`, `RatesAreReal`; refinement of `FrameReads` |
| `index_lists` | 3 candidates, pages of 1 on both sides, interval 1, 3 clock values, 1 change of the view | `TypeOK`, `ListedOnce`, `PageDated` |
| `kill_console` | 2 instances, 2 session ids (one of them `MinKillable`), 2 overlapping fetches, 2 frames, 1 change of the list, 1 audit | `TypeOK`, `KillStraysOnlyIf`, `SuccessWasKillable`, `AnswersAudited`; 1.7 million states, symmetric fetches |
| `users` | 2 users, 2 roles, 2 passwords, 2 handlers at a time, lives of 1 tick, 2 captchas and tokens | `TypeOK`, `AccessFollowsLogin`, `AdminLostOnlyIf`, `DisableSurvives`; 3.1 million states, symmetric handlers |

Why the bounds are enough. Two instances are the smallest cycle in which one
instance's rollback can hurt another; liveness takes a third, so that a failing
one stands between two healthy ones. Two failures tell "one more" from "reset"
and from "lost". One fault is what one attempt can meet in `Collector`: a refused write, a lost
acknowledgement or a crash, each at any step and followed by whole cycles (the inductive
invariant was also checked with two faults and failures counted to 1). One connection test
can span a cycle, an edit and a deletion of its instance; a second at the same
time, which the console's test of all instances makes, would follow the same rule from its
own read. Requests to create or edit carry `offline`: the
other statuses come from the cycle, the tests and the deletion. Three
databases with two places give a queue behind a full pool; an interval of two
with three clock values gives a success that is still fresh, one just due and one
over-due. Four sessions allow a cycle of two with chains entering it at both
members, a cycle of three with a tail, and two trees. Three requests on one index
race for its name while one is already settled.

Frames: three ticks are three frames at most, of which a window of one leaves one
outside and a delay of one refuses one to a replay; two may be committed while a
handler is between its statements. The five results hold an idle, a busy and a blocked
session, a tree of two behind a blocker without a row, a cycle with a third session
behind it and parallel requests; more sessions change what an operator of `Frame` counts
but not in which order tables are read, and what it counts is proved of any number of them.
Index lists: with pages of one row, three candidates are three pages, so that one
change of the view can move a row to a page already read or not yet read, and an unusable
row is a page of its own. Kill: a fetch, a second that overlaps it, a fallback of the
current instance and a frame before and after the click all fit; the properties are
about one request at a time, since the dialog is modal, and all audits are proved about
in section 5. Users: two administrators disabling each other need two users and two
handlers; a life of one tick tells "expires at" from "expires after".

Deadlock is checked for `collector`, `collector_live` and `collector_isolation` (the
collector never stops) and for `kill_console` (a page can always be refreshed). It is not for the
others: a function returns, a clock stops at its bound, requests are answered.

### Fairness

- Collector: `WF` of the process's own steps (it runs, and systemd restarts it),
  and `SF` of an answered collection for reachable servers: a server that is asked
  again and again answers again and again. Nothing of the API is fair. Crashes are
  bounded by `MaxFaults`; in the liveness runs it is 0, since liveness is about
  what happens when faults stop.
- The liveness runs restrict the environment, for size, and an attempt's choice of
  a time, which is only compared. `QuietFairSpec`: instances are created offline, those that answer are
  disabled and enabled by edits at any moment, nobody tests a connection (a test only
  writes a status, as an edit does). `StaticFairSpec`: nobody touches an instance
  once it is created; its counterexample is one of the full specification too.
- Index task: `WF` of its steps and of each deadline. No fairness of threads.
- Blocking graph: `WF` of the function.
- Index operations: `WF` of handler and task. SQL Server owes nothing: `AuditSettles`
  speaks of statements it has decided.
- `FrameQueries`, `IndexLists`, `KillConsole` and `Users` state no fairness: their
  handlers end by themselves, and what they must not do is what matters.

## 4. Disagreements with the documentation

`PROJECT.json` quotes the lines. Two are runs that TLC refutes:

1. `FailureIsolation`: an unreachable instance that is first in the order of
   creation makes the collector die, cycle for cycle, before the second.
2. `ListingFailureRecorded`: the status that says the databases could not be
   listed is never committed.

The others are plain from the code; the models contain the behaviour of all but the last:

3. An instance deleted during its collection, or during a connection test, may come back:
   both write a status over `disabled` if it differs from the one they had read.
   `DeletionUndoneOnlyIf` lists these cases, and the theorem says there are no others: a
   cycle that lists after the deletion does not undo it, nor does a collection of an
   instance listed as online that ends well, or a test that finds what it had read.
4. Sessions below a blocking cycle are divided among several roots: with 1 and 2 blocking
   each other and 3 behind 2, the climb from 3 ends at 2 and that from 1 at 1.
5. After a restart an audit of an index operation may say `running` for ever, because
   only its task settles it.
6. The trends of a replay go on to the newest frame: `list_resource_frames`
   (`dashboard_service.py:164`) has only a lower bound.
7. The kill dialog keeps the session id but not the instance (`SessionsView.vue:184`).
   `KillStraysOnlyIf` lists the cases in which a kill goes to another instance than the
   one whose row was clicked, and the theorem says there are no others.
8. `KillConfirmDialog.vue` announces that KILL is sent to SQL Server; the executor wired
   in does nothing and the audit says success.
9. A kill refused for the operator's role, or for an unknown instance, leaves no audit, though
   the design says every refusal does.

## 5. Proofs

Every theorem is about `Spec` and holds for all values of the constants that the
assumptions named in the modules allow: sets of instances, users, databases and
sessions of any size, any bounds, any number of faults. Bounds on clocks and counters
are constants too, so nothing depends on their being small. The assumptions say that numbers
are numbers and that a special value is none of the ordinary ones; two say more:
`FramesAssumption` and `SamplesAssumption`, that a collection finds results of the shape
the query gives, and `GreatestAssumption`, that a set of instances has a greatest, as any
finite set has. Each inductive invariant was checked by TLC on the instance of the run
before it was proved.

`Collector_proofs` proves, for all instances, times, caps, unreachable sets and
numbers of faults, under the assumptions named in `CollectRecord` and `Collector`:
`InvariantHolds` (`[]CollectorInv`) and from it `TypeCorrect`,
`FrameAndStatusAgree`, `DeletionsLast` (`DeletionUndoneOnlyIf`) and `RecordsImplemented`.

Why the invariant. `CollectStatusCoherent` is not inductive: a commit writes
columns only when they differ from the session's copies, so one must know what the
copies are. `LoadedIsCurrent` says that the copies of a pending instance are the
row unless expired - the cycle is the only writer of that row once it exists;
`CapturedIsCurrent` carries the failure counter across the rollback that expires
it, in two cases: the attempt is not in the tables (`AttemptOpen`), or it is there as a
success nobody answered for (`AttemptInDoubt`), and then the counter is the one `doubt`
keeps; `NothingHeld` excludes the states between cycles, instances that do not
exist yet and cycles that hold an instance they had listed as disabled. With them the row
a commit leaves is the one `CollectRecord` prescribes, which is the refinement step, and
all other actions leave frames and records alone.

`BlockingGraph_proofs` proves `GraphInvariant` (`[]GraphInv`) for every blocking
relation and every order of rows, and from it `TypeCorrect`, `EachWaitOneEdge` and
`ClimbsOnceAlways`. The invariant adds that the path climbs along the relation and that a
row taken has its edge unless it is being climbed from; uniqueness of edges then
follows since an edge of a session can only be the one to its blocker. From
`ClimbsOnceAlways` follows a bound on the length of the path and from it `TurnsBounded`
(`TurnsRunOut`): each turn lowers a measure, so that there are at most (n + 1) * n with n
sessions. What TLC alone checks of termination is that no turn gets stuck before the end.

The second invariant of that module, `PlaceInvariant` (`[]PlaceInv`), gives
`RootsAreRight` and `MarkedOnce`. An edge first met in the chain of another row keeps that
chain's root, so what must be inductive is a fact about the edge alone (`EdgePlaced`): its
depth leads to its root along the relation, the root is free or the place where the chain
enters a cycle, and the mark is set just where a cycle closes. One fact more is about two
edges: a chain that runs into a cycle brings all of it (`CyclesTogether`), so a later
chain that enters it elsewhere adds no second mark. `Above` counts steps of
the relation by a recursive function; the lemmas on it (steps add up, a cycle comes
round, distinct sessions within `Cardinality(Sessions)` steps) are proved by induction
over numbers in its set form, `NatSetInduction`, which the provers can use.

`SnapshotsFitFrame` (`[]FitsFrame`) composes that module with `Frame`, which speaks of the
relation by closed sets instead of steps. `AheadIsAbove` equates the two, again by
induction over steps; `WaitsForItself` removes the bound on the length of a cycle, since a
returned edge's root ends every climb; `LastStep` finds the session from which a chain
leaves for its root, and `SameCounts` the bijection between edges and rows of one root.

`IndexOperation_proofs` proves `OperationInvariant` (`[]OperationInv`) and from it
`TypeCorrect`, `NothingUnaudited`, `SuccessesAreReal`, `FailuresAreReal` and `SettledOnce`,
for any number of requests, indexes and faults. What the invariant adds: a handler that is not over has no task and
no statement (`HandlerInOrder`), a task works on a running row and a returned one on
an applied statement (`TaskInOrder`), and an index a statement created exists and was
created by no other (`CreatedOnce`) - which is why two requests that both found a name
free cannot both succeed.

`IndexCollection_proofs` proves `InvariantHolds` (`[]CollectionInv`) and from it
`TypeCorrect`, `PoolNeverStarves`, `NoDatabaseTwice`, `NoResultLost`, `SnapshotsAgree` and
`NeverTooEarly`. The properties alone are not inductive: while the generator is suspended
at a `yield`, an answer may arrive for a future that is being given up. `ResultInHand`
says that the task holds the result of a listed database exactly while it persists one,
`BatchIsDone` that the futures still to be yielded as done have an outcome, `PoolWithTask`
that a pool exists only where the generator is at work, and `StillDue` that what was found
due remains so for every database that is still to come. The size of the pool takes the library's facts about cardinalities.

`FrameQueries_proofs` proves `InvariantHolds` (`[]QueryInv`), `TypeCorrect` and
`PagesImplemented`: `FrameQueries` implements `FrameReads`. The frame a handler has
selected was the one to be selected at a moment since the question (`FrameChosen`), and a
frame never changes; so each thing read so far is what that frame holds
(`ReadFromFrame`, `Gathered`), whatever is committed between two statements. Texts are
the exception: they are not read by the frame's key but by the hashes in its rows. They are
right because a frame is committed with its texts (`TextsStored`) and because every
plan reads texts after the requests whose hashes they are (`Ordered`).

The same module proves `PagesTellOneStory` (`[]PagesAgree`). Every stored frame holds one
of `Contents`, so this is a theorem about data: `ContentAgrees`, for all results without
parallel requests and all roots that `Roots` allows. The counts agree because rows,
sessions and edges correspond one to one (`SameSize`, `RowPerSession`, `EdgePerRow`),
the chains partition the waiting sessions (`ChainsPartition`), and a root blocks somebody
(`RootsBlock`), in its own chain when it does not wait itself (`ChainIsBlocked`).

The rest of that module is `TrendInvariant` (`[]TrendInv`), and
from it `TrendsComplete` and `TrendsAreReal`. Trends are read by time, in two statements.
`TimesRise` makes the order of times that of frames, `TrendFound` says which frames
are read at which moment, and `TotalsAdd` what the counters are made of; from them, a point's
previous frame is the one just before it although frames were committed in between.

`Users_proofs` proves `InvariantHolds` (`[]UsersInv`) and from it `TypeCorrect`,
`LoginPrecedesAccess`, `DisablingLasts` and `LastAdminStays`. The core is `CopiesCurrent`:
until another handler commits, the copies a handler has read are the rows, so its operator is
an active administrator, and, by `NobodyDisablesHimself`, remains one. Hence the
last administrator is lost only as `AdminLostOnlyIf` says.

`KillConsole_proofs` proves `InvariantHolds` (`[]KillInv`) and from it `TypeCorrect`,
`KillsStayOnTarget`, `SuccessesWereKillable` and `EveryAnswerAudited`. `LoneFetch`,
`RowsOfCurrent` and `DialogOfCurrent` follow the instance from the fetch to the rows and from the
rows to the dialog, as long as no two fetches overlap; `RequestInOrder` follows the request to the
frame it is validated against; `AuditsNumbered` and `SuccessHasFrame` make audits count.

`IndexLists_proofs` proves `ListsInvariant` (`[]ListsInv`) and from it `TypeCorrect`,
`StayersListedOnce` and `PagesDatedRightly`, for any candidates, page sizes, interval and
number of changes of the view. `ListedOnce` speaks of the end of the loop; `ListedSoFar`
says what holds before it: a usable row that has kept its place is listed once if it stands
before the current page and not at all if it stands later, and at the time of a page it
is within the total that was counted. A change of the view keeps this because a
row whose place changes is in `moved` from then on (`InsertedView`, `RemovedView`,
`SwappedView` say what a change leaves of a sequence). `PageDated` compares three
statements: `StoreInv` says that all stored rows are of the last success and older than a
collection in progress, so that a commit only ever raises it, and `ReadSoFar` says of
each handler half way that its total and rows belong together unless the success
has risen since it was asked (`PageOfRows` is the arithmetic of OFFSET and LIMIT). One
case needs both: without a status row the newest row dates the page, and there is none
(`StatusDates`).

What the proofs found out about the models. The cycles of `BlockingGraph` were once
stated in a way that made "no blocker" a cycle of its own: every chain ended in a cycle, and what
was said of chains outside cycles was said of none. `OnCycle` now requires a waiting
session. The impact of a kill was stated to be part of the root's
chain in all cases, which fails for a root on a cycle when a session behind the cycle
has another member as its root; `PagesAgree` now says it of roots that do not wait themselves.

## 6. Model-checked only

- `HealthyCollected`, `TaskEnds`, `Returns`, `AuditSettles`: fairness and `ENABLED` are
  out of the prover's reach.

Every invariant and every action property of the runs, and both refinements, are
theorems. Out of reach is what takes the library's induction theorems, whose parameter is an
operator; where an induction over numbers was needed it is proved in a form over sets.

## 7. Plan

Done, in this order: collection cycle with the API's handlers; index collection;
blocking graph; index operations; their proofs; the pages over frames with their
abstract specification; kill and session page; users; index lists; proofs of the safety
properties of all of these.

What is left, most important first:

1. The collection cycle and its index tasks in one event loop, which `wait()` blocks for
   up to half a second a round, with a notion of time that would show the delay.
2. The polling of audits by the index pages: when the console gives up and what it says.
3. The other pages of the console. `BlockingView` fetches the way `SessionsView` does and
   opens the same kill dialog on the roots of its chains (lines 57-62, 124-145), with the
   instance read as late: what `KillConsole` shows of strays applies to its control flow,
   but its rows are not modelled. `DashboardView` fetches the same way and acts on nothing.
4. A bound instead of liveness for the index task, as `TurnsRunOut` is for the blocking
   graph: a measure that every round lowers.

## 8. Not modelled

Rendering, SQL text normalisation, schemas, migrations, the mock collector, and
deployment beyond the restart of the collector: no property of interest depends on
their detail. The texts of SQL statements with the quoting of identifiers, the
list of databases, wait statistics and the sorting of lists: data that no state
change depends on. Retention: nothing in the code deletes old frames or partitions.
Several collectors at once: the unit starts one.

----------------------------- MODULE FrameQueries -----------------------------
(***************************************************************************)
(* The read side of one instance: the collector commits frames while an API *)
(* handler answers a question in several statements, each of which sees the  *)
(* tables as they are at that moment (READ COMMITTED, no common snapshot).  *)
(*                                                                          *)
(* A handler first selects a frame, the latest or that of a replay, and then *)
(* reads rows by the frame's key.  Only the resource trends are not read by  *)
(* that key but by time.                                                    *)
(***************************************************************************)
EXTENDS Frame, Sequences

CONSTANTS
    Samples,    \* what a collection may find: content, and the network since the last frame
    Questions,  \* the questions asked
    MaxDelay,   \* max_delay_seconds of a replay, in ticks
    Window,     \* metrics_window_minutes of the dashboard, in ticks
    MaxClock    \* bound: the clock stops here

ASSUME SamplesAssumption ==
    \A x \in Samples : /\ x.content.rows \subseteq ResultRow
                       /\ IsFiniteSet(x.content.rows)
                       /\ IsResult(x.content.rows)
                       /\ x.content \in Contents(x.content.rows)
                       /\ x.sent \in Nat /\ x.lost \in Nat /\ x.known \in BOOLEAN
ASSUME QuestionsAssumption == Questions \subseteq Question
ASSUME BoundsAssumption == MaxDelay \in Nat /\ Window \in Nat /\ MaxClock \in Nat

VARIABLES
    clock,
    taken,     \* snapshot_time of the collection in progress (0: none)
    frames,    \* the committed frames, by snapshot_time
    texts,     \* hashes in sql_texts
    question,  \* the question in the handler's hands
    known,     \* history: the number of frames when it was asked
    plan,      \* statements the handler has still to execute
    ref,       \* the frame it has selected (0: none)
    S, R, B, T,  \* the session, request and blocking rows and texts it has read
    trend,     \* the frames read for the resource trends, and the one before them
    answer     \* the last answer, with its trends

store == <<clock, taken, frames, texts>>
handler == <<question, known, plan, ref, S, R, B, T, trend>>
vars == <<store, handler, answer>>

\* What every page shows is read at one moment: the answer without its trends.
Reads == INSTANCE FrameReads WITH
             answer <- [frame |-> answer.frame, body |-> answer.body]

NoQuestion == Reads!NoQuestion
NoTrend == [points |-> {}, before |-> 0]
NoAnswer == [frame |-> 0, body |-> NotFound, trend |-> {}]
Rows == SUBSET ResultRow
Statements == {"frame", "sessions", "session", "requests", "first", "hash", "blocking",
               "texts", "points", "before"}

TypeOK ==
    /\ clock \in 1..(MaxClock + 1)
    /\ taken \in 0..MaxClock
    /\ \A k \in 1..Len(frames) : frames[k].at \in 1..MaxClock
    /\ texts \subseteq Hashes
    /\ question \in Questions \cup {NoQuestion}
    /\ known \in 0..Len(frames)
    /\ \A k \in 1..Len(plan) : plan[k] \in Statements
    /\ ref \in 0..Len(frames)
    /\ S \subseteq ResultRow /\ R \subseteq ResultRow /\ T \subseteq Hashes
    /\ trend \in [points : SUBSET (1..Len(frames)), before : 0..Len(frames)]
    /\ answer.frame \in 0..Len(frames)

Init ==
    /\ clock = 1
    /\ taken = 0
    /\ frames = <<>>
    /\ texts = {}
    /\ question = NoQuestion
    /\ known = 0
    /\ plan = <<>>
    /\ ref = 0
    /\ S = {} /\ R = {} /\ B = {} /\ T = {}
    /\ trend = NoTrend
    /\ answer = NoAnswer

-----------------------------------------------------------------------------
(* The collector.                                                          *)

Tick ==
    /\ clock <= MaxClock
    /\ clock' = clock + 1
    /\ UNCHANGED <<taken, frames, texts, handler, answer>>

LastTotal == IF frames = <<>> THEN 0 ELSE frames[Len(frames)].total

\* A collection takes its snapshot_time before it queries the server ...
StartCollection ==
    /\ taken = 0
    /\ clock <= MaxClock
    /\ frames # <<>> => frames[Len(frames)].at < clock
    /\ taken' = clock
    /\ UNCHANGED <<clock, frames, texts, handler, answer>>

\* _persist_sql_texts.
StoredTexts(rows) == texts \cup TextsOf(rows)

\* ... and commits all rows at once.  The counters are sums over the connections
\* that are open: what closed ones have sent is gone from them.  They may be
\* unknown, for their query may fail alone.
CommitFrame(x) ==
    /\ taken # 0
    /\ x.lost <= LastTotal + x.sent
    /\ frames' = Append(frames, [at |-> taken, content |-> x.content,
                                 sent |-> x.sent, lost |-> x.lost, known |-> x.known,
                                 total |-> LastTotal + x.sent - x.lost])
    /\ texts' = StoredTexts(x.content.rows)
    /\ taken' = 0
    /\ UNCHANGED <<clock, handler, answer>>

\* The collection fails and leaves no frame.
AbandonCollection ==
    /\ taken # 0
    /\ taken' = 0
    /\ UNCHANGED <<clock, frames, texts, handler, answer>>

-----------------------------------------------------------------------------
(* The handlers.                                                           *)

DashboardPlan == <<"sessions", "requests", "blocking", "texts", "points", "before">>
SessionsPlan == <<"sessions", "requests", "texts">>
SqlsPlan == <<"requests", "texts">>

\* The statements of each handler in their order.
Plan(page) ==
    <<"frame">> \o
    CASE page = "dashboard" -> DashboardPlan
      [] page = "sessions" -> SessionsPlan
      [] page = "session" -> <<"session", "first", "texts">>
      [] page = "sqls" -> SqlsPlan
      [] page = "sql" -> <<"hash", "texts">>
      [] page = "blocking" -> <<"blocking">>
      [] page = "replay" -> DashboardPlan \o SessionsPlan \o SqlsPlan \o <<"blocking">>
      [] page = "target" -> <<"session", "first", "texts", "blocking">>

Ask(q) ==
    /\ question = NoQuestion
    /\ question' = q
    /\ known' = Len(frames)
    /\ plan' = Plan(q.page)
    /\ answer' = NoAnswer
    /\ UNCHANGED <<store, ref, S, R, B, T, trend>>

Newest(K) == IF K = {} THEN 0 ELSE CHOOSE k \in K : \A j \in K : j <= k
Stored == 1..Len(frames)

\* get_latest_frame.
LatestFrame == Newest(Stored)

\* get_frame_before.
FrameBefore(time) == Newest({k \in Stored : frames[k].at <= time
                                            /\ frames[k].at + MaxDelay >= time})

\* The next statement is `name`, of a handler that has selected a frame.  The
\* detail of a row that is not there ends with it.
Executes(name, missing) ==
    /\ plan # <<>> /\ Head(plan) = name
    /\ plan' = IF missing THEN <<>> ELSE Tail(plan)
    /\ UNCHANGED <<store, question, known, answer>>

\* Without a frame nothing else is read.
SelectFrame ==
    /\ plan # <<>> /\ Head(plan) = "frame"
    /\ ref' = IF question.page = "replay" THEN FrameBefore(question.time) ELSE LatestFrame
    /\ plan' = IF ref' = 0 THEN <<>> ELSE Tail(plan)
    /\ UNCHANGED <<store, question, known, answer, S, R, B, T, trend>>

\* Mutant: rows are read by instance, of whatever frame is the latest.
RowsOfLatest == frames[LatestFrame].content

\* Rows are read by instance, frame id and snapshot time.
RowsOfFrame == frames[ref].content

\* list_sessions and get_session.
ReadSessions ==
    /\ ref # 0
    /\ S' \in SessionReads(question, RowsOfFrame.rows)
    /\ Executes("sessions", FALSE) \/ Executes("session", S' = {})
    /\ UNCHANGED <<ref, R, B, T, trend>>

\* list_requests, get_request_by_session and get_request_by_sql_hash.
ReadRequests ==
    /\ ref # 0
    /\ R' \in RequestReads(question, RowsOfFrame.rows)
    /\ Executes("requests", FALSE) \/ Executes("first", FALSE) \/ Executes("hash", R' = {})
    /\ UNCHANGED <<ref, S, B, T, trend>>

ReadBlocking ==
    /\ Executes("blocking", FALSE)
    /\ B' = RowsOfFrame.edges
    /\ UNCHANGED <<ref, S, R, T, trend>>

\* get_sql_preview_map and get_sql_text_map, by the hashes of the requests read.
ReadTexts ==
    /\ Executes("texts", FALSE)
    /\ T' = TextsOf(R) \cap texts
    /\ UNCHANGED <<ref, S, R, B, trend>>

\* Mutant: the window begins after its first moment.
WindowOpen == {k \in Stored : frames[k].at > frames[ref].at}

\* list_resource_frames: everything since the window began, up to now.
WindowFrames == {k \in Stored : frames[k].at + Window >= frames[ref].at}

ReadPoints ==
    /\ Executes("points", FALSE)
    /\ trend' = [trend EXCEPT !.points = WindowFrames]
    /\ UNCHANGED <<ref, S, R, B, T>>

\* get_resource_frame_before.
NewestOutside == Newest({k \in Stored : frames[k].at + Window < frames[ref].at})

ReadBefore ==
    /\ Executes("before", FALSE)
    /\ trend' = [trend EXCEPT !.before = NewestOutside]
    /\ UNCHANGED <<ref, S, R, B, T>>

\* Mutant: a counter that fell counts as traffic.
RateAbsolute(a, b) ==
    IF ~a.known \/ ~b.known THEN {}
    ELSE {IF b.total < a.total THEN a.total - b.total ELSE b.total - a.total}

\* _network_rate, as the bytes between two frames, if they are known.
Rate(a, b) ==
    IF ~a.known \/ ~b.known THEN {}
    ELSE {IF b.total < a.total THEN 0 ELSE b.total - a.total}

\* _resource_trends: each frame against the one before it.
Trends(t) ==
    {[frame |-> k, previous |-> Newest({j \in t.points : j < k} \cup ({t.before} \ {0}))] :
        k \in t.points}

\* The handler answers.
Answer ==
    /\ question # NoQuestion
    /\ plan = <<>>
    /\ answer' = IF ref = 0 THEN NoAnswer
                 ELSE [frame |-> ref, body |-> Body(question, S, R, B, T), trend |-> Trends(trend)]
    /\ question' = NoQuestion
    /\ ref' = 0
    /\ S' = {} /\ R' = {} /\ B' = {} /\ T' = {}
    /\ trend' = NoTrend
    /\ UNCHANGED <<store, known, plan>>

Read ==
    \/ SelectFrame
    \/ ReadSessions
    \/ ReadRequests
    \/ ReadBlocking
    \/ ReadTexts
    \/ ReadPoints
    \/ ReadBefore

Next ==
    \/ Tick
    \/ StartCollection
    \/ \E x \in Samples : CommitFrame(x)
    \/ AbandonCollection
    \/ \E q \in Questions : Ask(q)
    \/ Read
    \/ Answer

Spec == Init /\ [][Next]_vars

-----------------------------------------------------------------------------
(* Correctness.                                                            *)

\* Whatever the collector commits meanwhile, a page shows one frame, the newest
\* (or the newest a replay allows) at some moment of the request, as if the
\* handler had read all tables at that moment, and no text is missing.
ImplementsFrameReads == Reads!Spec

\* Do the pages tell the same story of one frame's content?
Agree(content) ==
    LET rows == content.rows
        edges == content.edges
        texts1 == TextsOf(rows)
        dashboard == Dashboard(SessionRows(rows), RequestRows(rows), edges, texts1)
        list == SessionList(SessionRows(rows), RequestRows(rows), texts1, FALSE)
        waiting == SessionList(SessionRows(rows), RequestRows(rows), texts1, TRUE)
    IN  /\ dashboard.sessions = Cardinality({i.session : i \in list.items})
        /\ dashboard.blocked = waiting.total
        /\ {i.session : i \in waiting.items} = UNION {c.blocked : c \in Chains(edges)}
        /\ \A c, d \in Chains(edges) : c # d => c.blocked \cap d.blocked = {}
        /\ dashboard.roots = Cardinality(Chains(edges))
        /\ \A c \in Chains(edges) :
               /\ c.count = Cardinality(c.blocked)
               /\ Impact(edges, c.root) >= 1
               /\ (\A e \in edges : e.blocked # c.root) => Impact(edges, c.root) <= c.count
        /\ \A i \in list.items :
               SessionItem(CHOOSE s \in rows : s.session = i.session,
                           OneOf(FirstOf(RequestRows(rows), i.session)), texts1) = i

\* The pages of a frame tell the same story when no session has parallel requests:
\* the dashboard's blocked sessions are the blocked ones of the session list and
\* the members of the chains, each in one; its sessions are those of the list; its
\* roots are the chains; the kill dialog's impact is somebody, and part of a chain
\* unless the root waits itself; and the list and the detail show the same session.
PagesAgree ==
    \A k \in Stored : Single(frames[k].content.rows) => Agree(frames[k].content)

\* A trend reaches back over the whole window, and its first point is measured
\* against the last frame before it: no stored frame of the window is left out,
\* and no point is measured across another frame.
TrendReachesBack ==
    /\ answer.trend # {} => \E p \in answer.trend : p.frame = answer.frame
    /\ \A p \in answer.trend :
           /\ p.previous = p.frame - 1
           /\ frames[p.frame].at + Window >= frames[answer.frame].at
    /\ \A k \in 1..answer.frame :
           /\ answer.trend # {}
           /\ frames[k].at + Window >= frames[answer.frame].at
           => \E p \in answer.trend : p.frame = k

\* A shown rate is never more than what was sent since the previous frame, and it
\* is all of it unless a connection was closed in between.
RatesAreReal ==
    \A p \in answer.trend : p.previous # 0 =>
        \A n \in Rate(frames[p.previous], frames[p.frame]) :
            /\ n <= frames[p.frame].sent
            /\ frames[p.frame].lost = 0 => n = frames[p.frame].sent
=============================================================================

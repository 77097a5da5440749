-------------------------------- MODULE Frame --------------------------------
(***************************************************************************)
(* What one snapshot frame holds and what each page of the console makes of *)
(* it: the rows the collector builds from one result of SESSION_REQUEST_SQL  *)
(* and the answers of the dashboard, session, SQL, blocking and replay       *)
(* services and of the kill target, as functions of these rows.             *)
(*                                                                          *)
(* A result row is a session joined with one of its requests.  A session     *)
(* with parallel requests has several rows, which the program reduces to one *)
(* in three ways: the last row, the last request, the first request.        *)
(* Values that are only copied are left out, and so are sorting, the top     *)
(* five of the dashboard and the cut of a list into pages.                  *)
(***************************************************************************)
EXTENDS Naturals, FiniteSets

CONSTANTS
    Sessions,   \* session ids of user processes
    Others,     \* blockers without a row
    Requests,   \* request ids of a session, counted from 1
    Hashes      \* hashes of SQL texts

ASSUME SessionsAssumption == Sessions \subseteq Nat \ {0} /\ Others \subseteq Nat \ {0}
ASSUME RequestsAssumption == Requests \subseteq Nat \ {0}

None == 0           \* NULL: no blocker, no request
NoSql == "no sql"   \* NULL: no hash

\* A row of SESSION_REQUEST_SQL: LEFT JOIN gives a session without a request
\* one row, with neither blocker nor text.
ResultRow == [session : Sessions, request : Requests \cup {None},
              blocker : Sessions \cup Others \cup {None}, sql : Hashes \cup {NoSql}]
NoRow == [session |-> None, request |-> None, blocker |-> None, sql |-> NoSql]

IsResult(rows) ==
    /\ \A r \in rows : r.request = None => r.blocker = None /\ r.sql = NoSql
    /\ \A r, q \in rows : r.session = q.session /\ r # q =>
           r.request # q.request /\ r.request # None

\* No session has parallel requests.
Single(rows) == \A r, q \in rows : r.session = q.session => r = q

-----------------------------------------------------------------------------
(* What the collector stores.                                              *)

\* A session row for each row of the result, with the row's hash.
SessionRows(rows) == rows

\* A request row where there is a request.
RequestRows(rows) == {r \in rows : r.request # None}

\* Mutant: a row without a text is remembered too.
TextsAll(rows) == {r.sql : r \in rows}

\* The texts of the result, by hash.
TextsOf(rows) == {r.sql : r \in rows} \ {NoSql}

\* One row of each session: the one that comes last in the result.
Kept(rows) ==
    {k \in SUBSET rows : Single(k) /\ \A r \in rows : \E q \in k : q.session = r.session}

Waiting(kept) == {r \in kept : r.blocker # None}

\* Who blocks each waiting session.
BlockerOf(kept) ==
    [s \in {r.session : r \in Waiting(kept)} |-> (CHOOSE r \in kept : r.session = s).blocker]

\* Whom s waits for, directly or through others.
Ahead(kept, s) ==
    LET blocker == BlockerOf(kept)
    IN  {t \in Sessions \cup Others : \A U \in SUBSET (Sessions \cup Others) :
            (\A w \in DOMAIN blocker : w = s \/ w \in U => blocker[w] \in U) => t \in U}

OnCycle(kept, s) == s \in Ahead(kept, s)

\* The roots BlockingGraph's edges may get: the session nobody blocks, or where the
\* chain enters a cycle; the sessions of a cycle share one, which one depends on
\* the order of the rows.
Roots(kept) ==
    LET blocker == BlockerOf(kept)
    IN  {root \in [DOMAIN blocker -> Sessions \cup Others] : \A s \in DOMAIN blocker :
            /\ root[s] \in Ahead(kept, s)
            /\ root[s] \in DOMAIN blocker => OnCycle(kept, root[s])
            /\ IF OnCycle(kept, s)
               THEN \A t \in Ahead(kept, s) : root[t] = root[s]
               ELSE \E t \in Ahead(kept, s) \cup {s} :
                        ~OnCycle(kept, t) /\ t \in DOMAIN blocker /\ blocker[t] = root[s]}

\* _build_blocking_snapshots: an edge for each waiting session that was kept,
\* with the number of edges of its root.
Edges(kept, root) ==
    {[root |-> root[r.session], blocker |-> r.blocker, blocked |-> r.session,
      count |-> Cardinality({q \in Waiting(kept) : root[q.session] = root[r.session]})] :
        r \in Waiting(kept)}

\* What a frame may hold of the result rows.
Contents(rows) ==
    UNION {{[rows |-> rows, edges |-> Edges(kept, root)] : root \in Roots(kept)} :
           kept \in Kept(rows)}

-----------------------------------------------------------------------------
(* The answers.  S, R, B and T are the session rows, request rows, blocking  *)
(* rows and SQL texts that were read.                                       *)

\* request_by_session of the list: the last request of a session wins.
LastOf(R, s) ==
    IF \E r \in R : r.session = s
    THEN CHOOSE r \in R : r.session = s /\ \A q \in R : q.session = s => q.request <= r.request
    ELSE NoRow

\* get_request_by_session, for the detail and the kill target: the first, if any.
FirstOf(R, s) ==
    {r \in R : r.session = s /\ \A q \in R : q.session = s => r.request <= q.request}

\* _to_item of the session service; named: its hash has a preview.
SessionItem(s, r, T) ==
    LET sql == IF s.sql # NoSql THEN s.sql ELSE r.sql
    IN  [session |-> s.session, blocker |-> r.blocker, sql |-> sql,
         named |-> sql = NoSql \/ sql \in T]

\* Mutant: a session without a request passes the filter.
ShownOrIdle(r, onlyBlocked) == onlyBlocked => r = NoRow \/ r.blocker # None

\* The filter of the session list.
Shown(r, onlyBlocked) == onlyBlocked => r.blocker # None

SessionList(S, R, T, onlyBlocked) ==
    LET kept == {s \in S : Shown(LastOf(R, s.session), onlyBlocked)}
    IN  [total |-> Cardinality(kept),
         items |-> {SessionItem(s, LastOf(R, s.session), T) : s \in kept}]

\* _to_item of the SQL service and _to_top_sql.
SqlItem(r, T) ==
    [session |-> r.session, request |-> r.request, blocker |-> r.blocker, sql |-> r.sql,
     named |-> r.sql = NoSql \/ r.sql \in T]

TopSqls(R, T) == {SqlItem(r, T) : r \in R}

SqlList(R, T) == [total |-> Cardinality(R), items |-> {SqlItem(r, T) : r \in R}]

Dashboard(S, R, B, T) ==
    [sessions |-> Cardinality(S), requests |-> Cardinality(R),
     blocked |-> Cardinality({b.blocked : b \in B}),
     roots |-> Cardinality({b.root : b \in B}),
     sqls |-> TopSqls(R, T)]

\* _risk_level.
Risk(n) == IF n >= 5 THEN "high" ELSE IF n >= 2 THEN "medium" ELSE "low"

\* Rows of one root make a chain.
Chain(B, root) ==
    LET group == {b \in B : b.root = root}
        blocked == {b.blocked : b \in group}
        counts == {b.count : b \in group} \cup {Cardinality(blocked)}
        count == CHOOSE n \in counts : \A m \in counts : m <= n
    IN  [root |-> root, blocked |-> blocked, count |-> count, risk |-> Risk(count)]

Chains(B) == {Chain(B, root) : root \in {b.root : b \in B}}

\* _blocking_impact_count: the edges that start at the session.
Impact(B, s) == Cardinality({b \in B : b.blocker = s})

\* get_session_detail, from the rows read of one session.
NotFound == [page |-> "not found"]
OneOf(R) == IF R = {} THEN NoRow ELSE CHOOSE r \in R : TRUE
SessionDetail(S, R, T) == SessionItem(OneOf(S), OneOf(R), T)

\* get_replay_frame.
Replay(S, R, B, T) ==
    [page |-> "replay", dashboard |-> Dashboard(S, R, B, T),
     sessions |-> SessionList(S, R, T, FALSE), sqls |-> SqlList(R, T), chains |-> Chains(B)]

\* build_kill_target.
KillTarget(s, S, R, B, T) ==
    [page |-> "target", item |-> SessionDetail(S, R, T), impact |-> Impact(B, s)]

-----------------------------------------------------------------------------
(* A question and what its handler reads of the frame it has chosen.       *)

Pages == {"dashboard", "sessions", "session", "sqls", "sql", "blocking", "replay", "target"}
Question == [page : Pages, session : Sessions \cup {None}, sql : Hashes \cup {NoSql},
             blocked : BOOLEAN, time : Nat]

\* The possible results of the statement that reads session rows: one session's
\* row has no order among those of parallel requests.
SessionReads(q, rows) ==
    LET own == {s \in SessionRows(rows) : s.session = q.session}
    IN  IF q.page \notin {"session", "target"} THEN {SessionRows(rows)}
        ELSE IF own = {} THEN {{}} ELSE {{s} : s \in own}

\* ... request rows: of all sessions, the first of one, or any with a hash.
RequestReads(q, rows) ==
    LET same == {r \in RequestRows(rows) : r.sql = q.sql}
    IN  IF q.page \in {"session", "target"} THEN {FirstOf(RequestRows(rows), q.session)}
        ELSE IF q.page # "sql" THEN {RequestRows(rows)}
        ELSE IF same = {} THEN {{}} ELSE {{r} : r \in same}

\* The handler's answer from what it has read.
Body(q, S, R, B, T) ==
    CASE q.page = "dashboard" -> [page |-> q.page, dashboard |-> Dashboard(S, R, B, T)]
      [] q.page = "sessions" -> [page |-> q.page, sessions |-> SessionList(S, R, T, q.blocked)]
      [] q.page = "sqls" -> [page |-> q.page, sqls |-> SqlList(R, T)]
      [] q.page = "blocking" -> [page |-> q.page, chains |-> Chains(B)]
      [] q.page = "replay" -> Replay(S, R, B, T)
      [] q.page = "session" -> IF S = {} THEN NotFound
                               ELSE [page |-> q.page, item |-> SessionDetail(S, R, T)]
      [] q.page = "target" -> IF S = {} THEN NotFound ELSE KillTarget(q.session, S, R, B, T)
      [] q.page = "sql" -> IF R = {} THEN NotFound
                           ELSE [page |-> q.page, sql |-> SqlItem(OneOf(R), T)]

\* The answers a handler that reads content at one moment, every text with it,
\* may give.
Answers(q, content) ==
    {Body(q, S, R, content.edges, TextsOf(R)) :
        S \in SessionReads(q, content.rows), R \in RequestReads(q, content.rows)}
=============================================================================

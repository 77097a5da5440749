---------------------------- MODULE MCFrameQueries ----------------------------
(***************************************************************************)
(* An instance of FrameQueries for TLC: two or three sessions that are idle, *)
(* busy, blocked, in a tree, in a cycle or behind one, or have parallel      *)
(* requests.                                                               *)
(***************************************************************************)
EXTENDS FrameQueries

Row(s, r, b, h) == [session |-> s, request |-> r, blocker |-> b, sql |-> h]
Idle(s) == Row(s, None, None, NoSql)

Results ==
    {{Idle(51), Row(52, 1, None, "h1")},
     {Row(51, 1, 52, "h1"), Idle(52)},
     {Row(51, 1, 52, "h1"), Row(52, 1, 99, NoSql), Row(53, 1, 52, "h1")},
     {Row(51, 1, 52, "h1"), Row(52, 1, 51, "h2"), Row(53, 1, 51, NoSql)},
     {Row(51, 1, None, "h1"), Row(51, 2, 52, "h2"), Idle(52)}}

\* What the network did since the last frame.
Traffic == {[sent |-> 2, lost |-> 0, known |-> TRUE],
            [sent |-> 1, lost |-> 3, known |-> TRUE],
            [sent |-> 1, lost |-> 0, known |-> FALSE]}

Sample(content, t) ==
    [content |-> content, sent |-> t.sent, lost |-> t.lost, known |-> t.known]

\* Every content with some traffic, and every traffic with an idle server.
MCSamples ==
    {Sample(c, [sent |-> 2, lost |-> 0, known |-> TRUE]) : c \in UNION {Contents(r) : r \in Results}}
    \cup {Sample([rows |-> {}, edges |-> {}], t) : t \in Traffic}

Of(page) == [page |-> page, session |-> None, sql |-> NoSql, blocked |-> FALSE, time |-> 0]

MCQuestions ==
    {Of(page) : page \in {"dashboard", "sqls", "blocking"}}
    \cup {[Of("sessions") EXCEPT !.blocked = b] : b \in BOOLEAN}
    \cup {[Of(page) EXCEPT !.session = 51] : page \in {"session", "target"}}
    \cup {[Of("sql") EXCEPT !.sql = "h1"]}
    \cup {[Of("replay") EXCEPT !.time = t] : t \in 1..2}

MCSessions == {51, 52, 53}
MCOthers == {99}
MCRequests == {1, 2}
=============================================================================

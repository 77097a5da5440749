------------------------------ MODULE FrameReads ------------------------------
(***************************************************************************)
(* What a page may show: the answer to a question is made from one frame,    *)
(* the one the question selects at some moment between asking and answering, *)
(* as if every statement of the handler were executed at that moment.        *)
(***************************************************************************)
EXTENDS Frame, Sequences

CONSTANT MaxDelay   \* max_delay_seconds of a replay

VARIABLES
    frames,    \* the stored frames, by snapshot_time
    question,  \* the question being answered, or NoQuestion
    known,     \* the number of frames when it was asked
    answer     \* the last answer, or NoAnswer

readVars == <<frames, question, known, answer>>

NoQuestion == [page |-> "none", session |-> None, sql |-> NoSql, blocked |-> FALSE, time |-> 0]
NoAnswer == [frame |-> 0, body |-> NotFound]

\* Among the first m frames, the newest that q.time allows.
Allowed(q, m) ==
    {k \in 1..m : q.page = "replay" => /\ frames[k].at <= q.time
                                       /\ frames[k].at + MaxDelay >= q.time}
Chosen(q, m) == IF Allowed(q, m) = {} THEN 0
                ELSE CHOOSE k \in Allowed(q, m) : \A j \in Allowed(q, m) : j <= k

AnswersAt(q, m) ==
    LET k == Chosen(q, m)
    IN  IF k = 0 THEN {NoAnswer}
        ELSE {[frame |-> k, body |-> b] : b \in Answers(q, frames[k].content)}

Init ==
    /\ frames = <<>>
    /\ question = NoQuestion
    /\ known = 0
    /\ answer = NoAnswer

\* A frame is committed with everything it holds.
Commit ==
    /\ Len(frames') = Len(frames) + 1
    /\ \A k \in 1..Len(frames) : frames'[k] = frames[k]
    /\ UNCHANGED <<question, known, answer>>

Ask ==
    /\ question = NoQuestion
    /\ question' \in Question
    /\ known' = Len(frames)
    /\ answer' = NoAnswer
    /\ UNCHANGED frames

Reply ==
    /\ question # NoQuestion
    /\ \E m \in known..Len(frames) : answer' \in AnswersAt(question, m)
    /\ question' = NoQuestion
    /\ UNCHANGED <<frames, known>>

Next == Commit \/ Ask \/ Reply

Spec == Init /\ [][Next]_readVars
=============================================================================

---------------------------- MODULE MCCollector ----------------------------
(***************************************************************************)
(* Instances of Collector for TLC.                                         *)
(***************************************************************************)
EXTENDS Collector, TLC

\* Snapshot times are only compared for equality.
TimesSymmetry == Permutations(Times)

\* For liveness an attempt takes one fixed time of those it may take.
OneTime ==
    attempt' \in {attempt, NoTime}
    \/ \E i \in Instances : IsCurrent(i) /\ attempt' = CHOOSE t \in FreshTimes(i) : TRUE

\* The API is quieter: administrators test no connection (a test only writes a
\* status, as an edit does), create instances offline, and disable and
\* enable those whose server answers by an edit.
QuietApiNext ==
    \/ \E i \in Instances : CreateInstance(i, "offline")
    \/ \E i \in Instances \ Unreachable, s \in ApiStatuses : UpdateInstance(i, s)

QuietNext == (QuietApiNext \/ CollectorStep) /\ OneTime

QuietFairSpec == Init /\ [][QuietNext]_vars /\ Fairness

\* Nobody touches an instance once it is created.
StaticNext ==
    \/ \E i \in Instances, s \in ApiStatuses : CreateInstance(i, s)
    \/ CollectorStep

StaticFairSpec == Init /\ [][StaticNext]_vars /\ Fairness
=============================================================================

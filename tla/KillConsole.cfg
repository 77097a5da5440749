CONSTANTS
    Instances = {1, 2}
    Sids = {50, 51}
    Kinds = {"user", "platform", "ending"}
    Frames <- MCFrames
    MinKillable = 50
    Fetches = {f1, f2}
    MaxCommits = 2
    MaxChanges = 1
    MaxAudits = 1

SYMMETRY FetchSymmetry
SPECIFICATION Spec
INVARIANTS
    TypeOK
    KillStraysOnlyIf
    SuccessWasKillable
    AnswersAudited

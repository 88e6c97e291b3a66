CONSTANTS
    Callers = {c1, c2}
    MaxAttempts = 2
    Deadline = 1
    MaxVersion = 1
    Nobody = Nobody
    Anonymous = Anonymous
    Nothing = Nothing
    NotDone = NotDone
SPECIFICATION FairSpec
INVARIANTS
    CallsAreLed
    FailuresAreOwn
    SessionsStayApart
    DataIsCurrent
PROPERTY FollowersMoveOn
CHECK_DEADLOCK FALSE

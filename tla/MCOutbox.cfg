\* A message that may become void and one whose payload is refused; two executions.
SPECIFICATION FairSpec
CONSTANTS
    Messages = {m1, m2}
    Workers = {w1, w2}
    NoMessage = NoMessage
    Broken = {m2}
    Bound = {m1}
    MaxAttempts = 2
    MaxCrashes = 1
INVARIANTS SentAgainOnlyIfUnsure OutcomeIsTrue
PROPERTY EveryMessageEnds
CHECK_DEADLOCK FALSE

\* Nothing happens any more when the agent has drained.
SPECIFICATION FairSpec
CONSTANTS
    k1 = k1
    NoRequest = NoRequest
    NoAnswer = NoAnswer
    Refused = Refused
    Posts = {p1, p2}
    Gets = {}
    Keys = {k1}
    KeyOf <- MCKeyOf
    Scheduled = TRUE
    PaidConcurrency = 2
    TrialConcurrency = 1
    Allowance = 1
    AnswersInOrder = FALSE
    MaxCompleted = 2
    MaxCounted = 2
CHECK_DEADLOCK FALSE
INVARIANT TypeOK
INVARIANT UsageIsAccounted
INVARIANT OvershootHasTwoCauses
INVARIANT DrainIsComplete
INVARIANT OneMoreReport
PROPERTY DrainNeedsNoTimer

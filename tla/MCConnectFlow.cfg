\* No command begins when MaxCommands have begun: the system stops there.
SPECIFICATION FairSpec
CONSTANTS
    MaxConns = 2
    MaxCommands = 1
    MaxFaults = 1
INVARIANT TypeOK
INVARIANT NothingIsForgotten
INVARIANT KeyIsReturned
PROPERTY DeleteCompletes
CHECK_DEADLOCK FALSE

SPECIFICATION FairSpec
CONSTANTS
    StreamIds = {s1, s2}
    Servers = {x1, x2}
    none = none
    initialBackoff = 2
    maxBackoff = 5
    MaxFrames = 1
INVARIANT TypeOK
INVARIANT StreamsAreListed
PROPERTY WaitsGrowToTheirLimit
PROPERTY RevocationIsReported
PROPERTY EverythingEnds

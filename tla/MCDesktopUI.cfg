SPECIFICATION FairSpec
CONSTANT MaxEvents = 1
INVARIANT TypeOK
PROPERTY OldAnswersAreIgnored
PROPERTY ExitKillsOnlyAStop
PROPERTY WorkEnds
PROPERTY ScreenCatchesUp

SPECIFICATION FairSpec
CONSTANTS
    maxStreamBuffer = 3
    FrameSizes = {0, 1, 2}
    ReadSizes = {1, 2}
    MaxBytes = 5
    MaxFrames = 3
INVARIANT TypeOK
INVARIANT BytesAreDelivered
INVARIANT WaitingReadsAreWoken
PROPERTY ReadReturns

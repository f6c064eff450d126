SPECIFICATION Spec
CONSTANT
    Platforms = {"systemd", "launchd", "windows"}
INVARIANT TypeOK
INVARIANT StopIsFinal
INVARIANT MemoryIsTold
INVARIANT StoppedDoesNotServe
INVARIANT UpdateIsResumed

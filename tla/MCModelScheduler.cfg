SPECIFICATION FairSpec
CONSTANTS
    r1 = r1  r2 = r2  r3 = r3  r4 = r4  r5 = r5  r6 = r6
    k1 = k1  k2 = k2  k3 = k3
    m1 = m1  m2 = m2
    NoModel = NoModel
    NoRequest = NoRequest
    Requests <- MCRequests
    Keys <- MCKeys
    Models <- MCModels
    KeyOf <- MCKeyOf
    ModelOf <- MCModelOf
    MaxWaiting = 3
    PerKeyOutstanding = 2
INVARIANT TypeOK
INVARIANT SlotHasOneOwner
INVARIANT ActivityIsTold
INVARIANT KeysShareTheQueue
PROPERTY KeepsTheInferenceSlot
PROPERTY EveryRequestIsSettled

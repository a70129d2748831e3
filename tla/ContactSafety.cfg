SPECIFICATION Spec
CONSTANTS
    t1 = t1
    t2 = t2
    Texts <- MCTexts
    Fps = {1, 2}
    SlotCount = 2
    OwnCount = 0
    HeapSize = 2
    KeySize = 2
    LogSize = 2
    MaxAttempts = 2
    CounterMax = 3
    Blank = Blank
    WriteOk = {TRUE, FALSE}
SYMMETRY TextSymmetry
INVARIANTS
    StoreTypeOK
    LookupComplete
    LiveDataIntact
    LogOrdered
    ProvisionCounted
    UnlockBound

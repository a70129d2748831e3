SPECIFICATION Spec
CONSTANTS
    t1 = t1
    t2 = t2
    Texts <- MCTexts
    Fps = {1, 2}
    SlotCount = 2
    OwnCount = 1
    HeapSize = 2
    KeySize = 2
    LogSize = 2
    MaxAttempts = 3
    CounterMax = 4
    Blank = Blank
    WriteOk = {TRUE}
PROPERTY
    BreachNeedsTries

SPECIFICATION Spec
CONSTANTS
    p1 = p1
    p2 = p2
    MaxAttempts = 2
    CounterMax = 3
    Pins <- MCPins
    InitialPin <- MCInitialPin
    Keys = {k1}
    Salts = {s1, s2}
    Blank = Blank
    Refs = {"Sign", "Admin"}
    GenSlots = {"SIG"}
    WriteOk = {TRUE, FALSE}
INVARIANTS
    TypeOK
    GuessBound
    KeysRecoverable
    RamMatchesVault
    ServesProvisioned
PROPERTIES
    LockIrrevocable
    RefinesRetryBudget

SPECIFICATION FairSpec
CONSTANTS
    p1 = p1
    p2 = p2
    MaxAttempts = 1
    CounterMax = 2
    Pins <- MCPins
    InitialPin <- MCInitialPin
    Keys = {k1}
    Salts = {s1}
    Blank = Blank
    Refs = {"Sign", "Other", "Admin"}
    GenSlots = {"SIG"}
    WriteOk = {TRUE}
PROPERTIES
    BootCompletes

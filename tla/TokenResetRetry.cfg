SPECIFICATION Spec
CONSTANTS
    p1 = p1
    p2 = p2
    MaxAttempts = 3
    CounterMax = 4
    Pins <- MCPins
    InitialPin <- MCInitialPin
    Keys = {k1}
    Salts = {s1}
    Blank = Blank
    Refs = {"Sign", "Admin"}
    GenSlots = {"SIG"}
    WriteOk = {TRUE}
PROPERTIES
    ResetRestoresAttempts

SPECIFICATION Spec
CONSTANTS
    c1 = c1
    c2 = c2
    i1 = i1
    i2 = i2
    g1 = g1
    g2 = g2
    None = None
    Procs <- MCOneProc
    Ids <- MCIds
    k1 = k1
    Callsigns <- MCCallsigns
    Groups <- MCGroups
    Versions = 2
    Foreign <- MCForeign
    Flags = {TRUE}
    MaxCommands = 3
PROPERTIES
    NewGroupEmpty
CHECK_DEADLOCK FALSE

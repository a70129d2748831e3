SPECIFICATION Spec
CONSTANTS
    a = a
    b = b
    None = None
    Nodes = {a, b}
    Curves = {256, 384}
    MaxEph = 4
    TrustSlots = 2
    MaxDamaged = 1
    Damage = {"length", "fp"}
INVARIANTS
    SessionTypeOK
    PeerHoldsKeys
    EphemeralOnce
PROPERTIES
    SessionCompletes
    RefinesKeyAgreement
CHECK_DEADLOCK FALSE

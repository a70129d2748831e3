SPECIFICATION Spec
CONSTANTS
    k1 = k1
    k2 = k2
    None = None
    Keys = {k1, k2}
    Texts = {"t1"}
    SlotCount = 6
    CounterMod = 2
    Vias = {"class", "dabao"}
    Commands <- MCCommands
    MaxEra = 2
    MaxCommands = 3
INVARIANTS
    CardTypeOK
    ReadsLastWritten
    KeysReload
    FlagsOfThisEnumeration
    ChainUnbroken
    AnswersOwnCommand
PROPERTIES
    CommandAnswered
CHECK_DEADLOCK FALSE

SPECIFICATION ToolsSpec
CONSTANTS
    ia = ia
    ib = ib
    ic = ic
    p1 = p1
    p2 = p2
    p3 = p3
    p4 = p4
    s1 = s1
    s2 = s2
    r1 = r1
    r2 = r2
    Installs <- MCInstalls
    EpkProcs <- MCEpkProcs
    HomeOf <- MCHomeOf
    Keyring <- MCKeyring
    Sids = {s1, s2}
    Received <- MCReceived
    Lifetimes = {0, 1}
    MaxTime = 1
    MaxEpkCommands = 4
    Stations <- MCStations
    MailProcs <- MCMailProcs
    Daemons = {p2}
    StationOf <- MCStationOf
    Capacity = 4
    OldRows <- MCOldRows
    Certs = {r1, r2}
    Usable = {r1}
    Secret = {r1}
    NewProfiles <- MCNewProfiles
    Requests <- MCRequests
    OuterKeys = {"k1", "k2"}
    Foreign <- MCForeign
    MaxMail = 2
    MaxMailCommands = 4
    Registries = {"n1", "n2", "n3"}
    NoUrl = ""
    Sections <- MCSections
    MaxNodes = 3
    Addresses = {"x", "y"}
    NoAddress = ""
    TokenCerts = {{}, {"x"}, {"x", "y"}}
    PushArgs <- MCPushArgs
    HkpLists <- MCHkpLists
    StatusCodes = {200, 404, 422, 429, 500, 502}
    MaxCalls = 2
    FieldSize = 4
    GfAdd <- MCGfAdd
    GfMul <- MCGfMul
    Keys = {0, 3}
    Plans <- MCPlans
    RandomBytes = {0, 2}
    Handmade <- MCHandmade
    MaxGiven = 4
    MaxShamirCommands = 3
INVARIANTS
    HostToolsTypeOK
    OfferAnswerable
    ProfilesLoad
    SealedOpens
    UploadedOnce
    SharesRecover
PROPERTIES
    RevocationFinal
CHECK_DEADLOCK FALSE

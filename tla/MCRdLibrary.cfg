SPECIFICATION Spec
CONSTANTS
    hd1 = hd1  hd2 = hd2  by1 = by1  by2 = by2
    Keys <- MCKeys
    Versions <- MCVersions
    Heads <- MCHeads
    DataBytes <- MCBytes
    Lens <- MCLens
    MinLen = 2
    MaxBufs = 3
    MaxLen = 3
    SqHeads <- MCSqHeads
    SqElms <- MCSqElms
    SqNil = "nil"
    SqKeys <- MCSqKeys
    LruPtrs <- MCLruPtrs
    c1 = c1  c2 = c2  p1 = p1  p2 = p2
    Ctxs <- MCCtxs
    Ptrs <- MCPtrs
    NoMem = NoMem  NoCtx = NoCtx
    Sizes = {1, 3}
    Strings = {0}
    Mod32 = 2
    MaxFields = 2
    MaxBytes = 4
    WordBits = 3
    BitsMax = 7
    OptTables <- MCOptTables
    OptArgs <- MCOptArgs
    MaxArgc = 3
    OptsMax = 3
    ra_periods = 2
    ra_duration = 2
    AvgValues = {1, 3}
    NoValue = 9
    MaxAvgClock = 5
    MaxAvgCnt = 4
    VBits = 5
    VGroup = 2
    SignedValues <- MCSigned
    HexBytes = {0, 15, 240, 255}
    MaxValues = 2
    MaxHex = 2
    RD_TSPRINTF_BUFCNT = 3
    TsIds = {1, 2}
    TsLens = {1, 4}
    ShrinkFactor = 2
    ShrinkAbove = 3
    ScanChars = {1, 2, 3}
    CharHalf = 3
    MaxScanLen = 3
    RetCnt = 2
    RetSize = 9
    SsvcSize = 3
    V4Hosts <- MCV4Hosts
    V6Hosts <- MCV6Hosts
    HostNames <- MCHostNames
    Port <- MCPort
    NodeSvcs <- MCNodeSvcs
    Resolved <- MCResolved
SYMMETRY Symmetry
INVARIANTS AgreesWithDictionary NearlyBalanced LengthsAgree ContentIsKept ReturnTellsLoss LinksAreIntact LruKeepsOrder AccountsMatchMemory FieldsFit SuccessAccountsForAll PeriodsAreExact ValuesArriveIntact BitsAreASet RecentStringsIntact ScansMatchReference AddressTextsReadBack EveryAddressInTurn
\* a parser has returned, a stream has ended, a string was scanned
CHECK_DEADLOCK FALSE

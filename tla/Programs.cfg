CONSTANTS
    p1 = p1
    p2 = p2
    c1 = c1
    c2 = c2
    s1 = s1
    maker1 = maker1
    maker2 = maker2
    NoOne = NoOne
    Session <- MCSession
    Name <- MCName
    Password <- MCPassword
    Type <- MCType
    Size = 4
    Shift = 2
    Linked = 3
    MaxCalls = 3
    Data <- MCData
    MaxStarts = 3
    Client <- MCClient
    Stranger <- MCStranger
    MaxCommands = 2
    MaxLines = 3
    MaxKills = 1
    Caller <- MCCaller
    Misdirected <- MCStranger
    BufferSize = 2
    MaxSends = 4
    Side = 3
    Letters = 3
    Typed <- MCTyped
    Numbers <- MCNumbers
    MaxTurns = 3
    Entries = 4
    Requests = {1, 2, 3}
    HeapSize = 8
    MaxTurnover = 7
    Producer <- MCProducer
    ItemsEach = 2
    Processes = 3
    Resources = 2
    Maxima = {2, 3}
    ToFactor <- MCToFactor
    Threads = 2
    Alphabet = {"a", "b", "c"}
    MaxLength = 6
    Optimistic = {0, 1, 2, 3}
    Points <- MCPoints
    N = 4
    sorter_nb = 2
    numV = 3
    Pairs <- MCPairs
    MaxPairs = 3
SPECIFICATION OneSpec
INVARIANT FieldTypes
INVARIANT TableKept
INVARIANT OneReportEach
INVARIANT LinesKept
INVARIANT StreamKept
INVARIANT Deciphers
 
INVARIANT InOrder
INVARIANT FactorsFound
INVARIANT AsOneThread
INVARIANT HullFound
INVARIANT SatDecided
CHECK_DEADLOCK FALSE

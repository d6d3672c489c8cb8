SPECIFICATION Spec
CONSTANTS
    WordBits = 8
    ShortBits = 4
    Flags <- MCFlags
    Widths <- MCWidths
    Precs <- MCPrecs
    Values <- MCValues
    Texts <- MCTexts
    Delimiters = {" "}
    Numerals <- MCNumerals
    Words <- MCWords
    Keys <- MCKeys
    MaxKeys = 5
    BufSize = 3
    Blocks = 3
    PagesPerBlock = 2
    Bytes <- MCBytes
    Masks <- MCMasks
    Line = 4
    CacheSize = 16
    AddrSpace = 32
    MicroPerSecond = 5
    Speeds = {96000, 192000, 240000, 336000, 384000}
    Extal = 12000
    Divisors <- MCDivisors
    Rams <- MCRams
    Bauds = {9600, 19200, 38400, 57600, 115200}
    TickRates = {1, 10, 45, 46, 50, 100, 1000}
INVARIANTS
    PrintfRight
    StringsRight
    NumbersRight
    LineRight
    LoadRight
    PortRight
    ClocksRight
CHECK_DEADLOCK FALSE

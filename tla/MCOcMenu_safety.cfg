SPECIFICATION FairSpec

CONSTANTS
    HalfWord = 32768
    Numerals <- MCNumerals
    VoltNumerals <- MCVolt
    TestValue <- MCTestValue
    ArithValue <- MCArithValue
    Unreadable = Unreadable
    Empty = Empty
    RangeMax = 500
    HzPerMHz = 2
    LITTLE_HZ = 3600
    BIG_HZ = 4000
    LITTLE_VOLTAGE_STOCK = "1006250"
    BIG_VOLTAGE_STOCK = "1087500"
    FreqNumerals <- AllFreq

INVARIANTS
    TypeOK
    Coherent
    OffsetInRange
    VoltagesPaired

PROPERTIES
    EntryAllOrNothing
    SummaryGate
    ForwardReachesBuild

SPECIFICATION FairSpec

CONSTANTS
    b1 = b1
    b2 = b2
    Builders = {b1, b2}
    MaxRuns <- TwoAndOne
    Choices <- NamesApart
    Inputs <- AllInputs
    Faults = {"preflight", "stop", "kill", "resized", "avbError"}
    StockHz <- MCStockHz
    StockVoltage <- MCStockVoltage
    CellValue <- MCCellValue
    Unreadable = Unreadable
    NoImage = NoImage
    Unsealed = Unsealed
    CellSize = 4096
    PartitionSize = 5
    MetadataSize = 3

INVARIANTS
    TypeOK
    SuccessMeansImage
    FooterSealsPayload

PROPERTIES
    OnlyWholeTreesReachOutput
    KeepsImages
    EveryRunEnds

CHECK_DEADLOCK FALSE

SPECIFICATION Spec

CONSTANTS
    HalfWord = 128
    CellSize = 64
    Unreadable = Unreadable
    MaxLength = 4

INVARIANTS
    OctalNotAboveDecimal
    PlainTextsAgree
    ShellAndCellAgree

CHECK_DEADLOCK FALSE

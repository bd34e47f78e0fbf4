CONSTANTS
    Images <- MCImages
    NewPages = {1, 2}
    CmdlineSize = 8
    BoardSize = 4
    NameSize = 4
SPECIFICATION Spec
INVARIANT OnlyQuotesStay
CHECK_DEADLOCK FALSE

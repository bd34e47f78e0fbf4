CONSTANTS
    TAGSIZE = 2
    Blobs <- MCBlobs
    Names <- MCNames
    Values <- MCValues
    Sizes = {0, 5}
    Growths = {9}
    MaxTotal = 38
SPECIFICATION Spec
INVARIANTS WellFormed FdtputHasRoom
PROPERTY KeepsTree
VIEW Told

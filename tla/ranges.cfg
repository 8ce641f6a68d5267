SPECIFICATION Spec
CONSTANTS
    BlockSize = 4
    MaxBlocks = 3
    MaxRanges = 2
    MimeLength = {0, 10}
INVARIANTS RightSoFar LengthKept PiecesFit

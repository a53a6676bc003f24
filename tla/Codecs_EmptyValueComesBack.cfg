SPECIFICATION Spec
CONSTANTS
    Lengths = {0, 125, 126, 65535, 65536, 131080}
    PingLengths = {2}
    Statuses = {1000, 4999}
    Masks <- TwoMasks
    MaxMessageSize = 65662
    SizeMod = 131100
    MaxSent = 3
    Kinds = {"value"}
    Pieces <- PiecesOf
    MaxPieces <- SomePieces
INVARIANT EmptyValueComesBack
\* a bounded number of frames and of pieces of text comes
CHECK_DEADLOCK FALSE

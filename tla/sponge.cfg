SPECIFICATION Spec
CONSTANTS
    Radix = 8
    Rate = 4
    Pieces <- MCPieces
    Reads = {0, 1, 3, 4, 5}
    MaxIn = 9
    MaxOut = 9
    WordSize = 2
    Version = 1
    Algorithm = 9
    Origins <- MCOrigins
    Rejections <- MCRejections
    Lengths = {1, 2, 3}
INVARIANTS StreamExact PaddingRecoverable InputUnambiguous VecExact
CHECK_DEADLOCK FALSE

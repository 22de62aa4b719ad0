SPECIFICATION Spec
CONSTANTS
    E = 16
    WordBits = 8
    Radix = 4
    EncodedSize = 4
INVARIANTS PowExact InverseExact RootOrder OneEncoding
CHECK_DEADLOCK FALSE

SPECIFICATION Spec
CONSTANTS
    Radix = 12
    Modulus = 17
    EltSize = 2
    ReportIDSize = 1
    TaskIDSize = 1
    ChecksumSize = 1
    SeedSize = 3
    Samples <- MCSamples
INVARIANTS RoundTrip Canonical CutRequest
CHECK_DEADLOCK FALSE

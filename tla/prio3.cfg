SPECIFICATION Spec
CONSTANTS
    E = 4
    WordBits = 4
    MeasShares = {4, 12}
    ProofShares <- MCProofShares
    ProveRands <- MCProveRands
    Forgeries <- MCForgeries
    MaxReports = 2
    None = None
INVARIANTS HonestVerifies Soundness ZeroKnowledge AggregateExact
CHECK_DEADLOCK FALSE

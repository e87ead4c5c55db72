CONSTANTS
    None = None
    Missing = Missing
    Plans <- MCPlans
    MaxAttempts = 3
    MaxDisturbances = 2
SPECIFICATION Spec
INVARIANTS
    OwnManifestExplained
    JobFailureExplained
    ProofPassWasReal
    TamperedProofRejected
    ComparableExplained
PROPERTIES
    JobEnds
CHECK_DEADLOCK FALSE

CONSTANTS
    None = None
    Missing = Missing
    r1 = r1
    r2 = r2
    Runs = {r1, r2}
    Faulty = {r1}
    Scenario <- MCScenario
    Tampering <- MCTampering
    Contents = {0, 1}
    MaxDisturbances = 2
SPECIFICATION Spec
INVARIANTS
    AcceptedWasReal
    AcceptedIsCurrent
    HonestAccepted
    TamperedRejected
PROPERTIES
    RunsEnd
CHECK_DEADLOCK FALSE

SPECIFICATION Spec
CONSTANTS
    c1 = c1
    c2 = c2
    d1 = d1
    d2 = d2
    a1 = a1
    a2 = a2
    None = None
    NoStep = None
    NoEvent = None
    Steps <- JourneySteps
    StepType <- JourneyTypes
    Edge <- JourneyEdges
    EventOf <- JourneyEvents
    Events <- EventNames
    Entry = "b"
    Consumers = {c1, c2}
    Deliveries = {d1, d2}
    Approvers = {a1, a2}
    MaxRows = 2
    FaultKinds = {"publish", "seam"}
    MaxFaults = 1
    HasRootConditions = TRUE
    ApprovalsInstalled = TRUE
    MaxStepsPerRun = 6
INVARIANTS
    TypeOK
    NeverAbandoned
    GateIsDecidable
PROPERTIES
    GateFollowsDecision
    ParkEndsByClaim
    ImplementsRun
SYMMETRY ProcessSymmetry

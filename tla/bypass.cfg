SPECIFICATION FairSpec
CONSTANTS
    c1 = c1
    c2 = c2
    d1 = d1
    d2 = d2
    a1 = a1
    a2 = a2
    None = None
    NoStep = None
    NoEvent = None
    Steps <- BypassSteps
    StepType <- BypassTypes
    Edge <- BypassEdges
    EventOf <- BypassEvents
    Events <- EventNames
    Entry = "k"
    Consumers = {c1}
    Deliveries = {}
    Approvers = {}
    MaxRows = 1
    FaultKinds = {"consumer_crash", "lost_message", "claim_ages", "publish", "lost_ack", "waker_crash"}
    MaxFaults = 2
    HasRootConditions = FALSE
    ApprovalsInstalled = FALSE
    MaxStepsPerRun = 5
INVARIANTS
    EffectsPerDelivery
PROPERTIES
    TerminalIsFinal
    WalksEnd
    ClaimsAreReleased
CHECK_DEADLOCK FALSE

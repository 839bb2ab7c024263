SPECIFICATION DialogSpec
CONSTANTS
    Meta <- DialogMeta
    NameSuggests <- DialogNames
    Texts = {"x"}
    Entities = {"order", "customer"}
    RootOf <- DialogRoots
    Refused = {"Vendor"}
    Stored <- DialogStored
    Typed <- DialogTyped
    MaxActs = 3
    MaxFailures = 1
INVARIANTS
    EveryTypeIsAskedFor
PROPERTIES
    ApplySendsTheText
    LateChildrenOnlyAdd
    ForeignDataSurvives
    FormerRootIsDropped
CHECK_DEADLOCK FALSE

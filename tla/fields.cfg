SPECIFICATION Spec
CONSTANTS
    Fields <- PanelFields
    Opened <- PanelValues
    Amounts <- PanelAmounts
    Texts = {"", "x", "placed"}
    Events = {"placed", "paid"}
    Secrets = {"key"}
    CaseKeys <- PanelKeys
    Queries <- PanelQueries
    Results <- PanelResults
    Resolvable = {"p", "q"}
    MaxEdits = 3
    MaxRows = 3
INVARIANTS
    NothingUncommitted
    OptionsAnswerTheQuery
PROPERTIES
    EditsAreLocal
CHECK_DEADLOCK FALSE

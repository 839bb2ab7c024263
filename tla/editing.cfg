SPECIFICATION Spec
CONSTANTS
    Mounts <- CanvasMounts
    SettingsSet <- CanvasSettings
    AddedTypes = {"action"}
    CaseNames = {1, 3}
    Trees = {"tree"}
    Revalidates = {"false"}
    MaxSelected = 2
    HistoryLimit = 2
    MaxEdits = 3
INVARIANTS
    EditorTypeOK
    GraphsAreSound
    UnsavedWorkIsGuarded
    OpeningIsNoEdit
    SaveKeepsTheGraph
PROPERTIES
    UndoIsReversible
    NothingUnreviewed
    OnlyTheTargetIsWritten
CHECK_DEADLOCK FALSE

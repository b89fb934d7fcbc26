SPECIFICATION Spec
CONSTANTS
    COLS = 2
    ROWS = 2
    PAGE = 5
    NUMBER_OF_TERMINALS = 2
    ClearAnywhere = FALSE
    MaxInputs = 4
    MaxLine = 2
INVARIANTS
    TypeOK
    CursorOnScreen
    OwnBuffers
    EchoTracksLine
PROPERTIES
    SwitchRestores

SPECIFICATION Spec
CONSTANTS
    COLS = 2
    ROWS = 2
    PAGE = 5
    NUMBER_OF_TERMINALS = 2
    ClearAnywhere = TRUE
    MaxInputs = 4
    MaxLine = 2
PROPERTY SwitchRestores

\* A terminal left with a line begun.
CONSTANTS
    TYPE_BUFFER_SIZE = 4
    NUMBER_OF_TERMINALS = 2
    Keys = {"c"}
    Requests = {4}
    SwitchMidLine = TRUE
SPECIFICATION Spec
INVARIANT LineFits

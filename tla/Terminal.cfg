\* Lines typed, erased, typed ahead and read; terminals switched between lines.
CONSTANTS
    TYPE_BUFFER_SIZE = 4
    NUMBER_OF_TERMINALS = 2
    Keys = {"c", "nul"}
    Requests = {0, 2, 5}
    SwitchMidLine = FALSE
SPECIFICATION FairSpec
INVARIANTS TypeOK LineFits BufferHoldsLine
PROPERTIES LineDelivered EnterAnswered

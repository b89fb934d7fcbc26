\* A program ended by an exception.
CONSTANTS
    PCB_SIZE = 6
    NUMBER_OF_TERMINALS = 3
    Commands = {"leaf"}
    SwitchDuring = {}
    FaultIn = {"leaf"}
    MaxRestarts = 0
    MaxSwitches = 0
SPECIFICATION Spec
PROPERTY ExceptionReported

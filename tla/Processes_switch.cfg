\* A terminal switch while a program runs.
CONSTANTS
    PCB_SIZE = 6
    NUMBER_OF_TERMINALS = 3
    Commands = {"leaf"}
    SwitchDuring = {"shell", "leaf"}
    FaultIn = {}
    MaxRestarts = 0
    MaxSwitches = 1
SPECIFICATION Spec
INVARIANT ParentActivationSafe

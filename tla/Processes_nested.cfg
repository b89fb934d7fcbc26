\* A shell started from a shell, and no terminal switch.
CONSTANTS
    PCB_SIZE = 6
    NUMBER_OF_TERMINALS = 3
    Commands = {"shell", "leaf"}
    SwitchDuring = {}
    FaultIn = {}
    MaxRestarts = 0
    MaxSwitches = 0
SPECIFICATION Spec
INVARIANT RunningOwnsPage

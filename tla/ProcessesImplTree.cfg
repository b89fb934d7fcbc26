\* Programs that do not execute others; terminals are switched only at the shell.
CONSTANTS
    PCB_SIZE = 6
    NUMBER_OF_TERMINALS = 3
    Commands = {"leaf", "null", "no such file"}
    SwitchDuring = {"shell"}
    FaultIn = {"leaf"}
    MaxRestarts = 3
    MaxSwitches = 2
SPECIFICATION Spec
INVARIANTS TypeOK RunningOwnsPage NoPcbLeaked TickKeepsOwnStack ParentActivationSafe
PROPERTY ImplementsProcessTree

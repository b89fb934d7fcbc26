\* Nested shells, switches at any moment, exceptions in every program.
CONSTANTS
    PCB_SIZE = 4
    NUMBER_OF_TERMINALS = 2
    Commands = {"shell","long args"}
    SwitchDuring = {"shell"}
    FaultIn = {"shell"}
    MaxRestarts = 1
    MaxSwitches = 1
SPECIFICATION Spec
INVARIANTS BaseShellsStay HaltReturnsToCaller
CHECK_DEADLOCK FALSE

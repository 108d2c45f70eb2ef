SPECIFICATION Spec
CONSTANTS
    Half = 8
    Amount = 4
    Reg = {0, 1, 2, 3}
    Code <- MCCode
    Faults <- MCFaults
    TrapVector = 12
    Bitwise <- MCBitwise
    Shifted <- MCShifted
    DebugWrites <- MCDebugWrites
INVARIANT LatchesFit
PROPERTY IsaUpToDeviations

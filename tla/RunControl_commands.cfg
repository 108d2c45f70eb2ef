SPECIFICATION Spec
CONSTANTS
    Addr <- MCAddr
    Follow <- MCFollow
    Misaligned <- MCMisaligned
    Unmapped <- MCUnmapped
    Code <- MCPlainCode
    ResetPc = "user0"
    DpcReset = "nowhere"
    ProgbufEntry = "progbuf0"
    TrapVector = "user1"
    Reg = {"x0", "x1"}
    X0 = "x0"
    Val = {0, 1}
    Zero = 0
    DmiOps <- MCAllOps
    PoliteDebugger = TRUE
INVARIANT AutoexecUsesNewData
INVARIANT ProgbufStartsAtItsFirstWord
PROPERTY NoErrMeansDone

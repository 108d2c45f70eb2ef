SPECIFICATION CheckedSpec
CONSTANTS
    Addr <- MCAddr
    Follow <- MCFollow
    Misaligned <- MCMisaligned
    Unmapped <- MCUnmapped
    Code <- MCFaultyCode
    ResetPc = "user0"
    DpcReset = "nowhere"
    ProgbufEntry = "progbuf0"
    TrapVector = "user1"
    Reg = {"x0"}
    X0 = "x0"
    Val = {0}
    Zero = 0
    DmiOps <- MCHandshakeOps
    PoliteDebugger = FALSE
INVARIANT RunControlInv
INVARIANT CheckerSilent
INVARIANT NoSpuriousAck
INVARIANT SanityCheckNotStale
INVARIANT DpcHasOneWriter
PROPERTY RequestHeldUntilAck
PROPERTY ProgbufFaultReported

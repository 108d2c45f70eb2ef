SPECIFICATION FairSpec
CONSTANTS
    Addr <- MCAddr
    Follow <- MCFollow
    Misaligned <- MCMisaligned
    Unmapped <- MCUnmapped
    Code <- MCSoundCode
    ResetPc = "user0"
    DpcReset = "nowhere"
    ProgbufEntry = "progbuf0"
    TrapVector = "nowhere"
    Reg = {"x0"}
    X0 = "x0"
    Val = {0}
    Zero = 0
    DmiOps <- MCRunOps
    PoliteDebugger = FALSE
PROPERTY HaltRequestServed
PROPERTY ResumeRequestServed
PROPERTY DmiOperationFinishes
PROPERTY SteppedHartHalts

SPECIFICATION FairSpec
CONSTANTS
    Index = {0, 1}
    Nil = 0
    Slave <- MCSlave
    Boot <- MCBoot
    Progbuf <- MCProgbuf
    Pcs <- MCPcs
    Decodes <- MCDecodes
    PageTables <- SmallPages
    Instrs <- MCInstrs
    DebugWindow <- WhileHalted
INVARIANT TypeOK
INVARIANT AccessAtTranslation
INVARIANT NoRequestLeftBehind
INVARIANT AccessPhases
PROPERTY AccessNotInterrupted
PROPERTY AccessAnswered

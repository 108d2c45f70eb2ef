SPECIFICATION Spec
CONSTANTS
    Index = {0, 1}
    Nil = 0
    Slave <- MCSlave
    Boot <- MCBoot
    Progbuf <- MCProgbuf
    Pcs <- MCPcs
    Decodes <- MCDecodes
    PageTables <- Superpages
    Instrs <- MCInstrs
    DebugWindow <- Never
INVARIANT AccessAtTranslation

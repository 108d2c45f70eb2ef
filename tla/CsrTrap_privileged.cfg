SPECIFICATION FairSpec
CONSTANTS
    Boot <- MCBoot
    Progbuf <- MCProgbuf
    Memory <- MCMemory
    Follow <- MCFollow
    Programs <- MCPrograms
    Encoding <- MCEncoding
    MipFirst = FALSE
INVARIANT TypeOK
INVARIANT SwapIsAtomic
INVARIANT MppHoldsMode
PROPERTY ModeRisesOnlyByTrap
PROPERTY CsrAccessEnds
 

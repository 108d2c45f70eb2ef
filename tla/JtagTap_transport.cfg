SPECIFICATION Spec
CONSTANTS
    IDCODE <- MCIdcode
    DMI <- MCDmi
    ReadOnly <- MCReadOnly
    DrWidth = 3
    DmiWidth = 2
    OpOf <- MCOpOf
    Answered <- MCAnswered
    Results <- MCResults
    MinHalf = 2
INVARIANT TypeOK
INVARIANT FiveOnesReset
INVARIANT UpdateIsWhole
PROPERTY StandardUpToDeviations

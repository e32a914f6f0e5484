SPECIFICATION Spec
CONSTANTS
    Texts <- SomeTexts
    IntBits = 4
    LongBits = 8
    MaxSaved = 2
INVARIANT TypeOK
PROPERTIES
    Implements
    LoopEnds

SPECIFICATION Spec
CONSTANTS
    Names <- SomeNames
    Texts <- SomeTexts
INVARIANTS
    TypeIsRight
    RejectionIsRight
    InStep
    SeenIsDeclared
PROPERTIES
    Implements
    Terminates

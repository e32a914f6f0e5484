SPECIFICATION Spec
CONSTANTS
    Texts <- SomeTexts
INVARIANTS
    PathsFit
    RejectionIsRight
    ObjectsAreRight

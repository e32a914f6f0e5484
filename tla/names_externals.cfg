\* Globals, prototypes, definitions and typedefs in sequence.
SPECIFICATION Spec
CONSTANTS
    NoName = NoName
    Names = {a, b}
    MaxNodes = 6
    MaxExternals = 3
    MaxTypedefs = 1
    MaxParams = 1
    Shapes = {}
SYMMETRY Symmetry
INVARIANTS UsesHaveStorage DefinedOnce

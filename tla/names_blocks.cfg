\* One function with nested blocks, loops and labels.
SPECIFICATION Spec
CONSTANTS
    NoName = NoName
    Names = {a, b}
    MaxNodes = 8
    MaxExternals = 1
    MaxTypedefs = 0
    MaxParams = 0
    Shapes = {}
SYMMETRY Symmetry
INVARIANTS SameDeclaration UsesHaveStorage

\* Two loops with a variable of one name.
SPECIFICATION Spec
CONSTANTS
    NoName = NoName
    Names = {a, b}
    MaxNodes = 7
    MaxExternals = 1
    MaxTypedefs = 0
    MaxParams = 0
    Shapes = {"loopReuse"}
SYMMETRY Symmetry
INVARIANTS SameDeclaration

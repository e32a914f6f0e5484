\* Every program, the shapes on which Sema and CodeGen part ways included.
SPECIFICATION Spec
CONSTANTS
    NoName = NoName
    Names = {a, b}
    MaxNodes = 6
    MaxExternals = 2
    MaxTypedefs = 1
    MaxParams = 1
    Shapes = {"caseDecl", "loopReuse", "loopBodyDecl", "funcPointer", "typedefExpr", "globalSelf", "secondBody"}
SYMMETRY Symmetry
INVARIANTS TypeOK LookupIsLexical NoRedeclaration ScopesBalanced

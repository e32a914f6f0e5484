\* Every statement, the shapes CodeGen translates wrongly included.
SPECIFICATION Spec
CONSTANTS
    Constructs = {"expr", "branching", "null", "return", "break", "continue", "block", "if", "for", "while", "do", "switch", "default"}
    MaxStmts = 4
    Shapes = {"nullBody", "nestedJump", "beforeLabel", "nestedLabel", "caseFalls", "defaultFalls"}
INVARIANTS TypeOK JumpsBindInnermost ShapesAreExact

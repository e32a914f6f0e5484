\* Switches with their sections, in and around conditionals and loops.
SPECIFICATION Spec
CONSTANTS
    Constructs = {"expr", "break", "block", "if", "while", "switch", "default"}
    MaxStmts = 6
    Shapes = {}
INVARIANTS WellFormed FlowIsStructured

\* Expressions of every operator and type.
SPECIFICATION Spec
CONSTANTS
    CharWidth = 3
    ShortWidth = 4
    IntWidth = 5
    LongWidth = 7
    Literals <- SomeLiterals
    Variables <- SomeVariables
    Targets <- SomeTargets
    MaxNodes = 5
    Shapes = {"unsigned", "truth", "wideLeft", "wideShift", "comma", "semaType", "narrowBranch", "sizeof", "unevaluated", "branch"}
INVARIANTS TypeOK ValuesAreRight ConstantsAreRight BoundsAreRight LabelsMatch StatementsAreRight NeverCrashes

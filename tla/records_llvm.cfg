\* Structs and unions by value and by pointer, translated to LLVM types.
SPECIFICATION Spec
CONSTANTS
    Brace = Brace
    Tags = {A, B}
    Prims <- SomePrims
    MaxMentions = 3
    MaxRecords = 2
    MaxMembers = 2
    MaxNodes = 2
    MaxOpened = 2
    Shapes = {"innerTag", "bodyTag"}
SYMMETRY Symmetry
INVARIANTS LayoutStays StructsMatch LayoutsAgree AccessesHit NeverCrashes

\* Tags in nested blocks and bodies; every shape but members of unknown size.
SPECIFICATION Spec
CONSTANTS
    Brace = Brace
    Tags = {A, B}
    Prims <- OnlyInt
    MaxMentions = 3
    MaxRecords = 3
    MaxMembers = 2
    MaxNodes = 1
    MaxOpened = 2
    Shapes = {"incomplete", "redefined", "innerTag", "bodyTag", "sameTag", "padded", "opaqueUnion"}
SYMMETRY Symmetry
INVARIANTS TypeOK TagsNameTypes
PROPERTY LayoutIsRight

CONSTANTS
    MaxNodes = 2
    Types = {"integer", "string", "list"}
    MaxDepths = {2}
    Temporaries = TRUE
SPECIFICATION Spec
INVARIANT RangesSerialize

CONSTANTS
    MaxNodes = 3
    Types = {"nil", "logical", "integer", "real", "complex", "string", "raw", "list"}
    MaxDepths = {1, 2, 3}
    Temporaries = FALSE
SPECIFICATION Spec
INVARIANTS RoundTrip DepthAgreement

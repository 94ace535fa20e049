SPECIFICATION Spec
CONSTANTS
    PortCount = 3
    Tries = 2
    RequireEvidence = TRUE
INVARIANT MissingBinaryIsMisconfigured

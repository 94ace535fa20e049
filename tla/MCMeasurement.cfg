SPECIFICATION Spec
CONSTANTS
    PortCount = 3
    Tries = 2
    RequireEvidence = FALSE
INVARIANTS
    TypeOK
    DegradedIsProven
    HealthyIsMeasured
    ShortCircuitSound
    FailoverExhausted
PROPERTY Concludes

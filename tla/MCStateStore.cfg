SPECIFICATION Spec
CONSTANTS
    Proc = {daemon, command}
    Attempt = {a1, a2}
    TempName = {t1, t2}
SYMMETRY Symmetry
INVARIANTS
    Untorn
    TempsAccounted
    ConfirmedKept
PROPERTY ImplementsAtomicStore

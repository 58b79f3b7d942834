CONSTANTS
    Threads = {t1, t2, t3}
    Words <- X86Words
    Machine <- X86Machine

SPECIFICATION Spec

SYMMETRY ThreadSymmetry

INVARIANTS
    ReadsFinalValues

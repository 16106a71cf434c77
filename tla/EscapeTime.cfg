\* The clock and the host's bytes stop at their bounds.
SPECIFICATION Spec
CONSTANTS
    Guard = 2
    MaxLate = 1
    MaxTime = 8
    MaxBytes = 7
INVARIANTS
    ExitIsDeliberate
    EscapeNotMissed
    HeldBriefly
    PayloadIsStream

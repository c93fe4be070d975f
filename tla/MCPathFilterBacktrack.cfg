\* A star followed by two names, the first of which comes again.
SPECIFICATION Spec
CONSTANTS
    Names = {A, B}
    Star = Star
    MaxMask = 4
    MaxPath = 5
INVARIANTS
    Complete
\* Match returns.
CHECK_DEADLOCK FALSE

\* All masks of up to 4 elements against all paths of up to 5.
SPECIFICATION Spec
CONSTANTS
    Names = {A, B}
    Star = Star
    MaxMask = 4
    MaxPath = 5
INVARIANTS
    FilterInv Sound CompleteForSimpleMasks
PROPERTIES
    Returns
\* Match returns.
CHECK_DEADLOCK FALSE

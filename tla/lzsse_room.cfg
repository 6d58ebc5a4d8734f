SPECIFICATION Spec
INVARIANT
    FastStaysInside
CHECK_DEADLOCK FALSE

SPECIFICATION Spec
INVARIANT
    ConvertedCanFire
CHECK_DEADLOCK FALSE

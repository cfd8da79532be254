SPECIFICATION Spec
INVARIANT
    RuleFiresOnFound
CHECK_DEADLOCK FALSE

SPECIFICATION Spec
INVARIANTS
    OneChainPerOpening
    ParsesTheGrammar
    RuleMatchesHunt
    
    
    ScanMeansRules
CHECK_DEADLOCK FALSE

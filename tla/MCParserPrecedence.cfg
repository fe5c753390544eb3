CONSTANT Families <- Chains
SPECIFICATION Spec
INVARIANT TighterIsDoneFirst
CHECK_DEADLOCK FALSE

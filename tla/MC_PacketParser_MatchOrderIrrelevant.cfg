\* The parser over every buffer of MCInputs, checking MatchOrderIrrelevant alone.
CONSTANT Inputs <- MCInputs
INIT Init
NEXT Next
INVARIANT MatchOrderIrrelevant
CHECK_DEADLOCK FALSE

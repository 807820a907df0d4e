\* The parser over every buffer of MCInputs, checking NoPanic alone.
CONSTANT Inputs <- MCInputs
INIT Init
NEXT Next
INVARIANT NoPanic
CHECK_DEADLOCK FALSE

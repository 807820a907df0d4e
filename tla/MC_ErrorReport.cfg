\* The parser with its error reports over every buffer of MCInputs.  A
\* panic ends the program, so deadlock is not checked.
CONSTANT Inputs <- MCInputs
INIT RInit
NEXT RNext
INVARIANT ErrorNamesCursor
PROPERTY ErrorRepeats
CHECK_DEADLOCK FALSE

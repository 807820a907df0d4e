\* The parser over every buffer of MCInputs.  A panic ends the program, so
\* a panicked parser has no successor state: deadlock is not checked.
CONSTANT Inputs <- MCInputs
INIT Init
NEXT Next
INVARIANTS TypeOK PacketGrammar PrevTipIsLastIP OnlyReservedPanics
    StateReflectsHistory OnlyPadShadowed
PROPERTIES PullConsumes StreamRefinement
CHECK_DEADLOCK FALSE

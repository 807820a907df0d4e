\* The parser over every buffer of MCInputsShort, pulled by a loop that stops at
\* the first error or the end.  States are compared by ParserView: the next
\* pull does not read yielded, so a pull that consumes nothing closes a
\* cycle.  A panic ends the program: deadlock is not checked.
CONSTANT Inputs <- MCInputsShort
SPECIFICATION Consumer
PROPERTY Terminates
VIEW ParserView
CHECK_DEADLOCK FALSE

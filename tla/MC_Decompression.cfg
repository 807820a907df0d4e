\* decompress on an 8-bit word, over every field value and every previous
\* TIP.  One state is one call: it returns once, so the state after it has
\* no successor and deadlock is not checked.
CONSTANT W <- MCW
INIT Init
NEXT Decompress
INVARIANT MeetsLaws
CHECK_DEADLOCK FALSE

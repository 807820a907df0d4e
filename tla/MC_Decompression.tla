--------------------------- MODULE MC_Decompression ---------------------------
EXTENDS Decompression

\* A usize scaled to 8 bits: fields of 2, 4 and 6 bits, bit 47 is bit 5.
MCW == 8

=============================================================================

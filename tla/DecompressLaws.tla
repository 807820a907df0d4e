--------------------------- MODULE DecompressLaws ---------------------------
(***************************************************************************)
(* The laws of Target IP decompression (spec.md section 4.2), on a word of *)
(* W bits, in plain arithmetic: what decompress must return for each       *)
(* IPBytes value, given the TargetIP field v and the previous TIP p.  The  *)
(* real word is W = 64, with fields of 16, 32 and 48 bits; a word of W     *)
(* bits has fields of W/4, W/2 and 3W/4 bits.                              *)
(***************************************************************************)
EXTENDS Integers

\* The numbers that locate the fields in a word of W bits: one past the
\* largest value of the Ip16, Ip32 and Ip48 fields, and the largest value of
\* the W/4 bits above the Ip48 field.
Geometry(W) ==
    [ones16 |-> 2^(W \div 4) - 1,
     low16 |-> 2^(W \div 4),
     low32 |-> 2^(W \div 2),
     low48 |-> 2^(3 * (W \div 4))]

\* The result keeps the bits of p at and above the bit m, and takes the bits
\* below it from v.
KeepHigh(m, p, v) == (p \div m) * m + v

\* The 48-bit IP with the high bits all equal to bit 47: bit 47 is set iff
\* v is at least half of g.low48, and then the W/4 bits above it are ones.
SignExtend48(g, v) ==
    IF 2 * v >= g.low48 THEN g.ones16 * g.low48 + v ELSE v

\* The decompressed IP as an Option (a set of at most one word) for the
\* IPBytes values that have a defined result.
LawDecompress(g, val, v, p) ==
    IF val = 0 THEN {}
    ELSE IF val = 1 THEN {KeepHigh(g.low16, p, v)}
    ELSE IF val = 2 THEN {KeepHigh(g.low32, p, v)}
    ELSE IF val = 3 THEN {SignExtend48(g, v)}
    ELSE {v}

=============================================================================

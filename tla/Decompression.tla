---------------------------- MODULE Decompression ----------------------------
(***************************************************************************)
(* TargetIP::decompress (packets.rs) as the code computes it: the u64 mask *)
(* and OR of the compressed forms, and the sign extension of Ip48 through  *)
(* b47 and wrapping_sub, on a word of W bits.  The masks are scaled with   *)
(* the word: 0xffff_ffff_ffff_0000 keeps all bits above the low W/4, and   *)
(* bit 47 is bit 3W/4 - 1.  One step is one call of decompress on a        *)
(* TargetIP read by deku and the prev_tip snapshot parse_packet passes.    *)
(***************************************************************************)
EXTENDS Integers, Bitwise, DecompressLaws

\* The number of bits of a usize.
CONSTANT W

ASSUME WAssumption == W \in Nat /\ W >= 4 /\ W % 4 = 0

WordMax == 2^W - 1

\* The bit widths of the Ip16, Ip32 and Ip48 fields.
Bits16 == W \div 4
Bits32 == W \div 2
Bits48 == 3 * (W \div 4)

\* 0xffffffffffff0000, 0xffffffff00000000 and 0xffff000000000000.
Mask16 == 2^W - 2^Bits16
Mask32 == 2^W - 2^Bits32
Mask48 == 2^W - 2^Bits48

Bit47 == Bits48 - 1

\* ! on a u64, and u64::wrapping_sub.
UNot(x) == WordMax - x
WrappingSub(x, y) == (x - y) % 2^W

\* The IPBytes values deku accepts, and the width of the TargetIP variant
\* each reads: OutOfContext, Ip16, Ip32, Ip48 (for 0b011 and 0b100), Ip64.
FieldBits == [v \in {0, 1, 2, 3, 4, 6} |->
                 IF v = 0 THEN 0
                 ELSE IF v = 1 THEN Bits16
                 ELSE IF v = 2 THEN Bits32
                 ELSE IF v = 6 THEN W
                 ELSE Bits48]

\* IPBytes::needs_prev_tip.
NeedsPrevTip(val) == val \in {1, 2, 4}

VARIABLES
    ipbytes,   \* ip_bytes.val
    target,    \* the value held by the TargetIP variant
    prev_tip,  \* the Option<usize> passed in: {} or {p}
    outcome,   \* "Pending" before the call, then "Returned" or "Todo"
    res        \* the Option<usize> returned: {} or {ip}

dvars == <<ipbytes, target, prev_tip, outcome, res>>

\* A packet's fields as deku read them, with the snapshot parse_packet takes
\* of the cached TIP when needs_prev_tip holds.
Init ==
    /\ ipbytes \in DOMAIN FieldBits
    /\ target \in 0..(2^FieldBits[ipbytes] - 1)
    /\ prev_tip \in IF NeedsPrevTip(ipbytes)
                    THEN {{p} : p \in 0..WordMax}
                    ELSE {{}}
    /\ outcome = "Pending"
    /\ res = {}

\* Mutant: the ! of !b47 is forgotten, so the fill is all ones for a clear
\* bit 47 and zero for a set one.
SignFillNoNot(v) ==
    LET b47 == shiftR(v & 2^Bit47, Bit47)
    IN  WrappingSub(b47 & 1, 1)

\* let b47 = (v & (1 << 47)) >> 47; let all = u64::wrapping_sub(!b47 & 0x1, 1)
SignFill(v) ==
    LET b47 == shiftR(v & 2^Bit47, Bit47)
    IN  WrappingSub(UNot(b47) & 1, 1)

\* One call of decompress, one disjunct per arm of its match.
Decompress ==
    /\ outcome = "Pending"
    /\ LET p == CHOOSE x \in prev_tip : TRUE
       IN  \/ ipbytes = 0 /\ outcome' = "Returned" /\ res' = {}
           \/ ipbytes = 1 /\ outcome' = "Returned" /\ res' = {(p & Mask16) | target}
           \/ ipbytes = 2 /\ outcome' = "Returned" /\ res' = {(p & Mask32) | target}
           \/ ipbytes = 3 /\ outcome' = "Returned"
                          /\ res' = {(SignFill(target) & Mask48) | target}
           \/ ipbytes = 4 /\ outcome' = "Todo" /\ res' = {}
           \/ ipbytes = 6 /\ outcome' = "Returned" /\ res' = {target}
    /\ UNCHANGED <<ipbytes, target, prev_tip>>

DSpec == Init /\ [][Decompress]_dvars

-----------------------------------------------------------------------------

\* The masks, the OR and the b47/wrapping_sub sign-extension trick of
\* decompress compute the decompression laws for every field value and
\* every previous TIP (the reserved 0b100 aside).
MeetsLaws ==
    outcome = "Returned" =>
        res = LawDecompress(Geometry(W), ipbytes, target, CHOOSE x \in prev_tip : TRUE)

=============================================================================

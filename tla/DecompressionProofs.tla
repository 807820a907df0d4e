-------------------------- MODULE DecompressionProofs --------------------------
(***************************************************************************)
(* The byte selection of PacketParser's Decompress computes the            *)
(* decompression laws of DecompressLaws on the 64-bit word: a Word read    *)
(* as the little-endian number it stands for.  Decompression.tla checks    *)
(* that the code's mask, OR and sign-extension arithmetic compute the same *)
(* laws; this module proves that the byte model PacketParser is built on   *)
(* does, for every field and every previous TIP.                           *)
(***************************************************************************)
EXTENDS PacketParserProofs, DecompressLaws

\* Geometry(64), written out: 2^16 - 1, 2^16, 2^32 and 2^48.
G64 == [ones16 |-> 65535,
        low16 |-> 65536,
        low32 |-> 4294967296,
        low48 |-> 281474976710656]

\* The number with little-endian bytes x1 .. x8.
ByteSum(x1, x2, x3, x4, x5, x6, x7, x8) ==
    x1 + 256 * x2 + 65536 * x3 + 16777216 * x4
    + 4294967296 * x5 + 1099511627776 * x6
    + 281474976710656 * x7 + 72057594037927936 * x8

\* The usize a Word stands for: byte 1 is the least significant.
Value(w) == ByteSum(w[1], w[2], w[3], w[4], w[5], w[6], w[7], w[8])

\* The value of a TargetIP field of Len(ip) little-endian bytes.
FieldValue(ip) == Value([i \in 1..8 |-> IF i <= Len(ip) THEN ip[i] ELSE 0])

\* 0b001 on a word: two field bytes below the bytes of t above bit 16.
LEMMA KeepHigh16Word ==
    ASSUME NEW t \in Word, NEW c1 \in Byte, NEW c2 \in Byte
    PROVE  KeepHigh(65536, Value(t), ByteSum(c1, c2, 0, 0, 0, 0, 0, 0))
           = ByteSum(c1, c2, t[3], t[4], t[5], t[6], t[7], t[8])
<1>1. PICK t1, t2, t3, t4, t5, t6, t7, t8 \in Byte :
          /\ t[1] = t1 /\ t[2] = t2 /\ t[3] = t3 /\ t[4] = t4
          /\ t[5] = t5 /\ t[6] = t6 /\ t[7] = t7 /\ t[8] = t8
    BY DEF Word
<1>2. PICK a, q, c \in Int :
          /\ a = t1 + 256 * t2
          /\ q = t3 + 256 * t4 + 65536 * t5 + 16777216 * t6
                 + 4294967296 * t7 + 1099511627776 * t8
          /\ c = c1 + 256 * c2
    BY SMTT(30) DEF Byte
<1>3. /\ ByteSum(t1, t2, t3, t4, t5, t6, t7, t8) = a + 65536 * q
      /\ ByteSum(c1, c2, 0, 0, 0, 0, 0, 0) = c
      /\ ByteSum(c1, c2, t3, t4, t5, t6, t7, t8) = q * 65536 + c
    BY <1>2 DEF ByteSum, Byte
<1>4. 0 <= a /\ a < 65536 /\ q \in Nat
    BY <1>2 DEF Byte
<1>5. KeepHigh(65536, a + 65536 * q, c) = q * 65536 + c
    BY <1>4 DEF KeepHigh
<1>6. QED
    BY <1>1, <1>3, <1>5 DEF Value

\* 0b010 on a word: four field bytes below the bytes of t above bit 32.
LEMMA KeepHigh32Word ==
    ASSUME NEW t \in Word, NEW c1 \in Byte, NEW c2 \in Byte, NEW c3 \in Byte,
           NEW c4 \in Byte
    PROVE  KeepHigh(4294967296, Value(t), ByteSum(c1, c2, c3, c4, 0, 0, 0, 0))
           = ByteSum(c1, c2, c3, c4, t[5], t[6], t[7], t[8])
<1>1. PICK t1, t2, t3, t4, t5, t6, t7, t8 \in Byte :
          /\ t[1] = t1 /\ t[2] = t2 /\ t[3] = t3 /\ t[4] = t4
          /\ t[5] = t5 /\ t[6] = t6 /\ t[7] = t7 /\ t[8] = t8
    BY DEF Word
<1>2. PICK a, q, c \in Int :
          /\ a = t1 + 256 * t2 + 65536 * t3 + 16777216 * t4
          /\ q = t5 + 256 * t6 + 65536 * t7 + 16777216 * t8
          /\ c = c1 + 256 * c2 + 65536 * c3 + 16777216 * c4
    BY SMTT(30) DEF Byte
<1>3. /\ ByteSum(t1, t2, t3, t4, t5, t6, t7, t8) = a + 4294967296 * q
      /\ ByteSum(c1, c2, c3, c4, 0, 0, 0, 0) = c
      /\ ByteSum(c1, c2, c3, c4, t5, t6, t7, t8) = q * 4294967296 + c
    BY <1>2 DEF ByteSum, Byte
<1>4. 0 <= a /\ a < 4294967296 /\ q \in Nat
    BY <1>2 DEF Byte
<1>5. KeepHigh(4294967296, a + 4294967296 * q, c) = q * 4294967296 + c
    BY <1>4 DEF KeepHigh
<1>6. QED
    BY <1>1, <1>3, <1>5 DEF Value

\* 0b011 on a six-byte field: filling bytes 7 and 8 with copies of the top
\* bit of byte 6 is the sign extension on bit 47.
LEMMA SignExtendField ==
    ASSUME NEW ip \in Seq(Byte), Len(ip) = 6
    PROVE  SignExtend48(G64, ByteSum(ip[1], ip[2], ip[3], ip[4], ip[5], ip[6], 0, 0))
           = ByteSum(ip[1], ip[2], ip[3], ip[4], ip[5], ip[6],
                     IF ip[6] >= 128 THEN 255 ELSE 0, IF ip[6] >= 128 THEN 255 ELSE 0)
<1>0. PICK c1, c2, c3, c4, c5, c6 \in Byte :
          /\ ip[1] = c1 /\ ip[2] = c2 /\ ip[3] = c3
          /\ ip[4] = c4 /\ ip[5] = c5 /\ ip[6] = c6
    <2>1. \A i \in 1..Len(ip) : ip[i] \in Byte
        BY ElementOfSeq
    <2>2. QED
        BY <2>1
<1> SUFFICES SignExtend48(G64, ByteSum(c1, c2, c3, c4, c5, c6, 0, 0))
             = ByteSum(c1, c2, c3, c4, c5, c6, IF c6 >= 128 THEN 255 ELSE 0,
                                               IF c6 >= 128 THEN 255 ELSE 0)
    BY <1>0
<1>1. PICK low \in Int, v \in Int, fill \in {0, 255} :
          /\ low = c1 + 256 * c2 + 65536 * c3 + 16777216 * c4 + 4294967296 * c5
          /\ v = low + 1099511627776 * c6
          /\ fill = IF c6 >= 128 THEN 255 ELSE 0
    BY DEF Byte
<1>2. /\ ByteSum(c1, c2, c3, c4, c5, c6, 0, 0) = v
      /\ ByteSum(c1, c2, c3, c4, c5, c6, fill, fill)
         = v + 281474976710656 * fill + 72057594037927936 * fill
    BY <1>1 DEF ByteSum, Byte
\* Bit 47 is the top bit of byte 6.
<1>3. 2 * v >= 281474976710656 <=> c6 >= 128
    <2>1. 0 <= low /\ low < 1099511627776 /\ c6 \in 0..255
        BY <1>1 DEF Byte
    <2>2. QED
        BY <1>1, <2>1
<1>4. SignExtend48(G64, v) =
          IF 2 * v >= 281474976710656 THEN 65535 * 281474976710656 + v ELSE v
    BY DEF SignExtend48, G64
<1>5. CASE c6 >= 128
    <2>1. fill = 255 /\ 2 * v >= 281474976710656
        BY <1>1, <1>3, <1>5
    <2>2. v + 281474976710656 * fill + 72057594037927936 * fill
          = 65535 * 281474976710656 + v
        BY <2>1
    <2>3. QED
        BY <1>1, <1>2, <1>4, <2>1, <2>2
<1>6. CASE ~(c6 >= 128)
    <2>1. fill = 0 /\ ~(2 * v >= 281474976710656)
        BY <1>1, <1>3, <1>6
    <2>2. v + 281474976710656 * fill + 72057594037927936 * fill = v
        BY <2>1
    <2>3. QED
        BY <1>1, <1>2, <1>4, <2>1, <2>2
<1>7. QED
    BY <1>5, <1>6

\* For each IPBytes value decompress returns Some for, the word built from
\* the packet's field and the snapshot is the IP the law gives.
THEOREM DecompressMeetsLaws ==
    ASSUME NEW v \in {1, 2, 3, 6}, NEW ip \in Seq(Byte),
           Len(ip) = TargetIPLen[v], NEW tip \in Word,
           NEW snap \in {{}, {tip}}, NeedsPrevTip(v) => snap = {tip}
    PROVE  {Value(Decompress(v, ip, snap))} =
               LawDecompress(G64, v, FieldValue(ip), Value(CHOOSE w \in snap : TRUE))
<1> DEFINE r == Decompress(v, ip, snap)
           f == [i \in 1..8 |-> IF i <= Len(ip) THEN ip[i] ELSE 0]
<1>0. Len(ip) \in {2, 4, 6, 8}
    BY DEF TargetIPLen
<1>1. \A i \in 1..Len(ip) : ip[i] \in Byte /\ r[i] = ip[i] /\ f[i] = ip[i]
    <2> SUFFICES ASSUME NEW i \in 1..Len(ip)
                 PROVE  ip[i] \in Byte /\ r[i] = ip[i] /\ f[i] = ip[i]
        OBVIOUS
    <2>1. i \in 1..8 /\ i <= Len(ip)
        BY <1>0
    <2>2. ip[i] \in Byte
        OBVIOUS
    <2>3. r[i] = ip[i]
        BY <2>1, Zenon DEF Decompress
    <2>4. f[i] = ip[i]
        BY <2>1
    <2>5. QED
        BY <2>2, <2>3, <2>4
<1>2. \A i \in (Len(ip) + 1)..8 : f[i] = 0
    <2> SUFFICES ASSUME NEW i \in (Len(ip) + 1)..8 PROVE f[i] = 0
        OBVIOUS
    <2>1. i \in 1..8 /\ ~(i <= Len(ip))
        BY <1>0
    <2>2. QED
        BY <2>1
<1>4. FieldValue(ip) = ByteSum(f[1], f[2], f[3], f[4], f[5], f[6], f[7], f[8])
    BY DEF FieldValue, Value
<1>5. Value(r) = ByteSum(r[1], r[2], r[3], r[4], r[5], r[6], r[7], r[8])
    BY DEF Value
<1>6. CASE v = 1
    <2>1. Len(ip) = 2 /\ snap = {tip}
        BY <1>6 DEF TargetIPLen, NeedsPrevTip
    <2>2. \A i \in 3..8 : r[i] = tip[i]
        <3> SUFFICES ASSUME NEW i \in 3..8 PROVE r[i] = tip[i]
            OBVIOUS
        <3>1. i \in 1..8 /\ ~(i <= Len(ip)) /\ v # 3 /\ (CHOOSE w \in snap : TRUE) = tip
            BY <1>6, <2>1
        <3>2. QED
            BY <3>1, Zenon DEF Decompress
    <2>3. PICK c1, c2 \in Byte : ip[1] = c1 /\ ip[2] = c2
        BY <1>1, <2>1
    <2>4. FieldValue(ip) = ByteSum(c1, c2, 0, 0, 0, 0, 0, 0)
        BY <1>1, <1>2, <1>4, <2>1, <2>3
    <2>5. Value(r) = ByteSum(c1, c2, tip[3], tip[4], tip[5], tip[6], tip[7], tip[8])
        BY <1>1, <1>5, <2>1, <2>2, <2>3
    <2>6. KeepHigh(65536, Value(tip), FieldValue(ip)) = Value(r)
        BY <2>4, <2>5, KeepHigh16Word
    <2>7. QED
        BY <1>6, <2>1, <2>6 DEF LawDecompress, G64
<1>7. CASE v = 2
    <2>1. Len(ip) = 4 /\ snap = {tip}
        BY <1>7 DEF TargetIPLen, NeedsPrevTip
    <2>2. \A i \in 5..8 : r[i] = tip[i]
        <3> SUFFICES ASSUME NEW i \in 5..8 PROVE r[i] = tip[i]
            OBVIOUS
        <3>1. i \in 1..8 /\ ~(i <= Len(ip)) /\ v # 3 /\ (CHOOSE w \in snap : TRUE) = tip
            BY <1>7, <2>1
        <3>2. QED
            BY <3>1, Zenon DEF Decompress
    <2>3. PICK c1, c2, c3, c4 \in Byte :
            ip[1] = c1 /\ ip[2] = c2 /\ ip[3] = c3 /\ ip[4] = c4
        BY <1>1, <2>1
    <2>4. FieldValue(ip) = ByteSum(c1, c2, c3, c4, 0, 0, 0, 0)
        BY <1>1, <1>2, <1>4, <2>1, <2>3
    <2>5. Value(r) = ByteSum(c1, c2, c3, c4, tip[5], tip[6], tip[7], tip[8])
        BY <1>1, <1>5, <2>1, <2>2, <2>3
    <2>6. KeepHigh(4294967296, Value(tip), FieldValue(ip)) = Value(r)
        BY <2>4, <2>5, KeepHigh32Word
    <2>7. QED
        BY <1>7, <2>1, <2>6 DEF LawDecompress, G64
<1>8. CASE v = 3
    <2> DEFINE fill == IF ip[6] >= 128 THEN 255 ELSE 0
    <2>1. Len(ip) = 6
        BY <1>8 DEF TargetIPLen
    <2>2. r[7] = fill /\ r[8] = fill
        <3>1. 7 \in 1..8 /\ 8 \in 1..8 /\ ~(7 <= Len(ip)) /\ ~(8 <= Len(ip))
            BY <2>1
        <3>2. r[7] = fill
            BY <1>8, <3>1, Zenon DEF Decompress
        <3>3. r[8] = fill
            BY <1>8, <3>1, Zenon DEF Decompress
        <3>4. QED
            BY <3>2, <3>3
    <2>3. FieldValue(ip) = ByteSum(ip[1], ip[2], ip[3], ip[4], ip[5], ip[6], 0, 0)
        BY <1>1, <1>2, <1>4, <2>1
    <2>4. Value(r) = ByteSum(ip[1], ip[2], ip[3], ip[4], ip[5], ip[6], fill, fill)
        BY <1>1, <1>5, <2>1, <2>2
    <2>5. SignExtend48(G64, FieldValue(ip)) = Value(r)
        BY <2>1, <2>3, <2>4, SignExtendField
    <2>6. QED
        BY <1>8, <2>5 DEF LawDecompress
<1>9. CASE v = 6
    <2>1. Len(ip) = 8
        BY <1>9 DEF TargetIPLen
    <2>2. \A i \in 1..8 : r[i] = f[i]
        BY <1>1, <2>1
    <2>3. FieldValue(ip) = Value(r)
        BY <1>4, <1>5, <2>2
    <2>4. QED
        BY <1>9, <2>3 DEF LawDecompress
<1>10. QED
    BY <1>6, <1>7, <1>8, <1>9

=============================================================================

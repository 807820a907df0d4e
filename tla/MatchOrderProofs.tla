--------------------------- MODULE MatchOrderProofs ---------------------------
(***************************************************************************)
(* Proof that the order in which parse_state tries the valid kinds decides *)
(* the packet only where ShortTNT reads the 0x00 of a PAD: every other two *)
(* codecs of packets.rs read disjoint headers.                             *)
(***************************************************************************)
EXTENDS PacketParserProofs

\* What the header of the buffer is when the codec of kind k reads it: the
\* deku magic for the magic kinds, the opcode in the low five bits for the
\* IP packets, a zero low bit that is not a lone stop bit for ShortTNT, and
\* 0b11 in the low two bits for CYC.
HeaderOf(k, bs) ==
    /\ k = "PSB"      => bs[1] = 2 /\ bs[2] = 130
    /\ k = "CBR"      => bs[1] = 2 /\ bs[2] = 3
    /\ k = "PSBEND"   => bs[1] = 2 /\ bs[2] = 35
    /\ k = "LongTNT"  => bs[1] = 2 /\ bs[2] = 163
    /\ k = "PAD"      => bs[1] = 0
    /\ k = "MODE"     => bs[1] = 153
    /\ k \in IPKinds  => bs[1] % 32 = Opcode[k]
    /\ k = "ShortTNT" => bs[1] % 2 = 0 /\ bs[1] # 2
    /\ k = "CYC"      => bs[1] % 4 = 3

\* A buffer whose prefix is the magic m starts with the bytes of m.
LEMMA MagicPrefix ==
    ASSUME NEW bs \in Seq(Byte), NEW m, Len(m) \in Nat, Len(m) <= Len(bs),
           SubSeq(bs, 1, Len(m)) = m
    PROVE  \A i \in 1..Len(m) : bs[i] = m[i]
<1>1. \A i \in 1..Len(m) : bs[i] \in Byte
    BY ElementOfSeq
<1>2. \A i \in 1..(Len(m) - 1 + 1) : SubSeq(bs, 1, Len(m))[i] = bs[1 + i - 1]
    BY <1>1, SubSeqProperties
<1>3. QED
    BY <1>2

\* The first two bytes of a buffer a 0x02 magic of two or more bytes reads.
LEMMA MagicTwoBytes ==
    ASSUME NEW k \in MagicKinds, NEW bs \in Seq(Byte), MagicMatch(k, bs),
           Len(Magic[k]) >= 2, Len(Magic[k]) \in Nat, FramedLen[k] \in Nat,
           Len(Magic[k]) <= FramedLen[k]
    PROVE  bs[1] = Magic[k][1] /\ bs[2] = Magic[k][2]
<1>1. Len(bs) >= FramedLen[k] /\ SubSeq(bs, 1, Len(Magic[k])) = Magic[k]
    BY DEF MagicMatch
<1>3. \A i \in 1..Len(Magic[k]) : bs[i] = Magic[k][i]
    BY <1>1, MagicPrefix
<1>4. QED
    BY <1>3

\* The lengths of the magics packets.rs declares, and of the frames that hold them.
LEMMA MagicLengths ==
    /\ Len(Magic["PSB"]) = 16 /\ Len(Magic["CBR"]) = 2
    /\ Len(Magic["PSBEND"]) = 2 /\ Len(Magic["LongTNT"]) = 2
    /\ Len(Magic["PAD"]) = 1 /\ Len(Magic["MODE"]) = 1
    /\ FramedLen["PSB"] = 16 /\ FramedLen["CBR"] = 4
    /\ FramedLen["PSBEND"] = 2 /\ FramedLen["LongTNT"] = 8
    /\ FramedLen["PAD"] = 1 /\ FramedLen["MODE"] = 2
<1>1. Magic["PSB"] = [i \in 1..16 |-> IF i % 2 = 1 THEN 2 ELSE 130]
    BY DEF Magic
<1>2. [i \in 1..16 |-> IF i % 2 = 1 THEN 2 ELSE 130] \in Seq(Nat)
    OBVIOUS
<1>3. Len(Magic["PSB"]) = 16
    BY <1>1, <1>2
<1>4. /\ Magic["CBR"] = <<2, 3>> /\ Magic["PSBEND"] = <<2, 35>>
      /\ Magic["LongTNT"] = <<2, 163>> /\ Magic["PAD"] = <<0>>
      /\ Magic["MODE"] = <<153>>
    BY DEF Magic
<1>5. QED
    BY <1>3, <1>4 DEF FramedLen

\* The header a codec has read when it succeeds, for every kind and buffer.
LEMMA MatchHeader ==
    ASSUME NEW k \in Kinds, NEW bs \in Seq(Byte), Matches(k, bs)
    PROVE  HeaderOf(k, bs)
<1>1. CASE k \in {"PSB", "CBR", "PSBEND", "LongTNT"}
    <2>a. k \in MagicKinds
        BY <1>1 DEF MagicKinds, Magic
    <2>b. MagicMatch(k, bs)
        BY <2>a DEF Matches
    <2>c. Len(Magic[k]) >= 2 /\ Len(Magic[k]) \in Nat /\ FramedLen[k] \in Nat
          /\ Len(Magic[k]) <= FramedLen[k]
        <3>1. CASE k = "PSB"
            BY <3>1, MagicLengths
        <3>2. CASE k = "CBR"
            BY <3>2, MagicLengths
        <3>3. CASE k = "PSBEND"
            BY <3>3, MagicLengths
        <3>4. CASE k = "LongTNT"
            BY <3>4, MagicLengths
        <3>5. QED
            BY <1>1, <3>1, <3>2, <3>3, <3>4
    <2>1. /\ k \in MagicKinds /\ MagicMatch(k, bs)
          /\ Len(Magic[k]) >= 2 /\ Len(Magic[k]) \in Nat /\ FramedLen[k] \in Nat
          /\ Len(Magic[k]) <= FramedLen[k]
        BY <2>a, <2>b, <2>c
    <2>2. bs[1] = Magic[k][1] /\ bs[2] = Magic[k][2]
        BY <2>1, MagicTwoBytes
    <2>3. /\ k = "PSB"     => Magic[k][1] = 2 /\ Magic[k][2] = 130
          /\ k = "CBR"     => Magic[k][1] = 2 /\ Magic[k][2] = 3
          /\ k = "PSBEND"  => Magic[k][1] = 2 /\ Magic[k][2] = 35
          /\ k = "LongTNT" => Magic[k][1] = 2 /\ Magic[k][2] = 163
        <3>1. Magic["PSB"][1] = 2 /\ Magic["PSB"][2] = 130
            BY DEF Magic
        <3>2. Magic["CBR"] = <<2, 3>> /\ Magic["PSBEND"] = <<2, 35>>
              /\ Magic["LongTNT"] = <<2, 163>>
            BY DEF Magic
        <3>3. QED
            BY <3>1, <3>2
    <2>4. QED
        BY <1>1, <2>2, <2>3 DEF HeaderOf, IPKinds
<1>2. CASE k \in {"PAD", "MODE"}
    <2>a. k \in MagicKinds
        BY <1>2 DEF MagicKinds, Magic
    <2>b. MagicMatch(k, bs)
        BY <2>a DEF Matches
    <2>c. Len(Magic[k]) = 1 /\ FramedLen[k] \in Nat /\ FramedLen[k] >= 1
        <3>1. CASE k = "PAD"
            BY <3>1, MagicLengths
        <3>2. CASE k = "MODE"
            BY <3>2, MagicLengths
        <3>3. QED
            BY <1>2, <3>1, <3>2
    <2>1. /\ Len(bs) >= 1 /\ SubSeq(bs, 1, Len(Magic[k])) = Magic[k]
          /\ Len(Magic[k]) = 1
        BY <2>b, <2>c DEF MagicMatch
    <2>2. bs[1] = Magic[k][1]
        BY <2>1, MagicPrefix
    <2>3. /\ k = "PAD"  => Magic[k][1] = 0
          /\ k = "MODE" => Magic[k][1] = 153
        BY DEF Magic
    <2>4. QED
        BY <1>2, <2>2, <2>3 DEF HeaderOf, IPKinds
<1>3. CASE k \in IPKinds
    <2>1. bs[1] % 32 = Opcode[k]
        BY <1>3 DEF Matches, IPPacketMatch
    <2>2. QED
        BY <1>3, <2>1 DEF HeaderOf, IPKinds
<1>4. CASE k = "ShortTNT"
    <2>1. bs # <<>>
        BY DEF Matches
    <2>2. bs[1] \in Byte
        BY <2>1, EmptySeq, ElementOfSeq
    <2>3. bs[1] \div 2 # 1 /\ bs[1] % 2 = 0
        BY <1>4 DEF Matches, ShortTNTMatch, MagicKinds, Magic, IPKinds
    <2>4. bs[1] # 2
        BY <2>2, <2>3 DEF Byte
    <2>5. QED
        BY <1>4, <2>3, <2>4 DEF HeaderOf, IPKinds
<1>5. CASE k = "CYC"
    <2>1. bs[1] % 4 = 3
        BY <1>5 DEF Matches, CYCMatch, MagicKinds, Magic, IPKinds
    <2>2. QED
        BY <1>5, <2>1 DEF HeaderOf, IPKinds
<1>6. QED
    BY <1>1, <1>2, <1>3, <1>4, <1>5 DEF Kinds, IPKinds

\* The opcodes of the IP packets are odd and 1 modulo 4, so no ShortTNT, CYC,
\* PAD, MODE or 0x02 magic header carries one in its low five bits.
LEMMA OpcodeFacts ==
    \A k \in IPKinds : /\ Opcode[k] \in {1, 13, 17, 29}
                       /\ \A b \in Byte : b % 32 = Opcode[k] => b % 4 = 1
<1>1. \A k \in IPKinds : Opcode[k] \in {1, 13, 17, 29}
    BY DEF IPKinds, Opcode
<1>2. \A b \in Byte, o \in {1, 13, 17, 29} : b % 32 = o => b % 4 = 1
    BY DEF Byte
<1>3. QED
    BY <1>1, <1>2

\* Two different codecs of packets.rs read the same first bytes only when
\* one is ShortTNT and the other PAD: both accept the byte 0x00.
LEMMA DisjointHeaders ==
    ASSUME NEW k1 \in Kinds, NEW k2 \in Kinds, k1 # k2,
           NEW bs, bs[1] \in Byte, HeaderOf(k1, bs), HeaderOf(k2, bs)
    PROVE  {k1, k2} = {"ShortTNT", "PAD"}
<1>1. /\ k1 \in IPKinds => bs[1] % 4 = 1 /\ bs[1] \notin {0, 2, 153}
      /\ k2 \in IPKinds => bs[1] % 4 = 1 /\ bs[1] \notin {0, 2, 153}
    <2>1. \A k \in IPKinds : HeaderOf(k, bs) => bs[1] % 4 = 1
        BY OpcodeFacts DEF HeaderOf
    <2>2. \A k \in IPKinds : HeaderOf(k, bs) => bs[1] \notin {0, 2, 153}
        BY OpcodeFacts DEF HeaderOf, Byte
    <2>3. QED
        BY <2>1, <2>2
<1>2. CASE k1 = "PSB"
    BY <1>1, <1>2 DEF HeaderOf, Kinds, IPKinds, Byte
<1>3. CASE k1 = "CBR"
    BY <1>1, <1>3 DEF HeaderOf, Kinds, IPKinds, Byte
<1>4. CASE k1 = "PSBEND"
    BY <1>1, <1>4 DEF HeaderOf, Kinds, IPKinds, Byte
<1>5. CASE k1 = "PAD"
    BY <1>1, <1>5 DEF HeaderOf, Kinds, IPKinds, Byte
<1>6. CASE k1 = "MODE"
    BY <1>1, <1>6 DEF HeaderOf, Kinds, IPKinds, Byte
<1>7. CASE k1 = "TIPPGE"
    BY <1>1, <1>7 DEF HeaderOf, Kinds, IPKinds, Byte, Opcode
<1>8. CASE k1 = "TIPPGD"
    BY <1>1, <1>8 DEF HeaderOf, Kinds, IPKinds, Byte, Opcode
<1>9. CASE k1 = "ShortTNT"
    BY <1>1, <1>9 DEF HeaderOf, Kinds, IPKinds, Byte
<1>10. CASE k1 = "LongTNT"
    BY <1>1, <1>10 DEF HeaderOf, Kinds, IPKinds, Byte
<1>11. CASE k1 = "TIP"
    BY <1>1, <1>11 DEF HeaderOf, Kinds, IPKinds, Byte, Opcode
<1>12. CASE k1 = "FUP"
    BY <1>1, <1>12 DEF HeaderOf, Kinds, IPKinds, Byte, Opcode
<1>13. CASE k1 = "CYC"
    BY <1>1, <1>13 DEF HeaderOf, Kinds, IPKinds, Byte
<1>14. QED
    BY <1>2, <1>3, <1>4, <1>5, <1>6, <1>7, <1>8, <1>9, <1>10, <1>11, <1>12, <1>13 DEF Kinds

\* valid_packets lists each kind of a state once, and in Normal tries
\* ShortTNT before PAD.
LEMMA ValidOrder ==
    ASSUME NEW s \in States,
           NEW i \in 1..Len(ValidPackets[s]), NEW j \in 1..Len(ValidPackets[s]),
           i < j
    PROVE  /\ ValidPackets[s][i] \in Kinds
           /\ ValidPackets[s][j] \in Kinds
           /\ ValidPackets[s][i] # ValidPackets[s][j]
           /\ ~(ValidPackets[s][i] = "PAD" /\ ValidPackets[s][j] = "ShortTNT")
<1>1. CASE s = "Init"
    BY <1>1 DEF ValidPackets
<1>2. CASE s = "PSBPlus"
    BY <1>2 DEF ValidPackets, Kinds
<1>3. CASE s = "Normal"
    BY <1>3 DEF ValidPackets, Kinds
<1>4. QED
    BY <1>1, <1>2, <1>3 DEF States

\* Any state of the parser: two kinds valid in it that both read the bytes
\* left are ShortTNT, tried first, and PAD.
LEMMA TypeOnlyPadShadowed == TypeOK => OnlyPadShadowed
<1> SUFFICES ASSUME TypeOK,
                    NEW i \in 1..Len(ValidPackets[state]),
                    NEW j \in 1..Len(ValidPackets[state]),
                    i < j,
                    Matches(ValidPackets[state][i], bytes),
                    Matches(ValidPackets[state][j], bytes)
             PROVE  /\ ValidPackets[state][i] = "ShortTNT"
                    /\ ValidPackets[state][j] = "PAD"
    BY DEF OnlyPadShadowed
<1>1. state \in States /\ bytes \in Seq(Byte)
    BY DEF TypeOK
<1>2. /\ ValidPackets[state][i] \in Kinds
      /\ ValidPackets[state][j] \in Kinds
      /\ ValidPackets[state][i] # ValidPackets[state][j]
      /\ ~(ValidPackets[state][i] = "PAD" /\ ValidPackets[state][j] = "ShortTNT")
    BY <1>1, ValidOrder
<1>3. bytes[1] \in Byte
    <2>1. bytes # <<>>
        BY DEF Matches
    <2>2. QED
        BY <1>1, <2>1, EmptySeq, ElementOfSeq
<1>4. HeaderOf(ValidPackets[state][i], bytes) /\ HeaderOf(ValidPackets[state][j], bytes)
    BY <1>1, <1>2, MatchHeader
<1>5. {ValidPackets[state][i], ValidPackets[state][j]} = {"ShortTNT", "PAD"}
    BY <1>2, <1>3, <1>4, DisjointHeaders
<1>6. QED
    BY <1>2, <1>5

\* In every behaviour of the parser, the order in which parse_state tries the
\* valid kinds (mod.rs) picks the packet only between a ShortTNT and a PAD.
THEOREM MatchOrderOnlyPad == Spec => []OnlyPadShadowed
BY TypeCorrect, TypeOnlyPadShadowed, PTL

====

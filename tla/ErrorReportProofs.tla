------------------------- MODULE ErrorReportProofs -------------------------
(***************************************************************************)
(* Proof that the TraceParseError of parse_state names the bytes at the    *)
(* cursor, for every set of trace buffers: the text byte_stream_str builds *)
(* reads back, slot by slot, as the bytes it was made from.                *)
(***************************************************************************)
EXTENDS ErrorReport, PacketStreamRefinement

\* The characters of a byte_stream_str text.
Chars == {"0", "1", ",", " ", "."}

-----------------------------------------------------------------------------
(* One byte: {:08b} and reading the digits back.                           *)

\* The eight digits of {:08b} read back give the byte: the formatting pads
\* to eight places, so no digit is lost and none is shifted.
LEMMA UnbinaryBinary08 ==
    ASSUME NEW b \in 0..255
    PROVE  Unbinary(Binary08(b)) = b
<1> DEFINE d(j) == (b \div 2^(8 - j)) % 2
<1>1. /\ 2^7 = 128 /\ 2^6 = 64 /\ 2^5 = 32 /\ 2^4 = 16
      /\ 2^3 = 8 /\ 2^2 = 4 /\ 2^1 = 2 /\ 2^0 = 1
    BY SMT
<1>2. \A j \in 1..8 : Digit(Binary08(b)[j]) = d(j)
    <2> SUFFICES ASSUME NEW j \in 1..8 PROVE Digit(Binary08(b)[j]) = d(j)
        OBVIOUS
    <2>1. d(j) \in {0, 1}
        BY SMT
    <2>2. QED
        BY <2>1 DEF Binary08, Digit
<1>3. 128 * d(1) + 64 * d(2) + 32 * d(3) + 16 * d(4)
      + 8 * d(5) + 4 * d(6) + 2 * d(7) + d(8) = b
    BY <1>1, SMT
<1>4. QED
    BY <1>2, <1>3 DEF Unbinary

-----------------------------------------------------------------------------
(* The joined digits of byte_stream_str(bs, 8, ", ").                      *)

\* nbytes after its shadowing by min(nbytes, self.bytes.len()).
N8(bs) == IF 8 <= Len(bs) THEN 8 ELSE Len(bs)

\* The digits of the bytes shown, joined by the separator.
Digits(bs) == Join([k \in 1..N8(bs) |-> Binary08(bs[k])], 8, Sep)

\* At least one and at most eight bytes are shown of a buffer that is not
\* empty.
LEMMA N8Range ==
    ASSUME NEW bs \in Seq(Byte), bs # <<>>
    PROVE  /\ N8(bs) \in 1..8 /\ N8(bs) <= Len(bs)
           /\ N8(bs) \in Int /\ 1 <= N8(bs) /\ N8(bs) <= 8 /\ Len(bs) \in Nat
<1>1. Len(bs) \in Nat /\ Len(bs) >= 1
    BY EmptySeq
<1>2. N8(bs) \in Int /\ 1 <= N8(bs) /\ N8(bs) <= 8 /\ N8(bs) <= Len(bs)
    BY <1>1 DEF N8
<1>3. QED
    BY <1>2

\* byte_stream_str is the joined digits, followed by the separator and
\* "..." when more bytes are left.
LEMMA ByteStreamStrForm ==
    ASSUME NEW bs
    PROVE  ByteStreamStr(bs, 8, Sep) =
               IF Len(bs) > N8(bs) THEN Digits(bs) \o Sep \o Ellipsis
               ELSE Digits(bs)
BY DEF ByteStreamStr, N8, Digits

\* A {:08b} is eight digits.
LEMMA Binary08Type ==
    ASSUME NEW b
    PROVE  /\ Binary08(b) \in Seq({"0", "1"})
           /\ Binary08(b) \in Seq(Chars)
           /\ Len(Binary08(b)) = 8
BY DEF Binary08, Chars

\* Character o of slot i of a join with a stride of ten (eight digits and
\* the two characters of ", ") is at 10(i-1)+o.
LEMMA SlotArith ==
    ASSUME NEW n \in 1..8, NEW i \in 1..n, NEW o \in 1..8
    PROVE  /\ 10 * (i - 1) + o \in 1..(n * 10 - 2)
           /\ (10 * (i - 1) + o - 1) \div 10 + 1 = i
           /\ ((10 * (i - 1) + o - 1) % 10) + 1 = o
BY SMT

\* Every position of a join with a stride of ten lies in a slot.
LEMMA PosArith ==
    ASSUME NEW n \in 1..8, NEW p \in 1..(n * 10 - 2)
    PROVE  /\ (p - 1) \div 10 + 1 \in 1..n
           /\ ((p - 1) % 10) + 1 \in 1..10
BY SMT

\* A join of m entries of eight characters by ", " has a stride of ten.
LEMMA JoinStride ==
    ASSUME NEW vs, NEW m \in Nat, Len(vs) = m
    PROVE  Join(vs, 8, Sep) =
               [p \in 1..(m * 10 - 2) |->
                   IF ((p - 1) % 10) + 1 <= 8
                   THEN vs[(p - 1) \div 10 + 1][((p - 1) % 10) + 1]
                   ELSE Sep[((p - 1) % 10) + 1 - 8]]
<1>1. Len(Sep) = 2 /\ 8 + Len(Sep) = 10 /\ m * 10 - Len(Sep) = m * 10 - 2
    BY DEF Sep
<1>2. QED
    BY <1>1 DEF Join

\* Slot i of the join holds the eight digits of byte i: character o of the
\* slot is at 10(i-1)+o, as each slot is eight digits and two of ", ".
LEMMA DigitsSlots ==
    ASSUME NEW bs \in Seq(Byte), bs # <<>>
    PROVE  /\ N8(bs) \in 1..8
           /\ Digits(bs) \in Seq(Chars)
           /\ Len(Digits(bs)) = 10 * N8(bs) - 2
           /\ \A i \in 1..N8(bs), o \in 1..8 :
                  Digits(bs)[10 * (i - 1) + o] = Binary08(bs[i])[o]
<1> DEFINE n == N8(bs)
           vals == [k \in 1..n |-> Binary08(bs[k])]
<1>1. n \in 1..8 /\ n <= Len(bs)
    BY N8Range
<1>2. Len(Sep) = 2 /\ Len(vals) = n
    BY <1>1 DEF Sep
<1>3. Digits(bs) = [p \in 1..(n * 10 - 2) |->
                       IF ((p - 1) % 10) + 1 <= 8
                       THEN vals[(p - 1) \div 10 + 1][((p - 1) % 10) + 1]
                       ELSE Sep[((p - 1) % 10) + 1 - 8]]
    <2>1. Digits(bs) = Join(vals, 8, Sep)
        BY DEF Digits, n, vals
    <2>2. n \in Nat
        BY <1>1
    <2>3. QED
        BY <1>2, <2>1, <2>2, JoinStride
<1>6. \A i \in 1..n : vals[i] \in Seq({"0", "1"}) /\ Len(vals[i]) = 8
    BY Binary08Type
<1>7. Digits(bs) \in Seq(Chars)
    <2>1. \A p \in 1..(n * 10 - 2) : Digits(bs)[p] \in Chars
        <3> SUFFICES ASSUME NEW p \in 1..(n * 10 - 2) PROVE Digits(bs)[p] \in Chars
            OBVIOUS
        <3> DEFINE i == (p - 1) \div 10 + 1
                   o == ((p - 1) % 10) + 1
        <3>1. i \in 1..n /\ o \in 1..10
            BY <1>1, PosArith
        <3>2. CASE o <= 8
            <4>1. vals[i][o] \in {"0", "1"}
                BY <1>6, <3>1, <3>2
            <4>2. QED
                BY <1>3, <3>2, <4>1 DEF Chars
        <3>3. CASE ~ (o <= 8)
            <4>1. o - 8 \in 1..2
                BY <3>1, <3>3
            <4>2. Sep[1] \in Chars /\ Sep[2] \in Chars
                BY DEF Sep, Chars
            <4>3. Digits(bs)[p] = Sep[o - 8]
                BY <1>3, <3>3
            <4>4. QED
                BY <4>1, <4>2, <4>3
        <3>4. QED
            BY <3>2, <3>3
    <2>2. n * 10 - 2 \in Nat
        BY <1>1
    <2>3. Digits(bs) \in [1..(n * 10 - 2) -> Chars]
        BY <1>3, <2>1
    <2>4. QED
        BY <2>2, <2>3
<1>8. Len(Digits(bs)) = 10 * n - 2
    BY <1>1, <1>3
<1>9. \A i \in 1..n, o \in 1..8 : Digits(bs)[10 * (i - 1) + o] = Binary08(bs[i])[o]
    <2> SUFFICES ASSUME NEW i \in 1..n, NEW o \in 1..8
                 PROVE  Digits(bs)[10 * (i - 1) + o] = Binary08(bs[i])[o]
        OBVIOUS
    <2>0. /\ 10 * (i - 1) + o \in 1..(n * 10 - 2)
          /\ (10 * (i - 1) + o - 1) \div 10 + 1 = i
          /\ ((10 * (i - 1) + o - 1) % 10) + 1 = o
        BY <1>1, SlotArith
    <2> DEFINE p == 10 * (i - 1) + o
    <2>1. p \in 1..(n * 10 - 2) /\ (p - 1) \div 10 + 1 = i /\ ((p - 1) % 10) + 1 = o
        BY <2>0
    <2>2. Digits(bs)[p] = IF ((p - 1) % 10) + 1 <= 8
                          THEN vals[(p - 1) \div 10 + 1][((p - 1) % 10) + 1]
                          ELSE Sep[((p - 1) % 10) + 1 - 8]
        BY <1>3, <2>1
    <2>3. Digits(bs)[p] = vals[i][o]
        BY <2>1, <2>2
    <2>4. QED
        BY <2>3
<1>10. QED
    BY <1>1, <1>7, <1>8, <1>9

-----------------------------------------------------------------------------
(* Reading the text back.                                                  *)

\* Slot i of the joined digits reads back as byte i.
LEMMA SlotReadsBack ==
    ASSUME NEW bs \in Seq(Byte), bs # <<>>, NEW i \in 1..N8(bs)
    PROVE  Unbinary(SubSeq(Digits(bs), 10 * (i - 1) + 1, 10 * (i - 1) + 8)) = bs[i]
<1> DEFINE a == 10 * (i - 1)
           slot == SubSeq(Digits(bs), a + 1, a + 8)
<1>0. /\ N8(bs) \in Int /\ 1 <= N8(bs) /\ N8(bs) <= 8 /\ N8(bs) <= Len(bs)
      /\ Len(bs) \in Nat /\ i \in Int /\ 1 <= i /\ i <= N8(bs)
    BY N8Range
<1>1. /\ N8(bs) \in 1..8 /\ N8(bs) <= Len(bs)
      /\ Digits(bs) \in Seq(Chars)
      /\ Len(Digits(bs)) = 10 * N8(bs) - 2
      /\ \A o \in 1..8 : Digits(bs)[a + o] = Binary08(bs[i])[o]
    BY N8Range, DigitsSlots
<1>2. \A o \in (a + 1)..(a + 8) : Digits(bs)[o] \in Chars
    <2>1. (a + 1)..(a + 8) \subseteq 1..Len(Digits(bs))
        <3> SUFFICES ASSUME NEW o \in (a + 1)..(a + 8)
                     PROVE  o \in 1..Len(Digits(bs))
            OBVIOUS
        <3>1. Len(Digits(bs)) = 10 * N8(bs) - 2
            BY <1>1
        <3>2. QED
            BY <1>0, <3>1 DEF a
    <2>2. QED
        BY <1>1, <2>1, ElementOfSeq
<1>3. /\ slot \in Seq(Chars)
      /\ Len(slot) = 8
      /\ \A o \in 1..8 : slot[o] = Digits(bs)[a + o]
    <2>1. a + 1 \in Int /\ a + 8 \in Int /\ a + 8 - (a + 1) + 1 = 8 /\ a + 1 <= a + 8
        BY DEF a
    <2>2. \A o \in 1..8 : a + 1 + o - 1 = a + o
        BY DEF a
    <2>3. QED
        BY <1>2, <2>1, <2>2, SubSeqProperties
<1>4. slot = Binary08(bs[i])
    <2>1. Binary08(bs[i]) \in Seq(Chars) /\ Len(Binary08(bs[i])) = 8
        BY Binary08Type
    <2>2. \A o \in 1..Len(slot) : slot[o] = Binary08(bs[i])[o]
        BY <1>1, <1>3
    <2>3. QED
        BY <1>3, <2>1, <2>2, SeqEqual
<1>5. bs[i] \in 0..255
    <2>1. i \in 1..Len(bs)
        BY <1>0
    <2>2. QED
        BY <2>1, ElementOfSeq DEF Byte
<1>6. QED
    BY <1>4, <1>5, UnbinaryBinary08

\* The slots of the joined digits read back as the bytes shown.
LEMMA DigitsReadBack ==
    ASSUME NEW bs \in Seq(Byte), bs # <<>>
    PROVE  [i \in 1..((Len(Digits(bs)) + 2) \div 10) |->
                Unbinary(SubSeq(Digits(bs), 10 * (i - 1) + 1, 10 * (i - 1) + 8))]
           = SubSeq(bs, 1, N8(bs))
<1>1. /\ N8(bs) \in Int /\ 1 <= N8(bs) /\ N8(bs) <= 8 /\ N8(bs) <= Len(bs)
      /\ Len(Digits(bs)) = 10 * N8(bs) - 2
    BY N8Range, DigitsSlots
<1>2. (Len(Digits(bs)) + 2) \div 10 = N8(bs)
    BY <1>1
<1>3. SubSeq(bs, 1, N8(bs)) = [i \in 1..N8(bs) |-> bs[i]]
    BY <1>1
<1>4. \A i \in 1..N8(bs) :
          Unbinary(SubSeq(Digits(bs), 10 * (i - 1) + 1, 10 * (i - 1) + 8)) = bs[i]
    BY SlotReadsBack
<1>5. QED
    BY <1>2, <1>3, <1>4

\* The last character of the joined digits is a digit of the last byte
\* shown, never a '.'.
LEMMA DigitsEndInDigit ==
    ASSUME NEW bs \in Seq(Byte), bs # <<>>
    PROVE  Digits(bs)[Len(Digits(bs))] \in {"0", "1"}
<1>1. /\ N8(bs) \in 1..8
      /\ Len(Digits(bs)) = 10 * (N8(bs) - 1) + 8
      /\ Digits(bs)[10 * (N8(bs) - 1) + 8] = Binary08(bs[N8(bs)])[8]
    <2>1. N8(bs) \in Int /\ 1 <= N8(bs) /\ N8(bs) <= 8
        BY N8Range
    <2>2. Len(Digits(bs)) = 10 * N8(bs) - 2
        BY DigitsSlots
    <2>3. N8(bs) \in 1..N8(bs) /\ 8 \in 1..8
        BY <2>1
    <2>4. Digits(bs)[10 * (N8(bs) - 1) + 8] = Binary08(bs[N8(bs)])[8]
        BY <2>3, DigitsSlots
    <2>5. QED
        BY <2>1, <2>2, <2>4, N8Range
<1>2. Binary08(bs[N8(bs)])[8] \in {"0", "1"}
    BY DEF Binary08
<1>3. QED
    BY <1>1, <1>2

\* A text followed by another: its first characters, then the other's.
LEMMA ConcatChars ==
    ASSUME NEW s1 \in Seq(Chars), NEW s2 \in Seq(Chars)
    PROVE  /\ s1 \o s2 \in Seq(Chars)
           /\ Len(s1 \o s2) = Len(s1) + Len(s2)
           /\ \A k \in 1..Len(s1) : (s1 \o s2)[k] = s1[k]
           /\ \A k \in 1..Len(s2) : (s1 \o s2)[Len(s1) + k] = s2[k]
<1>1. /\ s1 \o s2 \in Seq(Chars)
      /\ Len(s1 \o s2) = Len(s1) + Len(s2)
      /\ \A k \in 1..(Len(s1) + Len(s2)) :
             (s1 \o s2)[k] = IF k <= Len(s1) THEN s1[k] ELSE s2[k - Len(s1)]
    BY ConcatProperties
<1>2. QED
    BY <1>1

\* Characters m to e of a text, for 1 <= m <= e + 1 and e within the text.
LEMMA SubSeqChars ==
    ASSUME NEW s \in Seq(Chars), NEW m \in Nat, NEW e \in Nat,
           1 <= m, m <= e + 1, e <= Len(s)
    PROVE  /\ SubSeq(s, m, e) \in Seq(Chars)
           /\ Len(SubSeq(s, m, e)) = e - m + 1
           /\ \A k \in 1..(e - m + 1) : SubSeq(s, m, e)[k] = s[m + k - 1]
<1>1. \A i \in m..e : s[i] \in Chars
    BY ElementOfSeq
<1>2. /\ SubSeq(s, m, e) \in Seq(Chars)
      /\ Len(SubSeq(s, m, e)) = IF m <= e THEN e - m + 1 ELSE 0
      /\ \A k \in 1..(e - m + 1) : SubSeq(s, m, e)[k] = s[m + k - 1]
    BY <1>1, SubSeqProperties
<1>3. QED
    BY <1>2

\* The separator and the "..." entry are texts of two and three characters.
LEMMA SepEllipsisChars ==
    /\ Sep \in Seq(Chars) /\ Len(Sep) = 2
    /\ Ellipsis \in Seq(Chars) /\ Len(Ellipsis) = 3
<1>1. Sep \in Seq({"0", "1", ",", " ", "."}) /\ Len(Sep) = 2
    BY DEF Sep
<1>2. Ellipsis \in Seq({"0", "1", ",", " ", "."}) /\ Len(Ellipsis) = 3
    BY DEF Ellipsis
<1>3. Chars = {"0", "1", ",", " ", "."}
    BY DEF Chars
<1>4. QED
    BY <1>1, <1>2, <1>3

\* The last three characters of a text.
LEMMA LastThree ==
    ASSUME NEW s \in Seq(Chars), Len(s) >= 3
    PROVE  /\ SubSeq(s, Len(s) - 2, Len(s)) \in Seq(Chars)
           /\ Len(SubSeq(s, Len(s) - 2, Len(s))) = 3
           /\ \A k \in 1..3 : SubSeq(s, Len(s) - 2, Len(s))[k] = s[Len(s) - 3 + k]
<1>1. Len(s) \in Nat /\ Len(s) - 2 \in Nat /\ 1 <= Len(s) - 2
    OBVIOUS
<1>2. /\ SubSeq(s, Len(s) - 2, Len(s)) \in Seq(Chars)
      /\ Len(SubSeq(s, Len(s) - 2, Len(s))) = Len(s) - (Len(s) - 2) + 1
      /\ \A k \in 1..(Len(s) - (Len(s) - 2) + 1) :
             SubSeq(s, Len(s) - 2, Len(s))[k] = s[Len(s) - 2 + k - 1]
    BY <1>1, SubSeqChars
<1>3. QED
    BY <1>1, <1>2

\* Digits followed by ", " and "...": the digits, then at 3 past their end
\* the three characters of "...".
LEMMA SepEllipsisConcat ==
    ASSUME NEW D \in Seq(Chars)
    PROVE  /\ (D \o Sep) \o Ellipsis \in Seq(Chars)
           /\ Len((D \o Sep) \o Ellipsis) = Len(D) + 5
           /\ \A k \in 1..Len(D) : ((D \o Sep) \o Ellipsis)[k] = D[k]
           /\ \A k \in 1..3 : ((D \o Sep) \o Ellipsis)[Len(D) + 2 + k] = Ellipsis[k]
<1>1. /\ Sep \in Seq(Chars) /\ Len(Sep) = 2
      /\ Ellipsis \in Seq(Chars) /\ Len(Ellipsis) = 3
    BY SepEllipsisChars
<1>2. /\ D \o Sep \in Seq(Chars)
      /\ Len(D \o Sep) = Len(D) + Len(Sep)
      /\ \A k \in 1..Len(D) : (D \o Sep)[k] = D[k]
    BY <1>1, ConcatChars, Zenon
<1>3. /\ (D \o Sep) \o Ellipsis \in Seq(Chars)
      /\ Len((D \o Sep) \o Ellipsis) = Len(D \o Sep) + Len(Ellipsis)
      /\ \A k \in 1..Len(D \o Sep) : ((D \o Sep) \o Ellipsis)[k] = (D \o Sep)[k]
      /\ \A k \in 1..Len(Ellipsis) :
             ((D \o Sep) \o Ellipsis)[Len(D \o Sep) + k] = Ellipsis[k]
    BY <1>1, <1>2, ConcatChars, Zenon
<1>4. QED
    BY <1>1, <1>2, <1>3

\* A text that is digits, a separator and "..." ends in "...", and
\* without the "..." entry it is the digits again.
LEMMA EllipsisEntry ==
    ASSUME NEW D \in Seq(Chars), NEW t \in Seq(Chars), Len(D) >= 8,
           Len(t) = Len(D) + 5,
           \A k \in 1..Len(D) : t[k] = D[k],
           \A k \in 1..3 : t[Len(D) + 2 + k] = Ellipsis[k]
    PROVE  EndsInEllipsis(t) /\ Body(t) = D
<1>1. Ellipsis \in Seq(Chars) /\ Len(Ellipsis) = 3
    BY SepEllipsisChars
<1>2. Len(t) \in Nat /\ Len(t) - 2 \in Nat /\ 1 <= Len(t) - 2 /\ Len(D) \in Nat
    OBVIOUS
<1>3. SubSeq(t, Len(t) - 2, Len(t)) = Ellipsis
    <2>1. /\ SubSeq(t, Len(t) - 2, Len(t)) \in Seq(Chars)
          /\ Len(SubSeq(t, Len(t) - 2, Len(t))) = 3
          /\ \A k \in 1..3 : SubSeq(t, Len(t) - 2, Len(t))[k] = t[Len(t) - 3 + k]
        BY <1>2, LastThree
    <2>2. \A k \in 1..3 : SubSeq(t, Len(t) - 2, Len(t))[k] = Ellipsis[k]
        BY <1>2, <2>1
    <2>3. QED
        BY <1>1, <2>1, <2>2, SeqEqual
<1>4. EndsInEllipsis(t)
    BY <1>2, <1>3 DEF EndsInEllipsis
<1>5. SubSeq(t, 1, Len(D)) = D
    <2>1. /\ SubSeq(t, 1, Len(D)) \in Seq(Chars)
          /\ Len(SubSeq(t, 1, Len(D))) = Len(D) - 1 + 1
          /\ \A k \in 1..(Len(D) - 1 + 1) : SubSeq(t, 1, Len(D))[k] = t[1 + k - 1]
        BY <1>2, SubSeqChars
    <2>2. /\ Len(SubSeq(t, 1, Len(D))) = Len(D)
          /\ \A k \in 1..Len(SubSeq(t, 1, Len(D))) : SubSeq(t, 1, Len(D))[k] = D[k]
        BY <1>2, <2>1
    <2>3. QED
        BY <2>1, <2>2, SeqEqual
<1>6. Body(t) = D
    <2>1. Len(t) # 3 /\ Len(t) - 5 = Len(D)
        BY <1>2
    <2>2. QED
        BY <1>4, <1>5, <2>1 DEF Body
<1>7. QED
    BY <1>4, <1>6

\* Digits that end in a digit do not end in "...", and are their own body.
LEMMA NoEllipsisEntry ==
    ASSUME NEW D \in Seq(Chars), Len(D) >= 3, D[Len(D)] \in {"0", "1"}
    PROVE  ~ EndsInEllipsis(D) /\ Body(D) = D
<1>1. SubSeq(D, Len(D) - 2, Len(D))[3] = D[Len(D)]
    BY LastThree
<1>4. Ellipsis[3] = "."
    BY DEF Ellipsis
<1>5. ~ EndsInEllipsis(D)
    BY <1>1, <1>4 DEF EndsInEllipsis
<1>6. QED
    BY <1>5 DEF Body

\* The peek of byte_stream_str(bs, 8, ", ") reads back as the first eight
\* bytes of bs, or all of them when fewer are left, and ends in "..."
\* exactly when more than eight are left.
LEMMA PeekReadsBack ==
    ASSUME NEW bs \in Seq(Byte), bs # <<>>
    PROVE  /\ PeekOf(ByteStreamStr(bs, 8, Sep))
                  = SubSeq(bs, 1, IF Len(bs) < 8 THEN Len(bs) ELSE 8)
           /\ EndsInEllipsis(ByteStreamStr(bs, 8, Sep)) <=> Len(bs) > 8
<1>1. /\ N8(bs) \in Int /\ 1 <= N8(bs) /\ N8(bs) <= 8 /\ Len(bs) \in Nat
      /\ Digits(bs) \in Seq(Chars) /\ Len(Digits(bs)) = 10 * N8(bs) - 2
    BY N8Range, DigitsSlots
<1>2. Len(Digits(bs)) >= 8
    BY <1>1
<1>3. (IF Len(bs) < 8 THEN Len(bs) ELSE 8) = N8(bs)
    BY <1>1 DEF N8
<1>4. (Len(bs) > 8) <=> (Len(bs) > N8(bs))
    BY <1>1 DEF N8
<1>5. /\ Body(ByteStreamStr(bs, 8, Sep)) = Digits(bs)
      /\ EndsInEllipsis(ByteStreamStr(bs, 8, Sep)) <=> Len(bs) > N8(bs)
    <2>1. CASE Len(bs) > N8(bs)
        <3>1. ByteStreamStr(bs, 8, Sep) = (Digits(bs) \o Sep) \o Ellipsis
            BY <2>1, ByteStreamStrForm
        <3>2. /\ (Digits(bs) \o Sep) \o Ellipsis \in Seq(Chars)
              /\ Len((Digits(bs) \o Sep) \o Ellipsis) = Len(Digits(bs)) + 5
              /\ \A k \in 1..Len(Digits(bs)) :
                     ((Digits(bs) \o Sep) \o Ellipsis)[k] = Digits(bs)[k]
              /\ \A k \in 1..3 :
                     ((Digits(bs) \o Sep) \o Ellipsis)[Len(Digits(bs)) + 2 + k] = Ellipsis[k]
            BY <1>1, SepEllipsisConcat
        <3>3. /\ EndsInEllipsis((Digits(bs) \o Sep) \o Ellipsis)
              /\ Body((Digits(bs) \o Sep) \o Ellipsis) = Digits(bs)
            BY <1>1, <1>2, <3>2, EllipsisEntry
        <3>4. QED
            BY <2>1, <3>1, <3>3
    <2>2. CASE ~ (Len(bs) > N8(bs))
        <3>1. ByteStreamStr(bs, 8, Sep) = Digits(bs)
            BY <2>2, ByteStreamStrForm
        <3>2. Digits(bs)[Len(Digits(bs))] \in {"0", "1"}
            BY DigitsEndInDigit
        <3>3. QED
            BY <1>1, <1>2, <2>2, <3>1, <3>2, NoEllipsisEntry
    <2>3. QED
        BY <2>1, <2>2
<1>6. PeekOf(ByteStreamStr(bs, 8, Sep)) =
          [i \in 1..((Len(Digits(bs)) + 2) \div 10) |->
               Unbinary(SubSeq(Digits(bs), 10 * (i - 1) + 1, 10 * (i - 1) + 8))]
    BY <1>5 DEF PeekOf
<1>7. QED
    BY <1>3, <1>4, <1>5, <1>6, DigitsReadBack

-----------------------------------------------------------------------------
(* The invariant.                                                          *)

\* Reporting the error is the parser's ParseError step with the report set,
\* so every behaviour of the reporting parser is one of the parser's.
LEMMA RSpecImpliesSpec == RSpec => Spec
<1>1. RInit => Init
    BY DEF RInit
<1>2. [RNext]_rvars => [Next]_vars
    BY DEF RNext, ReportParseError, Next, rvars, vars
<1>3. QED
    BY <1>1, <1>2, PTL DEF RSpec, Spec

\* Whenever a pull of parse_state has failed, the TraceParseError the
\* consumer holds names the parser's state and shows the bytes at its
\* cursor, eight or all that are left, with "..." exactly when more are
\* left: the failed reads leave self.bytes and self.state as they were
\* when the error was built.  The invariant is inductive together with the
\* type invariant, which gives bytes \in Seq(Byte) for the peek.
THEOREM ErrorReportCorrect == RSpec => []ErrorNamesCursor
<1>1. RInit => ErrorNamesCursor
    BY DEF RInit, Init, ErrorNamesCursor
<1>2. TypeOK /\ ErrorNamesCursor /\ [RNext]_rvars => ErrorNamesCursor'
    <2> SUFFICES ASSUME TypeOK, ErrorNamesCursor, [RNext]_rvars
                 PROVE  ErrorNamesCursor'
        OBVIOUS
    <2>1. CASE NextNone /\ UNCHANGED report
        <3>1. result' = "End"
            BY <2>1 DEF NextNone
        <3>2. QED
            BY <3>1 DEF ErrorNamesCursor
    <2>2. CASE ParsePacket /\ UNCHANGED report
        <3>1. result' # "Err"
            BY <2>2 DEF ParsePacket, Panics
        <3>2. QED
            BY <3>1 DEF ErrorNamesCursor
    <2>3. CASE ReportParseError
        <3> DEFINE r == [state |-> state, text |-> ByteStreamStr(bytes, 8, Sep)]
        <3>1. /\ report' = {r}
              /\ bytes' = bytes /\ state' = state
              /\ bytes \in Seq(Byte) /\ bytes # <<>>
            BY <2>3 DEF ReportParseError, ParseError, TypeOK
        <3>2. /\ PeekOf(r.text) = SubSeq(bytes, 1, IF Len(bytes) < 8 THEN Len(bytes) ELSE 8)
              /\ EndsInEllipsis(r.text) <=> Len(bytes) > 8
            BY <3>1, PeekReadsBack
        <3>3. QED
            BY <3>1, <3>2 DEF ErrorNamesCursor
    <2>4. CASE UNCHANGED rvars
        BY <2>4 DEF rvars, vars, ErrorNamesCursor
    <2>5. QED
        BY <2>1, <2>2, <2>3, <2>4 DEF RNext
<1>3. RSpec => []TypeOK
    BY RSpecImpliesSpec, TypeCorrect
<1>4. QED
    BY <1>1, <1>2, <1>3, PTL DEF RSpec


-----------------------------------------------------------------------------
(* The error repeats.                                                      *)

\* After a failed pull the cursor is not empty, no valid kind of the state
\* reads at it, and the report is the one parse_state builds from it.
ErrorStable ==
    result = "Err" =>
        /\ bytes # <<>>
        /\ \A i \in 1..Len(ValidPackets[state]) : ~ Matches(ValidPackets[state][i], bytes)
        /\ report = {[state |-> state, text |-> ByteStreamStr(bytes, 8, Sep)]}

\* The error path of parse_state leaves the parser where it failed: the
\* cursor the error was built from is the cursor after it.
LEMMA ErrorStableInvariant == RSpec => []ErrorStable
<1>1. RInit => ErrorStable
    BY DEF RInit, Init, ErrorStable
<1>2. ErrorStable /\ [RNext]_rvars => ErrorStable'
    <2> SUFFICES ASSUME ErrorStable, [RNext]_rvars
                 PROVE  ErrorStable'
        OBVIOUS
    <2>1. CASE NextNone /\ UNCHANGED report
        BY <2>1 DEF NextNone, ErrorStable
    <2>2. CASE ParsePacket /\ UNCHANGED report
        <3>1. result' # "Err"
            BY <2>2 DEF ParsePacket, Panics
        <3>2. QED
            BY <3>1 DEF ErrorStable
    <2>3. CASE ReportParseError
        BY <2>3 DEF ReportParseError, ParseError, ErrorStable
    <2>4. CASE UNCHANGED rvars
        BY <2>4 DEF rvars, vars, ErrorStable
    <2>5. QED
        BY <2>1, <2>2, <2>3, <2>4 DEF RNext
<1>3. QED
    BY <1>1, <1>2, PTL DEF RSpec

\* Once a pull of next() has failed, every later pull changes nothing: the
\* buffer is not empty, so next() calls parse_packet again; no valid kind
\* reads at the unchanged cursor, so parse_state fails again, in the same
\* state, and builds the same TraceParseError.  The iterator does not end
\* after an error; only the consumer can stop.
THEOREM RepeatedError == RSpec => ErrorRepeats
<1>1. ErrorStable /\ [RNext]_rvars => [result = "Err" => UNCHANGED rvars]_rvars
    <2> SUFFICES ASSUME ErrorStable, [RNext]_rvars, result = "Err"
                 PROVE  UNCHANGED rvars
        OBVIOUS
    <2>1. /\ bytes # <<>>
          /\ \A i \in 1..Len(ValidPackets[state]) : ~ Matches(ValidPackets[state][i], bytes)
          /\ report = {[state |-> state, text |-> ByteStreamStr(bytes, 8, Sep)]}
        BY DEF ErrorStable
    <2>2. ~ NextNone
        BY <2>1 DEF NextNone
    <2>3. ~ ParsePacket
        <3>1. \A k \in Kinds : ~ FirstMatch(state, bytes, k)
            BY <2>1 DEF FirstMatch
        <3>2. QED
            BY <3>1 DEF ParsePacket
    <2>4. ReportParseError => UNCHANGED rvars
        BY <2>1 DEF ReportParseError, ParseError, rvars, vars
    <2>5. QED
        BY <2>2, <2>3, <2>4 DEF RNext
<1>2. QED
    BY <1>1, ErrorStableInvariant, PTL DEF RSpec, ErrorRepeats

\* The reporting parser implements the packet stream too: building the
\* TraceParseError on a failed pull changes none of the parser's state, so
\* every pull of next() with the report is a step of the stream, or a stutter.
THEOREM ReportingRefinement == RSpec => StreamRefinement
BY RSpecImpliesSpec, Refinement

=============================================================================

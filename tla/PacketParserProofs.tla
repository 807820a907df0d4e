------------------------- MODULE PacketParserProofs -------------------------
(***************************************************************************)
(* Proofs about PacketParser for every set of trace buffers Inputs.        *)
(***************************************************************************)
EXTENDS PacketParser, SequenceTheorems, TLAPS

-----------------------------------------------------------------------------
(* Lemmas about the codecs and the decompression.                          *)

\* Dropping the first n bytes of a buffer leaves a buffer n bytes shorter.
LEMMA RemainType ==
    ASSUME NEW bs \in Seq(Byte), NEW n \in 0..Len(bs)
    PROVE  /\ Remain(bs, n) \in Seq(Byte)
           /\ Len(Remain(bs, n)) = Len(bs) - n
BY SubSeqProperties DEF Remain

\* A codec that reads consumes at least one byte and no more than there are.
LEMMA LengthBound ==
    ASSUME NEW k \in Kinds, NEW bs \in Seq(Byte), Matches(k, bs)
    PROVE  Length(k, bs) \in 1..Len(bs)
<1> DEFINE v == IPBytesOf(bs)
<1>1. bs # <<>> /\ Len(bs) >= 1
    BY EmptySeq DEF Matches
<1>2. CASE k \in MagicKinds
    <2>1. Len(bs) >= FramedLen[k]
        BY <1>2, SMTT(30) DEF Matches, MagicMatch
    <2>2. FramedLen[k] \in 1..16
        BY <1>2 DEF MagicKinds, Magic, FramedLen
    <2>3. Length(k, bs) = FramedLen[k]
        BY <1>2, SMTT(30) DEF Length
    <2>4. QED
        BY <2>1, <2>2, <2>3, SMTT(30)
<1>3. CASE k \in IPKinds
    <2>1. v \in DOMAIN TargetIPLen /\ Len(bs) >= 1 + TargetIPLen[v]
        BY <1>3 DEF Matches, IPPacketMatch, MagicKinds, Magic, IPKinds
    <2>2. TargetIPLen[v] \in Nat
        BY <2>1 DEF TargetIPLen
    <2>3. QED
        BY <1>3, <2>1, <2>2 DEF Length, MagicKinds, Magic, IPKinds
<1>4. CASE k = "ShortTNT"
    BY <1>1, <1>4 DEF Length, MagicKinds, Magic, IPKinds
<1>5. CASE k = "CYC"
    <2>1. CYCExp(bs) => \E i \in 2..Len(bs) : CYCEnd(bs, i)
        BY <1>5 DEF Matches, CYCMatch, MagicKinds, Magic, IPKinds
    <2>2. QED
        BY <1>1, <1>5, <2>1 DEF Length, MagicKinds, Magic, IPKinds
<1>6. QED
    BY <1>2, <1>3, <1>4, <1>5 DEF Kinds, MagicKinds, Magic, IPKinds

\* When an IP packet reads, its TargetIP field is as wide as its IPBytes
\* says and holds bytes of the buffer.
LEMMA RawIPType ==
    ASSUME NEW k \in IPKinds, NEW bs \in Seq(Byte), Matches(k, bs)
    PROVE  /\ IPBytesOf(bs) \in DOMAIN TargetIPLen
           /\ RawIP(bs) \in Seq(Byte)
           /\ Len(RawIP(bs)) = TargetIPLen[IPBytesOf(bs)]
<1> DEFINE v == IPBytesOf(bs)
<1>1. v \in DOMAIN TargetIPLen /\ Len(bs) >= 1 + TargetIPLen[v]
    BY DEF Matches, IPPacketMatch, MagicKinds, Magic, IPKinds
<1>2. TargetIPLen[v] \in Nat
    BY <1>1 DEF TargetIPLen
<1>3. \A i \in 2..(1 + TargetIPLen[v]) : bs[i] \in Byte
    BY <1>1, <1>2
<1>4. QED
    BY <1>1, <1>2, <1>3, SubSeqProperties DEF RawIP

\* A decompression that returns Some returns a usize.
LEMMA DecompressType ==
    ASSUME NEW v \in DOMAIN TargetIPLen, NEW ip \in Seq(Byte),
           Len(ip) = TargetIPLen[v], NEW tip \in Word,
           NEW snap \in {{}, {tip}},
           DecompressOutcome(v, snap) = "Some"
    PROVE  Decompress(v, ip, snap) \in Word
<1>1. v \in {1, 2} => snap = {tip}
    BY DEF DecompressOutcome
<1>2. v \in {1, 2, 3, 6}
    BY DEF DecompressOutcome, TargetIPLen
<1>3. ASSUME NEW i \in 1..8
      PROVE  Decompress(v, ip, snap)[i] \in Byte
    <2>1. CASE i <= Len(ip)
        BY <2>1 DEF Decompress
    <2>2. CASE i > Len(ip) /\ v = 3
        <3>1. Len(ip) = 6
            BY <2>2 DEF TargetIPLen
        <3>2. QED
            BY <2>2, <3>1, SMTT(30) DEF Decompress, Byte
    <2>3. CASE i > Len(ip) /\ v # 3
        <3>1. v \in {1, 2}
            BY <1>2, <2>3 DEF TargetIPLen
        <3>2. (CHOOSE w \in snap : TRUE) = tip
            BY <1>1, <3>1
        <3>3. ~(i <= Len(ip))
            BY <2>3
        <3>4. Decompress(v, ip, snap)[i] = tip[i]
            BY <2>3, <3>2, <3>3, Zenon DEF Decompress
        <3>5. QED
            BY <3>4 DEF Word
    <2>4. QED
        BY <2>1, <2>2, <2>3
<1>4. QED
    BY <1>3 DEF Decompress, Word

\* The IP a packet carries, and so the TIP the parser caches, is a usize.
LEMMA TargetIPType ==
    ASSUME NEW k \in Kinds, NEW bs \in Seq(Byte), Matches(k, bs),
           NEW tip \in Word
    PROVE  /\ CacheTip(k, bs, tip) \in Word
           /\ TargetIP(k, bs, tip) \in SUBSET Word
<1>1. CASE Outcome(k, bs, tip) = "Some"
    <2>1. k \in IPKinds
        BY <1>1 DEF Outcome
    <2>2. /\ IPBytesOf(bs) \in DOMAIN TargetIPLen
          /\ RawIP(bs) \in Seq(Byte)
          /\ Len(RawIP(bs)) = TargetIPLen[IPBytesOf(bs)]
        BY <2>1, RawIPType
    <2>3. Snapshot(bs, tip) \in {{}, {tip}}
        BY DEF Snapshot
    <2>4. DecompressOutcome(IPBytesOf(bs), Snapshot(bs, tip)) = "Some"
        BY <1>1, <2>1 DEF Outcome
    <2>5. Decompress(IPBytesOf(bs), RawIP(bs), Snapshot(bs, tip)) \in Word
        BY <2>2, <2>3, <2>4, DecompressType
    <2>6. QED
        BY <1>1, <2>5 DEF CacheTip, TargetIP
<1>2. CASE Outcome(k, bs, tip) # "Some"
    BY <1>2 DEF CacheTip, TargetIP
<1>3. QED
    BY <1>1, <1>2

-----------------------------------------------------------------------------
(* The two ends of a ParsePacket step: the packet is yielded, or           *)
(* target_ip() panics after the cursor moved.                              *)

YieldStep(k) ==
    /\ Outcome(k, bytes, prev_tip) \in {"None", "Some"}
    /\ result' = "Ok"
    /\ prev_tip' = CacheTip(k, bytes, prev_tip)
    /\ state' = Transition(IF k = "PSBEND" THEN "Normal" ELSE state, k)
    /\ yielded' = Append(yielded, [kind |-> k, ip |-> TargetIP(k, bytes, prev_tip)])

PanicStep(k) ==
    /\ Outcome(k, bytes, prev_tip) \in Panics
    /\ result' = Outcome(k, bytes, prev_tip)
    /\ UNCHANGED <<state, prev_tip, yielded>>

LEMMA ParsePacketSteps ==
    ASSUME ParsePacket
    PROVE  \E k \in Kinds :
               /\ FirstMatch(state, bytes, k)
               /\ Matches(k, bytes)
               /\ bytes' = Remain(bytes, Length(k, bytes))
               /\ YieldStep(k) \/ PanicStep(k)
BY DEF ParsePacket, YieldStep, PanicStep, FirstMatch

-----------------------------------------------------------------------------
(* Type correctness.                                                       *)

THEOREM TypeCorrect == Spec => []TypeOK
<1>1. Init => TypeOK
    BY InputsAssumption DEF Init, TypeOK, ZeroWord, Word, Byte, Results, States
<1>2. TypeOK /\ [Next]_vars => TypeOK'
    <2> SUFFICES ASSUME TypeOK, [Next]_vars
                 PROVE  TypeOK'
        OBVIOUS
    <2>1. CASE NextNone
        BY <2>1 DEF NextNone, TypeOK, Results
    <2>2. CASE ParseError
        BY <2>2 DEF ParseError, TypeOK, Results
    <2>3. CASE ParsePacket
        <3>1. PICK k \in Kinds :
                /\ Matches(k, bytes)
                /\ bytes' = Remain(bytes, Length(k, bytes))
                /\ YieldStep(k) \/ PanicStep(k)
            BY <2>3, ParsePacketSteps
        <3>3. bytes' \in Seq(Byte)
            BY <3>1, LengthBound, RemainType DEF TypeOK
        <3>4. /\ CacheTip(k, bytes, prev_tip) \in Word
              /\ TargetIP(k, bytes, prev_tip) \in SUBSET Word
            BY <3>1, TargetIPType DEF TypeOK
        <3>5. Transition(IF k = "PSBEND" THEN "Normal" ELSE state, k) \in States
            BY DEF Transition, States, TypeOK
        <3>6. CASE result' = "Ok"
            <4>1. [kind |-> k, ip |-> TargetIP(k, bytes, prev_tip)]
                    \in [kind : Kinds, ip : SUBSET Word]
                BY <3>4
            <4>2. YieldStep(k)
                BY <3>1, <3>6 DEF Panics, PanicStep
            <4>3. yielded' \in Seq([kind : Kinds, ip : SUBSET Word])
                BY <4>1, <4>2, AppendProperties DEF TypeOK, YieldStep
            <4>4. QED
                BY <3>3, <3>4, <3>5, <3>6, <4>2, <4>3 DEF TypeOK, Results, YieldStep
        <3>7. CASE result' # "Ok"
            <4>1. /\ result' \in Panics
                  /\ UNCHANGED <<state, prev_tip, yielded>>
                BY <3>1, <3>7 DEF YieldStep, PanicStep
            <4>2. QED
                BY <3>3, <4>1 DEF TypeOK, Results
        <3>8. QED
            BY <3>6, <3>7
    <2>4. CASE UNCHANGED vars
        BY <2>4 DEF vars, TypeOK
    <2>5. QED
        BY <2>1, <2>2, <2>3, <2>4 DEF Next
<1>3. QED
    BY <1>1, <1>2, PTL DEF Spec

-----------------------------------------------------------------------------
(* prev_tip threading.                                                     *)

THEOREM PrevTipThreading == Spec => []PrevTipIsLastIP
<1>1. Init => PrevTipIsLastIP
    BY DEF Init, PrevTipIsLastIP
<1>2. TypeOK /\ PrevTipIsLastIP /\ [Next]_vars => PrevTipIsLastIP'
    <2> SUFFICES ASSUME TypeOK, PrevTipIsLastIP, [Next]_vars
                 PROVE  PrevTipIsLastIP'
        OBVIOUS
    <2>1. CASE UNCHANGED <<prev_tip, yielded>>
        BY <2>1 DEF PrevTipIsLastIP
    <2>2. CASE ParsePacket
        <3>1. PICK k \in Kinds :
                /\ Matches(k, bytes)
                /\ YieldStep(k) \/ PanicStep(k)
            BY <2>2, ParsePacketSteps
        <3>2. CASE PanicStep(k)
            BY <2>1, <3>2 DEF PanicStep
        <3>3. CASE YieldStep(k)
            <4> DEFINE n == Len(yielded)
                       ip == TargetIP(k, bytes, prev_tip)
                       rec == [kind |-> k, ip |-> ip]
            <4>1. rec \in [kind : Kinds, ip : SUBSET Word]
                BY <3>1, TargetIPType DEF TypeOK
            <4>2. /\ yielded' \in Seq([kind : Kinds, ip : SUBSET Word])
                  /\ Len(yielded') = n + 1
                  /\ \A i \in 1..n : yielded'[i] = yielded[i]
                  /\ yielded'[n + 1].ip = ip
                BY <3>3, <4>1, AppendProperties DEF YieldStep, TypeOK
            <4>3. CASE Outcome(k, bytes, prev_tip) = "Some"
                <5>1. ip = {prev_tip'}
                    BY <3>3, <4>3 DEF YieldStep, CacheTip, TargetIP
                <5>2. /\ n + 1 \in 1..Len(yielded')
                      /\ yielded'[n + 1].ip = {prev_tip'}
                      /\ (n + 2)..Len(yielded') = {}
                    BY <4>2, <5>1 DEF TypeOK
                <5>3. QED
                    BY <5>2 DEF PrevTipIsLastIP
            <4>4. CASE Outcome(k, bytes, prev_tip) # "Some"
                <5>1. ip = {} /\ prev_tip' = prev_tip
                    BY <3>3, <4>4 DEF YieldStep, CacheTip, TargetIP
                <5>2. \A j \in 1..Len(yielded') :
                          j <= n => yielded'[j].ip = yielded[j].ip
                    BY <4>2 DEF TypeOK
                <5>3. yielded'[n + 1].ip = {}
                    BY <4>2, <5>1
                <5>4. CASE /\ \A i \in 1..n : yielded[i].ip = {}
                           /\ prev_tip = ZeroWord
                    <6>1. \A i \in 1..Len(yielded') : yielded'[i].ip = {}
                        BY <4>2, <5>2, <5>3, <5>4 DEF TypeOK
                    <6>2. QED
                        BY <5>1, <5>4, <6>1 DEF PrevTipIsLastIP
                <5>5. CASE \E i \in 1..n :
                               /\ yielded[i].ip = {prev_tip}
                               /\ \A j \in (i + 1)..n : yielded[j].ip = {}
                    <6>1. PICK i \in 1..n :
                               /\ yielded[i].ip = {prev_tip}
                               /\ \A j \in (i + 1)..n : yielded[j].ip = {}
                        BY <5>5
                    <6>2. /\ i \in 1..Len(yielded')
                          /\ yielded'[i].ip = {prev_tip'}
                          /\ \A j \in (i + 1)..Len(yielded') : yielded'[j].ip = {}
                        <7>1. n \in Nat /\ i \in 1..n
                            BY <6>1 DEF TypeOK
                        <7>2. i \in 1..Len(yielded') /\ yielded'[i].ip = {prev_tip'}
                            BY <4>2, <5>1, <6>1, <7>1
                        <7>3. ASSUME NEW j \in (i + 1)..Len(yielded')
                              PROVE  yielded'[j].ip = {}
                            <8>1. CASE j <= n
                                <9>1. j \in (i + 1)..n
                                    BY <7>1, <8>1
                                <9>2. QED
                                    BY <4>2, <6>1, <7>1, <9>1
                            <8>2. CASE ~(j <= n)
                                BY <4>2, <5>3, <7>1, <8>2
                            <8>3. QED
                                BY <8>1, <8>2
                        <7>4. QED
                            BY <7>2, <7>3
                    <6>3. QED
                        BY <6>2 DEF PrevTipIsLastIP
                <5>6. QED
                    BY <5>4, <5>5 DEF PrevTipIsLastIP
            <4>5. QED
                BY <4>3, <4>4
        <3>4. QED
            BY <3>1, <3>2, <3>3
    <2>3. QED
        BY <2>1, <2>2 DEF Next, NextNone, ParseError, vars
<1>3. QED
    BY <1>1, <1>2, TypeCorrect, PTL DEF Spec

-----------------------------------------------------------------------------
(* The PSB+ grammar.                                                       *)

\* What the consumer receives from one call of next().
PacketRecord == [kind : Kinds, ip : SUBSET Word]

\* Appending a packet does not change whether an earlier packet lies in a
\* PSB+ sequence; the next one does iff the new packet is a PSB, or the
\* sequence was open and the new packet is not its PSBEND.
LEMMA InPSBPlusAppend ==
    ASSUME NEW s \in Seq(PacketRecord), NEW r \in PacketRecord
    PROVE  /\ \A j \in 1..(Len(s) + 1) :
                  InPSBPlus(Append(s, r), j) <=> InPSBPlus(s, j)
           /\ InPSBPlus(Append(s, r), Len(s) + 2) <=>
                  \/ r.kind = "PSB"
                  \/ InPSBPlus(s, Len(s) + 1) /\ r.kind # "PSBEND"
<1> DEFINE t == Append(s, r)
           n == Len(s)
<1>1. /\ Len(t) = n + 1
      /\ \A i \in 1..n : t[i] = s[i]
      /\ t[n + 1] = r
    BY AppendProperties
<1>2. ASSUME NEW j \in 1..(n + 1)
      PROVE  InPSBPlus(t, j) <=> InPSBPlus(s, j)
    BY <1>1 DEF InPSBPlus
<1>3. InPSBPlus(t, n + 2) <=>
          \/ r.kind = "PSB"
          \/ InPSBPlus(s, n + 1) /\ r.kind # "PSBEND"
    <2>1. InPSBPlus(t, n + 2) <=>
              \/ t[n + 1].kind = "PSB"
              \/ /\ \E i \in 1..n : /\ t[i].kind = "PSB"
                                     /\ \A m \in (i + 1)..n : t[m].kind # "PSBEND"
                 /\ t[n + 1].kind # "PSBEND"
        BY DEF InPSBPlus
    <2>2. QED
        BY <1>1, <2>1 DEF InPSBPlus
<1>4. QED
    BY <1>2, <1>3

\* The kinds valid_packets admits in each state.
LEMMA AdmissibleKinds ==
    ASSUME NEW s \in States, NEW bs, NEW k, FirstMatch(s, bs, k)
    PROVE  /\ s = "Init"    => k = "PSB"
           /\ s = "Normal"  => k \notin {"CBR", "PSBEND"}
           /\ s = "PSBPlus" => k \in {"CBR", "PSBEND"}
<1>1. PICK i \in 1..Len(ValidPackets[s]) : ValidPackets[s][i] = k
    BY DEF FirstMatch
<1>2. CASE s = "Init"
    <2>1. ValidPackets[s] = <<"PSB">>
        BY <1>2 DEF ValidPackets
    <2>2. QED
        BY <1>1, <1>2, <2>1
<1>3. CASE s = "Normal"
    <2>1. ValidPackets[s] = <<"ShortTNT", "PAD", "FUP", "TIP", "CYC",
                              "LongTNT", "PSB", "MODE", "TIPPGE", "TIPPGD">>
        BY <1>3 DEF ValidPackets
    <2>2. QED
        BY <1>1, <1>3, <2>1
<1>4. CASE s = "PSBPlus"
    <2>1. ValidPackets[s] = <<"CBR", "PSBEND">>
        BY <1>4 DEF ValidPackets
    <2>2. QED
        BY <1>1, <1>4, <2>1
<1>5. QED
    BY <1>2, <1>3, <1>4 DEF States

\* The strengthening of PacketGrammar that is inductive: the grammar of the
\* history together with the state the parser tracks it by.
GrammarInv == PacketGrammar /\ StateReflectsHistory

\* valid_packets, the early set of parse_state and transition keep the
\* yielded history in the PSB+ grammar and the parser's state in step with
\* it, for every set of trace buffers.
THEOREM GrammarInvariant == Spec => []GrammarInv
<1>1. Init => GrammarInv
    BY DEF Init, GrammarInv, PacketGrammar, StateReflectsHistory
<1>2. TypeOK /\ GrammarInv /\ [Next]_vars => GrammarInv'
    <2> SUFFICES ASSUME TypeOK, GrammarInv, [Next]_vars
                 PROVE  GrammarInv'
        OBVIOUS
    <2>1. CASE UNCHANGED <<state, yielded>>
        BY <2>1 DEF GrammarInv, PacketGrammar, StateReflectsHistory, InPSBPlus
    <2>2. CASE ParsePacket
        <3>1. PICK k \in Kinds :
                /\ FirstMatch(state, bytes, k)
                /\ Matches(k, bytes)
                /\ YieldStep(k) \/ PanicStep(k)
            BY <2>2, ParsePacketSteps
        <3>2. CASE PanicStep(k)
            BY <2>1, <3>2 DEF PanicStep
        <3>3. CASE YieldStep(k)
            <4> DEFINE n == Len(yielded)
                       rec == [kind |-> k, ip |-> TargetIP(k, bytes, prev_tip)]
            <4>1. rec \in [kind : Kinds, ip : SUBSET Word]
                BY <3>1, TargetIPType DEF TypeOK
            <4>2. /\ yielded' = Append(yielded, rec)
                  /\ state' = Transition(IF k = "PSBEND" THEN "Normal" ELSE state, k)
                BY <3>3 DEF YieldStep
            <4>3. /\ yielded' \in Seq(PacketRecord)
                  /\ Len(yielded') = n + 1
                  /\ \A i \in 1..n : yielded'[i] = yielded[i]
                  /\ yielded'[n + 1].kind = k
                BY <4>1, <4>2, AppendProperties DEF TypeOK, PacketRecord
            <4>4. /\ \A j \in 1..(n + 1) : InPSBPlus(yielded', j) <=> InPSBPlus(yielded, j)
                  /\ InPSBPlus(yielded', n + 2) <=>
                         \/ k = "PSB"
                         \/ InPSBPlus(yielded, n + 1) /\ k # "PSBEND"
                <5>1. /\ \A j \in 1..(n + 1) :
                             InPSBPlus(Append(yielded, rec), j) <=> InPSBPlus(yielded, j)
                      /\ InPSBPlus(Append(yielded, rec), n + 2) <=>
                             \/ rec.kind = "PSB"
                             \/ InPSBPlus(yielded, n + 1) /\ rec.kind # "PSBEND"
                    <6>1. yielded \in Seq(PacketRecord) /\ rec \in PacketRecord
                        BY <4>1 DEF TypeOK, PacketRecord
                    <6>2. QED
                        BY <6>1, InPSBPlusAppend
                <5>2. QED
                    BY <4>2, <5>1
            <4>5. /\ state = "Init"    => k = "PSB"
                  /\ state = "Normal"  => k \notin {"CBR", "PSBEND"}
                  /\ state = "PSBPlus" => k \in {"CBR", "PSBEND"}
                BY <3>1, AdmissibleKinds DEF TypeOK
            <4>6. state = IF yielded = <<>> THEN "Init"
                          ELSE IF InPSBPlus(yielded, n + 1) THEN "PSBPlus"
                          ELSE "Normal"
                BY DEF GrammarInv, StateReflectsHistory
            <4>7. yielded = <<>> <=> n = 0
                BY EmptySeq DEF TypeOK
            <4>8. n = 0 => ~ InPSBPlus(yielded, n + 1)
                BY DEF InPSBPlus
            \* The new packet is a CBR or a PSBEND iff it opens no PSB+ ...
            <4>9. k \in {"CBR", "PSBEND"} <=> InPSBPlus(yielded, n + 1)
                BY <4>5, <4>6, <4>7, <4>8 DEF TypeOK, States
            <4>10. PacketGrammar'
                <5>1. yielded' # <<>> => yielded'[1].kind = "PSB"
                    <6>1. CASE n = 0
                        BY <4>3, <4>5, <4>6, <4>7, <6>1
                    <6>2. CASE n # 0
                        BY <4>3, <4>7, <6>2 DEF GrammarInv, PacketGrammar, TypeOK
                    <6>3. QED
                        BY <6>1, <6>2
                <5>2. \A j \in 1..Len(yielded') :
                          yielded'[j].kind \in {"CBR", "PSBEND"} <=> InPSBPlus(yielded', j)
                    BY <4>3, <4>4, <4>9 DEF GrammarInv, PacketGrammar, TypeOK
                <5>3. QED
                    BY <5>1, <5>2 DEF PacketGrammar
            \* ... and the state after it is the tracker of the new history.
            <4>11. StateReflectsHistory'
                <5>1. yielded' # <<>>
                    BY <4>3 DEF TypeOK
                <5>2. state' = IF InPSBPlus(yielded', n + 2) THEN "PSBPlus" ELSE "Normal"
                    BY <4>2, <4>4, <4>5, <4>6, <4>7, <4>8 DEF Transition, TypeOK, States
                <5>3. QED
                    BY <4>3, <5>1, <5>2 DEF StateReflectsHistory
            <4>12. QED
                BY <4>10, <4>11 DEF GrammarInv
        <3>4. QED
            BY <3>1, <3>2, <3>3
    <2>3. QED
        BY <2>1, <2>2 DEF Next, NextNone, ParseError, vars
<1>3. QED
    BY <1>1, <1>2, TypeCorrect, PTL DEF Spec

\* valid_packets and transition enforce the PSB+ grammar on the stream next()
\* yields, for every set of trace buffers.
THEOREM GrammarCorrect == Spec => []PacketGrammar
<1>1. GrammarInv => PacketGrammar
    BY DEF GrammarInv
<1>2. QED
    BY <1>1, GrammarInvariant, PTL

\* The state of PacketParser is the PSB+ position of the packets next() has
\* yielded so far (Init, inside PSB+, or Normal), for every set of buffers.
THEOREM StateTracksHistory == Spec => []StateReflectsHistory
<1>1. GrammarInv => StateReflectsHistory
    BY DEF GrammarInv
<1>2. QED
    BY <1>1, GrammarInvariant, PTL

-----------------------------------------------------------------------------
(* Panics, and progress of the cursor.                                     *)

\* A packet that deku reads never sends decompress to its unwrap() on None or
\* to unreachable!(): the ids TargetIP accepts are the arms decompress has,
\* and needs_prev_tip takes a snapshot for every arm that unwraps it.
LEMMA OutcomeNotDead ==
    ASSUME NEW k \in Kinds, NEW bs, NEW tip, Matches(k, bs)
    PROVE  Outcome(k, bs, tip) \notin {"UnwrapNone", "Unreachable"}
<1>1. CASE k \in IPKinds
    <2> DEFINE v == IPBytesOf(bs)
    <2>1. v \in {0, 1, 2, 3, 4, 6}
        BY <1>1 DEF Matches, IPPacketMatch, TargetIPLen
    <2>2. v \in {1, 2} => Snapshot(bs, tip) = {tip}
        BY DEF Snapshot, NeedsPrevTip
    <2>3. QED
        BY <1>1, <2>1, <2>2 DEF Outcome, DecompressOutcome
<1>2. CASE k \notin IPKinds
    BY <1>2 DEF Outcome
<1>3. QED
    BY <1>1, <1>2

\* Only the todo!() of IPBytes 0b100 can panic next(), on every trace.
THEOREM PanicsOnlyReserved == Spec => []OnlyReservedPanics
<1>1. Init => OnlyReservedPanics
    BY DEF Init, OnlyReservedPanics
<1>2. OnlyReservedPanics /\ [Next]_vars => OnlyReservedPanics'
    <2> SUFFICES ASSUME OnlyReservedPanics, [Next]_vars
                 PROVE  OnlyReservedPanics'
        OBVIOUS
    <2>1. CASE ParsePacket
        <3>1. PICK k \in Kinds :
                /\ Matches(k, bytes)
                /\ YieldStep(k) \/ PanicStep(k)
            BY <2>1, ParsePacketSteps
        <3>2. Outcome(k, bytes, prev_tip) \notin {"UnwrapNone", "Unreachable"}
            BY <3>1, OutcomeNotDead
        <3>3. QED
            BY <3>1, <3>2 DEF YieldStep, PanicStep, OnlyReservedPanics
    <2>2. QED
        BY <2>1 DEF Next, NextNone, ParseError, vars, OnlyReservedPanics
<1>3. QED
    BY <1>1, <1>2, PTL DEF Spec

\* next() never yields a packet without moving the cursor forward by one to
\* Len(bytes) bytes: the framing of every codec is at least one byte and never
\* past the buffer.
THEOREM CursorAdvances == Spec => PullConsumes
<1>1. TypeOK /\ [Next]_vars =>
          [Len(yielded') > Len(yielded) =>
               \E n \in 1..Len(bytes) : bytes' = Remain(bytes, n)]_vars
    <2> SUFFICES ASSUME TypeOK, [Next]_vars, Len(yielded') > Len(yielded)
                 PROVE  \E n \in 1..Len(bytes) : bytes' = Remain(bytes, n)
        OBVIOUS
    <2>1. CASE ParsePacket
        <3>1. PICK k \in Kinds :
                /\ Matches(k, bytes)
                /\ bytes' = Remain(bytes, Length(k, bytes))
            BY <2>1, ParsePacketSteps
        <3>2. Length(k, bytes) \in 1..Len(bytes)
            BY <3>1, LengthBound DEF TypeOK
        <3>3. QED
            BY <3>1, <3>2
    <2>2. CASE ~ ParsePacket
        BY <2>2 DEF Next, NextNone, ParseError, vars
    <2>3. QED
        BY <2>1, <2>2
<1>2. QED
    BY <1>1, TypeCorrect, PTL DEF Spec, PullConsumes

=============================================================================

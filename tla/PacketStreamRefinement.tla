----------------------- MODULE PacketStreamRefinement -----------------------
(***************************************************************************)
(* Proof that PacketParser implements PacketStream under the mapping       *)
(* Stream of PacketParser: state is the mode, prev_tip the cached TIP,     *)
(* yielded the stream, Len(bytes) the input left and result the answer.    *)
(***************************************************************************)
EXTENDS PacketParserProofs

\* What one ParsePacket step that yields packet k maps to: the packet is
\* admissible in the abstract mode and carries an IP option.
LEMMA YieldedPacketAdmissible ==
    ASSUME NEW s \in States, NEW bs \in Seq(Byte), NEW k \in Kinds,
           NEW tip \in Word, FirstMatch(s, bs, k)
    PROVE  /\ k \in Stream!Admissible[s]
           /\ Stream!IsIPOption(k, TargetIP(k, bs, tip))
<1>1. Matches(k, bs)
    BY DEF FirstMatch
<1>2. k \in Stream!Admissible[s]
    BY AdmissibleKinds DEF States, Stream!Admissible, Stream!PacketKinds,
                           Stream!StatusKinds, Stream!IPKinds, Kinds
<1>3. TargetIP(k, bs, tip) \in SUBSET Stream!Word
    <2>1. TargetIP(k, bs, tip) \in SUBSET Word
        BY <1>1, TargetIPType
    <2>2. Stream!Word = Word
        BY DEF Stream!Word, Stream!Byte, Word, Byte
    <2>3. QED
        BY <2>1, <2>2
<1>4. CASE Outcome(k, bs, tip) = "Some"
    <2>1. k \in Stream!IPKinds
        BY <1>4 DEF Outcome, IPKinds, Stream!IPKinds
    <2>2. TargetIP(k, bs, tip) = {Decompress(IPBytesOf(bs), RawIP(bs), Snapshot(bs, tip))}
        BY <1>4 DEF TargetIP
    <2>3. QED
        BY <1>2, <1>3, <2>1, <2>2 DEF Stream!IsIPOption
<1>5. CASE Outcome(k, bs, tip) # "Some"
    <2>1. TargetIP(k, bs, tip) = {}
        BY <1>5 DEF TargetIP
    <2>2. QED
        BY <1>2, <1>3, <2>1 DEF Stream!IsIPOption
<1>6. QED
    BY <1>2, <1>4, <1>5

\* The parse_state early set on PSBEND followed by transition is the
\* grammar's mode change, for every kind admissible in the state.
LEMMA TransitionIsModeAfter ==
    ASSUME NEW s \in States, NEW k, k \in Stream!Admissible[s]
    PROVE  Transition(IF k = "PSBEND" THEN "Normal" ELSE s, k) = Stream!ModeAfter(s, k)
<1>1. k = "PSB" => s \in {"Init", "Normal"}
    BY DEF States, Stream!Admissible, Stream!StatusKinds
<1>2. QED
    BY <1>1 DEF Transition, Stream!ModeAfter, States

\* The TIP parse_packet caches is the IP of the packet it yields, or the
\* old one when the packet has none.
LEMMA CacheTipIsEmittedIP ==
    ASSUME NEW k, NEW bs, NEW tip
    PROVE  CacheTip(k, bs, tip) =
               IF TargetIP(k, bs, tip) = {} THEN tip
               ELSE CHOOSE w \in TargetIP(k, bs, tip) : TRUE
BY DEF CacheTip, TargetIP

\* next() implements the packet stream, on every set of trace buffers.
THEOREM Refinement == Spec => StreamRefinement
<1>1. Init => Stream!Init
    <2> SUFFICES ASSUME Init PROVE Stream!Init
        OBVIOUS
    <2>1. Len(bytes) \in Nat
        BY InputsAssumption, LenProperties DEF Init
    <2>2. QED
        BY <2>1 DEF Init, Stream!Init, ZeroWord, Stream!ZeroWord
<1>2. TypeOK /\ [Next]_vars => [Stream!Next]_Stream!avars
    <2> SUFFICES ASSUME TypeOK, [Next]_vars
                 PROVE  [Stream!Next]_Stream!avars
        OBVIOUS
    <2>1. Len(bytes) \in Nat
        BY LenProperties DEF TypeOK
    <2>2. CASE UNCHANGED vars
        BY <2>2 DEF vars, Stream!avars
    <2>3. CASE NextNone
        <3>1. Len(bytes) = 0
            BY <2>3 DEF NextNone
        <3>2. QED
            BY <2>3, <3>1 DEF NextNone, Panics, Stream!Next, Stream!End,
                              Stream!Halted
    <2>4. CASE ParseError
        <3>1. Len(bytes) > 0
            BY <2>1, <2>4, EmptySeq DEF ParseError, TypeOK
        <3>2. QED
            BY <2>4, <3>1 DEF ParseError, Panics, Stream!Next, Stream!Fail,
                              Stream!Halted
    <2>5. CASE ParsePacket
        <3>1. PICK k \in Kinds :
                /\ FirstMatch(state, bytes, k)
                /\ Matches(k, bytes)
                /\ bytes' = Remain(bytes, Length(k, bytes))
                /\ YieldStep(k) \/ PanicStep(k)
            BY <2>5, ParsePacketSteps
        <3>2. Len(bytes') \in 0..(Len(bytes) - 1)
            <4>1. Length(k, bytes) \in 1..Len(bytes)
                BY <3>1, LengthBound DEF TypeOK
            <4>2. QED
                BY <3>1, <4>1, RemainType DEF TypeOK
        <3>3. ~ Stream!Halted /\ Len(bytes) > 0
            BY <2>5, <3>2 DEF ParsePacket, Panics, Stream!Halted
        <3>4. /\ k \in Stream!Admissible[state]
              /\ Stream!IsIPOption(k, TargetIP(k, bytes, prev_tip))
            BY <3>1, YieldedPacketAdmissible DEF TypeOK
        <3>5. CASE YieldStep(k)
            <4> DEFINE ip == TargetIP(k, bytes, prev_tip)
                       q == yielded'[Len(yielded')]
            <4>1. yielded' = Append(yielded, [kind |-> k, ip |-> ip])
                BY <3>5 DEF YieldStep
            <4>2. yielded' # <<>> /\ q = [kind |-> k, ip |-> ip]
                <5>1. [kind |-> k, ip |-> ip] \in PacketRecord
                    BY <3>1, TargetIPType DEF TypeOK, PacketRecord
                <5>2. yielded \in Seq(PacketRecord)
                    BY DEF TypeOK, PacketRecord
                <5>3. QED
                    BY <4>1, <5>1, <5>2, AppendProperties
            <4>3. yielded' = Append(yielded, q)
                BY <4>1, <4>2
            <4>4. q.kind \in Stream!Admissible[state] /\ Stream!IsIPOption(q.kind, q.ip)
                BY <3>4, <4>2
            <4>5. prev_tip' = IF q.ip = {} THEN prev_tip ELSE CHOOSE w \in q.ip : TRUE
                <5>1. prev_tip' = IF ip = {} THEN prev_tip ELSE CHOOSE w \in ip : TRUE
                    BY <3>5, CacheTipIsEmittedIP DEF YieldStep
                <5>2. QED
                    BY <4>2, <5>1
            <4>6. state' = Stream!ModeAfter(state, q.kind)
                BY <3>4, <3>5, <4>2, TransitionIsModeAfter DEF YieldStep, TypeOK
            <4>7. Stream!Emit
                BY <3>2, <3>3, <3>5, <4>2, <4>3, <4>4, <4>5, <4>6
                DEF YieldStep, Stream!Emit
            <4>8. QED
                BY <4>7 DEF Stream!Next
        <3>6. CASE PanicStep(k)
            <4>1. result' = "Todo"
                BY <3>1, <3>6, OutcomeNotDead DEF PanicStep, Panics
            <4>2. k \in Stream!IPKinds
                BY <3>6 DEF PanicStep, Outcome, Panics, IPKinds, Stream!IPKinds
            <4>3. Stream!Panic
                BY <3>2, <3>3, <3>4, <3>6, <4>1, <4>2 DEF PanicStep, Stream!Panic
            <4>4. QED
                BY <4>3 DEF Stream!Next
        <3>7. QED
            BY <3>1, <3>5, <3>6
    <2>6. QED
        BY <2>2, <2>3, <2>4, <2>5 DEF Next
<1>3. QED
    BY <1>1, <1>2, TypeCorrect, PTL DEF Spec, StreamRefinement, Stream!Spec

=============================================================================

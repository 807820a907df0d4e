---------------------------- MODULE PacketParser ----------------------------
(***************************************************************************)
(* The Yk Intel PT packet parser: src/decode/ykpt/packet_parser/mod.rs     *)
(* (the PacketParser iterator and its PacketParserState machine) and       *)
(* packets.rs (the deku codecs and TargetIP decompression).                *)
(*                                                                         *)
(* The trace buffer is a sequence of bytes.  Each codec is modelled by the *)
(* bits it tests and the number of bytes it consumes; the payloads that    *)
(* the parser never interprets (CBR, MODE, TNT, CYC) are only framed.  A   *)
(* usize is 8 little-endian bytes, so the byte-aligned masks of the        *)
(* decompression become byte selections.                                   *)
(*                                                                         *)
(* One step is one call of PacketParser::next.  The ghost variable         *)
(* `yielded' is what the consumer has received so far (kind and           *)
(* target_ip() of each packet) and `result' is what the last call         *)
(* returned, or the panic it raised.                                       *)
(***************************************************************************)
EXTENDS Integers, Sequences

\* The trace buffers a parser may be constructed over.
CONSTANT Inputs

Byte == 0..255

ASSUME InputsAssumption == Inputs \subseteq Seq(Byte)

\* usize on the 64-bit x86 hosts Intel PT exists on: index 1 is the least
\* significant byte.
Word == [1..8 -> Byte]

ZeroWord == [i \in 1..8 |-> 0]

VARIABLES
    bytes,     \* PacketParser.bytes: the unparsed rest of the trace
    state,     \* PacketParser.state
    prev_tip,  \* PacketParser.prev_tip
    yielded,   \* the packets returned so far: [kind, ip] with ip an Option
    result     \* what the last call of next() returned, or the panic

vars == <<bytes, state, prev_tip, yielded, result>>

\* PacketParserState.
States == {"Init", "Normal", "PSBPlus"}

\* PacketKind.
Kinds == {"PSB", "CBR", "PSBEND", "PAD", "MODE", "TIPPGE", "TIPPGD",
          "ShortTNT", "LongTNT", "TIP", "FUP", "CYC"}

\* The panics of TargetIP::decompress: todo!(), prev_tip.unwrap() on None
\* and unreachable!().
Panics == {"Todo", "UnwrapNone", "Unreachable"}

Results == {"NotPulled", "Ok", "Err", "End"} \cup Panics

-----------------------------------------------------------------------------
(* The state machine: PacketParserState::valid_packets and ::transition.  *)

ValidPackets ==
    [Init    |-> <<"PSB">>,
     Normal  |-> <<"ShortTNT", "PAD", "FUP", "TIP", "CYC", "LongTNT", "PSB",
                   "MODE", "TIPPGE", "TIPPGD">>,
     PSBPlus |-> <<"CBR", "PSBEND">>]

\* Mutant: a PSB met in the Normal state does not re-enter PSB+.
TransitionNoResync(s, k) ==
    IF s = "Init" /\ k = "PSB" THEN "PSBPlus"
    ELSE IF s = "PSBPlus" /\ k = "PSBEND" THEN "Normal"
    ELSE s

\* Mutant: the first PSB of the trace is taken for a whole packet stream
\* start, and the parser goes straight to Normal.
TransitionInitToNormal(s, k) ==
    IF s = "Init" /\ k = "PSB" THEN "Normal"
    ELSE IF s = "Normal" /\ k = "PSB" THEN "PSBPlus"
    ELSE IF s = "PSBPlus" /\ k = "PSBEND" THEN "Normal"
    ELSE s

Transition(s, k) ==
    IF s \in {"Init", "Normal"} /\ k = "PSB" THEN "PSBPlus"
    ELSE IF s = "PSBPlus" /\ k = "PSBEND" THEN "Normal"
    ELSE s

-----------------------------------------------------------------------------
(* The codecs of packets.rs.                                               *)

\* The packets that start with a deku magic, and their whole framed length.
Magic == [PSB     |-> [i \in 1..16 |-> IF i % 2 = 1 THEN 2 ELSE 130],
          CBR     |-> <<2, 3>>,
          PSBEND  |-> <<2, 35>>,
          PAD     |-> <<0>>,
          MODE    |-> <<153>>,
          LongTNT |-> <<2, 163>>]

FramedLen == [PSB |-> 16, CBR |-> 4, PSBEND |-> 2, PAD |-> 1, MODE |-> 2,
              LongTNT |-> 8]

MagicKinds == DOMAIN Magic

MagicMatch(k, bs) ==
    /\ Len(bs) >= FramedLen[k]
    /\ SubSeq(bs, 1, Len(Magic[k])) = Magic[k]

\* The IP packets: IPBytes is read first (the top 3 bits of the header,
\* deku reading most significant bit first), then the 5-bit opcode.
IPKinds == {"TIPPGE", "TIPPGD", "TIP", "FUP"}

Opcode == [TIPPGE |-> 17, TIPPGD |-> 1, TIP |-> 13, FUP |-> 29]

IPBytesOf(bs) == bs[1] \div 32

\* The ids of the TargetIP enum and the bytes each variant reads: none for
\* 0b000, 16, 32 and 48 bits for 0b001 to 0b011, 48 bits for 0b100 and 64
\* for 0b110.  The reserved 0b101 and 0b111 have no variant, so deku
\* rejects them.
TargetIPLen == [v \in {0, 1, 2, 3, 4, 6} |->
                    IF v = 4 THEN 6 ELSE IF v = 6 THEN 8 ELSE 2 * v]

IPPacketMatch(k, bs) ==
    /\ bs[1] % 32 = Opcode[k]
    /\ IPBytesOf(bs) \in DOMAIN TargetIPLen
    /\ Len(bs) >= 1 + TargetIPLen[IPBytesOf(bs)]

RawIP(bs) == SubSeq(bs, 2, 1 + TargetIPLen[IPBytesOf(bs)])

\* Mutant: the assert on branches is left out, so a lone stop bit (the
\* 0x02 that starts a LongTNT or a PSB) also reads as a ShortTNT.
ShortTNTMatchNoStopCheck(bs) == bs[1] % 2 = 0

\* ShortTNT: 7 bits of branches (not 0b0000001) over a zero bit.
ShortTNTMatch(bs) ==
    /\ bs[1] \div 2 # 1
    /\ bs[1] % 2 = 0

\* CYC: 5 bits, the exp bit, then 0b11; with exp set, extended bytes follow
\* up to and including the first one whose low bit is 0.
CYCExp(bs) == (bs[1] \div 4) % 2 = 1

CYCEnd(bs, i) ==
    /\ bs[i] % 2 = 0
    /\ \A j \in 2..(i - 1) : bs[j] % 2 = 1

CYCMatch(bs) ==
    /\ bs[1] % 4 = 3
    /\ CYCExp(bs) => \E i \in 2..Len(bs) : CYCEnd(bs, i)

\* <$packet>::read(bits) succeeds.
Matches(k, bs) ==
    /\ bs # <<>>
    /\ k \in MagicKinds => MagicMatch(k, bs)
    /\ k \in IPKinds    => IPPacketMatch(k, bs)
    /\ k = "ShortTNT"   => ShortTNTMatch(bs)
    /\ k = "CYC"        => CYCMatch(bs)

\* Mutant: an IP packet's length leaves out its header byte.
LengthNoHeader(k, bs) ==
    IF k \in MagicKinds THEN FramedLen[k]
    ELSE IF k \in IPKinds THEN TargetIPLen[IPBytesOf(bs)]
    ELSE IF k = "CYC" /\ CYCExp(bs) THEN CHOOSE i \in 2..Len(bs) : CYCEnd(bs, i)
    ELSE 1  \* ShortTNT, and CYC without extended bytes

\* The bytes a successful read consumes.
Length(k, bs) ==
    IF k \in MagicKinds THEN FramedLen[k]
    ELSE IF k \in IPKinds THEN 1 + TargetIPLen[IPBytesOf(bs)]
    ELSE IF k = "CYC" /\ CYCExp(bs) THEN CHOOSE i \in 2..Len(bs) : CYCEnd(bs, i)
    ELSE 1  \* ShortTNT, and CYC without extended bytes

\* self.bytes = remain.as_raw_slice()
Remain(bs, n) == SubSeq(bs, n + 1, Len(bs))

-----------------------------------------------------------------------------
(* Target IP decompression.  An Option is a set: {} or {value}.            *)

\* Mutant: needs_prev_tip forgets 0b010.
NeedsPrevTipNo010(v) == v \in {1, 4}

NeedsPrevTip(v) == v \in {1, 2, 4}

\* The prev_tip snapshot read_to_packet_tip! stores in the packet.
Snapshot(bs, tip) == IF NeedsPrevTip(IPBytesOf(bs)) THEN {tip} ELSE {}

\* Which arm of TargetIP::decompress runs: None, Some, or a panic.
DecompressOutcome(v, snap) ==
    IF v = 0 THEN "None"
    ELSE IF v \in {1, 2} /\ snap = {} THEN "UnwrapNone"
    ELSE IF v \in {1, 2, 3, 6} THEN "Some"
    ELSE IF v = 4 THEN "Todo"
    ELSE "Unreachable"

\* Mutant: the 0xffff of the sign-extension mask is written into each high
\* byte instead of 0xff.
DecompressWideFill(v, ip, snap) ==
    LET prev == CHOOSE w \in snap : TRUE
        fill == IF ip[6] >= 128 THEN 65535 ELSE 0
    IN  [i \in 1..8 |-> IF i <= Len(ip) THEN ip[i]
                        ELSE IF v = 3 THEN fill ELSE prev[i]]

\* The low Len(ip) bytes come from the packet; the rest from prev_tip, or
\* for 0b011 are copies of bit 47.
Decompress(v, ip, snap) ==
    LET prev == CHOOSE w \in snap : TRUE
        fill == IF ip[6] >= 128 THEN 255 ELSE 0
    IN  [i \in 1..8 |-> IF i <= Len(ip) THEN ip[i]
                        ELSE IF v = 3 THEN fill ELSE prev[i]]

\* What Packet::target_ip() does for the packet of kind k read from bs.
Outcome(k, bs, tip) ==
    IF k \in IPKinds
    THEN DecompressOutcome(IPBytesOf(bs), Snapshot(bs, tip))
    ELSE "None"

TargetIP(k, bs, tip) ==
    IF Outcome(k, bs, tip) = "Some"
    THEN {Decompress(IPBytesOf(bs), RawIP(bs), Snapshot(bs, tip))}
    ELSE {}

\* Mutant: only TIP packets update the cached TIP, not FUP, TIP.PGE, TIP.PGD.
CacheTipOnTIP(k, bs, tip) ==
    IF Outcome(k, bs, tip) = "Some" /\ k = "TIP"
    THEN Decompress(IPBytesOf(bs), RawIP(bs), Snapshot(bs, tip))
    ELSE tip

\* parse_packet: if the packet contains an updated TIP, cache it.
CacheTip(k, bs, tip) ==
    IF Outcome(k, bs, tip) = "Some"
    THEN Decompress(IPBytesOf(bs), RawIP(bs), Snapshot(bs, tip))
    ELSE tip

-----------------------------------------------------------------------------
(* The iterator.                                                           *)

\* parse_state tries the valid kinds in order and k is the first that reads.
FirstMatch(s, bs, k) ==
    \E i \in 1..Len(ValidPackets[s]) :
        /\ ValidPackets[s][i] = k
        /\ Matches(k, bs)
        /\ \A j \in 1..(i - 1) : ~ Matches(ValidPackets[s][j], bs)

\* PacketParser::new
Init ==
    /\ bytes \in Inputs
    /\ state = "Init"
    /\ prev_tip = ZeroWord
    /\ yielded = <<>>
    /\ result = "NotPulled"

\* next() on an empty buffer returns None.
NextNone ==
    /\ result \notin Panics
    /\ bytes = <<>>
    /\ result' = "End"
    /\ UNCHANGED <<bytes, state, prev_tip, yielded>>

\* next() -> parse_packet -> parse_state: the first valid kind that reads
\* advances the cursor; PSBEND sets the state to Normal; target_ip() runs,
\* and may panic after the cursor moved; then the TIP is cached and the
\* state transition applied.
ParsePacket ==
    /\ result \notin Panics
    /\ bytes # <<>>
    /\ \E k \in Kinds :
        /\ FirstMatch(state, bytes, k)
        /\ bytes' = Remain(bytes, Length(k, bytes))
        /\ \/ /\ Outcome(k, bytes, prev_tip) \in {"None", "Some"}
              /\ result' = "Ok"
              /\ prev_tip' = CacheTip(k, bytes, prev_tip)
              /\ state' = Transition(IF k = "PSBEND" THEN "Normal" ELSE state, k)
              /\ yielded' = Append(yielded,
                                   [kind |-> k, ip |-> TargetIP(k, bytes, prev_tip)])
           \/ /\ Outcome(k, bytes, prev_tip) \in Panics
              /\ result' = Outcome(k, bytes, prev_tip)
              /\ UNCHANGED <<state, prev_tip, yielded>>

\* Mutant: on an error the parser skips the byte it could not read, as a
\* resynchronising decoder would.
ParseErrorSkipsByte ==
    /\ result \notin Panics
    /\ bytes # <<>>
    /\ \A i \in 1..Len(ValidPackets[state]) : ~ Matches(ValidPackets[state][i], bytes)
    /\ result' = "Err"
    /\ bytes' = Tail(bytes)
    /\ UNCHANGED <<state, prev_tip, yielded>>

\* parse_state: no valid kind reads; the error leaves the parser as it was.
ParseError ==
    /\ result \notin Panics
    /\ bytes # <<>>
    /\ \A i \in 1..Len(ValidPackets[state]) : ~ Matches(ValidPackets[state][i], bytes)
    /\ result' = "Err"
    /\ UNCHANGED <<bytes, state, prev_tip, yielded>>

Next == NextNone \/ ParsePacket \/ ParseError

Spec == Init /\ [][Next]_vars

\* The consumer's loop over the iterator (spec.md section 6): it pulls again
\* while the last pull yielded a packet, and stops at the first error, at
\* the end of the buffer, or at a panic.
Pull == result \in {"NotPulled", "Ok"} /\ Next

\* The parser driven by that loop: a single-threaded loop that has not
\* stopped always makes its next pull.
Consumer == Spec /\ WF_vars(Pull)

-----------------------------------------------------------------------------
(* Properties.                                                             *)

\* Every variable holds a value of its type.
TypeOK ==
    /\ bytes \in Seq(Byte)
    /\ state \in States
    /\ prev_tip \in Word
    /\ yielded \in Seq([kind : Kinds, ip : SUBSET Word])
    /\ result \in Results

\* Packet j of s was yielded inside a PSB+ sequence: after a PSB and before
\* the PSBEND that closes it.
InPSBPlus(s, j) ==
    \E i \in 1..(j - 1) :
        /\ s[i].kind = "PSB"
        /\ \A m \in (i + 1)..(j - 1) : s[m].kind # "PSBEND"

\* The yielded packets follow the Intel PT grammar the state machine of
\* valid_packets/transition/parse_state is meant to enforce: the trace
\* starts with a PSB, and a packet is a CBR or a PSBEND exactly when it
\* lies inside a PSB+ sequence (so nothing else appears there, and neither
\* appears outside).
PacketGrammar ==
    /\ yielded # <<>> => yielded[1].kind = "PSB"
    /\ \A j \in 1..Len(yielded) :
           yielded[j].kind \in {"CBR", "PSBEND"} <=> InPSBPlus(yielded, j)

\* The parser's state is the PSB+ tracker of the yielded history: Init until
\* a packet is yielded, PSBPlus while the last PSB is not yet closed by a
\* PSBEND, Normal otherwise.  This is what valid_packets, the early set in
\* parse_state and transition compute together.
StateReflectsHistory ==
    state = IF yielded = <<>> THEN "Init"
            ELSE IF InPSBPlus(yielded, Len(yielded) + 1) THEN "PSBPlus"
            ELSE "Normal"

\* prev_tip threading in parse_packet: prev_tip is the IP of the last
\* yielded packet whose target_ip() was Some, or 0 if there was none.
PrevTipIsLastIP ==
    \/ /\ \A i \in 1..Len(yielded) : yielded[i].ip = {}
       /\ prev_tip = ZeroWord
    \/ \E i \in 1..Len(yielded) :
           /\ yielded[i].ip = {prev_tip}
           /\ \A j \in (i + 1)..Len(yielded) : yielded[j].ip = {}

\* The prev_tip.unwrap() and unreachable!() arms of decompress are dead:
\* the TargetIP ids deku accepts and needs_prev_tip agree with them, so the
\* only panic a trace can cause is the todo!() of IPBytes 0b100.
OnlyReservedPanics == result \notin {"UnwrapNone", "Unreachable"}

\* Every packet next() yields consumes at least one byte of the buffer and
\* nothing beyond it, so the iterator cannot yield forever on a finite
\* buffer.
PullConsumes ==
    [][Len(yielded') > Len(yielded) =>
         \E n \in 1..Len(bytes) : bytes' = Remain(bytes, n)]_vars

\* A consumer that pulls until the first error or the end of the buffer
\* stops on every finite buffer: next() never yields packets forever.
Terminates == <>(result \in {"End", "Err"} \cup Panics)

\* The comment on valid_packets (and the spec) say that the match order is
\* only a performance choice: at most one valid kind can read the bytes at
\* the cursor.
MatchOrderIrrelevant ==
    \A i, j \in 1..Len(ValidPackets[state]) :
        Matches(ValidPackets[state][i], bytes) /\ Matches(ValidPackets[state][j], bytes)
            => i = j

\* The match order of valid_packets decides which packet is read in one case
\* only: ShortTNT, tried first in Normal, also reads the 0x00 of a PAD.  Any
\* other two valid kinds that read the same bytes would make the order
\* matter too; the header bytes of the codecs (and the second byte of the
\* 0x02 magics) keep them apart, so for them the order is the performance
\* choice the comment on valid_packets says it is.
OnlyPadShadowed ==
    \A i, j \in 1..Len(ValidPackets[state]) :
        /\ i < j
        /\ Matches(ValidPackets[state][i], bytes)
        /\ Matches(ValidPackets[state][j], bytes)
        => /\ ValidPackets[state][i] = "ShortTNT"
           /\ ValidPackets[state][j] = "PAD"

\* A trace never makes the parser panic: failures are TraceParseErrors.
NoPanic == result \notin Panics

-----------------------------------------------------------------------------
(* The abstract packet stream.                                             *)

\* The parser's state machine is the grammar position, prev_tip the cached
\* TIP, the yielded packets the stream, and the length of the unparsed rest
\* the input left.
Stream == INSTANCE PacketStream
              WITH mode <- state, tip <- prev_tip, stream <- yielded,
                   left <- Len(bytes), answer <- result

\* next() implements the packet stream: each call yields a packet admissible
\* in the PSB+ grammar and caches its IP, or fails without moving the cursor,
\* or ends on an empty buffer, or panics in the todo!() of an IP packet.
StreamRefinement == Stream!Spec

=============================================================================

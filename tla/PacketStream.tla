---------------------------- MODULE PacketStream ----------------------------
(***************************************************************************)
(* What the packet parser promises its consumer (spec.md sections 4 to 7), *)
(* with no bytes, codecs or compression in it.  Each pull either emits one *)
(* packet admissible in the current mode and consumes part of the input,   *)
(* fails without consuming anything, or reports the end of an empty input. *)
(* The emitted IP, if any, becomes the cached TIP.  The one panic the      *)
(* parser can raise, the todo!() of a reserved compression, consumes the   *)
(* packet and ends the program.                                            *)
(***************************************************************************)
EXTENDS Integers, Sequences

Byte == 0..255

Word == [1..8 -> Byte]

ZeroWord == [i \in 1..8 |-> 0]

VARIABLES
    mode,    \* the grammar position: Init, Normal or PSBPlus
    tip,     \* the cached previous TIP
    stream,  \* the packets emitted so far
    left,    \* how much input is left
    answer   \* what the last pull returned

avars == <<mode, tip, stream, left, answer>>

Modes == {"Init", "Normal", "PSBPlus"}

StatusKinds == {"CBR", "PSBEND"}

IPKinds == {"TIP", "TIPPGE", "TIPPGD", "FUP"}

PacketKinds == {"PSB", "PAD", "MODE", "ShortTNT", "LongTNT", "CYC"}
               \cup StatusKinds \cup IPKinds

\* The kinds that may come next: a PSB first, then only status packets and
\* the PSBEND inside PSB+, and no status packet outside it.
Admissible ==
    [Init    |-> {"PSB"},
     Normal  |-> PacketKinds \ StatusKinds,
     PSBPlus |-> StatusKinds]

\* A PSB opens PSB+ and its PSBEND closes it.
ModeAfter(m, k) ==
    IF k = "PSB" THEN "PSBPlus"
    ELSE IF k = "PSBEND" THEN "Normal"
    ELSE m

\* The IP a packet of kind k may carry: none, or one word for the kinds
\* that have a TargetIP.
IsIPOption(k, o) ==
    /\ o \in SUBSET Word
    /\ \A a, b \in o : a = b
    /\ k \notin IPKinds => o = {}

\* A pull after the todo!() panic cannot happen: the program has ended.
Halted == answer = "Todo"

Init ==
    /\ mode = "Init"
    /\ tip = ZeroWord
    /\ stream = <<>>
    /\ left \in Nat
    /\ answer = "NotPulled"

\* A pull that emits a packet p: it consumes input, p is admissible, its IP
\* (if any) is cached, and the mode follows the PSB+ grammar.
Emit ==
    /\ ~ Halted
    /\ left > 0
    /\ left' \in 0..(left - 1)
    /\ stream' # <<>>
    /\ LET p == stream'[Len(stream')]
       IN  /\ stream' = Append(stream, p)
           /\ p.kind \in Admissible[mode]
           /\ IsIPOption(p.kind, p.ip)
           /\ tip' = IF p.ip = {} THEN tip ELSE CHOOSE w \in p.ip : TRUE
           /\ mode' = ModeAfter(mode, p.kind)
    /\ answer' = "Ok"

\* A pull that meets a reserved compression of an IP packet: the packet is
\* consumed and nothing else changes.
Panic ==
    /\ ~ Halted
    /\ left > 0
    /\ Admissible[mode] \cap IPKinds # {}
    /\ left' \in 0..(left - 1)
    /\ answer' = "Todo"
    /\ UNCHANGED <<mode, tip, stream>>

\* A pull where nothing admissible reads: an error, and the cursor stays.
Fail ==
    /\ ~ Halted
    /\ left > 0
    /\ answer' = "Err"
    /\ UNCHANGED <<mode, tip, stream, left>>

\* A pull on an exhausted input ends the stream.
End ==
    /\ ~ Halted
    /\ left = 0
    /\ answer' = "End"
    /\ UNCHANGED <<mode, tip, stream, left>>

Next == Emit \/ Panic \/ Fail \/ End

Spec == Init /\ [][Next]_avars

=============================================================================

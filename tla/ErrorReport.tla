---------------------------- MODULE ErrorReport ----------------------------
(***************************************************************************)
(* The TraceParseError that parse_state returns when no valid kind reads   *)
(* the bytes at the cursor (mod.rs): the state the parser was in and       *)
(* byte_stream_str(8, ", "), a binary peek at the next bytes.  The fixed   *)
(* wording of the message is left out; the peek is kept character by      *)
(* character, because what it must show is the bytes it was made from.    *)
(*                                                                         *)
(* The parser's actions are those of PacketParser; the error return of     *)
(* parse_state also sets `report', the last error the consumer received.   *)
(***************************************************************************)
EXTENDS PacketParser

VARIABLE report   \* the last TraceParseError, an Option: {} or {[state, text]}

rvars == <<vars, report>>

\* The sep argument of the one call, ", ".
Sep == <<",", " ">>

Ellipsis == <<".", ".", ".">>

\* format!("{:08b}", b): eight binary digits, the most significant first.
Binary08(b) == [j \in 1..8 |-> IF (b \div 2^(8 - j)) % 2 = 1 THEN "1" ELSE "0"]

\* vals.join(sep) for entries of w characters each, as every {:08b} of a u8
\* is: entry i fills the stride-wide slot i, then sep, the last one without.
Join(vals, w, sep) ==
    LET stride == w + Len(sep)
    IN  [p \in 1..(Len(vals) * stride - Len(sep)) |->
            LET i == (p - 1) \div stride + 1
                o == ((p - 1) % stride) + 1
            IN  IF o <= w THEN vals[i][o] ELSE sep[o - w]]

\* Mutant: the "..." is added when at least nbytes bytes are left, not more
\* than nbytes, comparing with the argument rather than the shadowed min.
ByteStreamStrEllipsisAtN(bs, nbytes, sep) ==
    LET n    == IF nbytes <= Len(bs) THEN nbytes ELSE Len(bs)
        vals == [i \in 1..n |-> Binary08(bs[i])]
    IN  IF Len(bs) >= nbytes THEN Join(vals, 8, sep) \o sep \o Ellipsis
        ELSE Join(vals, 8, sep)

\* PacketParser::byte_stream_str: nbytes is shadowed by min(nbytes, len);
\* "..." follows when bytes are left beyond the ones shown, and then at
\* least one byte is shown, so the join puts a separator before it.
ByteStreamStr(bs, nbytes, sep) ==
    LET n    == IF nbytes <= Len(bs) THEN nbytes ELSE Len(bs)
        vals == [i \in 1..n |-> Binary08(bs[i])]
    IN  IF Len(bs) > n THEN Join(vals, 8, sep) \o sep \o Ellipsis
        ELSE Join(vals, 8, sep)

RInit == Init /\ report = {}

\* parse_state's error return: the error is built from self.state and
\* self.bytes after every valid kind failed to read.
ReportParseError ==
    /\ ParseError
    /\ report' = {[state |-> state, text |-> ByteStreamStr(bytes, 8, Sep)]}

RNext ==
    \/ (NextNone \/ ParsePacket) /\ UNCHANGED report
    \/ ReportParseError

RSpec == RInit /\ [][RNext]_rvars

-----------------------------------------------------------------------------
(* Reading a peek back, independently of how it was built: byte i takes    *)
(* the characters 10(i-1)+1 .. 10(i-1)+8, a separator the next two, and a  *)
(* trailing "..." says that more bytes follow.                             *)

Digit(c) == IF c = "1" THEN 1 ELSE 0

Unbinary(cs) ==
    128 * Digit(cs[1]) + 64 * Digit(cs[2]) + 32 * Digit(cs[3]) + 16 * Digit(cs[4])
    + 8 * Digit(cs[5]) + 4 * Digit(cs[6]) + 2 * Digit(cs[7]) + Digit(cs[8])

EndsInEllipsis(t) == Len(t) >= 3 /\ SubSeq(t, Len(t) - 2, Len(t)) = Ellipsis

\* The characters that name bytes: the text without its "..." entry.
Body(t) ==
    IF ~ EndsInEllipsis(t) THEN t
    ELSE IF Len(t) = 3 THEN <<>>
    ELSE SubSeq(t, 1, Len(t) - 5)

PeekOf(t) ==
    LET b == Body(t)
    IN  [i \in 1..((Len(b) + 2) \div 10) |->
            Unbinary(SubSeq(b, 10 * (i - 1) + 1, 10 * (i - 1) + 8))]

\* Whenever the last pull failed, the error the consumer holds names the
\* state the parser is in and the bytes at its cursor: the first eight, or
\* all that are left, each in eight binary digits, followed by "..."
\* exactly when more bytes are left.  This rests on the failed reads of
\* parse_kind leaving self.bytes and self.state alone, on the {:08b}
\* padding, and on the min/len comparison of byte_stream_str at the end of
\* the buffer.
ErrorNamesCursor ==
    result = "Err" =>
        \E r \in report :
            /\ r.state = state
            /\ PeekOf(r.text) = SubSeq(bytes, 1, IF Len(bytes) < 8 THEN Len(bytes) ELSE 8)
            /\ EndsInEllipsis(r.text) <=> Len(bytes) > 8

\* The iterator is not fused: a pull after a failed pull runs parse_state
\* again on the same self.bytes in the same self.state, and changes
\* nothing, the error it returns included.  This rests on the failed reads
\* of parse_kind leaving the cursor alone and on the error being built from
\* self.state and self.bytes only; a consumer that keeps pulling after an
\* error gets the same error forever.
ErrorRepeats == [][result = "Err" => UNCHANGED rvars]_rvars


=============================================================================

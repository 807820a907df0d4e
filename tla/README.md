# Verification of the Yk PT packet parser

TLA+ models, TLC runs and TLAPS proofs for the Intel PT packet parser in
`src/src/decode/ykpt/packet_parser/` (`mod.rs` and `packets.rs`).

## 1. The system

The parser turns a trace buffer (a byte slice written by Intel PT) into a
lazy stream of packets. It is single-threaded and pull-based. It does no I/O
and has no suspension points, so what makes it hard is not concurrency but
bit-level framing, overlapping bit patterns, the order in which codecs are
tried, and the state carried from one packet to the next.

| Component | Source | State | Operations |
|---|---|---|---|
| Parser state machine | `mod.rs` 10-58 `PacketParserState` | `Init`, `Normal`, `PSBPlus` | `valid_packets` (admissible kinds, in match order), `transition` |
| Stream driver | `mod.rs` 60-195 `PacketParser` | `bytes` (cursor), `state`, `prev_tip` | `new`, `next` → `parse_packet` → `parse_state` → `parse_kind` |
| Packet codecs | `packets.rs` 123-290 (deku structs) | none (pure) | read the bytes at the cursor or mismatch |
| Target IP decompression | `packets.rs` 6-121 | none (pure) | `needs_prev_tip`, the `TargetIP` ids, `decompress` |
| Packet value surface | `packets.rs` 292-356 | the packet and its `prev_tip` snapshot | `kind`, `target_ip` |
| Error report | `mod.rs` 142-166 `parse_state`'s error, `byte_stream_str` | the last error the consumer holds | formats the state and a binary peek at the cursor into a `TraceParseError` |

How they interact. `next` returns `None` on an empty buffer. Otherwise
`parse_state` tries the codecs of `valid_packets(state)` in order. The first
codec that reads advances the cursor (`parse_kind`). IP packets take a snapshot
of `prev_tip` if their `IPBytes` needs it. `parse_state` sets the state to
`Normal` on PSBEND. `parse_packet` then calls `target_ip()`, which runs
`decompress` on the snapshot. If the result is `Some`, it becomes the new
`prev_tip`. Finally `transition` is applied. If no codec reads, the result is a
`TraceParseError`, and the parser is left unchanged.

What is hard here, with the property that covers each point (PROJECT.json
"hazards" lists each one at its source line):

* Codecs overlap. ShortTNT accepts any even byte except `0x02`, `0x00`
  included. So the match order decides what a `0x00` is (MatchOrderIrrelevant).
  That is the only overlap: OnlyPadShadowed says any two valid kinds that read
  the same bytes are ShortTNT (tried first) and PAD. Everywhere else the
  order is only a performance choice, as the comment on `valid_packets` says.
* A panic can hit after the cursor has moved. IPBytes `0b100` is accepted by the
  `TargetIP` ids, and `decompress` then hits `todo!()` (NoPanic,
  OnlyReservedPanics).
* Three tables must agree: the `TargetIP` ids, `needs_prev_tip` and the arms
  of `decompress`. If they do not, a trace reaches `unwrap()` on `None` or
  `unreachable!()` (OnlyReservedPanics).
* `prev_tip` is threaded through a snapshot. It must be updated by every
  IP-bearing kind (PrevTipIsLastIP).
* The PSB+ grammar is enforced only by the state machine, and a wrong
  transition shows up packets later (PacketGrammar).
* Framing at the end of the buffer: truncated packets, CYC extension bytes,
  and zero-length reads that would never end (PullConsumes).
* The error names bytes the parser has already tried and failed on, and near
  the end of the buffer it must show fewer than eight, or exactly eight with no
  "..." (ErrorNamesCursor).
* `next()` has no fuse: after an error, every later pull fails the same way.
  The caller must stop (ErrorRepeats).

The properties that make each component correct:

* State machine and driver: the stream starts with a PSB. Inside PSB+ only CBR
  and PSBEND appear, and outside it neither does. Errors do not move the
  cursor. Every yield consumes bytes, so the stream ends.
* Codecs: at most one admissible codec accepts given bytes. A codec consumes
  exactly its framed length and never reads past the buffer.
* Decompression: the arms reached are exactly those the ids admit. The result
  obeys the decompression laws of the spec.
* Driver and decompression together: `prev_tip` is the last `Some` IP.

## 2. Modules

### `PacketParser.tla` (the core)

The parser's state and its one operation, `next()`.

* The trace is a sequence of bytes (`0..255`). A `usize` is a `Word`: 8
  little-endian bytes. All masks in `decompress` are byte-aligned
  (`0xffff_ffff_ffff_0000`, `0xffff_ffff_0000_0000`, `0xffff_0000_0000_0000`),
  so decompression is a byte selection. Sign extension copies the top bit of
  byte 6 (bit 47) into bytes 7 and 8. This is what the code computes, and it
  avoids 64-bit integers, which TLC cannot represent.
* deku reads bits most significant first. For that reason `IPBytes` is
  `byte \div 32` and the opcode is `byte % 32`. ShortTNT's branches are
  `byte \div 2` and its magic bit is `byte % 2`. CYC's exp bit is bit 2, and
  its magic is the low two bits. Multi-byte fields are little-endian, as
  deku reads them on x86.
* `Matches(k, bs)` is "`<$packet>::read` succeeds", including running out of
  input. `Length(k, bs)` is the number of bytes read. Payloads the parser never
  interprets (CBR, MODE, TNT, CYC) are only framed.
* Options are sets (`{}` or `{v}`). The arms of `decompress` are the outcomes
  `None`, `Some`, `Todo`, `UnwrapNone` and `Unreachable`.
* Variables: `bytes`, `state` and `prev_tip` are the struct's fields. `yielded`
  is a ghost variable holding what the consumer has received (the kind and
  `target_ip()` of each packet). `result` is what the last call returned, or
  the panic it raised.
* Actions, one per outcome of `next()`:
  * `NextNone`: the buffer is empty.
  * `ParsePacket`: the first admissible codec reads. Its disjuncts are "yield"
    (cache the TIP, set Normal on PSBEND, then `transition`) and "panic"
    (cursor already advanced, nothing else changed).
  * `ParseError`: no admissible codec reads. Nothing changes.
* A panic ends the program, so a panicked state has no successor.

### `PacketStream.tla` (the abstract stream)

What the parser promises its consumer, from the contract of spec.md sections 4
to 7. It has no bytes, codecs or compression. The variables are:

* `mode`: the grammar position.
* `tip`: the cached TIP.
* `stream`: the packets emitted so far.
* `left`: how much input is left.
* `answer`: what the last pull returned.

A pull is one of four actions:

* `Emit`: a packet admissible in `mode`, with no IP or one IP, and only IP
  kinds carry one. It consumes input, its IP becomes `tip`, and a PSB or
  PSBEND moves `mode`.
* `Fail`: consumes nothing.
* `End`: only when nothing is left.
* `Panic`: the `todo!()` of an IP packet. It consumes input and ends the
  program.

`PacketParser` defines `Stream == INSTANCE PacketStream WITH mode <- state,
tip <- prev_tip, stream <- yielded, left <- Len(bytes), answer <- result`.
`StreamRefinement == Stream!Spec` is a property of the `parser` run. The
mapping is the identity on state, except `left`. So the refinement says that
the concrete bytes, codecs and decompression only ever produce what the
grammar allows. It also says that every yield and every panic shrinks the
buffer, and that an error never moves the cursor.

### `ErrorReport.tla` and `MC_ErrorReport.tla`

This module is the error return of `parse_state`. It EXTENDS `PacketParser`
and adds one variable, `report`: the last `TraceParseError` the consumer
holds, as an Option. The action `ReportParseError` is `ParseError` together
with the error's content: the parser's `state`, and the text of
`byte_stream_str(bytes, 8, ", ")`. The other actions leave `report` alone.

* The text is kept character by character, because the property is about
  what it says. `Binary08` is `{:08b}`: eight digits, most significant
  first. `Join` is `vals.join(sep)` for entries of equal width w, in closed
  form: position p lies in slot `(p-1) div (w + Len(sep)) + 1`, and is a
  character of that entry or of the separator. The `"..."` entry is joined
  after one more separator.
  `ByteStreamStr` shadows `nbytes` with `min(nbytes, len)` and appends
  `"..."` when `len > nbytes`, as the code does.
* The fixed wording ("In state ..., failed to parse packet:") is left out.
* `PeekOf` reads a text back by position: byte i takes characters
  `10(i-1)+1` to `10(i-1)+8`. It does not use how the text was built, so a
  wrong width, separator or ellipsis shows up as a different byte sequence.

Two properties:

* ErrorNamesCursor (invariant): whenever the last pull failed, the report
  names the parser's `state`, and its peek reads back as the bytes at the
  cursor, with `"..."` exactly when more than eight are left.
* ErrorRepeats (action property): once a pull has failed, every later step
  changes nothing, `report` included. `next()` has no fuse: with the cursor
  unchanged, the next pull runs `parse_state` on the same bytes in the same
  state and builds the same error.

`MC_ErrorReport` uses the buffers of `MC_PacketParser`. They fail in every
state, with fewer than eight bytes left, with exactly eight (a LongTNT, or
PSB, the reserved TIP header, CBR, MODE and PAD), and with more.

### `DecompressLaws.tla`, `Decompression.tla` and `MC_Decompression.tla`

`PacketParser` models `decompress` as a byte selection. That is only right if
the code's `u64` arithmetic computes the same thing, so the arithmetic gets a
module of its own.

* `DecompressLaws` states the decompression laws of spec.md section 4.2 on
  plain integers, for a word of `W` bits whose fields have `W/4`, `W/2` and
  `3W/4` bits:
  * `KeepHigh(m, p, v)` keeps the part of `p` at and above `m` and puts `v`
    below it (IPBytes `001` and `010`);
  * `SignExtend48` adds `ones16 * low48` (the top `W/4` bits all ones) when
    bit `3W/4 - 1` of `v` is set (`011`);
  * `110` returns `v`, and `000` returns nothing.
* `Decompression` is one call of `decompress`, written from the code:
  * `prev_tip & mask | v` for `001` and `010`, with `Bitwise`'s `&` and `|`;
  * for `011`, `b47 = (v & (1 << 47)) >> 47`, then
    `all = wrapping_sub(!b47 & 1, 1)` (`!` is `WordMax - x`, `wrapping_sub`
    is `% 2^W`), then `all & 0xffff000000000000 | v`;
  * `todo!()` for `100`.

  The masks are scaled with the word: `Mask16 = 2^W - 2^(W/4)` and so on, and
  bit 47 becomes bit `3W/4 - 1`. Init enumerates what the call can receive:
  every IPBytes value deku accepts, every field value of the width that
  variant reads, and every `prev_tip` when `needs_prev_tip` holds (otherwise
  `None`, since `parse_packet` passes a snapshot only then).
* `MC_Decompression` sets `W = 8`: 2-, 4- and 6-bit fields on an 8-bit word,
  with all 256 previous TIPs. The mask, OR, `!`, shift and wrapping
  subtraction treat every bit position alike. Any error in how they combine
  therefore shows on the smallest word that has all three field widths and a
  sign bit with bits above it. TLC cannot represent `2^64`. The 64-bit word
  is covered by the proof below, on the byte model.

### `MC_PacketParser.tla` and the cfgs

`Inputs` is a set of buffers. It holds the empty buffer, each fragment alone,
and a PSB followed by any four fragments. That is 130,341 buffers. The 19
fragments are:

* a whole packet of every kind: PSB, PSBEND, CBR, PAD, MODE, ShortTNT, LongTNT,
  and CYC with `exp` = 0 and with `exp` = 1 and two extension bytes;
* TIP-family packets with each `IPBytes` the ids accept: `000`, `001`, `010`,
  `011` with bit 47 set, `110`, and `100`;
* a TIP header with the reserved `101`;
* a lone `0x02`;
* two packets cut short: a CYC with `exp` = 1 whose one extension byte is
  odd (`07 03`), and a TIP with `IPBytes` `001` one IP byte short
  (`2d cc`). At the end of a buffer no codec reads them, and the CYC's
  extension bytes run to the end. Before another fragment they are read
  across the border.

Concatenating fragments also produces truncated packets at the end of a
buffer, bytes read across fragment borders (a reserved header followed by
anything), a second PSB in the Normal state, CBRs in Normal, and every pair of
IP compressions in a row. Four fragments after the PSB are enough for
PSB PSBEND TIP64 TIP16 (compression against a cached IP) and for
PSB PSBEND PSB CBR PSBEND (re-entering PSB+). The parser is deterministic, so
the number of states is about the number of buffers times the number of
packets per buffer.

### Termination (`MC_PacketParser_Termination.cfg`)

The consumer's loop is not in this crate. Spec.md section 6 describes it as a
`for` loop over the iterator that stops at the first `None` or error. It is
modelled in `PacketParser` as `Pull`, a step of `Next` taken while the last
pull returned nothing yet or `Ok`. `Consumer` is `Spec /\ WF_vars(Pull)`.
Weak fairness is the only fairness the code justifies: the loop is
single-threaded and, while it has not stopped, nothing else can keep it from
pulling again. Terminates says the result is eventually `End`, `Err` or a
panic.

The cfg uses `MCInputsShort`: the empty buffer, each fragment, and a PSB
followed by three fragments. That is enough for every compression after a
cached TIP, and it keeps the liveness check fast. The `VIEW ParserView`
leaves out the `yielded` history. This is sound because no action reads
`yielded`, so two states that differ only in it have the same futures. It is
needed because with a zero-length packet the history grows without bound, and
TLC would never close the cycle the mutant creates.

TLAPS cannot prove liveness, so Terminates is only model-checked. Its safety
core, that every `Ok` consumes at least one byte (PullConsumes), is proved by
`CursorAdvances` for every buffer.

## 3. Runs

| Run | cfg | Expect | What it shows |
|---|---|---|---|
| `parser` | `MC_PacketParser.cfg` | pass (412,119 states, ~45 s) | TypeOK, PacketGrammar, StateReflectsHistory, PrevTipIsLastIP, OnlyReservedPanics, OnlyPadShadowed, PullConsumes hold on every buffer, and the parser refines PacketStream (StreamRefinement) |
| `error_report` | `MC_ErrorReport.cfg` | pass (412,119 states, ~80 s) | ErrorNamesCursor: after a failed pull, the error names the parser's state and, read back, the first eight (or all remaining) bytes at the cursor, with `...` exactly when more are left. ErrorRepeats: a pull after a failed pull changes nothing, the error included |
| `decompression` | `MC_Decompression.cfg` | pass (43,650 states, ~5 s) | MeetsLaws: the code's masks, OR and `b47`/`wrapping_sub` sign extension compute the decompression laws for every field value and every previous TIP |
| `match_order` | `MC_PacketParser_MatchOrderIrrelevant.cfg` | violation | PSB PSBEND `00`: in Normal both ShortTNT and PAD accept `0x00`. ShortTNT comes first, so PAD is never yielded |
| `no_panic` | `MC_PacketParser_NoPanic.cfg` | violation | PSB PSBEND then a TIP with IPBytes `100`: `next()` panics in `todo!()` after consuming the packet |
| `termination` | `MC_PacketParser_Termination.cfg` | pass (21,234 states, ~14 s) | Terminates: a consumer that keeps pulling while `next()` yields `Some(Ok)` reaches `None`, an error or the panic on every buffer |

Deadlock is not checked because a panic ends the program (and, in
`termination`, because the consumer's loop stops), and in
`decompression` because one call of `decompress` returns once. The other final
states, after `None` or an error, are self-loops, just as the iterator keeps
returning the same value.

Each property of the passing run has a mutant of the code that TLC catches
(PROJECT.json "mutants"):

* TypeOK: the sign-extension fill writes `0xffff` into each byte.
* PacketGrammar: PSB in Normal does not re-enter PSB+.
* StateReflectsHistory: the first PSB moves `Init` straight to `Normal`.
* StreamRefinement: a parse error skips the byte it could not read, which
  moves the cursor where the contract says it must stay.
* PrevTipIsLastIP: only TIP packets update `prev_tip`.
* OnlyPadShadowed: ShortTNT drops its assertion on `branches`
  (`ShortTNTMatchNoStopCheck`). The lone stop bit `0x02` that starts a
  LongTNT or a PSB then also reads as a ShortTNT.
* OnlyReservedPanics: `needs_prev_tip` forgets `0b010`, so
  `prev_tip.unwrap()` runs on `None`.
* PullConsumes: an IP packet's length leaves out its header byte. An
  out-of-context TIP.PGD then consumes nothing.
* ErrorNamesCursor: `...` is appended when `len >= nbytes`
  (`ByteStreamStrEllipsisAtN`). It is then shown when exactly eight bytes
  are left.
* ErrorRepeats: a parse error skips the byte it could not read
  (`ParseErrorSkipsByte`). The next pull then reads elsewhere.
* Terminates: the same header-less IP length. The consumer then pulls the
  same out-of-context TIP.PGD forever, a cycle TLC reports as a lasso.
* MeetsLaws: the `!` of `!b47` is dropped (`SignFillNoNot`). Then IPs with
  bit 47 clear get ones above it, and IPs with bit 47 set do not.

Findings:

1. PAD is shadowed by ShortTNT (`packets.rs:191`). The ShortTNT assertion
   rejects only `branches == 1`, not `branches == 0`.
2. IPBytes `0b100` panics (`packets.rs:106`) instead of producing a
   `TraceParseError`. By the time it panics, the packet has been consumed.

## 4. Proofs (`PacketParserProofs.tla`, `PacketStreamRefinement.tla`, `DecompressionProofs.tla`, `ErrorReportProofs.tla`, `MatchOrderProofs.tla`)

They hold for every `Inputs` that satisfies `InputsAssumption`
(`Inputs \subseteq Seq(Byte)`). They rest on no other assumption.

* `TypeCorrect`: `Spec => []TypeOK`. TypeOK is inductive as it stands. The
  argument rests on four lemmas:
  * `LengthBound`: a codec that reads consumes between 1 and `Len(bs)` bytes.
  * `RemainType`: dropping n bytes leaves a byte buffer.
  * `RawIPType`: the TargetIP field has the width its IPBytes says.
  * `DecompressType`: a `Some` decompression is a `Word`. For `001`/`010` the
    `Some` arm is reached only with a snapshot, and for `011` the fill is a
    byte.
* `PrevTipThreading`: `Spec => []PrevTipIsLastIP`. PrevTipIsLastIP is
  inductive given TypeOK. A yield with a `Some` IP makes the new packet the
  witness, because `CacheTip` and `TargetIP` compute the same value. A yield
  with `None` keeps the old witness, or keeps the "no IP yet, `prev_tip` = 0"
  case.
* `GrammarCorrect`: `Spec => []PacketGrammar`. PacketGrammar alone is not
  inductive, because it says nothing about `state`, and `state` decides which
  kinds can come next. The strengthening is
  `GrammarInv == PacketGrammar /\ StateReflectsHistory`:
  `state` is `Init` iff nothing has been yielded, and `PSBPlus` iff the last
  PSB has not yet been closed by a PSBEND (`InPSBPlus(yielded, Len(yielded)+1)`).
  TLC checks StateReflectsHistory in the `parser` run. The argument:
  * `AdmissibleKinds`: `valid_packets` admits only PSB in `Init`, no CBR or
    PSBEND in `Normal`, and only those two in `PSBPlus`.
  * `InPSBPlusAppend`: appending a packet leaves the PSB+ membership of the
    earlier ones unchanged. The next position is in PSB+ iff the new packet is
    a PSB, or PSB+ was open and the packet is not its PSBEND.
  * So the new packet is a CBR or a PSBEND iff PSB+ was open. The state after
    the early set and `transition` is the tracker of the new history.

  The proof uses `TypeCorrect` for the shape of `yielded`. The induction
  is stated as `GrammarInvariant: Spec => []GrammarInv`. `GrammarCorrect`
  and `StateTracksHistory` (`Spec => []StateReflectsHistory`) each take
  one conjunct of it.
* `PanicsOnlyReserved`: `Spec => []OnlyReservedPanics`. This is inductive as
  it stands. `OutcomeNotDead` shows that a codec that reads has an `IPBytes` in
  `{0,1,2,3,4,6}`, and that `Snapshot` holds `prev_tip` for `001` and `010`.
* `CursorAdvances`: `Spec => PullConsumes`, an action property. It follows
  from `TypeCorrect` and `LengthBound`.

* `Refinement` (in `PacketStreamRefinement.tla`): `Spec => StreamRefinement`.
  The initial state maps to `Stream!Init`. Under TypeOK, each step maps to a
  step of the abstract spec or to a stutter:
  * `NextNone` maps to `End`, and `ParseError` maps to `Fail`.
  * A yield maps to `Emit`. `YieldedPacketAdmissible` shows the packet is
    admissible and its IP is an option. `TransitionIsModeAfter` shows that the
    early set on PSBEND followed by `transition` is the grammar's mode
    change. `CacheTipIsEmittedIP` shows that the cached TIP is the emitted IP.
    `LengthBound` with `RemainType` shows that `left` shrinks.
  * A panic maps to `Panic`. `OutcomeNotDead` shows it is the `todo!()`.

* `DecompressMeetsLaws` (in `DecompressionProofs.tla`): for IPBytes `001`,
  `010`, `011` and `110`, and for every field and every previous TIP, the
  value (`Value`, the 8 little-endian bytes read as a number) of the word
  `Decompress` builds is the one `LawDecompress(G64, ...)` gives. `G64` is
  `Geometry(64)` written out. The argument is a case per IPBytes value:
  * `KeepHigh16Word` and `KeepHigh32Word` split `Value(tip)` as
    `a + m * q`, with `a < m`. Division by `m` then gives `q`, so keeping the
    high part and adding the field is the word that has the field's bytes
    below `m` and the TIP's bytes above it.
  * `SignExtendField` shows that bit 47 is set iff byte 6 is at least 128.
    It then shows that bytes 7 and 8 filled with 255 add `65535 * 2^48`.
  * `110` is the identity.

  So `DecompressionProofs` and the `decompression` run together connect the
  code's arithmetic to the byte model. The run shows that the code's `u64`
  arithmetic computes the laws (on a scaled word). The theorem shows that the
  byte model computes the laws on the real 64-bit word.

  In the proof, no integer literal reaches `2^62` (the prover's native integer
  range). That is why the laws write the sign extension as
  `ones16 * low48 + v`, not `2^64 - 2^48 + v`.

* `ErrorReportCorrect` (in `ErrorReportProofs.tla`):
  `RSpec => []ErrorNamesCursor`. `RSpecImpliesSpec` shows that every
  behaviour of `ErrorReport` is one of `PacketParser`, so `TypeCorrect` gives
  `bytes \in Seq(Byte)`. The inductive invariant is
  `TypeOK /\ ErrorNamesCursor`. Only `ReportParseError` can make `result`
  `"Err"`, and it leaves `bytes` and `state` alone. So the invariant comes down
  to `PeekReadsBack`: for every non-empty byte buffer, `PeekOf` of
  `ByteStreamStr(bs, 8, ", ")` is `SubSeq(bs, 1, min(8, Len(bs)))`, and the
  text ends in `"..."` iff `Len(bs) > 8`. The lemmas it uses:
  * `UnbinaryBinary08`: the eight digits of `{:08b}` read back as the byte.
  * `JoinStride` and `DigitsSlots`: with ", " the stride is ten. Slot i holds
    the digits of byte i at `10(i-1)+1 .. 10(i-1)+8`, and every character is
    one of `Chars`.
  * `SlotReadsBack` and `DigitsReadBack`: each slot reads back as its byte.
  * `EllipsisEntry`: digits followed by ", ..." end in "...", and have the
    digits as their body.
  * `NoEllipsisEntry`: digits that end in a digit do not end in "...".
  * The case split is the `min`/`len` comparison of `byte_stream_str`:
    `Len(bs) > N8(bs)` iff `Len(bs) > 8`.

  This is why `Join` is written in closed form rather than with `FlattenSeq`.
  A fold needs induction over the sequence, and the provers cannot
  instantiate the library's induction theorems.
* `RepeatedError` (in `ErrorReportProofs.tla`): `RSpec => ErrorRepeats`. It
  rests on the inductive invariant `ErrorStable`, which TLC also checks on the
  `error_report` instance. After an error, the cursor is not empty, no valid
  kind of `state` reads at it, and `report` is the error built from it. Then
  `NextNone` is disabled by the non-empty cursor. `ParsePacket` is disabled
  because `FirstMatch` needs a kind that reads. `ReportParseError` changes
  nothing.

* `ReportingRefinement` (in `ErrorReportProofs.tla`): `RSpec =>
  StreamRefinement`. The reporting parser implements `PacketStream` too. This
  composes `RSpecImpliesSpec` (every `ReportParseError` step is a
  `ParseError` step of the plain parser) with `Refinement`.
* `MatchOrderOnlyPad` (in `MatchOrderProofs.tla`): `Spec => []OnlyPadShadowed`.
  OnlyPadShadowed is not inductive by itself, but it follows from TypeOK
  alone, for every buffer and every state:
  * `MatchHeader`: a codec that reads has seen its header. That is the magic
    bytes for PSB, CBR, PSBEND, LongTNT, PAD and MODE
    (`MagicPrefix`/`MagicTwoBytes` read them out of the `SubSeq` of the
    magic), the opcode in the low five bits for the IP packets, an even byte
    other than `0x02` for ShortTNT, and `0b11` in the low two bits for CYC.
  * `DisjointHeaders`: two different kinds have compatible headers only for
    {ShortTNT, PAD}. The IP opcodes are all 1 modulo 4 (`OpcodeFacts`),
    so they rule out ShortTNT, CYC, PAD, MODE and the `0x02` magics.
    The `0x02` magics differ in their second byte.
  * `ValidOrder`: `valid_packets` lists each kind once per state, and in
    Normal ShortTNT comes before PAD.

Only TLC checks these:

* Liveness and anything involving ENABLED, which are beyond TLAPS.
* What a recursive definition computes for every input.
* The two violated properties (MatchOrderIrrelevant, NoPanic). They are
  findings, not theorems.

Modules with theorems use no RECURSIVE operator.

## 5. Not modelled

* The fixed wording of the `TraceParseError` message. No property is about
  it. Its state and byte peek are modelled in `ErrorReport`.
* The deku/bitvec runtime. It appears only as "a read succeeds and consumes n
  bytes". `BitSlice::from_slice(..).ok()?` fails only for buffers over
  `usize::MAX / 8` bytes, so it is left out.
* Host endianness is fixed to little-endian, the only byte order Intel PT
  hosts have.
* The tests. Their decompression laws are stated in `DecompressLaws`.

## 6. Plan

Done: `PacketParser` (all of `mod.rs` and `packets.rs`), the `parser` run and
two violation runs. Each property of the passing run is proved, by `TypeCorrect`,
`PrevTipThreading`, `GrammarCorrect`, `StateTracksHistory`,
`PanicsOnlyReserved`, `CursorAdvances` `Refinement` and `MatchOrderOnlyPad`.

Also done: `Decompression` with the `decompression` run, and the theorem
`DecompressMeetsLaws`; the `termination` run; `ErrorReport` with the
`error_report` run, and the theorems `ErrorReportCorrect` and
`RepeatedError` for its two properties; `ReportingRefinement` for the
reporting parser; `MatchOrderOnlyPad` for OnlyPadShadowed.

Only model-checked, and why:

* MeetsLaws: `Decompression` uses `Bitwise`, which no proof module may reach.
  `DecompressMeetsLaws` proves the same laws for the byte model instead.
* Terminates: it is a liveness property. Its safety core, PullConsumes, is
  proved.

Next: a refinement of `Decompression` by the byte model of `PacketParser`,
proved as far as the provers allow without `Bitwise`.

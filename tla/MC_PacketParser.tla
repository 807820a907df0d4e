--------------------------- MODULE MC_PacketParser ---------------------------
(***************************************************************************)
(* Model-checking instance of PacketParser.  A trace buffer is a PSB       *)
(* followed by four fragments, or a single fragment alone.  The fragments *)
(* are whole packets of every kind the parser knows, with IPBytes values   *)
(* of every compression, plus a lone 0x02 and a TIP with the reserved      *)
(* IPBytes 0b101, a CYC and a TIP cut short, so that concatenations also  *)
(* produce truncated packets at the end of the buffer,                     *)
(* packets read across fragment borders and buffers no codec accepts.      *)
(***************************************************************************)
EXTENDS PacketParser

PSBBytes == Magic.PSB

Fragments ==
    { PSBBytes,                       \* PSB
      <<2, 35>>,                      \* PSBEND
      <<2, 3, 31, 0>>,                \* CBR
      <<0>>,                          \* PAD
      <<153, 0>>,                     \* MODE
      <<10>>,                         \* ShortTNT
      <<2, 163, 5, 0, 0, 0, 0, 0>>,   \* LongTNT
      <<3>>,                          \* CYC, exp = 0
      <<7, 3, 2>>,                    \* CYC, exp = 1, two extended bytes
      <<7, 3>>,                       \* CYC, exp = 1, no even byte to end it
      <<1>>,                          \* TIP.PGD, IPBytes 0b000
      <<45, 204, 204>>,               \* TIP, IPBytes 0b001
      <<45, 204>>,                    \* TIP, IPBytes 0b001, one IP byte short
      <<93, 187, 187, 187, 187>>,     \* FUP, IPBytes 0b010
      <<113, 1, 2, 3, 4, 5, 136>>,    \* TIP.PGE, IPBytes 0b011, bit 47 set
      <<205, 1, 2, 3, 4, 5, 6, 7, 8>>,\* TIP, IPBytes 0b110
      <<141, 1, 2, 3, 4, 5, 6>>,      \* TIP, IPBytes 0b100
      <<173>>,                        \* TIP header, reserved IPBytes 0b101
      <<2>> }                         \* a lone 0x02

MCInputs ==
    {<<>>} \cup Fragments \cup
    {PSBBytes \o a \o b \o c \o d : a, b, c, d \in Fragments}

\* The buffers of the termination run: a PSB and three fragments reach
\* every packet in Normal after PSB+ and then two more.
MCInputsShort ==
    {<<>>} \cup Fragments \cup
    {PSBBytes \o a \o b \o c : a, b, c \in Fragments}

\* The parser's own state, without the ghost history of yielded packets:
\* what the next pull depends on.
ParserView == <<bytes, state, prev_tip, result>>

=============================================================================

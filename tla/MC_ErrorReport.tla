---------------------------- MODULE MC_ErrorReport ----------------------------
(***************************************************************************)
(* Model-checking instance of ErrorReport over the buffers of              *)
(* MC_PacketParser: errors in every state, with fewer than eight, exactly  *)
(* eight (PSB, the reserved TIP header, CBR, MODE, PAD) and more than      *)
(* eight bytes left at the cursor.                                         *)
(***************************************************************************)
EXTENDS ErrorReport, MC_PacketParser

=============================================================================

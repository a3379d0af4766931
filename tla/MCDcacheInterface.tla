------------------------- MODULE MCDcacheInterface -------------------------
(***************************************************************************)
(* DcacheInterface on five tags: enough for a tag to be waited for while   *)
(* two others are answered and a third is sent, and for the counter to     *)
(* count several operations. The counter has eight states, as 2^8 is more  *)
(* than the 128 tags of the code.                                          *)
(***************************************************************************)
EXTENDS DcacheInterface

MCTids == 1 .. 5
MCInstrTypes == {"SD", "LD", "CMO_PREFETCH_R"}
MCPrefetches == {"CMO_PREFETCH_R"}
=============================================================================

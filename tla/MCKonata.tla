----------------------------- MODULE MCKonata -----------------------------
(***************************************************************************)
(* Konata with four instructions, so that a flush meets two in the queue   *)
(* and one on its way there, two units that write back in any order, and   *)
(* cycles that are not logged, one at a time.                              *)
(***************************************************************************)
EXTENDS Konata
=============================================================================

----------------------------- MODULE MCAxiTimer -----------------------------
(***************************************************************************)
(* AxiTimer with registers of one bit: time carries and wraps around, and  *)
(* passes every value of timecmp from below and by being written. The      *)
(* master reads one register that ticks and one address that is no         *)
(* register.                                                               *)
(***************************************************************************)
EXTENDS AxiTimer

MCWrites == Timer
MCReads == {"time_l", "other"}
=============================================================================

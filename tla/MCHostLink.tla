---------------------------- MODULE MCHostLink ----------------------------
(***************************************************************************)
(* HostLink with channels of two entries and two system calls.             *)
(***************************************************************************)
EXTENDS HostLink
=============================================================================

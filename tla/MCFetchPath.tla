---------------------------- MODULE MCFetchPath ----------------------------
(***************************************************************************)
(* FetchPath on four lines that are not line 0: two non-cached ones of a   *)
(* mapped section, so that the buffer holds one while the other is fetched *)
(* or killed, one non-cached line outside the mapped sections, and a       *)
(* cached one.                                                             *)
(***************************************************************************)
EXTENDS FetchPath

MCNcLines == {"n1", "n2", "unmapped"}
MCMappedLines == {"n1", "n2", "c1"}
MCLines == MCNcLines \cup MCMappedLines

=============================================================================

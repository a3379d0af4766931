----------------------------- MODULE MCSimFetch -----------------------------
(***************************************************************************)
(* SimFetch on two lines of the boot ROM, one of the program buffer and a  *)
(* cached one, with a shortened delay of the instruction channel: the      *)
(* channel is busy for long enough that every other responder can be asked *)
(* and answer meanwhile.                                                   *)
(***************************************************************************)
EXTENDS SimFetch

MCBromLines == {"b1", "b2"}
MCProgLines == {"p1"}
MCNcLines == MCBromLines \cup MCProgLines
MCLines == MCNcLines \cup {"c1"}

=============================================================================

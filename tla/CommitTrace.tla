---------------------------- MODULE CommitTrace ----------------------------
(***************************************************************************)
(* What the reader of a commit log is promised: for each instruction that  *)
(* was committed, in order, the lines that show what this instruction did, *)
(* and nothing that another one did.                                       *)
(*                                                                         *)
(* trace holds the lines of the instructions of one clock cycle; it starts *)
(* again with the next cycle, so that the state is finite.                 *)
(***************************************************************************)
EXTENDS Naturals, Sequences

CONSTANTS
  Commits,       \* committed instructions
  LinesFor(_)    \* the lines that show an instruction

VARIABLES pending, trace

trace_vars == <<pending, trace>>

Init == pending = <<>> /\ trace = <<>>

Cycle ==
  /\ pending = <<>>
  /\ Len(pending') \in 1 .. 2 /\ \A i \in DOMAIN pending' : pending'[i] \in Commits
  /\ trace' = <<>>

Show ==
  /\ pending # <<>>
  /\ trace' = trace \o LinesFor(Head(pending))
  /\ pending' = Tail(pending)

Next == Cycle \/ Show

Spec == Init /\ [][Next]_trace_vars
=============================================================================

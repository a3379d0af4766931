---------------------------- MODULE HostService ----------------------------
(***************************************************************************)
(* What a simulated program is promised by the host: a system call that it *)
(* hands over is executed exactly once, with the arguments of that call,   *)
(* before it returns.                                                      *)
(***************************************************************************)
EXTENDS Sequences

CONSTANTS
  Calls,   \* system calls, told apart by their arguments
  NoCall   \* no call is open

VARIABLES
  call,     \* the call that was handed over and has not returned
  printed   \* what the host has written for it

host_vars == <<call, printed>>

Init == call = NoCall /\ printed = <<>>

HandOver(c) == call = NoCall /\ call' = c /\ printed' = printed

Execute == call # NoCall /\ printed = <<>> /\ printed' = <<call>> /\ call' = call

Return == printed # <<>> /\ call' = NoCall /\ printed' = <<>>

Next == (\E c \in Calls : HandOver(c)) \/ Execute \/ Return

Spec == Init /\ [][Next]_host_vars
=============================================================================

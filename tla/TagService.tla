----------------------------- MODULE TagService -----------------------------
(***************************************************************************)
(* What the core is promised by its path to the data cache: a tag names at *)
(* most one memory operation at a time, an operation that was begun is     *)
(* ended exactly once, and every operation that was begun is ended.        *)
(*                                                                         *)
(* A clock cycle of the hardware may begin one operation and end another,  *)
(* so one step of this specification may do both.                          *)
(***************************************************************************)
EXTENDS Naturals

CONSTANTS
  Tids,   \* the transaction tags
  NoTid   \* "no tag": nothing begins, or nothing ends, in this step

VARIABLE open  \* open[t] is the number of operations named t not ended yet

Init == open = [t \in Tids |-> 0]

(* The operation b begins (its tag is free) and the operation e ends (it   *)
(* was open before the step); NoTid stands for none.                       *)
Step(b, e) ==
  /\ b # NoTid => open[b] = 0
  /\ e # NoTid => open[e] = 1
  /\ open' = [t \in Tids |-> IF t = b THEN 1 ELSE IF t = e THEN 0 ELSE open[t]]

(* A reset forgets every operation.                                        *)
Reset == open' = [t \in Tids |-> 0]

Next ==
  \/ \E b, e \in Tids \cup {NoTid} : Step(b, e)
  \/ Reset

(* The operation t, open now, is ended by a response or forgotten.         *)
Ends(t) ==
  /\ open[t] = 1
  /\ Reset \/ \E b \in Tids \cup {NoTid} : Step(b, t)

Fairness == \A t \in Tids : WF_open(Ends(t))

Spec == Init /\ [][Next]_open /\ Fairness
=============================================================================

---------------------------- MODULE MCCheckpoint ----------------------------
(***************************************************************************)
(* Checkpoint with room for six checkpoints in one simulation, so that a   *)
(* simulation can be stopped and resumed before and after each file has    *)
(* been written once and again, with the program it began with or with     *)
(* another.                                                                *)
(***************************************************************************)
EXTENDS Checkpoint

MCPrograms ==
  {[words |-> 1 :> 5, symbols |-> 7 :> 1],
   [words |-> 2 :> 5 @@ 3 :> 6, symbols |-> 7 :> 2 @@ 8 :> 3]}
MCStores == {4 :> 5}
=============================================================================

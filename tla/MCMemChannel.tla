---------------------------- MODULE MCMemChannel ----------------------------
(***************************************************************************)
(* MemChannel with two slots and entries due after two cycles: the FIFO    *)
(* fills, wraps around and is written in the cycle in which it is read.    *)
(***************************************************************************)
EXTENDS MemChannel

MCTags == {"t1", "t2"}
MCOps == [tag : MCTags, cmd : Cmds]
=============================================================================

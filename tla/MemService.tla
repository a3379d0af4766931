----------------------------- MODULE MemService -----------------------------
(***************************************************************************)
(* What a requester is promised by a channel of the simulated memory: the  *)
(* operations it handed over are performed one by one, in the order in     *)
(* which they were accepted, and each is answered once, with the result of *)
(* performing it at its turn.                                              *)
(*                                                                         *)
(* One memory location stands for the memory: a write stores its tag, an   *)
(* atomic operation does so and returns the old content, a read returns    *)
(* the content.                                                            *)
(***************************************************************************)
EXTENDS Naturals, Sequences

CONSTANTS
  Capacity,  \* operations accepted and not performed, at most
  Ops,       \* operations: [tag, cmd]
  NoOp,      \* nothing accepted in this step
  NoRsp,     \* no response is being offered
  Zero       \* the data of a response without data

VARIABLES
  queue,  \* accepted operations, oldest first
  mem,    \* the content of the memory
  rsp     \* the response on offer: [tag, data, atomic], or NoRsp

service_vars == <<queue, mem, rsp>>

Init == queue = <<>> /\ rsp = NoRsp

Result(op) == [tag    |-> op.tag,
               data   |-> IF op.cmd \in {"read", "atomic"} THEN mem ELSE Zero,
               atomic |-> op.cmd = "atomic"]

(* An operation, if any, joins the queue.                                  *)
Joins(q, op) == IF op = NoOp THEN q ELSE Append(q, op)

(* The oldest operation is performed and its response offered.             *)
Perform(op) ==
  /\ rsp = NoRsp
  /\ queue # <<>>
  /\ rsp' = Result(Head(queue))
  /\ mem' = IF Head(queue).cmd \in {"write", "atomic"} THEN Head(queue).tag ELSE mem
  /\ queue' = Joins(Tail(queue), op)

(* The response is taken.                                                  *)
Deliver(op) ==
  /\ rsp # NoRsp
  /\ rsp' = NoRsp
  /\ mem' = mem
  /\ queue' = Joins(queue, op)

(* An operation is accepted and nothing else happens.                      *)
Accept(op) ==
  /\ queue' = Joins(queue, op)
  /\ UNCHANGED <<mem, rsp>>

Reset == queue' = <<>> /\ rsp' = NoRsp /\ mem' = mem

Next ==
  \/ \E op \in Ops \cup {NoOp} :
       /\ op # NoOp => Len(queue) < Capacity
       /\ Perform(op) \/ Deliver(op) \/ Accept(op)
  \/ Reset

Spec == Init /\ [][Next]_service_vars
=============================================================================

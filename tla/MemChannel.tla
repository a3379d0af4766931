----------------------------- MODULE MemChannel -----------------------------
(***************************************************************************)
(* Module mem_channel of simulator/models/hdl/l2_behav.sv: one request     *)
(* channel of the simulated L2. Requests wait in a circular FIFO until     *)
(* they are DELAY cycles old, are performed one at a time on the memory    *)
(* behind the DPI, and the response is held until the requester takes it.  *)
(*                                                                         *)
(* One ClockEdge step is one rising edge of clk_i. The 64-bit time stamp   *)
(* of an entry and the 64-bit cycle counter are replaced by the age of the *)
(* entry, which stops growing at DELAY. The memory is one location, as in  *)
(* MemService; a write or an atomic operation stores its tag there.        *)
(***************************************************************************)
EXTENDS Integers, Sequences

CONSTANTS
  SIZE,     \* entries of the FIFO: 16
  DELAY,    \* cycles an entry waits: 20
  Tags,     \* transaction identifiers
  Ops,      \* requests: records with a tag and a cmd, and what else the user needs
  Zero,     \* the value zero of next_tag and next_data, and of the memory
  NoEntry,  \* a slot of the FIFO that was never written
  NoReq,    \* req_valid_i is low
  NoRsp     \* rsp_valid_o is low

Cmds == {"read", "write", "atomic", "tohost"}
Entries == [op : Ops, age : 0 .. DELAY]

(* SIZE is a power of two in every instance, so that the pointers of       *)
(* $clog2(SIZE) bits wrap around at SIZE.                                  *)
ASSUME MemChannelAssumption ==
  /\ SIZE \in Nat \ {0}
  /\ DELAY \in Nat \ {0}
  /\ \A op \in Ops : op.tag \in Tags /\ op.cmd \in Cmds
  /\ NoEntry \notin Entries
  /\ NoReq \notin Ops

(* Zero and the absence of a response are told from the others.            *)
ASSUME ResponseAssumption ==
  /\ NoRsp \notin [tag : Tags \cup {Zero}, data : Tags \cup {Zero}, atomic : BOOLEAN]
  /\ Zero \notin Tags

VARIABLES
  memory,       \* the FIFO: [0..SIZE-1 -> Entries \cup {NoEntry}]
  write_ptr,
  read_ptr,
  count,        \* $clog2(SIZE)+1 bits
  state,        \* S_WAIT_DELAY, S_MEM_INTERFACE, S_WAIT_READY
  next_tag, next_data, next_atomic,  \* the response registers
  dpi_mem       \* the memory behind the DPI

fifo_vars == <<memory, write_ptr, read_ptr, count>>
vars == <<fifo_vars, state, next_tag, next_data, next_atomic, dpi_mem>>

-----------------------------------------------------------------------------
(* Mutated forms of the definitions below, used to show that the           *)
(* properties can fail.                                                    *)

full_one_late == count = SIZE + 1
pop_after_delivery == state = "S_WAIT_READY"
state_ignores_empty(rsp_ready_i) ==
  CASE state = "S_WAIT_DELAY" -> "S_MEM_INTERFACE"
    [] state = "S_MEM_INTERFACE" -> "S_WAIT_READY"
    [] state = "S_WAIT_READY" -> IF rsp_ready_i THEN "S_WAIT_DELAY" ELSE "S_WAIT_READY"
head_is_newest == memory[(write_ptr + SIZE - 1) % SIZE]

-----------------------------------------------------------------------------
(* Combinational signals.                                                  *)

empty == count = 0
full == count = SIZE
head == memory[read_ptr]
fifo_write(req) == req # NoReq /\ ~full
fifo_read == state = "S_MEM_INTERFACE"
req_ready_o == ~full
rsp_valid_o == state = "S_WAIT_READY"

(* The count after an edge; a read decrements it even if it is zero.       *)
count_next(write, read) ==
  IF write = read THEN count ELSE IF write THEN count + 1 ELSE count - 1

state_next(rsp_ready_i) ==
  CASE state = "S_WAIT_DELAY" ->
         IF ~empty /\ head.age >= DELAY THEN "S_MEM_INTERFACE" ELSE "S_WAIT_DELAY"
    [] state = "S_MEM_INTERFACE" -> "S_WAIT_READY"
    [] state = "S_WAIT_READY" -> IF rsp_ready_i THEN "S_WAIT_DELAY" ELSE "S_WAIT_READY"

(* An entry after one more cycle.                                          *)
Older(e) == IF e = NoEntry \/ e.age = DELAY THEN e ELSE [e EXCEPT !.age = @ + 1]

-----------------------------------------------------------------------------
(* The slots after an edge, with the request of this cycle.                *)
slots_next(req) ==
  [i \in 0 .. SIZE - 1 |->
     IF fifo_write(req) /\ i = write_ptr THEN [op |-> req, age |-> 1]
     ELSE Older(memory[i])]

(* The FIFO at an edge.                                                    *)
FifoEdge(req) ==
  /\ memory' = slots_next(req)
  /\ write_ptr' = IF fifo_write(req) THEN (write_ptr + 1) % SIZE ELSE write_ptr
  /\ read_ptr' = IF fifo_read /\ ~empty THEN (read_ptr + 1) % SIZE ELSE read_ptr
  /\ count' = count_next(fifo_write(req), fifo_read)

(* The head of the FIFO is performed on the memory.                        *)
DpiEdge ==
  IF state # "S_MEM_INTERFACE"
    THEN UNCHANGED <<next_tag, next_data, next_atomic, dpi_mem>>
    ELSE /\ next_tag' = head.op.tag
         /\ next_data' = IF head.op.cmd \in {"read", "atomic"} THEN dpi_mem ELSE Zero
         /\ next_atomic' = (head.op.cmd = "atomic")
         /\ dpi_mem' = IF head.op.cmd \in {"write", "atomic"} THEN head.op.tag ELSE dpi_mem

Init ==
  /\ memory = [i \in 0 .. SIZE - 1 |-> NoEntry]
  /\ write_ptr = 0 /\ read_ptr = 0 /\ count = 0
  /\ state = "S_WAIT_DELAY"
  /\ next_tag = Zero /\ next_data = Zero /\ next_atomic = FALSE
  /\ dpi_mem = Zero

(* A rising edge; the requester offers req, or nothing, and is ready for   *)
(* the response or not.                                                    *)
ClockEdge(req, rsp_ready_i) ==
  /\ FifoEdge(req)
  /\ state' = state_next(rsp_ready_i)
  /\ DpiEdge

(* An edge with rstn_i low clears the control and the response, not the    *)
(* memory nor the slots of the FIFO, which are even written.               *)
Reset(req) ==
  /\ write_ptr' = 0 /\ read_ptr' = 0 /\ count' = 0
  /\ state' = "S_WAIT_DELAY"
  /\ next_tag' = Zero /\ next_data' = Zero /\ next_atomic' = FALSE
  /\ memory' = slots_next(req)
  /\ dpi_mem' = dpi_mem

Next ==
  \E req \in Ops \cup {NoReq} :
    \/ \E rsp_ready_i \in BOOLEAN : ClockEdge(req, rsp_ready_i)
    \/ Reset(req)

(* The clock runs, and the requester takes a response sooner or later.     *)
Fairness ==
  WF_vars(\E req \in Ops \cup {NoReq} : ClockEdge(req, TRUE))

Spec == Init /\ [][Next]_vars

FairSpec == Spec /\ Fairness
-----------------------------------------------------------------------------
(* The entries of the FIFO, oldest first.                                  *)
Queued == [i \in 1 .. count |-> memory[(read_ptr + i - 1) % SIZE].op]

(* Registers keep their widths: count stays within 0 and SIZE.             *)
FifoTypeOK ==
  /\ memory \in [0 .. SIZE - 1 -> Entries \cup {NoEntry}]
  /\ write_ptr \in 0 .. SIZE - 1
  /\ read_ptr \in 0 .. SIZE - 1
  /\ count \in 0 .. SIZE
  /\ state \in {"S_WAIT_DELAY", "S_MEM_INTERFACE", "S_WAIT_READY"}

TypeOK ==
  /\ FifoTypeOK
  /\ next_tag \in Tags \cup {Zero}
  /\ next_data \in Tags \cup {Zero}
  /\ next_atomic \in BOOLEAN
  /\ dpi_mem \in Tags \cup {Zero}

(* The pointers and the counter, updated under different conditions, agree *)
(* on how many entries lie between them.                                   *)
PointersAgree == write_ptr = (read_ptr + count) % SIZE

(* The FIFO is popped only when it holds an entry, which has waited long   *)
(* enough: the counter is decremented without looking at empty.            *)
PopsOnlyDueEntry ==
  fifo_read => count > 0 /\ head # NoEntry /\ head.age = DELAY

(* An accepted request of a given tag is answered, however many requests   *)
(* follow it, if the channel is not reset (next_tag stays zero between a   *)
(* reset and the first response).                                          *)
Waiting(t) == \E i \in 1 .. count : Queued[i].tag = t
WasReset == count = 0 /\ next_tag = Zero
EveryRequestAnswered ==
  \A t \in Tags : Waiting(t) ~> ((rsp_valid_o /\ next_tag = t) \/ WasReset)

(* Seen by its requester, the channel is a memory that performs requests   *)
(* in order and answers each once.                                         *)
Service == INSTANCE MemService WITH
  Capacity <- SIZE, NoOp <- NoReq, queue <- Queued, mem <- dpi_mem,
  rsp <- IF rsp_valid_o
           THEN [tag |-> next_tag, data |-> next_data, atomic |-> next_atomic]
           ELSE NoRsp
ServiceSpec == Service!Spec
=============================================================================

------------------------------ MODULE HostLink ------------------------------
(***************************************************************************)
(* The data side of simulator/models/hdl/l2_behav.sv: a read and a write   *)
(* channel (MemChannel) over one memory, the multiplexer that gives the    *)
(* read response port to atomic operations, and the tohost monitor with    *)
(* the host of simulator/models/cxx/dpi_host.cpp behind it. The host reads *)
(* the arguments of a system call from the memory, and writes its result   *)
(* there, at the edge in which the store to tohost is presented.           *)
(*                                                                         *)
(* The program and the HPDcache are outside the repository. The program    *)
(* follows the protocol of the RISC-V tests: it stores the arguments,      *)
(* fences, stores their address to tohost, polls fromhost until it is not  *)
(* zero, clears it and fences. Neither word is cached. Between calls it    *)
(* may do an atomic operation or exit; other reads may come at any time.   *)
(***************************************************************************)
EXTENDS Integers, Sequences

CONSTANTS
  SIZE, DELAY,           \* of both channels: 16 and 20
  Calls,                 \* system calls, told apart by their argument
  NoEntry, NoReq, NoRsp, \* as in MemChannel
  NoCall,                \* no system call is open
  Zero                   \* of next_tag

Words == {"which", "arg"}           \* of the array magicmem
Locations == Words \cup {"tohost", "fromhost", "lock", "other"}
Tags == Locations                   \* one outstanding request for each: the tag
                                    \*   stands for the address too
Ops == [tag : Tags, cmd : {"read", "write", "atomic"}, val : Nat]
SYS_write == 64
magicmem == 64                      \* an aligned address

ASSUME HostLinkAssumption ==
  /\ SIZE \in Nat \ {0}
  /\ DELAY \in Nat \ {0}
  /\ Calls \subseteq Nat
  /\ NoCall \notin Calls
  /\ NoReq \notin Ops
  /\ NoEntry \notin [op : Ops, age : 0 .. DELAY]
  /\ NoRsp \notin [tag : Tags \cup {Zero}, data : Tags \cup {Zero}, atomic : BOOLEAN]
  /\ Zero \notin Tags

VARIABLES
  r_memory, r_write_ptr, r_read_ptr, r_count, r_state, r_next_tag, r_next_data,
  w_memory, w_write_ptr, w_read_ptr, w_count, w_state, w_next_tag, w_next_data,
  w_next_atomic,
  mem,             \* memoryContents
  finished,        \* $finish was called
  printed,         \* what the host wrote for the open call
  r_req,           \* the read request presented by the cache
  w_op,            \* the write it wants to do,
  w_valid,         \*   and the parts of it that are presented
  awaits_r,        \* reads and atomic operations the cache waits for
  awaits_w,        \* writes and atomic operations the cache waits for
  phase, call, todo  \* the program: where it is, in which call, what is to store

r_vars == <<r_memory, r_write_ptr, r_read_ptr, r_count, r_state, r_next_tag, r_next_data>>
w_vars == <<w_memory, w_write_ptr, w_read_ptr, w_count, w_state, w_next_tag,
            w_next_data, w_next_atomic>>
dut_vars == <<r_vars, w_vars, mem, finished, printed>>
port_vars == <<r_req, w_op, w_valid, awaits_r, awaits_w>>
program_vars == <<phase, call, todo>>
vars == <<dut_vars, port_vars, program_vars>>

R == INSTANCE MemChannel WITH
  memory <- r_memory, write_ptr <- r_write_ptr, read_ptr <- r_read_ptr,
  count <- r_count, state <- r_state, next_tag <- r_next_tag,
  next_data <- r_next_data, next_atomic <- FALSE, dpi_mem <- mem

W == INSTANCE MemChannel WITH
  memory <- w_memory, write_ptr <- w_write_ptr, read_ptr <- w_read_ptr,
  count <- w_count, state <- w_state, next_tag <- w_next_tag,
  next_data <- w_next_data, next_atomic <- w_next_atomic, dpi_mem <- mem

-----------------------------------------------------------------------------
(* Mutated forms of the definitions below, used to show that the           *)
(* properties can fail.                                                    *)

ready_unmasked(r_ready) == r_ready
tohost_without_data == "req" \in w_valid /\ w_op.tag = "tohost"
no_answer(m) == m

-----------------------------------------------------------------------------
(* Combinational signals of l2_behav.                                      *)

both_valid == w_valid = {"req", "data"}
w_offered == IF both_valid THEN w_op ELSE NoReq
dc_write_req_ready_o == W!req_ready_o /\ both_valid

(* mux_read_atomic: an atomic response takes the read response port.       *)
atomic_shown == W!rsp_valid_o /\ w_next_atomic
dc_read_resp_valid_o == atomic_shown \/ R!rsp_valid_o
dc_read_resp_tag_o == IF atomic_shown THEN w_next_tag ELSE r_next_tag
dc_read_resp_data_o == IF atomic_shown THEN w_next_data ELSE r_next_data
read_channel_rsp_ready(r_ready) == ~atomic_shown /\ r_ready

is_tohost == both_valid /\ w_op.tag = "tohost"

-----------------------------------------------------------------------------
(* tohost(): the low bit of the word stored ends the program, any other    *)
(* value is the address of the arguments of a system call.                 *)
is_exit == is_tohost /\ w_op.val % 2 = 1
is_call == is_tohost /\ ~is_exit
is_write(m) == m["which"] = SYS_write

(* The memory after the system call. The text is not empty, so that the    *)
(* result is not zero; an unknown call gets no result.                     *)
answered(m) == IF is_write(m) THEN [m EXCEPT !["fromhost"] = 1] ELSE m
hosted(m) == IF is_call THEN answered(m) ELSE m
shown(m) == IF is_call /\ is_write(m) THEN <<m["arg"]>> ELSE <<>>

(* The memory after the head of the write channel, if it is its turn.      *)
written(m) ==
  IF w_state = "S_MEM_INTERFACE" /\ W!head.op.cmd \in {"write", "atomic"}
    THEN [m EXCEPT ![W!head.op.tag] = W!head.op.val] ELSE m

-----------------------------------------------------------------------------
Op(tag, cmd, val) == [tag |-> tag, cmd |-> cmd, val |-> val]

Init ==
  /\ r_memory = [i \in 0 .. SIZE - 1 |-> NoEntry] /\ w_memory = r_memory
  /\ r_write_ptr = 0 /\ r_read_ptr = 0 /\ r_count = 0
  /\ w_write_ptr = 0 /\ w_read_ptr = 0 /\ w_count = 0
  /\ r_state = "S_WAIT_DELAY" /\ w_state = "S_WAIT_DELAY"
  /\ r_next_tag = Zero /\ r_next_data = 0
  /\ w_next_tag = Zero /\ w_next_data = 0 /\ w_next_atomic = FALSE
  /\ mem = [l \in Locations |-> 0]
  /\ finished = FALSE /\ printed = <<>>
  /\ r_req = NoReq /\ w_op = NoReq /\ w_valid = {}
  /\ awaits_r = {} /\ awaits_w = {}
  /\ phase = "arguments" /\ call \in Calls /\ todo = Words

(* The response registers of a channel whose turn it is: the write channel *)
(* finds the memory as m, the read channel as one of ms.                   *)
WriteEdge(m) ==
  IF w_state = "S_MEM_INTERFACE"
    THEN /\ w_next_tag' = W!head.op.tag
         /\ w_next_atomic' = (W!head.op.cmd = "atomic")
         /\ w_next_data' = IF W!head.op.cmd = "atomic" THEN m[W!head.op.tag] ELSE 0
    ELSE UNCHANGED <<w_next_tag, w_next_data, w_next_atomic>>

ReadEdge(ms) ==
  IF r_state = "S_MEM_INTERFACE"
    THEN \E m \in ms : r_next_tag' = R!head.op.tag /\ r_next_data' = m[R!head.op.tag]
    ELSE UNCHANGED <<r_next_tag, r_next_data>>

(* The three blocks that use the memory at this edge run in any order.     *)
MemoryEdge ==
  \E host_first \in BOOLEAN :
    LET by_host  == IF host_first THEN mem ELSE written(mem)
        by_write == IF host_first THEN hosted(mem) ELSE mem
        after    == IF host_first THEN written(by_write) ELSE hosted(by_host)
    IN  /\ mem' = after
        /\ printed' = IF phase' = "clear" THEN <<>> ELSE printed \o shown(by_host)
        /\ WriteEdge(by_write)
        /\ ReadEdge({mem, by_host, by_write, after})

(* What the cache presents and waits for, after the handshakes.            *)
PortsEdge(r_ready, w_ready) ==
  LET r_taken == r_req # NoReq /\ R!req_ready_o
      r_done  == dc_read_resp_valid_o /\ r_ready
      w_done  == W!rsp_valid_o /\ w_ready
      reads   == IF r_taken THEN {r_req.tag} ELSE {}
      writes  == IF dc_write_req_ready_o THEN {w_op.tag} ELSE {}
      atomics == IF dc_write_req_ready_o /\ w_op.cmd = "atomic" THEN {w_op.tag} ELSE {}
  IN  /\ r_req' = IF r_taken THEN NoReq ELSE r_req
      /\ w_op' = IF dc_write_req_ready_o THEN NoReq ELSE w_op
      /\ w_valid' = IF dc_write_req_ready_o THEN {} ELSE w_valid
      /\ awaits_r' = (awaits_r \ (IF r_done THEN {dc_read_resp_tag_o} ELSE {}))
                       \cup reads \cup atomics
      /\ awaits_w' = (awaits_w \ (IF w_done THEN {w_next_tag} ELSE {})) \cup writes

(* The call returns when the program has read a result.                    *)
PollEdge(r_ready) ==
  LET result == dc_read_resp_valid_o /\ r_ready /\ dc_read_resp_tag_o = "fromhost"
                  /\ dc_read_resp_data_o # 0
  IN  /\ phase' = IF phase = "called" /\ result THEN "clear" ELSE phase
      /\ UNCHANGED <<call, todo>>

(* A rising edge. The HPDcache takes the two halves of the response to an  *)
(* atomic operation together, as the assertion atomic_resp_assert says.    *)
ClockEdge(r_ready, w_ready) ==
  /\ ~finished
  /\ atomic_shown => r_ready /\ w_ready
  /\ R!FifoEdge(r_req)
  /\ r_state' = R!state_next(read_channel_rsp_ready(r_ready))
  /\ W!FifoEdge(w_offered)
  /\ w_state' = W!state_next(w_ready)
  /\ PollEdge(r_ready)
  /\ MemoryEdge
  /\ PortsEdge(r_ready, w_ready)
  /\ finished' = (is_exit /\ (w_op.val \div 2) % 2^15 = 0)

-----------------------------------------------------------------------------
(* The cache and the program, between edges.                               *)

(* A write is presented in two parts, in any order.                        *)
Present(part) ==
  /\ ~finished /\ w_op # NoReq /\ part \notin w_valid
  /\ w_valid' = w_valid \cup {part}
  /\ UNCHANGED <<dut_vars, r_req, w_op, awaits_r, awaits_w, program_vars>>

Read(tag) ==
  /\ ~finished /\ r_req = NoReq /\ tag \notin awaits_r
  /\ r_req' = Op(tag, "read", 0)
  /\ UNCHANGED <<dut_vars, w_op, w_valid, awaits_r, awaits_w, program_vars>>

Write(op) ==
  /\ ~finished /\ w_op = NoReq /\ op.tag \notin awaits_w
  /\ w_op' = op
  /\ UNCHANGED <<dut_vars, r_req, w_valid, awaits_r, awaits_w>>

fence == w_op = NoReq /\ awaits_w = {}

StoreArgument(w) ==
  /\ phase = "arguments" /\ w \in todo
  /\ Write(Op(w, "write", IF w = "which" THEN SYS_write ELSE call))
  /\ todo' = todo \ {w} /\ UNCHANGED <<phase, call>>

CallHost ==
  /\ phase = "arguments" /\ todo = {} /\ fence
  /\ Write(Op("tohost", "write", magicmem))
  /\ phase' = "called" /\ UNCHANGED <<call, todo>>

Poll == phase = "called" /\ Read("fromhost")

ClearResult ==
  /\ phase = "clear"
  /\ Write(Op("fromhost", "write", 0))
  /\ phase' = "cleared" /\ UNCHANGED <<call, todo>>

NextCall ==
  /\ phase = "cleared" /\ fence
  /\ phase' = "arguments" /\ call' \in Calls /\ todo' = Words
  /\ UNCHANGED <<dut_vars, port_vars>>

(* An exit with code zero ends the simulation, another one is reported.    *)
Exit(code) ==
  /\ phase = "arguments" /\ todo = Words
  /\ Write(Op("tohost", "write", 2 * code + 1))
  /\ phase' = "exited" /\ UNCHANGED <<call, todo>>

(* An atomic operation on a word of its own, such as to release a lock;    *)
(* what it computes is not told apart here.                                *)
Amo ==
  /\ phase = "arguments"
  /\ Write(Op("lock", "atomic", 0))
  /\ UNCHANGED program_vars

(* Other reads leave a turn to the poll of the program.                    *)
OtherRead == (phase = "called" => "fromhost" \in awaits_r) /\ Read("other")

Next ==
  \/ \E r_ready, w_ready \in BOOLEAN : ClockEdge(r_ready, w_ready)
  \/ \E part \in {"req", "data"} : Present(part)
  \/ \E w \in Words : StoreArgument(w)
  \/ CallHost \/ Poll \/ ClearResult \/ NextCall
  \/ \E code \in {0, 1} : Exit(code)
  \/ Amo \/ OtherRead

Spec == Init /\ [][Next]_vars

(* The clock runs, the cache takes responses sooner or later and completes *)
(* the requests it has begun to present, and the program polls.            *)
Fairness ==
  /\ WF_vars(ClockEdge(TRUE, TRUE))
  /\ \A part \in {"req", "data"} : WF_vars(Present(part))
  /\ WF_vars(Poll)

FairSpec == Spec /\ Fairness
-----------------------------------------------------------------------------
(* No response is lost, given to the wrong port, or given twice: a request *)
(* that the cache waits for is in one of the channels or on its response   *)
(* port, and nothing else is.                                              *)
InFlight(queued, valid, tag) ==
  {queued[i].tag : i \in DOMAIN queued} \cup (IF valid THEN {tag} ELSE {})
AtomicInFlight ==
  {W!Queued[i].tag : i \in {j \in DOMAIN W!Queued : W!Queued[j].cmd = "atomic"}}
    \cup (IF atomic_shown THEN {w_next_tag} ELSE {})
PortsAgree ==
  /\ awaits_r = InFlight(R!Queued, R!rsp_valid_o, r_next_tag) \cup AtomicInFlight
  /\ awaits_w = InFlight(W!Queued, W!rsp_valid_o, w_next_tag)

(* A fenced system call is executed once, with its own arguments, although *)
(* the host runs ahead of the write channel that the arguments go through. *)
Host == INSTANCE HostService WITH
  call <- IF phase = "called" THEN call ELSE NoCall
HostServiceSpec == Host!Spec

(* The program never waits for the result for ever: neither is the answer  *)
(* of the host overwritten by a write that was still queued, nor the poll. *)
SyscallReturns == phase = "called" ~> phase # "called"
=============================================================================

------------------------------ MODULE SimFetch ------------------------------
(***************************************************************************)
(* The fetch path in the simulator: the tile of FetchPath joined to the    *)
(* models that answer its fetches in simulator/sim_top.sv, which are the   *)
(* boot ROM (models/hdl/bootrom_behav.sv), the program buffer of the debug *)
(* module, and the instruction channel of models/hdl/l2_behav.sv. The      *)
(* three are merged into the one grant of the tile. None of them keeps a   *)
(* queue or looks at who asked, and mem_reqs of FetchPath is only a record *)
(* of what they were asked; Spec of FetchPath is what they must implement. *)
(*                                                                         *)
(* The fetch stage fetches no non-cached line that nothing is connected    *)
(* to: such a fetch is never answered. The debug module is outside the     *)
(* repository and reads its buffer in the cycle of the request. Reset,     *)
(* which all parts share, is the initial state.                            *)
(***************************************************************************)
EXTENDS FetchPath

CONSTANTS
  BromLines,   \* lines of the boot ROM
  ProgLines,   \* lines of the program buffer
  BROM_DELAY,  \* 3, the count at which the boot ROM answers
  INST_DELAY   \* 20, the delay of the instruction channel

ASSUME SimFetchAssumption ==
  /\ MappedLines \cap NcLines \subseteq BromLines \cup ProgLines
  /\ BROM_DELAY \in Nat \ {0}
  /\ INST_DELAY \in Nat \ {0}

VARIABLES
  req_active, brom_count, brom_req_address_d,   \* boot ROM
  brom_resp_data_block, brom_resp_valid_o,
  prog_buf_resp_valid_q, prog_buf_resp_data_q,  \* program buffer
  ic_counter, request_q, ic_addr_int,           \* instruction channel
  ic_line, ic_valid_o

brom_vars == <<req_active, brom_count, brom_req_address_d,
               brom_resp_data_block, brom_resp_valid_o>>
prog_vars == <<prog_buf_resp_valid_q, prog_buf_resp_data_q>>
l2_vars == <<ic_counter, request_q, ic_addr_int, ic_line, ic_valid_o>>
sim_vars == <<vars, brom_vars, prog_vars, l2_vars>>

-----------------------------------------------------------------------------
(* Mutated forms of the definitions below, used to show that the           *)
(* properties can fail.                                                    *)

answers_at_zero(ic_valid_i) == request_q /\ ic_counter <= 1 /\ ~ic_valid_i
active_for_one_cycle == req_nc_valid_o /\ paddr_infly_q \in BromLines

-----------------------------------------------------------------------------
(* Combinational signals of sim_top.                                       *)

(* The address of the buffer's request selects the responder, in the cycle *)
(* of the request and in that of the response.                             *)
uc_fetch_mux_sel ==
  CASE paddr_infly_q \in BromLines -> "brom"
    [] paddr_infly_q \in ProgLines \ BromLines -> "prog_buf"
    [] OTHER -> "unconnected"

brom_req_valid == req_nc_valid_o /\ uc_fetch_mux_sel = "brom"
prog_buf_req_valid == req_nc_valid_o /\ uc_fetch_mux_sel = "prog_buf"

uc_fetch_resp_valid ==
  CASE uc_fetch_mux_sel = "brom" -> brom_resp_valid_o
    [] uc_fetch_mux_sel = "prog_buf" -> prog_buf_resp_valid_q
    [] OTHER -> FALSE

uc_fetch_resp_data ==
  IF uc_fetch_mux_sel = "brom" THEN brom_resp_data_block ELSE prog_buf_resp_data_q

(* The one response wire of the instruction side.                          *)
dut_icache_response_valid == uc_fetch_resp_valid \/ ic_valid_o
dut_icache_response_data == IF uc_fetch_resp_valid THEN uc_fetch_resp_data ELSE ic_line

sim_grant == IF dut_icache_response_valid THEN "data" ELSE "none"
-----------------------------------------------------------------------------
(* The boot ROM at the edge: a request restarts nothing, it is counted     *)
(* from the edge after it, and at BROM_DELAY the answer is flagged, even   *)
(* over a request of the same cycle.                                       *)
req_active_next ==
  IF brom_count = BROM_DELAY THEN FALSE ELSE brom_req_valid \/ req_active
brom_count_next == IF req_active THEN (brom_count + 1) % 256 ELSE 0

BromEdge ==
  /\ req_active' = req_active_next
  /\ brom_count' = brom_count_next
  /\ brom_req_address_d' = IF brom_req_valid THEN paddr_infly_q ELSE brom_req_address_d
  /\ brom_resp_data_block' = brom_req_address_d
  /\ brom_resp_valid_o' = (brom_count = BROM_DELAY)

ProgBufEdge ==
  /\ prog_buf_resp_valid_q' = prog_buf_req_valid
  /\ prog_buf_resp_data_q' = IF prog_buf_req_valid THEN paddr_infly_q ELSE NoData

(* The instruction channel at the edge. It takes a request only when idle, *)
(* follows the address the cache presents while it counts, and is idle     *)
(* again two edges after the last count.                                   *)
channel_answers(ic_valid_i) == request_q /\ ic_counter = 1 /\ ~ic_valid_i

L2IcacheEdge(ic_valid_i, ic_addr_i) ==
  LET takes  == ic_valid_i /\ ~request_q
      counts == request_q /\ ic_counter > 0
  IN  /\ request_q' = (takes \/ counts)
      /\ ic_counter' = IF takes THEN INST_DELAY + 1
                       ELSE IF counts THEN ic_counter - 1 ELSE ic_counter
      /\ ic_addr_int' = IF takes \/ counts THEN ic_addr_i ELSE ic_addr_int
      /\ ic_valid_o' = channel_answers(ic_valid_i)
      /\ ic_line' = IF channel_answers(ic_valid_i) THEN ic_addr_int ELSE ic_line

SimInit ==
  /\ Init
  /\ req_active = FALSE /\ brom_count = 0 /\ brom_resp_valid_o = FALSE
  /\ brom_req_address_d = NoData /\ brom_resp_data_block = NoData
  /\ prog_buf_resp_valid_q = FALSE /\ prog_buf_resp_data_q = NoData
  /\ ic_counter = 0 /\ request_q = FALSE /\ ic_valid_o = FALSE
  /\ ic_addr_int = NoData /\ ic_line = NoData

(* One cycle of everything.                                                *)
SimCycle(pc, translated, dropped, outcome) ==
  /\ TileCycle(pc, translated, dropped, outcome, sim_grant, dut_icache_response_data)
  /\ BromEdge
  /\ ProgBufEdge
  /\ L2IcacheEdge(ic_state = "lookup" /\ outcome = "miss", lookup_line)

SimNext ==
  \E pc \in Pc \cup {NoPc}, translated, dropped \in BOOLEAN, outcome \in Outcomes :
    SimCycle(pc, translated, dropped, outcome)

(* The clock runs, and the core does not drop its fetch in every cycle.    *)
SimFairness ==
  WF_sim_vars(\E pc \in Pc \cup {NoPc}, translated \in BOOLEAN, outcome \in Outcomes :
                SimCycle(pc, translated, FALSE, outcome))

SimSpec == SimInit /\ [][SimNext]_sim_vars /\ SimFairness
-----------------------------------------------------------------------------
(* A grant answers the oldest request that was made, with its line: no     *)
(* responder answers late, twice, or in the place of another, although the *)
(* response is selected by the address of the moment.                      *)
GrantAnswersOldest ==
  dut_icache_response_valid =>
    mem_reqs # <<>> /\ dut_icache_response_data = Head(mem_reqs).line

(* No request is lost by a responder that is still busy with the last one: *)
(* what was asked and is not answered is being worked on.                  *)
NoRequestLost ==
  \A i \in DOMAIN mem_reqs :
    IF mem_reqs[i].kind = "ifill" THEN request_q
    ELSE req_active \/ brom_resp_valid_o \/ prog_buf_resp_valid_q

(* The merged responders are a memory as FetchPath expects it, which       *)
(* answers every request, in order, in the end.                            *)
FetchPathSpec == Spec
=============================================================================

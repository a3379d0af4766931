----------------------------- MODULE FetchPath -----------------------------
(***************************************************************************)
(* The instruction fetch path of the tile: the fetch interface             *)
(* (rtl/interface_icache/rtl/icache_interface.sv), the non-cached buffer   *)
(* (NcIcacheBuffer) and the wiring of rtl/top_tile.sv that merges the      *)
(* instruction cache and the buffer towards the core and lets both listen  *)
(* to the same grant of the memory side.                                   *)
(*                                                                         *)
(* The fetch stage, the instruction cache and the memory are outside the   *)
(* repository. The fetch stage has at most one fetch outstanding (want),   *)
(* presents the next one when it is answered or dropped, and drops it on a *)
(* kill or an invalidation; a request withheld by an invalidation counts   *)
(* as none presented. The cache accepts no request while a miss is         *)
(* outstanding, and takes for its miss the first grant it sees. Memory     *)
(* answers in order (mem_reqs) and also sends invalidations.               *)
(*                                                                         *)
(* One Cycle step is one cycle of clk_i and the edge that ends it.         *)
(***************************************************************************)
EXTENDS NcIcacheBuffer, Naturals, Sequences

CONSTANTS
  Words,   \* the two 32-bit words of an 8-byte line
  NoPc     \* no fetch

ASSUME FetchAssumption == 0 \in Words /\ NoPc \notin [line : Lines, word : Words]

VARIABLES
  old_pc_req_q,  \* icache_interface: the pc of the last request made
  ic_state,      \* the instruction cache: "ready", "lookup", "miss", "replay", "kill"
  lookup_line,   \* the line it looks up
  refill_line,   \* the line its refill brought, in the cycle it answers from it
  mem_reqs,      \* requests memory has not answered: [kind, line]
  want,          \* the pc the fetch stage waits for, or NoPc
  delivered      \* the fetch answered at the last edge: [want, got], or NoPc

env_vars == <<ic_state, lookup_line, refill_line, mem_reqs, want, delivered>>
vars == <<nc_vars, old_pc_req_q, env_vars>>

Pc == [line : Lines, word : Words]
FaultPc == [line |-> NoData, word |-> 0]
Outcomes == {"hit", "miss", "fault"}
Grants == {"none", "data", "inval"}

-----------------------------------------------------------------------------
(* Mutated forms of the definitions below, used to show that the           *)
(* properties can fail.                                                    *)

ready_without_busy(outcome) ==
  ic_state = "ready" \/ ic_state = "replay" \/ (ic_state = "lookup" /\ outcome = "hit")
data_from_icache_first == IF ic_state = "replay" THEN refill_line ELSE lookup_line

-----------------------------------------------------------------------------
(* The instruction cache answers a lookup that hits, faults in translation *)
(* or follows a refill; outcome is that of the lookup of this cycle.       *)
icache_resp_valid(outcome) ==
  ic_state = "replay" \/ (ic_state = "lookup" /\ outcome = "hit")
icache_resp_xcpt(outcome) == ic_state = "lookup" /\ outcome = "fault"
icache_resp_ready(outcome) == ic_state = "ready" \/ icache_resp_valid(outcome)

(* top_tile: what the fetch interface sees of the cache and the buffer.    *)
tile_ready(outcome) == icache_resp_ready(outcome) /\ ~core_rsp_nc_busy_o
tile_valid(outcome) == icache_resp_valid(outcome) \/ core_rsp_valid_o
icache_resp_line == IF ic_state = "replay" THEN refill_line ELSE lookup_line
tile_data_line == IF core_rsp_valid_o THEN icache_ncline_q ELSE icache_resp_line

(* top_tile: the grant the non-cached buffer listens to.                   *)
l2_grant_valid(grant) == grant = "data"

(* icache_interface: the request made in this cycle, the response.         *)
do_icache_request_int(pc, outcome) == pc # NoPc /\ tile_ready(outcome)

old_pc_req_d(do_request, pc) == IF do_request THEN pc ELSE old_pc_req_q

resp_valid(outcome) == icache_resp_xcpt(outcome) \/ tile_valid(outcome)

resp_instruction(outcome) ==
  IF icache_resp_xcpt(outcome) THEN FaultPc
  ELSE [line |-> tile_data_line, word |-> old_pc_req_q.word]
-----------------------------------------------------------------------------
(* The instruction cache at the edge. A kill drops the fetch; a miss whose *)
(* refill is on its way is waited for. KILL_RESP: no response is made. The *)
(* cache keeps lines by their address, so a lookup that hits finds its     *)
(* line; the answer to a miss is whatever the grant carried.               *)
IcacheEdge(request, line, kill, outcome, grant, data) ==
  LET miss     == ic_state = "lookup" /\ outcome = "miss"
      refill   == ic_state \in {"miss", "kill"} /\ grant = "data"
      accepted == request /\ ~kill
  IN  /\ ic_state' =
           CASE accepted -> "lookup"
             [] ic_state = "miss" /\ refill /\ ~kill -> "replay"
             [] miss \/ (ic_state \in {"miss", "kill"} /\ ~refill) ->
                  IF kill \/ ic_state = "kill" THEN "kill" ELSE "miss"
             [] OTHER -> "ready"
      /\ lookup_line' = IF accepted THEN line ELSE lookup_line
      /\ refill_line' = IF ic_state = "miss" /\ refill /\ ~kill THEN data ELSE NoData

(* Memory at the edge: a data grant answers the oldest request; the        *)
(* requests of this cycle are queued behind it.                            *)
MemoryEdge(outcome, grant) ==
  LET left  == IF grant = "data" /\ mem_reqs # <<>> THEN Tail(mem_reqs) ELSE mem_reqs
      nc    == IF req_nc_valid_o
                 THEN <<[kind |-> "nc", line |-> paddr_infly_q]>> ELSE <<>>
      ifill == IF ic_state = "lookup" /\ outcome = "miss"
                 THEN <<[kind |-> "ifill", line |-> lookup_line]>> ELSE <<>>
  IN  mem_reqs' = left \o nc \o ifill

Init ==
  /\ NcInit
  /\ old_pc_req_q = [line |-> ZeroLine, word |-> 0]
  /\ ic_state = "ready"
  /\ lookup_line = ZeroLine
  /\ refill_line = NoData
  /\ mem_reqs = <<>>
  /\ want = NoPc
  /\ delivered = NoPc

(* One cycle of the tile. The fetch stage presents pc (or nothing), with   *)
(* translation on or off, and may drop its fetch by a kill or an           *)
(* invalidation; the lookup of the cache has an outcome; memory grants     *)
(* data, sends an invalidation, or is silent.                              *)
TileCycle(pc, translated, dropped, outcome, grant, data) ==
  LET request == do_icache_request_int(pc, outcome)
      line    == IF pc = NoPc THEN ZeroLine ELSE pc.line
      answer  == resp_valid(outcome) /\ ~dropped
  IN  /\ pc # NoPc => want = NoPc \/ resp_valid(outcome) \/ dropped
      /\ translated => pc # NoPc /\ pc.line \in NcLines
      /\ ic_state # "lookup" => outcome = "hit"
      /\ NcEdge(request /\ req_nc_valid_d(line, translated, dropped), line, dropped,
                l2_grant_valid(grant), data)
      /\ old_pc_req_q' = old_pc_req_d(request, pc)
      /\ IcacheEdge(request /\ req_icache_valid(line, translated), line, dropped,
                    outcome, grant, data)
      /\ MemoryEdge(outcome, grant)
      /\ delivered' = IF want # NoPc /\ answer
                        THEN [want |-> want, got |-> resp_instruction(outcome)]
                        ELSE NoPc
      /\ want' = IF dropped THEN NoPc
                  ELSE IF request THEN pc
                  ELSE IF answer THEN NoPc ELSE want

(* One cycle with a memory that answers what it was asked, in order.       *)
Cycle(pc, translated, dropped, outcome, grant) ==
  /\ grant = "data" => mem_reqs # <<>>
  /\ TileCycle(pc, translated, dropped, outcome, grant,
               IF mem_reqs = <<>> THEN NoData ELSE Head(mem_reqs).line)

Next ==
  \E pc \in Pc \cup {NoPc}, translated, dropped \in BOOLEAN,
     outcome \in Outcomes, grant \in Grants :
       Cycle(pc, translated, dropped, outcome, grant)

(* The clock runs, and memory does not stay silent for ever while it owes  *)
(* an answer. Kills need not happen, and rescue nothing.                   *)
CycleThatAnswers ==
  \E pc \in Pc \cup {NoPc}, translated \in BOOLEAN,
     outcome \in Outcomes, grant \in Grants :
       /\ mem_reqs # <<>> => grant = "data"
       /\ Cycle(pc, translated, FALSE, outcome, grant)

Fairness == WF_vars(CycleThatAnswers)

Spec == Init /\ [][Next]_vars /\ Fairness
-----------------------------------------------------------------------------
(* The instruction handed to the fetch stage is the one it waits for (or a *)
(* fault), whatever was killed before and whoever the grant was meant for. *)
FetchGetsItsInstruction ==
  delivered # NoPc => delivered.got \in {delivered.want, FaultPc}

(* "the instruction is in the buffer": a hit in the non-cached buffer      *)
(* finds the data of the line that was asked for.                          *)
HitHoldsLine == is_in_buffer => icache_ncline_q = paddr_infly_q

(* The cache and the buffer together have at most one request outstanding: *)
(* the grant that both listen to has one possible owner, and the one-entry *)
(* FIFO of the L1.5 adapter, whose full flag nobody reads, never overflows.*)
OneRequestInMemory == Len(mem_reqs) <= 1

(* The state machine waits exactly while memory owes it an answer: no      *)
(* answer is lost and a killed request absorbs one grant, its own.         *)
WaitsForItsOwnGrant ==
  state_nc \in {"wait_nc", "kill_nc"} <=>
    \E i \in DOMAIN mem_reqs : mem_reqs[i].kind = "nc"

(* A fetch is answered or dropped, unless it went to a non-cached line     *)
(* outside the mapped sections: that request is accepted and forgotten.    *)
FetchAnswered ==
  \A l \in (Lines \ NcLines) \cup MappedLines :
    (want # NoPc /\ want.line = l) ~>
      (want = NoPc \/ want.line # l \/ delivered # NoPc)
=============================================================================

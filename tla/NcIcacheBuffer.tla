--------------------------- MODULE NcIcacheBuffer ---------------------------
(***************************************************************************)
(* rtl/interface_icache/rtl/nc_icache_buffer.sv: fetches from non-cached   *)
(* regions (IO sections, boot ROM, debug program buffer) bypass the        *)
(* instruction cache through a buffer of one 64-bit line.                  *)
(*                                                                         *)
(* An address is the 8-byte line it lies in; the word inside the line is   *)
(* chosen by the fetch interface (module FetchPath). Registers keep the    *)
(* names of the code; a "_d" operator is the value its register takes at   *)
(* the next edge.                                                          *)
(***************************************************************************)
CONSTANTS
  Lines,        \* 8-byte lines the core may fetch from
  NcLines,      \* the non-cached ones
  MappedLines,  \* those inside the mapped sections
  ZeroLine,     \* the line of physical address 0, fetched from or not
  NoData        \* the content of the line register after a reset: zeros

ASSUME NcAssumption ==
  /\ NcLines \subseteq Lines
  /\ MappedLines \subseteq Lines
  /\ NoData \notin Lines \cup {ZeroLine}

VARIABLES
  state_nc,         \* idle_nc, wait_nc, kill_nc
  buffer_paddr_q,   \* the line the buffer holds; ZeroLine when it was emptied
  icache_ncline_q,  \* its data, named by the line the data was read from
  paddr_infly_q,    \* the line of the last non-cached request
  nc_rsp_valid_q,   \* the buffer was filled at the last edge
  req_nc_valid_q,   \* a non-cached request was accepted at the last edge
  nc_kill_q         \* a kill or an invalidation arrived at the last edge

nc_vars == <<state_nc, buffer_paddr_q, icache_ncline_q, paddr_infly_q,
             nc_rsp_valid_q, req_nc_valid_q, nc_kill_q>>

-----------------------------------------------------------------------------
(* Mutated forms of the definitions below, used to show that the           *)
(* properties can fail.                                                    *)

buffer_kept_on_kill(grant) ==
  IF state_nc = "wait_nc" /\ grant THEN paddr_infly_q ELSE buffer_paddr_q
idle_on_kill(grant) ==
  CASE state_nc = "idle_nc" ->
         IF req_nc_valid_q /\ paddr_infly_q # buffer_paddr_q THEN "wait_nc" ELSE "idle_nc"
    [] state_nc = "wait_nc" -> IF grant \/ nc_kill_q THEN "idle_nc" ELSE "wait_nc"
    [] state_nc = "kill_nc" -> IF grant THEN "idle_nc" ELSE "kill_nc"
hits_lost == nc_rsp_valid_q

-----------------------------------------------------------------------------
(* Stage 1: a request to the line, from a core whose address translation   *)
(* is on or off, in a cycle with or without a kill.                        *)

addr_is_nc(line, translated) == line \in NcLines /\ ~translated

(* The request goes on to the instruction cache.                           *)
req_icache_valid(line, translated) == ~addr_is_nc(line, translated)

(* The request is taken by the buffer. A non-cached line outside the       *)
(* mapped sections is neither taken nor passed on.                         *)
req_nc_valid_d(line, translated, kill) ==
  addr_is_nc(line, translated) /\ line \in MappedLines /\ ~kill

(* Stage 2: combinational signals of the registers.                        *)

same_addr_req == paddr_infly_q = buffer_paddr_q

is_in_buffer == req_nc_valid_q /\ same_addr_req

(* The pulse that sends the line paddr_infly_q to memory.                  *)
req_nc_valid_o == state_nc = "idle_nc" /\ req_nc_valid_q /\ ~same_addr_req

core_rsp_nc_busy_o == req_nc_valid_o \/ state_nc # "idle_nc"

core_rsp_valid_o == nc_rsp_valid_q \/ is_in_buffer

next_state_nc(grant) ==
  CASE state_nc = "idle_nc" -> IF req_nc_valid_o THEN "wait_nc" ELSE "idle_nc"
    [] state_nc = "wait_nc" ->
         IF grant THEN "idle_nc" ELSE IF nc_kill_q THEN "kill_nc" ELSE "wait_nc"
    [] state_nc = "kill_nc" -> IF grant THEN "idle_nc" ELSE "kill_nc"

nc_rsp_valid_d(grant) == state_nc = "wait_nc" /\ ~nc_kill_q /\ grant

buffer_paddr_d(grant) ==
  IF nc_kill_q THEN ZeroLine
  ELSE IF nc_rsp_valid_d(grant) THEN paddr_infly_q ELSE buffer_paddr_q

icache_ncline_d(grant, data) == IF nc_rsp_valid_d(grant) THEN data ELSE icache_ncline_q
-----------------------------------------------------------------------------
NcInit ==
  /\ state_nc = "idle_nc"
  /\ buffer_paddr_q = ZeroLine
  /\ icache_ncline_q = NoData
  /\ paddr_infly_q = ZeroLine
  /\ nc_rsp_valid_q = FALSE
  /\ req_nc_valid_q = FALSE
  /\ nc_kill_q = FALSE

(* A rising edge in a cycle in which the request for the line, if any,     *)
(* is taken or not, a kill arrived or not, and memory granted the data or  *)
(* did not.                                                                *)
NcEdge(taken, line, kill, grant, data) ==
  /\ nc_kill_q' = kill
  /\ req_nc_valid_q' = taken
  /\ state_nc' = next_state_nc(grant)
  /\ buffer_paddr_q' = buffer_paddr_d(grant)
  /\ icache_ncline_q' = icache_ncline_d(grant, data)
  /\ paddr_infly_q' = IF taken THEN line ELSE paddr_infly_q
  /\ nc_rsp_valid_q' = nc_rsp_valid_d(grant)
=============================================================================

-------------------------- MODULE FetchPathProofs --------------------------
(***************************************************************************)
(* That the grant wire shared by the instruction cache and the non-cached  *)
(* buffer always belongs to the one that waits, and that every instruction *)
(* handed over is the one that was asked for, for any sets of lines. Then  *)
(* that the responders of the simulator (SimFetch) answer the oldest       *)
(* request with its line, so that the same holds with them.                *)
(***************************************************************************)
EXTENDS SimFetch, SequenceTheorems, TLAPS

-----------------------------------------------------------------------------
(* Memory holds at most one request.                                       *)

LEMMA OneElement ==
  ASSUME NEW x
  PROVE  /\ <<x>> # <<>> /\ Len(<<x>>) = 1 /\ Head(<<x>>) = x /\ Tail(<<x>>) = <<>>
         /\ DOMAIN <<x>> = {1} /\ <<x>>[1] = x
OBVIOUS

LEMMA OneAdded ==
  ASSUME NEW x
  PROVE  /\ <<x>> \o <<>> = <<x>> /\ <<>> \o <<x>> = <<x>>
         /\ <<>> \o <<>> = <<>>
<1>1. <<x>> \in Seq({x}) /\ <<>> \in Seq({x})
  OBVIOUS
<1> QED
  BY <1>1, ConcatEmptySeq

-----------------------------------------------------------------------------
(* The buffer waits only while the cache is idle, and starts only then;    *)
(* memory holds the request of the one that waits.                         *)
Control ==
  /\ state_nc \in {"idle_nc", "wait_nc", "kill_nc"}
  /\ ic_state \in {"ready", "lookup", "miss", "replay", "kill"}
  /\ state_nc # "idle_nc" => ic_state = "ready" /\ ~req_nc_valid_q
  /\ req_nc_valid_q => ic_state = "ready"

NcRequest == [kind |-> "nc", line |-> paddr_infly_q]
RefillRequest == [kind |-> "ifill", line |-> lookup_line]

MemoryHoldsIt ==
  mem_reqs = IF state_nc # "idle_nc" THEN <<NcRequest>>
             ELSE IF ic_state \in {"miss", "kill"} THEN <<RefillRequest>> ELSE <<>>

ControlInv == Control /\ MemoryHoldsIt

(* What the buffer holds, and what each party works on is what the fetch   *)
(* stage waits for, if it still waits.                                     *)
BufferHoldsLine ==
  /\ buffer_paddr_q = ZeroLine \/ icache_ncline_q = buffer_paddr_q
  /\ req_nc_valid_q => paddr_infly_q \in NcLines \cap MappedLines

WorksForFetch ==
  /\ want \in Pc \cup {NoPc}
  /\ want # NoPc =>
       /\ old_pc_req_q = want
       /\ ic_state \in {"lookup", "miss"} => lookup_line = want.line
       /\ ic_state = "replay" => refill_line = want.line
       /\ req_nc_valid_q \/ state_nc # "idle_nc" => paddr_infly_q = want.line
       /\ nc_rsp_valid_q => icache_ncline_q = want.line

DataInv == BufferHoldsLine /\ WorksForFetch /\ FetchGetsItsInstruction

LEMMA InitControl == Init => ControlInv
BY DEF Init, NcInit, ControlInv, Control, MemoryHoldsIt

-----------------------------------------------------------------------------
(* A busy buffer and a cache that works accept no request.                 *)
LEMMA RequestMeansIdle ==
  ASSUME Control, NEW pc, NEW outcome \in Outcomes, do_icache_request_int(pc, outcome),
         ic_state # "lookup" => outcome = "hit"
  PROVE  /\ pc # NoPc /\ state_nc = "idle_nc" /\ ~req_nc_valid_o
         /\ ic_state \in {"ready", "lookup", "replay"}
         /\ ic_state = "lookup" => outcome = "hit"
BY DEF Control, do_icache_request_int, tile_ready, core_rsp_nc_busy_o,
       icache_resp_ready, icache_resp_valid, Outcomes

(* A step of the cache, which accepts a request only when it has no miss.  *)
LEMMA CacheStep ==
  ASSUME Control, NEW request, NEW line, NEW kill, NEW outcome, NEW grant, NEW data,
         IcacheEdge(request, line, kill, outcome, grant, data),
         request => /\ ic_state \in {"ready", "lookup", "replay"}
                    /\ ic_state = "lookup" => outcome = "hit"
  PROVE  /\ request /\ ~kill => ic_state' = "lookup" /\ lookup_line' = line
         /\ ~(request /\ ~kill) =>
              /\ lookup_line' = lookup_line
              /\ ic_state' \in {"ready", "miss", "replay", "kill"}
              /\ ic_state' \in {"miss", "kill"} <=>
                   \/ ic_state = "lookup" /\ outcome = "miss"
                   \/ ic_state \in {"miss", "kill"} /\ grant # "data"
              /\ ic_state' = "miss" => ic_state \in {"lookup", "miss"}
              /\ ic_state' = "replay" =>
                   ic_state = "miss" /\ grant = "data" /\ refill_line' = data
<1> DEFINE accepted == request /\ ~kill
           refill == ic_state \in {"miss", "kill"} /\ grant = "data"
           replayed == ic_state = "miss" /\ refill /\ ~kill
           working == \/ ic_state = "lookup" /\ outcome = "miss"
                      \/ ic_state \in {"miss", "kill"} /\ ~refill
<1>1. ic_state' = CASE accepted -> "lookup"
                   [] replayed -> "replay"
                   [] working -> IF kill \/ ic_state = "kill" THEN "kill" ELSE "miss"
                   [] OTHER -> "ready"
  BY DEF IcacheEdge
<1>2. /\ lookup_line' = IF accepted THEN line ELSE lookup_line
      /\ replayed => refill_line' = data
  BY DEF IcacheEdge
<1>3. ~(accepted /\ (replayed \/ working)) /\ ~(replayed /\ working)
  OBVIOUS
<1>4. CASE accepted
  BY <1>1, <1>2, <1>3, <1>4
<1>5. CASE ~accepted /\ replayed
  BY <1>1, <1>2, <1>3, <1>5
<1>6. CASE ~accepted /\ working
  BY <1>1, <1>2, <1>3, <1>6 DEF Control
<1>7. CASE ~accepted /\ ~replayed /\ ~working
  <2>1. ic_state' = "ready"
    BY <1>1, <1>7
  <2> QED
    BY <1>2, <1>7, <2>1
<1> QED
  BY <1>4, <1>5, <1>6, <1>7

LEMMA NextControl == ControlInv /\ [Next]_vars => ControlInv'
<1> SUFFICES ASSUME ControlInv, [Next]_vars PROVE ControlInv'
  OBVIOUS
<1>1. ASSUME NEW pc \in Pc \cup {NoPc}, NEW translated \in BOOLEAN, NEW dropped \in BOOLEAN,
             NEW outcome \in Outcomes, NEW grant \in Grants,
             Cycle(pc, translated, dropped, outcome, grant)
      PROVE  ControlInv'
  <2> DEFINE request == do_icache_request_int(pc, outcome)
             line == IF pc = NoPc THEN ZeroLine ELSE pc.line
             data == IF mem_reqs = <<>> THEN NoData ELSE Head(mem_reqs).line
             taken == request /\ req_nc_valid_d(line, translated, dropped)
             accepted == request /\ req_icache_valid(line, translated) /\ ~dropped
  <2>1. /\ NcEdge(taken, line, dropped, grant = "data", data)
        /\ IcacheEdge(request /\ req_icache_valid(line, translated), line, dropped,
                      outcome, grant, data)
        /\ MemoryEdge(outcome, grant)
        /\ ic_state # "lookup" => outcome = "hit"
    BY <1>1 DEF Cycle, TileCycle, l2_grant_valid
  <2>2. ~(taken /\ accepted)
    BY DEF req_nc_valid_d, req_icache_valid
  <2>3. request => /\ state_nc = "idle_nc" /\ ~req_nc_valid_o
                   /\ ic_state \in {"ready", "lookup", "replay"}
                   /\ ic_state = "lookup" => outcome = "hit"
    BY <2>1, RequestMeansIdle DEF ControlInv
  <2>4. accepted \/ taken => request
    OBVIOUS
  <2>5. /\ state_nc' = next_state_nc(grant = "data")
        /\ req_nc_valid_q' = taken
        /\ paddr_infly_q' = IF taken THEN line ELSE paddr_infly_q
    BY <2>1 DEF NcEdge
  <2> DEFINE missed == ic_state = "lookup" /\ outcome = "miss"
  <2>6. /\ accepted => ic_state' = "lookup" /\ lookup_line' = line
        /\ ~accepted =>
             /\ lookup_line' = lookup_line
             /\ ic_state' \in {"ready", "miss", "replay", "kill"}
             /\ ic_state' \in {"miss", "kill"} <=>
                  missed \/ (ic_state \in {"miss", "kill"} /\ grant # "data")
             /\ ic_state' = "replay" => ic_state = "miss"
    <3> DEFINE cached == request /\ req_icache_valid(line, translated)
    <3>1. /\ IcacheEdge(cached, line, dropped, outcome, grant, data)
          /\ cached => /\ ic_state \in {"ready", "lookup", "replay"}
                       /\ ic_state = "lookup" => outcome = "hit"
      BY <2>1, <2>3
    <3>2. accepted <=> cached /\ ~dropped
      OBVIOUS
    <3> HIDE DEF cached, line, data, accepted
    <3> QED
      BY <3>1, <3>2, CacheStep DEF ControlInv
  <2> HIDE DEF request, line, data, taken, accepted
  <2>7. req_nc_valid_q' => taken
    BY <2>5, Zenon
  <2>8. Control'
    <3>1. state_nc' \in {"idle_nc", "wait_nc", "kill_nc"}
      BY <2>5 DEF ControlInv, Control, next_state_nc
    <3>2. ic_state' \in {"ready", "lookup", "miss", "replay", "kill"}
      BY <2>6
    <3>3. req_nc_valid_q' => ic_state' = "ready"
      <4> SUFFICES ASSUME taken PROVE ic_state' = "ready"
        BY <2>7
      <4> QED
        BY <2>2, <2>3, <2>4, <2>6
    <3>4. state_nc' # "idle_nc" => ic_state' = "ready" /\ ~req_nc_valid_q'
      <4> SUFFICES ASSUME state_nc' # "idle_nc" PROVE ic_state' = "ready" /\ ~taken
        BY <2>7
      <4>1. state_nc # "idle_nc" \/ req_nc_valid_o
        BY <2>5 DEF next_state_nc
      <4>2. ~taken /\ ~accepted
        BY <4>1, <2>3, <2>4
      <4>3. ic_state = "ready"
        BY <4>1 DEF ControlInv, Control, req_nc_valid_o
      <4> QED
        BY <4>2, <4>3, <2>6
    <3> QED
      BY <3>1, <3>2, <3>3, <3>4 DEF Control
  <2>9. MemoryHoldsIt'
    <3> DEFINE left == IF grant = "data" /\ mem_reqs # <<>> THEN Tail(mem_reqs) ELSE mem_reqs
               nc == IF req_nc_valid_o THEN <<NcRequest>> ELSE <<>>
               ifill == IF missed THEN <<RefillRequest>> ELSE <<>>
    <3>1. mem_reqs' = left \o nc \o ifill
      BY <2>1 DEF MemoryEdge, NcRequest, RefillRequest
    <3>2. CASE state_nc # "idle_nc"
      <4>1. mem_reqs = <<NcRequest>> /\ nc = <<>> /\ ifill = <<>>
        BY <3>2 DEF ControlInv, Control, MemoryHoldsIt, req_nc_valid_o
      <4>2. ~request /\ ic_state = "ready" /\ ic_state' = "ready" /\ NcRequest' = NcRequest
        BY <3>2, <2>3, <2>5, <2>6, <2>4 DEF ControlInv, Control, NcRequest
      <4>3. mem_reqs' = IF grant = "data" THEN <<>> ELSE <<NcRequest>>
        BY <3>1, <4>1, OneElement, OneAdded
      <4>4. state_nc' = "idle_nc" <=> grant = "data"
        BY <2>5, <3>2 DEF ControlInv, Control, next_state_nc
      <4> QED
        BY <4>2, <4>3, <4>4 DEF MemoryHoldsIt
    <3>3. CASE state_nc = "idle_nc" /\ ic_state \in {"miss", "kill"}
      <4>1. mem_reqs = <<RefillRequest>> /\ nc = <<>> /\ ifill = <<>>
        BY <3>3 DEF ControlInv, Control, MemoryHoldsIt, req_nc_valid_o
      <4>2. ~request /\ ~accepted /\ ~taken
        BY <3>3, <2>3, <2>4
      <4>3. state_nc' = "idle_nc" /\ RefillRequest' = RefillRequest
        BY <3>3, <4>2, <2>5, <2>6
           DEF ControlInv, Control, next_state_nc, req_nc_valid_o, RefillRequest
      <4>4. mem_reqs' = IF grant = "data" THEN <<>> ELSE <<RefillRequest>>
        BY <3>1, <4>1, OneElement, OneAdded
      <4>5. ic_state' \in {"miss", "kill"} <=> grant # "data"
        BY <3>3, <4>2, <2>6
      <4> QED
        BY <4>3, <4>4, <4>5 DEF MemoryHoldsIt
    <3>4. CASE state_nc = "idle_nc" /\ ic_state \notin {"miss", "kill"}
      <4>1. mem_reqs = <<>> /\ left = <<>>
        BY <3>4 DEF MemoryHoldsIt, ControlInv
      <4>2. CASE req_nc_valid_o
        <5>1. ic_state = "ready" /\ ~request /\ ~accepted /\ ~taken
          BY <4>2, <2>3, <2>4 DEF ControlInv, Control, req_nc_valid_o
        <5>2. mem_reqs' = <<NcRequest>>
          BY <3>1, <4>1, <4>2, <5>1, OneAdded
        <5>3. state_nc' = "wait_nc" /\ NcRequest' = NcRequest
          BY <3>4, <4>2, <5>1, <2>5 DEF next_state_nc, NcRequest
        <5> QED
          BY <5>2, <5>3 DEF MemoryHoldsIt
      <4>3. CASE ~req_nc_valid_o /\ missed
        <5>1. ~request /\ ~accepted /\ ~taken
          BY <4>3, <2>3, <2>4
        <5>2. mem_reqs' = <<RefillRequest>>
          BY <3>1, <4>1, <4>3, OneAdded
        <5>3. state_nc' = "idle_nc" /\ ic_state' \in {"miss", "kill"}
              /\ RefillRequest' = RefillRequest
          BY <3>4, <4>3, <5>1, <2>5, <2>6 DEF next_state_nc, RefillRequest
        <5> QED
          BY <5>2, <5>3 DEF MemoryHoldsIt
      <4>4. CASE ~req_nc_valid_o /\ ~missed
        <5>1. mem_reqs' = <<>>
          BY <3>1, <4>1, <4>4, OneAdded
        <5>2. state_nc' = "idle_nc" /\ ic_state' \notin {"miss", "kill"}
          BY <3>4, <4>4, <2>5, <2>6 DEF next_state_nc
        <5> QED
          BY <5>1, <5>2 DEF MemoryHoldsIt
      <4> QED
        BY <4>2, <4>3, <4>4
    <3> QED
      BY <3>2, <3>3, <3>4
  <2> QED
    BY <2>8, <2>9 DEF ControlInv
<1>2. CASE UNCHANGED vars
  BY <1>2 DEF vars, nc_vars, env_vars, ControlInv, Control, MemoryHoldsIt,
              NcRequest, RefillRequest
<1> QED
  BY <1>1, <1>2 DEF Next

LEMMA ControlAlways == Spec => []ControlInv
BY InitControl, NextControl, PTL DEF Spec

-----------------------------------------------------------------------------
(* What a data grant carries belongs to the one that waits.                *)
LEMMA GrantedLine ==
  ASSUME ControlInv, mem_reqs # <<>>
  PROVE  /\ state_nc # "idle_nc" => Head(mem_reqs).line = paddr_infly_q
         /\ ic_state \in {"miss", "kill"} => Head(mem_reqs).line = lookup_line
<1>1. CASE state_nc # "idle_nc"
  BY <1>1, OneElement DEF ControlInv, Control, MemoryHoldsIt, NcRequest
<1>2. CASE state_nc = "idle_nc" /\ ic_state \in {"miss", "kill"}
  BY <1>2, OneElement DEF ControlInv, MemoryHoldsIt, RefillRequest
<1> QED
  BY <1>1, <1>2

(* A response in this cycle is the instruction that is waited for. Needed  *)
(* here: no line of a non-cached mapped section is at address 0, which     *)
(* stands for an empty buffer.                                             *)
LEMMA ResponseIsWanted ==
  ASSUME ControlInv, DataInv, ZeroLine \notin NcLines \cap MappedLines,
         NEW outcome, resp_valid(outcome), want # NoPc
  PROVE  resp_instruction(outcome) \in {want, FaultPc}
<1>1. CASE icache_resp_xcpt(outcome)
  BY <1>1 DEF resp_instruction
<1>2. CASE ~icache_resp_xcpt(outcome)
  <2>1. want \in Pc /\ old_pc_req_q = want
    BY DEF DataInv, WorksForFetch
  <2>2. tile_data_line = want.line
    <3>1. CASE nc_rsp_valid_q
      BY <3>1 DEF tile_data_line, core_rsp_valid_o, DataInv, WorksForFetch
    <3>2. CASE is_in_buffer
      <4>1. buffer_paddr_q = paddr_infly_q /\ paddr_infly_q # ZeroLine
        BY <3>2 DEF is_in_buffer, same_addr_req, DataInv, BufferHoldsLine
      <4>2. icache_ncline_q = paddr_infly_q /\ paddr_infly_q = want.line
        BY <3>2, <4>1 DEF is_in_buffer, DataInv, BufferHoldsLine, WorksForFetch
      <4> QED
        BY <3>2, <4>2 DEF tile_data_line, core_rsp_valid_o
    <3>3. CASE ~core_rsp_valid_o
      <4>1. ic_state \in {"replay", "lookup"}
        BY <1>2, <3>3 DEF resp_valid, tile_valid, icache_resp_valid
      <4> QED
        BY <3>3, <4>1 DEF tile_data_line, icache_resp_line, DataInv, WorksForFetch
    <3> QED
      BY <3>1, <3>2, <3>3 DEF core_rsp_valid_o
  <2>3. resp_instruction(outcome) = [line |-> want.line, word |-> want.word]
    BY <1>2, <2>1, <2>2 DEF resp_instruction
  <2>4. want = [line |-> want.line, word |-> want.word]
    BY <2>1 DEF Pc
  <2> QED
    BY <2>3, <2>4
<1> QED
  BY <1>1, <1>2

LEMMA InitData == Init => DataInv
BY DEF Init, NcInit, DataInv, BufferHoldsLine, WorksForFetch, FetchGetsItsInstruction

LEMMA NextData ==
  ASSUME ZeroLine \notin NcLines \cap MappedLines
  PROVE  ControlInv /\ DataInv /\ [Next]_vars => DataInv'
<1> SUFFICES ASSUME ControlInv, DataInv, [Next]_vars PROVE DataInv'
  OBVIOUS
<1>1. ASSUME NEW pc \in Pc \cup {NoPc}, NEW translated \in BOOLEAN, NEW dropped \in BOOLEAN,
             NEW outcome \in Outcomes, NEW grant \in Grants,
             Cycle(pc, translated, dropped, outcome, grant)
      PROVE  DataInv'
  <2> DEFINE request == do_icache_request_int(pc, outcome)
             line == IF pc = NoPc THEN ZeroLine ELSE pc.line
             data == IF mem_reqs = <<>> THEN NoData ELSE Head(mem_reqs).line
             taken == request /\ req_nc_valid_d(line, translated, dropped)
             cached == request /\ req_icache_valid(line, translated)
             answer == resp_valid(outcome) /\ ~dropped
  <2>1. /\ NcEdge(taken, line, dropped, grant = "data", data)
        /\ IcacheEdge(cached, line, dropped, outcome, grant, data)
        /\ ic_state # "lookup" => outcome = "hit"
        /\ grant = "data" => mem_reqs # <<>>
    BY <1>1 DEF Cycle, TileCycle, l2_grant_valid
  <2>2. /\ old_pc_req_q' = old_pc_req_d(request, pc)
        /\ delivered' = IF want # NoPc /\ answer
                          THEN [want |-> want, got |-> resp_instruction(outcome)]
                          ELSE NoPc
        /\ want' = IF dropped THEN NoPc
                    ELSE IF request THEN pc
                    ELSE IF answer THEN NoPc ELSE want
    BY <1>1 DEF Cycle, TileCycle
  <2>3. request => /\ pc \in Pc /\ line = pc.line
                   /\ state_nc = "idle_nc" /\ ~req_nc_valid_o
                   /\ ic_state \in {"ready", "lookup", "replay"}
                   /\ ic_state = "lookup" => outcome = "hit"
    BY <2>1, RequestMeansIdle DEF ControlInv
  <2>4. taken => request /\ line \in NcLines \cap MappedLines
    BY DEF req_nc_valid_d, addr_is_nc
  <2>6. grant = "data" => /\ state_nc # "idle_nc" => data = paddr_infly_q
                          /\ ic_state \in {"miss", "kill"} => data = lookup_line
    BY <2>1, GrantedLine
  <2>7. cached => request
    OBVIOUS
  <2> HIDE DEF request, line, data, taken, cached
  <2>8. /\ state_nc' = next_state_nc(grant = "data")
        /\ buffer_paddr_q' = buffer_paddr_d(grant = "data")
        /\ icache_ncline_q' = icache_ncline_d(grant = "data", data)
        /\ paddr_infly_q' = IF taken THEN line ELSE paddr_infly_q
    BY <2>1 DEF NcEdge
  <2>9. /\ req_nc_valid_q' => taken
        /\ nc_rsp_valid_q' => nc_rsp_valid_d(grant = "data")
    <3>1. req_nc_valid_q' = taken /\ nc_rsp_valid_q' = nc_rsp_valid_d(grant = "data")
      BY <2>1 DEF NcEdge
    <3> QED
      BY <3>1, Zenon
  <2>10. /\ cached /\ ~dropped => ic_state' = "lookup" /\ lookup_line' = line
         /\ ~(cached /\ ~dropped) =>
              /\ lookup_line' = lookup_line
              /\ ic_state' \in {"ready", "miss", "replay", "kill"}
              /\ ic_state' \in {"miss", "kill"} <=>
                   \/ ic_state = "lookup" /\ outcome = "miss"
                   \/ ic_state \in {"miss", "kill"} /\ grant # "data"
              /\ ic_state' = "miss" => ic_state \in {"lookup", "miss"}
              /\ ic_state' = "replay" =>
                   ic_state = "miss" /\ grant = "data" /\ refill_line' = data
    <3>1. cached => /\ ic_state \in {"ready", "lookup", "replay"}
                    /\ ic_state = "lookup" => outcome = "hit"
      BY <2>3, <2>7
    <3> QED
      BY <2>1, <3>1, CacheStep DEF ControlInv
  <2>11. nc_rsp_valid_d(grant = "data") =>
           /\ state_nc = "wait_nc" /\ grant = "data" /\ ~nc_kill_q
           /\ icache_ncline_q' = paddr_infly_q
    BY <2>6, <2>8 DEF nc_rsp_valid_d, icache_ncline_d
  <2>12. BufferHoldsLine'
    <3>1. req_nc_valid_q' => paddr_infly_q' \in NcLines \cap MappedLines
      BY <2>4, <2>8, <2>9
    <3>2. CASE nc_kill_q
      BY <3>1, <3>2, <2>8 DEF BufferHoldsLine, buffer_paddr_d
    <3>3. CASE ~nc_kill_q /\ nc_rsp_valid_d(grant = "data")
      BY <3>1, <3>3, <2>8, <2>11 DEF BufferHoldsLine, buffer_paddr_d
    <3>4. CASE ~nc_kill_q /\ ~nc_rsp_valid_d(grant = "data")
      BY <3>1, <3>4, <2>8 DEF DataInv, BufferHoldsLine, buffer_paddr_d, icache_ncline_d
    <3> QED
      BY <3>2, <3>3, <3>4
  <2>13. WorksForFetch'
    <3>1. CASE want' = NoPc
      BY <3>1 DEF WorksForFetch
    <3>2. CASE want' # NoPc /\ request
      <4>1. want' = pc /\ ~dropped /\ pc \in Pc /\ line = pc.line
        BY <3>2, <2>2, <2>3
      <4>2. old_pc_req_q' = pc
        BY <3>2, <2>2 DEF old_pc_req_d
      <4>3. ic_state' \in {"lookup", "miss"} => lookup_line' = pc.line
        BY <3>2, <4>1, <2>3, <2>10
      <4>4. ic_state' # "replay"
        BY <3>2, <4>1, <2>3, <2>10
      <4>5. state_nc' = "idle_nc"
        BY <3>2, <2>3, <2>8 DEF next_state_nc
      <4>6. req_nc_valid_q' => paddr_infly_q' = pc.line
        BY <4>1, <2>8, <2>9
      <4>7. ~nc_rsp_valid_q'
        BY <3>2, <2>3, <2>9 DEF nc_rsp_valid_d
      <4> QED
        BY <4>1, <4>2, <4>3, <4>4, <4>5, <4>6, <4>7 DEF WorksForFetch
    <3>3. CASE want' # NoPc /\ ~request
      <4>1. want' = want /\ ~taken /\ ~cached
        BY <3>3, <2>2, <2>4, <2>7
      <4>2. want \in Pc /\ old_pc_req_q' = want
        BY <3>3, <4>1, <2>2 DEF old_pc_req_d, DataInv, WorksForFetch
      <4>3. ic_state' \in {"lookup", "miss"} => lookup_line' = want.line
        BY <3>3, <4>1, <2>10 DEF DataInv, WorksForFetch
      <4>4. ic_state' = "replay" => refill_line' = want.line
        BY <3>3, <4>1, <2>6, <2>10 DEF DataInv, WorksForFetch
      <4>5. ~req_nc_valid_q' /\ paddr_infly_q' = paddr_infly_q
        BY <4>1, <2>8, <2>9
      <4>6. state_nc' # "idle_nc" => paddr_infly_q = want.line
        <5>1. state_nc' # "idle_nc" => state_nc # "idle_nc" \/ req_nc_valid_q
          BY <2>8 DEF next_state_nc, req_nc_valid_o
        <5> QED
          BY <3>3, <4>1, <5>1 DEF DataInv, WorksForFetch
      <4>7. nc_rsp_valid_q' => icache_ncline_q' = want.line
        BY <3>3, <4>1, <2>9, <2>11 DEF DataInv, WorksForFetch
      <4> QED
        BY <4>1, <4>2, <4>3, <4>4, <4>5, <4>6, <4>7 DEF WorksForFetch
    <3> QED
      BY <3>1, <3>2, <3>3
  <2>14. FetchGetsItsInstruction'
    <3>1. CASE want # NoPc /\ answer
      <4>1. resp_instruction(outcome) \in {want, FaultPc}
        BY <3>1, ResponseIsWanted
      <4> QED
        BY <3>1, <4>1, <2>2 DEF FetchGetsItsInstruction, FaultPc
    <3>2. CASE ~(want # NoPc /\ answer)
      BY <3>2, <2>2 DEF FetchGetsItsInstruction
    <3> QED
      BY <3>1, <3>2
  <2> QED
    BY <2>12, <2>13, <2>14 DEF DataInv
<1>2. CASE UNCHANGED vars
  BY <1>2 DEF vars, nc_vars, env_vars, DataInv, BufferHoldsLine, WorksForFetch,
              FetchGetsItsInstruction, FaultPc
<1> QED
  BY <1>1, <1>2 DEF Next

-----------------------------------------------------------------------------
(* The cache and the buffer never have two requests in memory together, so *)
(* that the one-entry FIFO behind them does not overflow.                  *)
THEOREM OneRequestAtATime == Spec => []OneRequestInMemory
<1>1. ControlInv => OneRequestInMemory
  BY OneElement DEF ControlInv, MemoryHoldsIt, OneRequestInMemory
<1> QED
  BY <1>1, ControlAlways, PTL

(* The state machine of the buffer waits exactly while memory owes it an   *)
(* answer: a killed request absorbs its own grant and no other.            *)
THEOREM OwnGrantAwaited == Spec => []WaitsForItsOwnGrant
<1>1. ControlInv => WaitsForItsOwnGrant
  <2> SUFFICES ASSUME ControlInv PROVE WaitsForItsOwnGrant
    OBVIOUS
  <2>1. CASE state_nc # "idle_nc"
    <3>1. mem_reqs = <<NcRequest>>
      BY <2>1 DEF ControlInv, MemoryHoldsIt
    <3>2. DOMAIN mem_reqs = {1} /\ mem_reqs[1].kind = "nc"
      BY <3>1, OneElement DEF NcRequest
    <3> QED
      BY <2>1, <3>2 DEF WaitsForItsOwnGrant, ControlInv, Control
  <2>2. CASE state_nc = "idle_nc" /\ ic_state \in {"miss", "kill"}
    <3>1. mem_reqs = <<RefillRequest>>
      BY <2>2 DEF ControlInv, MemoryHoldsIt
    <3>2. DOMAIN mem_reqs = {1} /\ mem_reqs[1].kind # "nc"
      BY <3>1, OneElement DEF RefillRequest
    <3> QED
      BY <2>2, <3>2 DEF WaitsForItsOwnGrant
  <2>3. CASE state_nc = "idle_nc" /\ ic_state \notin {"miss", "kill"}
    BY <2>3 DEF WaitsForItsOwnGrant, ControlInv, MemoryHoldsIt
  <2> QED
    BY <2>1, <2>2, <2>3
<1> QED
  BY <1>1, ControlAlways, PTL

(* The data side of the invariant, when no mapped non-cached line is at    *)
(* address 0.                                                              *)
LEMMA DataAlways ==
  ASSUME ZeroLine \notin NcLines \cap MappedLines
  PROVE  Spec => [](ControlInv /\ DataInv)
<1>1. Init => ControlInv /\ DataInv
  BY InitControl, InitData
<1>2. ControlInv /\ DataInv /\ [Next]_vars => (ControlInv /\ DataInv)'
  BY NextControl, NextData
<1> QED
  BY <1>1, <1>2, PTL DEF Spec

(* Each instruction handed over is the one that was asked for, or a fault. *)
THEOREM FetchesAreRight ==
  ASSUME ZeroLine \notin NcLines \cap MappedLines
  PROVE  Spec => []FetchGetsItsInstruction
<1>1. ControlInv /\ DataInv => FetchGetsItsInstruction
  BY DEF DataInv
<1> QED
  BY <1>1, DataAlways, PTL

(* A hit in the buffer finds the line that was asked for.                  *)
THEOREM HitsAreRight ==
  ASSUME ZeroLine \notin NcLines \cap MappedLines
  PROVE  Spec => []HitHoldsLine
<1>1. ControlInv /\ DataInv => HitHoldsLine
  BY DEF DataInv, BufferHoldsLine, HitHoldsLine, is_in_buffer, same_addr_req
<1> QED
  BY <1>1, DataAlways, PTL

-----------------------------------------------------------------------------
(* The simulator (SimFetch). Each responder works exactly while the one    *)
(* who asked it waits, on the line that was asked for, and has answered    *)
(* only while it still waits.                                              *)
NcWaitsFor(lines) == state_nc # "idle_nc" /\ paddr_infly_q \in lines

Connected ==
  req_nc_valid_q \/ state_nc # "idle_nc" => paddr_infly_q \in BromLines \cup ProgLines

BromInv ==
  /\ brom_count \in Nat
  /\ req_active \/ brom_resp_valid_o <=> NcWaitsFor(BromLines)
  /\ ~(req_active /\ brom_resp_valid_o)
  /\ ~req_active => brom_count # BROM_DELAY
  /\ NcWaitsFor(BromLines) => brom_req_address_d = paddr_infly_q
  /\ brom_resp_valid_o => brom_resp_data_block = paddr_infly_q

ProgBufInv ==
  /\ prog_buf_resp_valid_q <=> NcWaitsFor(ProgLines \ BromLines)
  /\ prog_buf_resp_valid_q => prog_buf_resp_data_q = paddr_infly_q

ChannelInv ==
  /\ ic_counter \in Nat
  /\ request_q <=> ic_state \in {"miss", "kill"}
  /\ ic_valid_o <=> request_q /\ ic_counter = 0
  /\ request_q => ic_addr_int = lookup_line
  /\ ic_valid_o => ic_line = lookup_line

SimInv == ControlInv /\ Connected /\ BromInv /\ ProgBufInv /\ ChannelInv

LEMMA SimInitInv == SimInit => SimInv
<1> SUFFICES ASSUME SimInit PROVE SimInv
  OBVIOUS
<1>1. ControlInv /\ state_nc = "idle_nc" /\ ic_state = "ready" /\ req_nc_valid_q = FALSE
  BY InitControl DEF SimInit, Init, NcInit
<1>2. Connected /\ BromInv /\ ProgBufInv
  BY <1>1, SimFetchAssumption DEF SimInit, Connected, BromInv, ProgBufInv, NcWaitsFor
<1>3. ChannelInv
  BY <1>1 DEF SimInit, ChannelInv
<1> QED
  BY <1>1, <1>2, <1>3 DEF SimInv

(* What a response in this cycle says of memory.                           *)
LEMMA ResponseIsOwed ==
  ASSUME SimInv, dut_icache_response_valid
  PROVE  /\ mem_reqs # <<>> /\ dut_icache_response_data = Head(mem_reqs).line
         /\ uc_fetch_resp_valid => state_nc # "idle_nc"
         /\ ic_valid_o => ic_state \in {"miss", "kill"}
<1> USE DEF SimInv
<1>1. CASE uc_fetch_resp_valid
  <2>1. state_nc # "idle_nc" /\ uc_fetch_resp_data = paddr_infly_q
    <3>1. CASE uc_fetch_mux_sel = "brom"
      <4>1. brom_resp_valid_o
        BY <1>1, <3>1 DEF uc_fetch_resp_valid
      <4> QED
        BY <3>1, <4>1 DEF uc_fetch_resp_data, BromInv, NcWaitsFor
    <3>2. CASE uc_fetch_mux_sel # "brom"
      <4>1. prog_buf_resp_valid_q
        BY <1>1, <3>2 DEF uc_fetch_resp_valid
      <4> QED
        BY <3>2, <4>1 DEF uc_fetch_resp_data, ProgBufInv, NcWaitsFor
    <3> QED
      BY <3>1, <3>2
  <2>2. mem_reqs = <<NcRequest>> /\ ic_state = "ready"
    BY <2>1 DEF ControlInv, Control, MemoryHoldsIt
  <2>3. Head(mem_reqs).line = paddr_infly_q
    BY <2>2, OneElement DEF NcRequest
  <2>4. ~ic_valid_o
    BY <2>2 DEF ChannelInv
  <2> QED
    BY <1>1, <2>1, <2>2, <2>3, <2>4, OneElement DEF dut_icache_response_data
<1>2. CASE ~uc_fetch_resp_valid
  <2>1. ic_valid_o
    BY <1>2 DEF dut_icache_response_valid
  <2>2. ic_state \in {"miss", "kill"} /\ ic_line = lookup_line
    BY <2>1 DEF ChannelInv
  <2>3. mem_reqs = <<RefillRequest>>
    BY <2>2 DEF ControlInv, Control, MemoryHoldsIt
  <2>4. Head(mem_reqs).line = lookup_line
    BY <2>3, OneElement DEF RefillRequest
  <2> QED
    BY <1>2, <2>2, <2>3, <2>4, OneElement DEF dut_icache_response_data
<1> QED
  BY <1>1, <1>2

(* A cycle of the simulator is a cycle of the fetch path, in which memory  *)
(* grants data if a responder has an answer, and is silent otherwise.      *)
LEMMA SimCycleIsCycle ==
  ASSUME SimInv, NEW pc \in Pc \cup {NoPc}, NEW translated \in BOOLEAN,
         NEW dropped \in BOOLEAN, NEW outcome \in Outcomes,
         SimCycle(pc, translated, dropped, outcome)
  PROVE  Cycle(pc, translated, dropped, outcome, sim_grant)
<1> DEFINE data == IF mem_reqs = <<>> THEN NoData ELSE Head(mem_reqs).line
           request == do_icache_request_int(pc, outcome)
           line == IF pc = NoPc THEN ZeroLine ELSE pc.line
<1>1. TileCycle(pc, translated, dropped, outcome, sim_grant, dut_icache_response_data)
  BY DEF SimCycle
<1>2. sim_grant = "data" => mem_reqs # <<>> /\ dut_icache_response_data = data
  BY ResponseIsOwed DEF sim_grant
<1>3. NcEdge(request /\ req_nc_valid_d(line, translated, dropped), line, dropped,
             l2_grant_valid(sim_grant), data)
  <2>1. NcEdge(request /\ req_nc_valid_d(line, translated, dropped), line, dropped,
               l2_grant_valid(sim_grant), dut_icache_response_data)
    BY <1>1 DEF TileCycle
  <2>2. icache_ncline_d(l2_grant_valid(sim_grant), dut_icache_response_data)
          = icache_ncline_d(l2_grant_valid(sim_grant), data)
    BY <1>2 DEF icache_ncline_d, nc_rsp_valid_d, l2_grant_valid
  <2> HIDE DEF data, request, line
  <2> QED
    BY <2>1, <2>2 DEF NcEdge
<1>4. IcacheEdge(request /\ req_icache_valid(line, translated), line, dropped,
                 outcome, sim_grant, data)
  <2>1. IcacheEdge(request /\ req_icache_valid(line, translated), line, dropped,
                   outcome, sim_grant, dut_icache_response_data)
    BY <1>1 DEF TileCycle
  <2> HIDE DEF data, request, line
  <2> QED
    BY <1>2, <2>1 DEF IcacheEdge
<1>5. TileCycle(pc, translated, dropped, outcome, sim_grant, data)
  BY <1>1, <1>3, <1>4 DEF TileCycle
<1> QED
  BY <1>2, <1>5 DEF Cycle

LEMMA SimNextIsNext == SimInv /\ [SimNext]_sim_vars => [Next]_vars
<1> SUFFICES ASSUME SimInv, SimNext PROVE Next
  BY DEF sim_vars
<1>1. sim_grant \in Grants
  BY DEF sim_grant, Grants
<1> QED
  BY <1>1, SimCycleIsCycle DEF SimNext, Next

(* What a cycle does to the ones who wait: who waits goes on until a data  *)
(* grant, and for the same line.                                           *)
LEMMA WaitStep ==
  ASSUME SimInv, NEW pc \in Pc \cup {NoPc}, NEW translated \in BOOLEAN,
         NEW dropped \in BOOLEAN, NEW outcome \in Outcomes,
         SimCycle(pc, translated, dropped, outcome)
  PROVE  /\ state_nc' # "idle_nc" <=>
              req_nc_valid_o \/ (state_nc # "idle_nc" /\ ~dut_icache_response_valid)
         /\ state_nc # "idle_nc" \/ req_nc_valid_o =>
              paddr_infly_q' = paddr_infly_q /\ ~req_nc_valid_q'
         /\ req_nc_valid_q' => paddr_infly_q' \in BromLines \cup ProgLines
         /\ ic_state' \in {"miss", "kill"} <=>
              \/ ic_state = "lookup" /\ outcome = "miss"
              \/ ic_state \in {"miss", "kill"} /\ ~dut_icache_response_valid
         /\ (ic_state = "lookup" /\ outcome = "miss") \/ ic_state \in {"miss", "kill"} =>
              lookup_line' = lookup_line
<1> DEFINE request == do_icache_request_int(pc, outcome)
           line == IF pc = NoPc THEN ZeroLine ELSE pc.line
           data == IF mem_reqs = <<>> THEN NoData ELSE Head(mem_reqs).line
           taken == request /\ req_nc_valid_d(line, translated, dropped)
           cached == request /\ req_icache_valid(line, translated)
<1>1. TileCycle(pc, translated, dropped, outcome, sim_grant, data)
  BY SimCycleIsCycle DEF Cycle
<1>2. /\ NcEdge(taken, line, dropped, sim_grant = "data", data)
      /\ IcacheEdge(cached, line, dropped, outcome, sim_grant, data)
      /\ ic_state # "lookup" => outcome = "hit"
  BY <1>1 DEF TileCycle, l2_grant_valid
<1>3. request => /\ state_nc = "idle_nc" /\ ~req_nc_valid_o
                 /\ ic_state \in {"ready", "lookup", "replay"}
                 /\ ic_state = "lookup" => outcome = "hit"
  BY <1>2, RequestMeansIdle DEF SimInv, ControlInv
<1>4. taken => request /\ line \in BromLines \cup ProgLines
  BY SimFetchAssumption DEF req_nc_valid_d, addr_is_nc
<1>5. cached => request
  OBVIOUS
<1>6. sim_grant = "data" <=> dut_icache_response_valid
  BY DEF sim_grant
<1> HIDE DEF request, line, data, taken, cached
<1>7. /\ state_nc' = next_state_nc(sim_grant = "data")
      /\ paddr_infly_q' = IF taken THEN line ELSE paddr_infly_q
  BY <1>2 DEF NcEdge
<1>8. req_nc_valid_q' = taken
  BY <1>2 DEF NcEdge
<1>9. req_nc_valid_q' => taken
  BY <1>8, Zenon
<1>10. /\ cached /\ ~dropped => ic_state' = "lookup"
       /\ ~(cached /\ ~dropped) =>
            /\ lookup_line' = lookup_line
            /\ ic_state' \in {"ready", "miss", "replay", "kill"}
            /\ ic_state' \in {"miss", "kill"} <=>
                 \/ ic_state = "lookup" /\ outcome = "miss"
                 \/ ic_state \in {"miss", "kill"} /\ sim_grant # "data"
  <2>1. cached => /\ ic_state \in {"ready", "lookup", "replay"}
                  /\ ic_state = "lookup" => outcome = "hit"
    BY <1>3, <1>5
  <2> QED
    BY <1>2, <2>1, CacheStep DEF SimInv, ControlInv
<1>11. state_nc' # "idle_nc" <=>
         req_nc_valid_o \/ (state_nc # "idle_nc" /\ ~dut_icache_response_valid)
  BY <1>6, <1>7 DEF next_state_nc, req_nc_valid_o, SimInv, ControlInv, Control
<1>12. state_nc # "idle_nc" \/ req_nc_valid_o =>
         paddr_infly_q' = paddr_infly_q /\ ~req_nc_valid_q'
  BY <1>3, <1>4, <1>7, <1>9
<1>13. req_nc_valid_q' => paddr_infly_q' \in BromLines \cup ProgLines
  BY <1>4, <1>7, <1>9
<1>14. CASE cached /\ ~dropped
  BY <1>3, <1>5, <1>10, <1>11, <1>12, <1>13, <1>14
<1>15. CASE ~(cached /\ ~dropped)
  BY <1>6, <1>10, <1>11, <1>12, <1>13, <1>15
<1> QED
  BY <1>14, <1>15

LEMMA BromStep ==
  ASSUME SimInv, NEW pc \in Pc \cup {NoPc}, NEW translated \in BOOLEAN,
         NEW dropped \in BOOLEAN, NEW outcome \in Outcomes,
         SimCycle(pc, translated, dropped, outcome)
  PROVE  BromInv'
<1>1. /\ brom_count' = brom_count_next
      /\ brom_req_address_d' = IF brom_req_valid THEN paddr_infly_q ELSE brom_req_address_d
      /\ brom_resp_data_block' = brom_req_address_d
  BY DEF SimCycle, BromEdge
<1>2. req_active' = req_active_next /\ brom_resp_valid_o' = (brom_count = BROM_DELAY)
  BY DEF SimCycle, BromEdge
<1>3. (req_active' <=> req_active_next) /\ (brom_resp_valid_o' <=> brom_count = BROM_DELAY)
  BY <1>2, Zenon
<1>4. /\ state_nc' # "idle_nc" <=>
           req_nc_valid_o \/ (state_nc # "idle_nc" /\ ~dut_icache_response_valid)
      /\ state_nc # "idle_nc" \/ req_nc_valid_o => paddr_infly_q' = paddr_infly_q
  BY WaitStep
<1>5. req_nc_valid_o => state_nc = "idle_nc"
  BY DEF req_nc_valid_o
<1>6. brom_req_valid <=> req_nc_valid_o /\ paddr_infly_q \in BromLines
  BY DEF brom_req_valid, uc_fetch_mux_sel
<1>7. NcWaitsFor(BromLines) => (dut_icache_response_valid <=> brom_resp_valid_o)
  <2>1. NcWaitsFor(BromLines) => uc_fetch_mux_sel = "brom" /\ ic_state = "ready"
    BY DEF NcWaitsFor, uc_fetch_mux_sel, SimInv, ControlInv, Control
  <2>2. ic_state = "ready" => ~ic_valid_o
    BY DEF SimInv, ChannelInv
  <2> QED
    BY <2>1, <2>2 DEF dut_icache_response_valid, uc_fetch_resp_valid
<1>8. NcWaitsFor(BromLines)' <=>
        brom_req_valid \/ (NcWaitsFor(BromLines) /\ ~brom_resp_valid_o)
  BY <1>4, <1>5, <1>6, <1>7 DEF NcWaitsFor
<1>9. brom_req_valid => ~NcWaitsFor(BromLines)
  BY <1>5, <1>6 DEF NcWaitsFor
<1>10. /\ brom_count \in Nat
       /\ req_active \/ brom_resp_valid_o <=> NcWaitsFor(BromLines)
       /\ ~(req_active /\ brom_resp_valid_o)
       /\ ~req_active => brom_count # BROM_DELAY
       /\ NcWaitsFor(BromLines) => brom_req_address_d = paddr_infly_q
  BY DEF SimInv, BromInv
<1>11. brom_count' \in Nat
  BY <1>1, <1>10 DEF brom_count_next
<1>12. req_active' \/ brom_resp_valid_o' <=> NcWaitsFor(BromLines)'
  BY <1>3, <1>8, <1>9, <1>10 DEF req_active_next
<1>13. ~(req_active' /\ brom_resp_valid_o')
  BY <1>3 DEF req_active_next
<1>14. ~req_active' => brom_count' # BROM_DELAY
  <2>1. CASE brom_count = BROM_DELAY
    BY <1>1, <1>10, <2>1, SimFetchAssumption DEF brom_count_next
  <2>2. CASE brom_count # BROM_DELAY
    <3>1. ~req_active' => ~req_active
      BY <1>3, <2>2 DEF req_active_next
    <3> QED
      BY <1>1, <3>1, SimFetchAssumption DEF brom_count_next
  <2> QED
    BY <2>1, <2>2
<1>15. NcWaitsFor(BromLines)' => brom_req_address_d' = paddr_infly_q'
  BY <1>1, <1>4, <1>6, <1>8, <1>10 DEF NcWaitsFor
<1>16. brom_resp_valid_o' => brom_resp_data_block' = paddr_infly_q'
  <2> SUFFICES ASSUME brom_resp_valid_o' PROVE brom_resp_data_block' = paddr_infly_q'
    OBVIOUS
  <2>1. req_active /\ NcWaitsFor(BromLines)
    BY <1>3, <1>10
  <2> QED
    BY <1>1, <1>4, <1>10, <2>1 DEF NcWaitsFor
<1> QED
  BY <1>11, <1>12, <1>13, <1>14, <1>15, <1>16 DEF BromInv

LEMMA ProgBufStep ==
  ASSUME SimInv, NEW pc \in Pc \cup {NoPc}, NEW translated \in BOOLEAN,
         NEW dropped \in BOOLEAN, NEW outcome \in Outcomes,
         SimCycle(pc, translated, dropped, outcome)
  PROVE  ProgBufInv'
<1> DEFINE lines == ProgLines \ BromLines
<1>1. prog_buf_resp_valid_q' = prog_buf_req_valid
  BY DEF SimCycle, ProgBufEdge
<1>2. prog_buf_resp_data_q' = IF prog_buf_req_valid THEN paddr_infly_q ELSE NoData
  BY DEF SimCycle, ProgBufEdge
<1>3. prog_buf_resp_valid_q' <=> prog_buf_req_valid
  BY <1>1, Zenon
<1>4. /\ state_nc' # "idle_nc" <=>
           req_nc_valid_o \/ (state_nc # "idle_nc" /\ ~dut_icache_response_valid)
      /\ state_nc # "idle_nc" \/ req_nc_valid_o => paddr_infly_q' = paddr_infly_q
  BY WaitStep
<1>5. prog_buf_req_valid <=> req_nc_valid_o /\ paddr_infly_q \in lines
  BY DEF prog_buf_req_valid, uc_fetch_mux_sel
<1>6. NcWaitsFor(lines) => dut_icache_response_valid
  BY DEF NcWaitsFor, dut_icache_response_valid, uc_fetch_resp_valid, uc_fetch_mux_sel,
         SimInv, ProgBufInv
<1>7. NcWaitsFor(lines)' <=> prog_buf_req_valid
  BY <1>4, <1>5, <1>6 DEF NcWaitsFor
<1> QED
  BY <1>2, <1>3, <1>4, <1>5, <1>7 DEF ProgBufInv

LEMMA ChannelStep ==
  ASSUME SimInv, NEW pc \in Pc \cup {NoPc}, NEW translated \in BOOLEAN,
         NEW dropped \in BOOLEAN, NEW outcome \in Outcomes,
         SimCycle(pc, translated, dropped, outcome)
  PROVE  ChannelInv'
<1> DEFINE missed == ic_state = "lookup" /\ outcome = "miss"
           counts == request_q /\ ic_counter > 0
<1>1. /\ ic_counter \in Nat
      /\ request_q <=> ic_state \in {"miss", "kill"}
      /\ ic_valid_o <=> request_q /\ ic_counter = 0
      /\ request_q => ic_addr_int = lookup_line
  BY DEF SimInv, ChannelInv
<1>2. L2IcacheEdge(missed, lookup_line)
  BY DEF SimCycle
<1>3. missed => ~request_q
  BY <1>1
<1>4. /\ request_q' = (missed \/ counts)
      /\ ic_valid_o' = channel_answers(missed)
  BY <1>2, <1>3 DEF L2IcacheEdge
<1>5. /\ ic_counter' = IF missed THEN INST_DELAY + 1
                       ELSE IF counts THEN ic_counter - 1 ELSE ic_counter
      /\ ic_addr_int' = IF missed \/ counts THEN lookup_line ELSE ic_addr_int
      /\ ic_line' = IF channel_answers(missed) THEN ic_addr_int ELSE ic_line
  BY <1>2, <1>3 DEF L2IcacheEdge
<1>6. /\ ic_state' \in {"miss", "kill"} <=>
           missed \/ (ic_state \in {"miss", "kill"} /\ ~dut_icache_response_valid)
      /\ missed \/ ic_state \in {"miss", "kill"} => lookup_line' = lookup_line
  BY WaitStep
<1>7. ic_state \in {"miss", "kill"} => (dut_icache_response_valid <=> ic_valid_o)
  <2>1. uc_fetch_resp_valid => ic_state = "ready"
    BY ResponseIsOwed DEF SimInv, ControlInv, Control, dut_icache_response_valid
  <2> QED
    BY <2>1 DEF dut_icache_response_valid
<1>8. channel_answers(missed) <=> request_q /\ ic_counter = 1
  BY <1>3 DEF channel_answers
<1> HIDE DEF missed
<1>9. /\ request_q' <=> missed \/ counts
      /\ ic_valid_o' <=> channel_answers(missed)
  BY <1>4, Zenon
<1>10. ic_counter' \in Nat
  BY <1>1, <1>5, SimFetchAssumption
<1>11. request_q' <=> ic_state' \in {"miss", "kill"}
  BY <1>1, <1>6, <1>7, <1>9
<1>12. ic_valid_o' <=> request_q' /\ ic_counter' = 0
  BY <1>1, <1>3, <1>5, <1>8, <1>9, SimFetchAssumption
<1>13. request_q' => ic_addr_int' = lookup_line'
  BY <1>1, <1>5, <1>6, <1>9
<1>14. ic_valid_o' => ic_line' = lookup_line'
  BY <1>1, <1>5, <1>6, <1>8, <1>9
<1> QED
  BY <1>10, <1>11, <1>12, <1>13, <1>14 DEF ChannelInv

LEMMA SimNextInv == SimInv /\ [SimNext]_sim_vars => SimInv'
<1> SUFFICES ASSUME SimInv, [SimNext]_sim_vars PROVE SimInv'
  OBVIOUS
<1>1. ControlInv'
  BY SimNextIsNext, NextControl DEF SimInv
<1>2. CASE SimNext
  <2>1. PICK pc \in Pc \cup {NoPc}, translated \in BOOLEAN, dropped \in BOOLEAN,
             outcome \in Outcomes : SimCycle(pc, translated, dropped, outcome)
    BY <1>2 DEF SimNext
  <2>2. Connected'
    <3>1. /\ state_nc' # "idle_nc" =>
               (state_nc # "idle_nc" \/ req_nc_valid_o) /\ paddr_infly_q' = paddr_infly_q
          /\ req_nc_valid_q' => paddr_infly_q' \in BromLines \cup ProgLines
      BY <2>1, WaitStep
    <3>2. state_nc # "idle_nc" \/ req_nc_valid_o => paddr_infly_q \in BromLines \cup ProgLines
      BY DEF SimInv, Connected, req_nc_valid_o
    <3> QED
      BY <3>1, <3>2 DEF Connected
  <2> QED
    BY <1>1, <2>1, <2>2, BromStep, ProgBufStep, ChannelStep DEF SimInv
<1>3. CASE UNCHANGED sim_vars
  BY <1>1, <1>3 DEF sim_vars, vars, nc_vars, env_vars, brom_vars, prog_vars, l2_vars,
                    SimInv, Connected, BromInv, ProgBufInv, ChannelInv, NcWaitsFor
<1> QED
  BY <1>2, <1>3

LEMMA SimAlways == SimSpec => []SimInv
BY SimInitInv, SimNextInv, PTL DEF SimSpec

(* No responder answers late, twice, or in the place of another, although  *)
(* one wire answers for all of them (sim_top.sv, line 123).                *)
THEOREM GrantsAnswerTheOldest == SimSpec => []GrantAnswersOldest
<1>1. SimInv => GrantAnswersOldest
  BY ResponseIsOwed DEF GrantAnswersOldest
<1> QED
  BY <1>1, SimAlways, PTL

(* What was asked is being worked on: no request meets a responder that is *)
(* still busy and would drop it.                                           *)
THEOREM RequestsAreKept == SimSpec => []NoRequestLost
<1>1. SimInv => NoRequestLost
  <2> SUFFICES ASSUME SimInv PROVE NoRequestLost
    OBVIOUS
  <2>1. CASE state_nc # "idle_nc"
    <3>1. DOMAIN mem_reqs = {1} /\ mem_reqs[1].kind = "nc"
      BY <2>1, OneElement DEF SimInv, ControlInv, MemoryHoldsIt, NcRequest
    <3>2. req_active \/ brom_resp_valid_o \/ prog_buf_resp_valid_q
      BY <2>1 DEF SimInv, Connected, BromInv, ProgBufInv, NcWaitsFor
    <3> QED
      BY <3>1, <3>2 DEF NoRequestLost
  <2>2. CASE state_nc = "idle_nc" /\ ic_state \in {"miss", "kill"}
    <3>1. DOMAIN mem_reqs = {1} /\ mem_reqs[1].kind = "ifill"
      BY <2>2, OneElement DEF SimInv, ControlInv, MemoryHoldsIt, RefillRequest
    <3>2. request_q
      BY <2>2 DEF SimInv, ChannelInv
    <3> QED
      BY <3>1, <3>2 DEF NoRequestLost
  <2>3. CASE state_nc = "idle_nc" /\ ic_state \notin {"miss", "kill"}
    BY <2>3 DEF SimInv, ControlInv, MemoryHoldsIt, NoRequestLost
  <2> QED
    BY <2>1, <2>2, <2>3
<1> QED
  BY <1>1, SimAlways, PTL

(* The merged responders are a memory as FetchPath expects it: every step  *)
(* of the simulator is a step of FetchPath, or leaves its state alone.     *)
THEOREM SimIsFetchPath == SimSpec => Init /\ [][Next]_vars
<1>1. SimInit => Init
  BY DEF SimInit
<1> QED
  BY <1>1, SimAlways, SimNextIsNext, PTL DEF SimSpec

(* What is proved of FetchPath therefore holds in the simulator: each      *)
(* instruction handed over is the one that was asked for, whichever of the *)
(* models answered.                                                        *)
THEOREM SimFetchesAreRight ==
  ASSUME ZeroLine \notin NcLines \cap MappedLines
  PROVE  SimSpec => []FetchGetsItsInstruction
<1>1. Init => ControlInv /\ DataInv
  BY InitControl, InitData
<1>2. ControlInv /\ DataInv /\ [Next]_vars => (ControlInv /\ DataInv)'
  BY NextControl, NextData
<1>3. ControlInv /\ DataInv => FetchGetsItsInstruction
  BY DEF DataInv
<1> QED
  BY <1>1, <1>2, <1>3, SimIsFetchPath, PTL
=============================================================================

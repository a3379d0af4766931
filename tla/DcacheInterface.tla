-------------------------- MODULE DcacheInterface --------------------------
(***************************************************************************)
(* rtl/interface_dcache/rtl/dcache_interface.sv: the adapter between the   *)
(* memory unit of the core and the HPDcache. The core names a memory       *)
(* operation by the tag tid (its destination register), the cache answers  *)
(* in any order, and the adapter keeps the core from presenting a tag that *)
(* the cache has not answered yet (transaction_table).                     *)
(*                                                                         *)
(* One ClockEdge step is one rising edge of clk_i. The inputs of the cycle *)
(* are parameters of the step: dcache_ready_i, and the tag answered by the *)
(* cache. The core and the HPDcache are outside the repository: each is    *)
(* kept as the number of operations per tag it believes to be unanswered   *)
(* (core_waits, dcache_owes), updated by its own side of the handshake.    *)
(***************************************************************************)
EXTENDS Integers, FiniteSets

CONSTANTS
  Tids,          \* transaction tags: 0..127, the width of rd
  InstrTypes,    \* instruction types of the requests of the core
  Prefetches,    \* those that need no response: CMO_PREFETCH_R, CMO_PREFETCH_W
  CounterStates, \* 2^8, the states of transactions_in_flight
  NoReq,         \* the core presents no request
  NoTid          \* the cache sends no response

(* The tags are finitely many and fewer than the states of the counter     *)
(* (128 < 256), and the two placeholders are not values of their domains.  *)
ASSUME DcacheAssumption ==
  /\ IsFiniteSet(Tids)
  /\ Prefetches \subseteq InstrTypes
  /\ CounterStates \in Nat
  /\ Cardinality(Tids) < CounterStates
  /\ NoTid \notin Tids
  /\ NoReq \notin [instr_type : InstrTypes, rd : Tids]

VARIABLES
  transaction_table,       \* [Tids -> {"IDLE", "PENDING"}]
  transactions_in_flight,  \* the simulation counter
  req_cpu_dcache,          \* the request the core presents, or NoReq
  core_waits,              \* per tag: operations the core handed over, unanswered
  dcache_owes              \* per tag: operations the cache took, unanswered

vars == <<transaction_table, transactions_in_flight, req_cpu_dcache,
          core_waits, dcache_owes>>

Request == [instr_type : InstrTypes, rd : Tids]

-----------------------------------------------------------------------------
(* Mutated forms of the definitions below, used to show that the           *)
(* properties can fail.                                                    *)

never_waits == FALSE
valid_while_waiting == req_cpu_dcache # NoReq
ready_ignores_wait(dcache_ready_i) == dcache_ready_i
table_set_or_clear(sent, rsp) ==
  IF rsp # NoTid
    THEN [transaction_table EXCEPT ![rsp] = "IDLE"]
    ELSE IF sent THEN [transaction_table EXCEPT ![req_cpu_dcache.rd] = "PENDING"]
                 ELSE transaction_table
table_never_cleared(sent, rsp) ==
  IF sent THEN [transaction_table EXCEPT ![req_cpu_dcache.rd] = "PENDING"]
          ELSE transaction_table
counter_send_or_receive(sent, received) ==
  (transactions_in_flight + (IF sent THEN 1 ELSE IF received THEN -1 ELSE 0))
    % CounterStates

-----------------------------------------------------------------------------
(* Combinational signals.                                                  *)

(* The tag of the presented request is still unanswered. The code compares *)
(* without looking at the valid bit; the signal is used with it only.      *)
wait_resp_same_tag ==
  /\ req_cpu_dcache # NoReq
  /\ transaction_table[req_cpu_dcache.rd] = "PENDING"

core_req_valid_o == req_cpu_dcache # NoReq /\ ~wait_resp_same_tag

need_rsp == req_cpu_dcache.instr_type \notin Prefetches

(* resp_dcache_cpu_o.ready, what the core sees.                            *)
resp_ready(dcache_ready_i) == dcache_ready_i /\ ~wait_resp_same_tag

(* The cache takes the presented request at this edge.                     *)
dcache_takes(dcache_ready_i) == core_req_valid_o /\ dcache_ready_i

send(dcache_ready_i) == dcache_takes(dcache_ready_i) /\ need_rsp

(* transaction_table after the edge: set the sent tag, then clear the      *)
(* answered one.                                                           *)
table_next(sent, rsp) ==
  [t \in Tids |->
     IF t = rsp THEN "IDLE"
     ELSE IF sent /\ t = req_cpu_dcache.rd THEN "PENDING"
     ELSE transaction_table[t]]

counter_next(sent, received) ==
  (transactions_in_flight + (IF sent THEN 1 ELSE 0) - (IF received THEN 1 ELSE 0))
    % CounterStates

(* One side's count of unanswered operations: the operation it believes    *)
(* handed over is added, the answered one removed.                         *)
count_next(count, handed_over, rsp) ==
  [t \in Tids |->
     count[t] + (IF handed_over /\ t = req_cpu_dcache.rd THEN 1 ELSE 0)
              - (IF t = rsp THEN 1 ELSE 0)]
-----------------------------------------------------------------------------
Init ==
  /\ transaction_table = [t \in Tids |-> "IDLE"]
  /\ transactions_in_flight = 0
  /\ req_cpu_dcache = NoReq
  /\ core_waits = [t \in Tids |-> 0]
  /\ dcache_owes = [t \in Tids |-> 0]

(* The memory unit presents a request, of any type and with any tag:       *)
(* stores reuse their tag without waiting for the response.                *)
CorePresents(r) ==
  /\ req_cpu_dcache = NoReq
  /\ req_cpu_dcache' = r
  /\ UNCHANGED <<transaction_table, transactions_in_flight, core_waits, dcache_owes>>

(* A flush of the pipeline withdraws a request that was not taken.         *)
CoreWithdraws ==
  /\ req_cpu_dcache # NoReq
  /\ req_cpu_dcache' = NoReq
  /\ UNCHANGED <<transaction_table, transactions_in_flight, core_waits, dcache_owes>>

(* A rising edge of clk_i. The cache answers an operation it took at an    *)
(* earlier edge, in any order, and answers no prefetch.                    *)
ClockEdge(dcache_ready_i, rsp) ==
  /\ rsp # NoTid => dcache_owes[rsp] > 0
  /\ LET sent     == send(dcache_ready_i)
         accepted == req_cpu_dcache # NoReq /\ resp_ready(dcache_ready_i)
     IN  /\ transaction_table' = table_next(sent, rsp)
         /\ transactions_in_flight' = counter_next(sent, rsp # NoTid)
         /\ dcache_owes' =
              count_next(dcache_owes, dcache_takes(dcache_ready_i) /\ need_rsp, rsp)
         /\ core_waits' = count_next(core_waits, accepted /\ need_rsp, rsp)
         /\ req_cpu_dcache' = IF accepted THEN NoReq ELSE req_cpu_dcache

(* rstn_i resets the adapter, the core and the cache together.             *)
Reset ==
  /\ transaction_table' = [t \in Tids |-> "IDLE"]
  /\ transactions_in_flight' = 0
  /\ req_cpu_dcache' = NoReq
  /\ core_waits' = [t \in Tids |-> 0]
  /\ dcache_owes' = [t \in Tids |-> 0]

Next ==
  \/ \E r \in Request : CorePresents(r)
  \/ CoreWithdraws
  \/ \E dcache_ready_i \in BOOLEAN, rsp \in Tids \cup {NoTid} :
       ClockEdge(dcache_ready_i, rsp)
  \/ Reset

(* The HPDcache answers every operation it took, and does not refuse       *)
(* requests for ever. The core need not present, nor withdraw, anything.   *)
Fairness ==
  /\ WF_vars(\E rsp \in Tids \cup {NoTid} : ClockEdge(TRUE, rsp))
  /\ \A t \in Tids : WF_vars(\E dcache_ready_i \in BOOLEAN : ClockEdge(dcache_ready_i, t))

Spec == Init /\ [][Next]_vars

FairSpec == Spec /\ Fairness
-----------------------------------------------------------------------------
Pending == {t \in Tids : transaction_table[t] = "PENDING"}

(* The types of the variables. Both counts stay natural numbers: neither   *)
(* the core nor the cache sees more answers of a tag than operations it    *)
(* handed over or took.                                                    *)
TypeOK ==
  /\ transaction_table \in [Tids -> {"IDLE", "PENDING"}]
  /\ transactions_in_flight \in 0 .. CounterStates - 1
  /\ req_cpu_dcache \in Request \cup {NoReq}
  /\ core_waits \in [Tids -> Nat]
  /\ dcache_owes \in [Tids -> Nat]

(* The cache never holds two unanswered operations of one tag: the tag of  *)
(* a response would name two instructions ($fatal "requested twice").      *)
NeverRequestedTwice == \A t \in Tids : dcache_owes[t] <= 1

(* Whatever the cache answers next finds its tag PENDING, so that the      *)
(* $fatal "responded twice" cannot be reached.                             *)
NeverRespondedTwice ==
  \A t \in Tids : dcache_owes[t] > 0 => transaction_table[t] = "PENDING"

(* The core and the cache agree on what was handed over: a request the     *)
(* core drops as taken was taken, and one taken is not presented again.    *)
CoreAndDcacheAgree == core_waits = dcache_owes

(* The simulation counter counts the PENDING entries of the table,         *)
(* without ever wrapping around.                                           *)
InFlightCountsPending == transactions_in_flight = Cardinality(Pending)

(* A tag is PENDING only while the cache owes its response: no entry of    *)
(* the table stays behind and blocks its register for ever.                *)
PendingIsOwed ==
  \A t \in Tids : transaction_table[t] = "PENDING" => dcache_owes[t] = 1

(* A request the core keeps presenting is taken, however many operations   *)
(* of its tag came before it.                                              *)
RequestEventuallyTaken ==
  \A t \in Tids :
    (req_cpu_dcache # NoReq /\ req_cpu_dcache.rd = t) ~> (req_cpu_dcache = NoReq)

(* Seen by the core, the adapter and the cache are a tag service.          *)
Service == INSTANCE TagService WITH open <- core_waits
ServiceSpec == Service!Spec
=============================================================================

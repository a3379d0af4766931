----------------------- MODULE DcacheInterfaceProofs -----------------------
(***************************************************************************)
(* Proofs about the two models of dcache_interface.sv: of its transaction  *)
(* table and handshakes (DcacheInterface), for every set of tags that is   *)
(* smaller than the counter, and of its data on the way to the memory      *)
(* (StorePath), for every line size, vector length and width of a byte.    *)
(*                                                                         *)
(* The invariants of the runs of DcacheInterface are not inductive one by  *)
(* one: that the cache holds a tag once follows from the table, that the   *)
(* table is right needs the responses to be those the cache owes, and the  *)
(* counter does not wrap because it counts the table. IInv is their        *)
(* conjunction.                                                            *)
(*                                                                         *)
(* For StorePath, StoreIInv states the agreement of words and bytes by     *)
(* address, where MemoryHoldsBytes compares whole lines. Most of the proof is*)
(* arithmetic: of lanes, and of the values that memory_amo computes with.  *)
(***************************************************************************)
EXTENDS DcacheInterface, StorePath, FiniteSetTheorems, TLAPS

(* The cache owes a response for a tag exactly while the tag is PENDING.   *)
OwedIsPending ==
  \A t \in Tids : dcache_owes[t] = IF transaction_table[t] = "PENDING" THEN 1 ELSE 0

IInv ==
  /\ TypeOK
  /\ OwedIsPending
  /\ CoreAndDcacheAgree
  /\ InFlightCountsPending

-----------------------------------------------------------------------------
(* The counter arithmetic does not wrap inside its range.                  *)
LEMMA SmallModulo ==
  ASSUME NEW m \in Nat, NEW n \in 0 .. m - 1
  PROVE  n % m = n
OBVIOUS

(* There are at most as many PENDING entries as tags.                      *)
LEMMA PendingFinite ==
  /\ IsFiniteSet(Pending)
  /\ Cardinality(Pending) \in Nat
  /\ Cardinality(Pending) < CounterStates
<1>1. Pending \subseteq Tids
  BY DEF Pending
<1>2. IsFiniteSet(Tids) /\ Cardinality(Tids) < CounterStates /\ CounterStates \in Nat
  BY DcacheAssumption DEF DcacheAssumption
<1>3. IsFiniteSet(Pending) /\ Cardinality(Pending) <= Cardinality(Tids)
  BY <1>1, <1>2, FS_Subset
<1>4. Cardinality(Pending) \in Nat /\ Cardinality(Tids) \in Nat
  BY <1>2, <1>3, FS_CardinalityType
<1>. QED
  BY <1>2, <1>3, <1>4

(* The invariant holds initially.                                          *)
LEMMA InitIInv == Init => IInv
<1> SUFFICES ASSUME Init PROVE IInv
  OBVIOUS
<1>1. Pending = {}
  BY DEF Init, Pending
<1>2. Cardinality(Pending) = 0
  BY <1>1, FS_EmptySet
<1>3. InFlightCountsPending
  BY <1>2 DEF Init, InFlightCountsPending
<1>4. TypeOK
  BY <1>2, PendingFinite, DcacheAssumption DEF Init, TypeOK, DcacheAssumption
<1>5. OwedIsPending /\ CoreAndDcacheAgree
  BY DEF Init, OwedIsPending, CoreAndDcacheAgree
<1>. QED
  BY <1>3, <1>4, <1>5 DEF IInv

(* A step that changes the presented request only preserves the invariant. *)
LEMMA RequestOnlyIInv ==
  ASSUME IInv,
         req_cpu_dcache' \in Request \cup {NoReq},
         UNCHANGED <<transaction_table, transactions_in_flight, core_waits, dcache_owes>>
  PROVE  IInv'
<1>1. Pending' = Pending
  BY DEF Pending
<1>2. TypeOK'
  BY DEF IInv, TypeOK, Request
<1>3. OwedIsPending' /\ CoreAndDcacheAgree'
  BY DEF IInv, OwedIsPending, CoreAndDcacheAgree
<1>4. InFlightCountsPending'
  BY <1>1 DEF IInv, InFlightCountsPending
<1>. QED
  BY <1>2, <1>3, <1>4 DEF IInv

(* A clock edge preserves the invariant. The set of PENDING tags gains the *)
(* sent tag, which was not in it, and loses the answered one, which was.   *)
LEMMA ClockEdgeIInv ==
  ASSUME IInv,
         NEW dcache_ready_i \in BOOLEAN,
         NEW rsp \in Tids \cup {NoTid},
         ClockEdge(dcache_ready_i, rsp)
  PROVE  IInv'
<1> DEFINE sent == send(dcache_ready_i)
           tag  == req_cpu_dcache.rd
           S    == IF sent THEN Pending \cup {tag} ELSE Pending
<1>1. /\ TypeOK
      /\ OwedIsPending
      /\ CoreAndDcacheAgree
      /\ InFlightCountsPending
  BY DEF IInv
<1>2. NoTid \notin Tids
  BY DcacheAssumption DEF DcacheAssumption
<1>3. /\ transaction_table' = table_next(sent, rsp)
      /\ transactions_in_flight' = counter_next(sent, rsp # NoTid)
  BY DEF ClockEdge
<1>4. sent => tag \in Tids /\ transaction_table[tag] = "IDLE"
  BY <1>1 DEF send, dcache_takes, core_req_valid_o, wait_resp_same_tag, TypeOK, Request
<1>5. rsp # NoTid => rsp \in Tids /\ dcache_owes[rsp] > 0
  BY DEF ClockEdge
<1>6. rsp # NoTid => transaction_table[rsp] = "PENDING"
  BY <1>1, <1>5 DEF OwedIsPending
<1>7. transaction_table' \in [Tids -> {"IDLE", "PENDING"}]
  BY <1>1, <1>3 DEF table_next, TypeOK
<1>8. /\ dcache_owes' = count_next(dcache_owes, sent, rsp)
      /\ core_waits' = count_next(core_waits, sent, rsp)
  <2>1. dcache_takes(dcache_ready_i) /\ need_rsp <=> sent
    BY DEF send
  <2>2. (req_cpu_dcache # NoReq /\ resp_ready(dcache_ready_i)) /\ need_rsp <=> sent
    BY DEF send, dcache_takes, core_req_valid_o, resp_ready
  <2>3. \A c : \A P, Q \in BOOLEAN : (P <=> Q) => count_next(c, P, rsp) = count_next(c, Q, rsp)
    BY DEF count_next
  <2>4. sent \in BOOLEAN
    BY DEF send, dcache_takes, core_req_valid_o, need_rsp
  <2>5. dcache_owes' = count_next(dcache_owes, dcache_takes(dcache_ready_i) /\ need_rsp, rsp)
    BY DEF ClockEdge
  <2>6. core_waits' = count_next(core_waits,
          (req_cpu_dcache # NoReq /\ resp_ready(dcache_ready_i)) /\ need_rsp, rsp)
    BY DEF ClockEdge
  <2> QED
    BY <2>1, <2>2, <2>3, <2>4, <2>5, <2>6
<1>9. OwedIsPending' /\ dcache_owes' \in [Tids -> Nat]
  <2> SUFFICES ASSUME NEW t \in Tids
               PROVE  /\ dcache_owes'[t] = IF transaction_table'[t] = "PENDING" THEN 1 ELSE 0
                      /\ dcache_owes'[t] \in Nat
    BY <1>8 DEF OwedIsPending, count_next
  <2>1. /\ dcache_owes[t] = IF transaction_table[t] = "PENDING" THEN 1 ELSE 0
        /\ transaction_table[t] \in {"IDLE", "PENDING"}
    BY <1>1 DEF OwedIsPending, TypeOK
  <2>2. dcache_owes'[t] = dcache_owes[t] + (IF sent /\ t = tag THEN 1 ELSE 0)
                                         - (IF t = rsp THEN 1 ELSE 0)
    BY <1>8 DEF count_next
  <2>3. transaction_table'[t] = IF t = rsp THEN "IDLE"
                                ELSE IF sent /\ t = tag THEN "PENDING"
                                ELSE transaction_table[t]
    BY <1>3 DEF table_next
  <2>4. CASE t = rsp
    BY <2>1, <2>2, <2>3, <2>4, <1>2, <1>4, <1>6
  <2>5. CASE t # rsp
    BY <2>1, <2>2, <2>3, <2>5, <1>4
  <2> QED
    BY <2>4, <2>5
<1>10. CoreAndDcacheAgree' /\ core_waits' \in [Tids -> Nat]
  BY <1>1, <1>8, <1>9 DEF CoreAndDcacheAgree
<1>11. req_cpu_dcache' \in Request \cup {NoReq}
  BY <1>1 DEF ClockEdge, TypeOK
<1>12. Pending' = IF rsp # NoTid THEN S \ {rsp} ELSE S
  BY <1>2, <1>3, <1>4, <1>5 DEF Pending, table_next
<1>13. /\ IsFiniteSet(S)
       /\ Cardinality(S) = Cardinality(Pending) + (IF sent THEN 1 ELSE 0)
  <2>1. IsFiniteSet(Pending) /\ Cardinality(Pending) \in Nat
    BY PendingFinite
  <2>2. CASE sent
    <3>1. tag \notin Pending
      BY <1>4, <2>2 DEF Pending
    <3>2. /\ IsFiniteSet(Pending \cup {tag})
          /\ Cardinality(Pending \cup {tag}) = Cardinality(Pending) + 1
      BY <2>1, <3>1, FS_AddElement
    <3> QED
      BY <2>2, <3>2
  <2>3. CASE ~sent
    BY <2>1, <2>3
  <2> QED
    BY <2>2, <2>3
<1>14. /\ Cardinality(Pending') \in Nat
       /\ Cardinality(Pending') < CounterStates
       /\ CounterStates \in Nat
  <2>1. Pending' \subseteq Tids
    BY DEF Pending
  <2>2. IsFiniteSet(Tids) /\ Cardinality(Tids) < CounterStates /\ CounterStates \in Nat
    BY DcacheAssumption DEF DcacheAssumption
  <2>3. IsFiniteSet(Pending') /\ Cardinality(Pending') <= Cardinality(Tids)
    BY <2>1, <2>2, FS_Subset
  <2>4. Cardinality(Pending') \in Nat /\ Cardinality(Tids) \in Nat
    BY <2>2, <2>3, FS_CardinalityType
  <2> QED
    BY <2>2, <2>3, <2>4
<1>15. Cardinality(Pending') =
         Cardinality(Pending) + (IF sent THEN 1 ELSE 0) - (IF rsp # NoTid THEN 1 ELSE 0)
  <2>1. rsp # NoTid => rsp \in S
    BY <1>5, <1>6 DEF Pending
  <2>2. Cardinality(Pending) \in Nat
    BY PendingFinite
  <2>3. CASE rsp # NoTid
    <3>1. Cardinality(S \ {rsp}) = Cardinality(S) - 1
      BY <2>1, <2>3, <1>13, FS_RemoveElement
    <3> QED
      BY <3>1, <2>2, <2>3, <1>12, <1>13
  <2>4. CASE rsp = NoTid
    BY <2>2, <2>4, <1>12, <1>13
  <2> QED
    BY <2>3, <2>4
<1>16. transactions_in_flight' = Cardinality(Pending')
  <2>1. transactions_in_flight' = Cardinality(Pending') % CounterStates
    BY <1>1, <1>3, <1>15 DEF InFlightCountsPending, counter_next
  <2>2. Cardinality(Pending') \in 0 .. CounterStates - 1
    BY <1>14
  <2> QED
    BY <2>1, <2>2, <1>14, SmallModulo
<1>17. InFlightCountsPending'
  BY <1>16 DEF InFlightCountsPending
<1>18. TypeOK'
  BY <1>7, <1>9, <1>10, <1>11, <1>14, <1>16 DEF TypeOK
<1>. QED
  BY <1>9, <1>10, <1>17, <1>18 DEF IInv

(* Every step of the specification preserves the invariant.                *)
LEMMA NextIInv == IInv /\ [Next]_vars => IInv'
<1> SUFFICES ASSUME IInv, [Next]_vars PROVE IInv'
  OBVIOUS
<1>1. CASE \E r \in Request : CorePresents(r)
  BY <1>1, RequestOnlyIInv DEF CorePresents
<1>2. CASE CoreWithdraws
  BY <1>2, RequestOnlyIInv DEF CoreWithdraws
<1>3. CASE \E dcache_ready_i \in BOOLEAN, rsp \in Tids \cup {NoTid} :
             ClockEdge(dcache_ready_i, rsp)
  BY <1>3, ClockEdgeIInv
<1>4. CASE Reset
  <2>1. Pending' = {}
    BY <1>4 DEF Reset, Pending
  <2>2. Cardinality(Pending') = 0
    BY <2>1, FS_EmptySet
  <2>3. InFlightCountsPending'
    BY <1>4, <2>2 DEF Reset, InFlightCountsPending
  <2>4. 0 \in 0 .. CounterStates - 1
    BY PendingFinite, DcacheAssumption DEF DcacheAssumption
  <2>5. TypeOK'
    BY <1>4, <2>4 DEF Reset, TypeOK
  <2>6. OwedIsPending' /\ CoreAndDcacheAgree'
    BY <1>4 DEF Reset, OwedIsPending, CoreAndDcacheAgree
  <2> QED
    BY <2>3, <2>5, <2>6 DEF IInv
<1>5. CASE UNCHANGED vars
  BY <1>5, RequestOnlyIInv DEF vars, IInv, TypeOK
<1>. QED
  BY <1>1, <1>2, <1>3, <1>4, <1>5 DEF Next

(* The inductive invariant holds in every reachable state.                 *)
THEOREM Invariance == Spec => []IInv
BY InitIInv, NextIInv, PTL DEF Spec

-----------------------------------------------------------------------------
(* Type correctness: no tag is answered more often than it was asked for,  *)
(* neither to the core nor by the cache.                                   *)
THEOREM TypeCorrect == Spec => []TypeOK
<1>1. IInv => TypeOK
  BY DEF IInv
<1>. QED
  BY <1>1, Invariance, PTL

(* No tag is outstanding twice in the cache, and every response finds its  *)
(* tag PENDING: neither $fatal of the code can be reached.                 *)
THEOREM FatalsUnreachable == Spec => [](NeverRequestedTwice /\ NeverRespondedTwice)
<1>1. IInv => NeverRequestedTwice /\ NeverRespondedTwice
  BY DEF IInv, OwedIsPending, NeverRequestedTwice, NeverRespondedTwice
<1>. QED
  BY <1>1, Invariance, PTL

(* No entry of the table stays PENDING without a response on its way.      *)
THEOREM NoStaleEntry == Spec => []PendingIsOwed
<1>1. IInv => PendingIsOwed
  BY DEF IInv, OwedIsPending, PendingIsOwed
<1>. QED
  BY <1>1, Invariance, PTL

(* The two ends of the handshake agree on the operations handed over.      *)
THEOREM Agreement == Spec => []CoreAndDcacheAgree
<1>1. IInv => CoreAndDcacheAgree
  BY DEF IInv
<1>. QED
  BY <1>1, Invariance, PTL

(* The counter of the simulation counts the PENDING entries.               *)
THEOREM CounterExact == Spec => []InFlightCountsPending
<1>1. IInv => InFlightCountsPending
  BY DEF IInv
<1>. QED
  BY <1>1, Invariance, PTL

-----------------------------------------------------------------------------
(* A clock edge begins the operation that was sent and ends the answered   *)
(* one.                                                                    *)
LEMMA ClockEdgeRefines ==
  ASSUME IInv,
         NEW dcache_ready_i \in BOOLEAN,
         NEW rsp \in Tids \cup {NoTid},
         ClockEdge(dcache_ready_i, rsp)
  PROVE  Service!Next
<1> DEFINE sent == send(dcache_ready_i)
           b    == IF sent THEN req_cpu_dcache.rd ELSE NoTid
<1>1. /\ TypeOK
      /\ OwedIsPending
      /\ core_waits = dcache_owes
      /\ NoTid \notin Tids
  BY DcacheAssumption DEF IInv, CoreAndDcacheAgree, DcacheAssumption
<1>2. sent => /\ req_cpu_dcache.rd \in Tids
              /\ transaction_table[req_cpu_dcache.rd] = "IDLE"
  BY <1>1 DEF send, dcache_takes, core_req_valid_o, wait_resp_same_tag, TypeOK, Request
<1>3. b \in Tids \cup {NoTid} /\ (b # NoTid => core_waits[b] = 0)
  BY <1>1, <1>2 DEF OwedIsPending
<1>4. \A t \in Tids : core_waits[t] \in {0, 1}
  BY <1>1 DEF OwedIsPending
<1>5. rsp # NoTid => core_waits[rsp] = 1
  <2>1. rsp # NoTid => rsp \in Tids /\ dcache_owes[rsp] > 0
    BY DEF ClockEdge
  <2> QED
    BY <2>1, <1>1, <1>4
<1>6. \A t \in Tids :
        core_waits'[t] = core_waits[t]
                           + (IF sent /\ t = req_cpu_dcache.rd THEN 1 ELSE 0)
                           - (IF t = rsp THEN 1 ELSE 0)
  <2>1. core_waits' = count_next(core_waits,
          (req_cpu_dcache # NoReq /\ resp_ready(dcache_ready_i)) /\ need_rsp, rsp)
    BY DEF ClockEdge
  <2>2. (req_cpu_dcache # NoReq /\ resp_ready(dcache_ready_i)) /\ need_rsp <=> sent
    BY DEF send, dcache_takes, core_req_valid_o, resp_ready
  <2> QED
    BY <2>1, <2>2 DEF count_next
<1>7. core_waits' = [t \in Tids |->
                       IF t = b THEN 1 ELSE IF t = rsp THEN 0 ELSE core_waits[t]]
  <2>1. core_waits' = [t \in Tids |-> core_waits'[t]]
    BY DEF ClockEdge, count_next
  <2>2. ASSUME NEW t \in Tids
        PROVE  core_waits'[t] = IF t = b THEN 1 ELSE IF t = rsp THEN 0 ELSE core_waits[t]
    <3>1. t = b <=> sent /\ t = req_cpu_dcache.rd
      BY <1>1
    <3>2. t = b => t # rsp
      BY <1>3, <1>5, <1>1
    <3>3. CASE t = b
      BY <3>1, <3>2, <3>3, <1>3, <1>6, <1>1
    <3>4. CASE t # b /\ t = rsp
      BY <3>1, <3>4, <1>5, <1>6, <1>1
    <3>5. CASE t # b /\ t # rsp
      BY <3>1, <3>5, <1>4, <1>6
    <3> QED
      BY <3>3, <3>4, <3>5
  <2> QED
    BY <2>1, <2>2
<1>8. Service!Step(b, rsp)
  BY <1>3, <1>5, <1>7 DEF Service!Step
<1>. QED
  BY <1>3, <1>8 DEF Service!Next

(* Seen by the core, the adapter with the cache behind it behaves as a tag *)
(* service: every step begins a free tag, ends an open one, or is hidden.  *)
THEOREM ImplementsTagService ==
  Spec => Service!Init /\ [][Service!Next]_core_waits
<1>1. Init => Service!Init
  BY DEF Init, Service!Init
<1>2. IInv /\ [Next]_vars => [Service!Next]_core_waits
  <2> SUFFICES ASSUME IInv, [Next]_vars
               PROVE  Service!Next \/ UNCHANGED core_waits
    OBVIOUS
  <2>1. CASE \E r \in Request : CorePresents(r)
    BY <2>1 DEF CorePresents
  <2>2. CASE CoreWithdraws
    BY <2>2 DEF CoreWithdraws
  <2>3. CASE \E dcache_ready_i \in BOOLEAN, rsp \in Tids \cup {NoTid} :
               ClockEdge(dcache_ready_i, rsp)
    BY <2>3, ClockEdgeRefines
  <2>4. CASE Reset
    BY <2>4 DEF Reset, Service!Next, Service!Reset
  <2>5. CASE UNCHANGED vars
    BY <2>5 DEF vars
  <2> QED
    BY <2>1, <2>2, <2>3, <2>4, <2>5 DEF Next
<1>. QED
  BY <1>1, <1>2, Invariance, PTL DEF Spec

-----------------------------------------------------------------------------
(* Numbers and their digits. Values of bytes, words and double words are   *)
(* digits of the bases BASE and WORD.                                      *)
LEMMA Digits ==
  ASSUME NEW B \in Nat \ {0}, NEW x \in 0 .. B - 1, NEW y \in Nat
  PROVE  /\ (x + (B * y)) % B = x
         /\ (x + (B * y)) \div B = y
OBVIOUS

(* Two digits of bases A and B are below the product of the bases.         *)
LEMMA DigitsBelow ==
  ASSUME NEW A \in Nat \ {0}, NEW B \in Nat \ {0},
         NEW x \in 0 .. A - 1, NEW y \in 0 .. B - 1
  PROVE  x + (A * y) \in 0 .. (A * B) - 1
<1>1. A * y <= A * (B - 1) /\ A * y >= 0 /\ A * y \in Nat
  OBVIOUS
<1>2. A * (B - 1) = (A * B) - A
  OBVIOUS
<1>. QED BY <1>1, <1>2

(* The bases are natural numbers, each at least the one before it.         *)
LEMMA Bases ==
  /\ BASE \in Nat /\ BASE >= 2
  /\ BASE * BASE \in Nat /\ BASE * BASE >= BASE
  /\ WORD \in Nat /\ WORD >= BASE /\ WORD = BASE * (BASE * (BASE * BASE))
  /\ DOUBLE \in Nat /\ DOUBLE >= WORD /\ DOUBLE = WORD * WORD
<1>1. BASE \in Nat /\ BASE >= 2
  BY MemoryAssumption
<1>2. \A p, q \in Nat : p >= 1 => p * q \in Nat /\ p * q >= q
  OBVIOUS
<1>3. BASE * BASE \in Nat /\ BASE * BASE >= BASE
  BY <1>1, <1>2
<1>4. /\ BASE * (BASE * BASE) \in Nat /\ BASE * (BASE * BASE) >= BASE
      /\ BASE * (BASE * (BASE * BASE)) \in Nat /\ BASE * (BASE * (BASE * BASE)) >= BASE
  <2>1. BASE * (BASE * BASE) \in Nat /\ BASE * (BASE * BASE) >= BASE * BASE
    BY <1>1, <1>2, <1>3
  <2> DEFINE p == BASE * (BASE * BASE)
  <2> HIDE DEF p
  <2>2. BASE * p \in Nat /\ BASE * p >= p
    BY <1>1, <1>2, <2>1 DEF p
  <2> QED BY <1>1, <1>3, <2>1, <2>2 DEF p
<1>5. WORD = BASE * (BASE * (BASE * BASE))
  BY <1>1 DEF WORD
<1>6. WORD \in Nat /\ WORD >= BASE
  BY <1>4, <1>5
<1>7. WORD * WORD \in Nat /\ WORD * WORD >= WORD
  BY <1>1, <1>2, <1>6
<1>. QED BY <1>1, <1>3, <1>5, <1>6, <1>7 DEF DOUBLE

(* A word has the bytes that it is composed of.                            *)
LEMMA WordBytes ==
  ASSUME NEW b, \A i \in 0 .. 3 : b[i] \in Byte
  PROVE  /\ word_value(b) \in 0 .. WORD - 1
         /\ word_bytes(word_value(b)) = [i \in 0 .. 3 |-> b[i]]
<1> DEFINE x2 == b[2] + (BASE * b[3])
           x1 == b[1] + (BASE * x2)
           x0 == b[0] + (BASE * x1)
<1>1. /\ b[0] \in 0 .. BASE - 1 /\ b[1] \in 0 .. BASE - 1
      /\ b[2] \in 0 .. BASE - 1 /\ b[3] \in 0 .. BASE - 1 /\ BASE \in Nat \ {0}
  BY Bases DEF Byte
<1>2. x2 \in 0 .. (BASE * BASE) - 1
  BY <1>1, DigitsBelow
<1>3. x2 % BASE = b[2] /\ x2 \div BASE = b[3]
  <2>1. b[3] \in Nat
    BY <1>1
  <2> QED BY <1>1, <2>1, Digits
<1> HIDE DEF x2
<1>4. BASE * BASE \in Nat \ {0}
  BY Bases
<1>5. x1 \in 0 .. (BASE * (BASE * BASE)) - 1
  BY <1>1, <1>2, <1>4, DigitsBelow
<1>6. x1 % BASE = b[1] /\ x1 \div BASE = x2
  <2>1. x2 \in Nat
    BY <1>2
  <2> QED BY <1>1, <2>1, Digits
<1> HIDE DEF x1
<1>7. BASE * (BASE * BASE) \in Nat \ {0}
  <2>1. BASE * (BASE * BASE) \in Nat
    BY <1>1, <1>4
  <2>2. BASE * (BASE * BASE) # 0
    BY <1>1, <1>4
  <2> QED BY <2>1, <2>2
<1>8. x0 \in 0 .. WORD - 1
  <2>1. x0 \in 0 .. (BASE * (BASE * (BASE * BASE))) - 1
    BY <1>1, <1>5, <1>7, DigitsBelow
  <2> QED BY <2>1, Bases
<1>9. x0 % BASE = b[0] /\ x0 \div BASE = x1
  <2>1. x1 \in Nat
    BY <1>5
  <2> QED BY <1>1, <2>1, Digits
<1>10. word_value(b) = x0
  BY DEF word_value, x0, x1, x2
<1> HIDE DEF x0
<1>11. b[3] % BASE = b[3]
  BY <1>1
<1>12. word_bytes(x0) = [i \in 0 .. 3 |-> b[i]]
  BY <1>3, <1>6, <1>9, <1>11 DEF word_bytes
<1>. QED BY <1>8, <1>10, <1>12

(* A double word has the words that it is composed of.                     *)
LEMMA TwoWords ==
  ASSUME NEW x \in 0 .. WORD - 1, NEW y \in 0 .. WORD - 1
  PROVE  /\ x + (WORD * y) \in 0 .. DOUBLE - 1
         /\ (x + (WORD * y)) % WORD = x
         /\ (x + (WORD * y)) \div WORD = y
<1>1. WORD \in Nat \ {0} /\ y \in Nat
  BY Bases
<1>2. x + (WORD * y) \in 0 .. (WORD * WORD) - 1
  BY <1>1, DigitsBelow
<1>. QED BY <1>1, <1>2, Digits DEF DOUBLE

(* A double word has the bytes that it is composed of.                     *)
LEMMA DoubleBytes ==
  ASSUME NEW b, \A i \in 0 .. 7 : b[i] \in Byte
  PROVE  /\ double_value(b, word_at(b, 4)) \in 0 .. DOUBLE - 1
         /\ double_bytes(double_value(b, word_at(b, 4))) = [i \in 0 .. 7 |-> b[i]]
<1> DEFINE hi == word_at(b, 4)
           x == word_value(b)
           y == word_value(hi)
           v == double_value(b, hi)
<1>1. \A i \in 0 .. 3 : hi[i] = b[4 + i] /\ hi[i] \in Byte /\ b[i] \in Byte
  BY DEF word_at
<1>2. /\ x \in 0 .. WORD - 1 /\ word_bytes(x) = [i \in 0 .. 3 |-> b[i]]
      /\ y \in 0 .. WORD - 1 /\ word_bytes(y) = [i \in 0 .. 3 |-> hi[i]]
  <2> HIDE DEF hi
  <2> QED BY <1>1, WordBytes
<1> HIDE DEF hi, x, y
<1>3. v = x + (WORD * y)
  BY DEF double_value, x, y
<1>4. v \in 0 .. DOUBLE - 1 /\ v % WORD = x /\ v \div WORD = y
  BY <1>2, <1>3, TwoWords
<1> HIDE DEF v
<1>5. \A i \in 4 .. 7 : word_bytes(y)[i - 4] = b[i]
  BY <1>1, <1>2
<1>6. double_bytes(v) = [i \in 0 .. 7 |-> b[i]]
  BY <1>2, <1>4, <1>5 DEF double_bytes
<1>. QED BY <1>4, <1>6 DEF v, hi

(* The bytes of the complement are the complements of the bytes.           *)
LEMMA ComplementWord ==
  ASSUME NEW b, \A i \in 0 .. 3 : b[i] \in Byte,
         NEW n, \A i \in 0 .. 3 : n[i] = (BASE - 1) - b[i]
  PROVE  word_value(n) = (WORD - 1) - word_value(b)
<1> DEFINE x2 == b[2] + (BASE * b[3])
           x1 == b[1] + (BASE * x2)
           y2 == n[2] + (BASE * n[3])
           y1 == n[1] + (BASE * y2)
<1>1. /\ b[0] \in Int /\ b[1] \in Int /\ b[2] \in Int /\ b[3] \in Int /\ BASE \in Int
      /\ n[0] = (BASE - 1) - b[0] /\ n[1] = (BASE - 1) - b[1]
      /\ n[2] = (BASE - 1) - b[2] /\ n[3] = (BASE - 1) - b[3]
  BY Bases DEF Byte
<1>2. \A p, q, r, s \in Int : ((p - 1) - q) + (p * ((r - 1) - s)) = ((p * r) - 1) - (q + (p * s))
  OBVIOUS
<1>3. y2 = ((BASE * BASE) - 1) - x2 /\ x2 \in Int /\ BASE * BASE \in Int
  <2>1. ((BASE - 1) - b[2]) + (BASE * ((BASE - 1) - b[3]))
          = ((BASE * BASE) - 1) - (b[2] + (BASE * b[3]))
    BY <1>1, <1>2
  <2> QED BY <1>1, <2>1
<1> HIDE DEF x2, y2
<1>4. y1 = ((BASE * (BASE * BASE)) - 1) - x1 /\ x1 \in Int /\ BASE * (BASE * BASE) \in Int
  BY <1>1, <1>2, <1>3
<1> HIDE DEF x1, y1
<1>5. n[0] + (BASE * y1) = ((BASE * (BASE * (BASE * BASE))) - 1) - (b[0] + (BASE * x1))
  <2> DEFINE c == BASE * (BASE * BASE)
  <2>1. c \in Int /\ y1 = (c - 1) - x1
    BY <1>4
  <2> HIDE DEF c
  <2>2. ((BASE - 1) - b[0]) + (BASE * ((c - 1) - x1)) = ((BASE * c) - 1) - (b[0] + (BASE * x1))
    BY <1>1, <1>2, <1>4, <2>1
  <2> QED BY <1>1, <2>1, <2>2 DEF c
<1>6. word_value(b) = b[0] + (BASE * x1) /\ word_value(n) = n[0] + (BASE * y1)
  BY DEF word_value, x1, x2, y1, y2
<1>. QED BY <1>5, <1>6, Bases

(* The same of double words.                                               *)
LEMMA Complement ==
  ASSUME NEW b, \A i \in 0 .. 7 : b[i] \in Byte
  PROVE  LET v == double_value(b, word_at(b, 4))
         IN  double_bytes((DOUBLE - 1) - v) = [i \in 0 .. 7 |-> (BASE - 1) - b[i]]
<1> DEFINE n == [i \in 0 .. 7 |-> (BASE - 1) - b[i]]
           v == double_value(b, word_at(b, 4))
           x == word_value(b)
           y == word_value(word_at(b, 4))
<1>1. /\ \A i \in 0 .. 3 : b[i] \in Byte /\ n[i] = (BASE - 1) - b[i]
      /\ \A i \in 0 .. 3 : /\ word_at(b, 4)[i] \in Byte
                           /\ word_at(n, 4)[i] = (BASE - 1) - word_at(b, 4)[i]
      /\ \A i \in 0 .. 7 : n[i] \in Byte
  BY Bases DEF word_at, Byte
<1>2. n = [i \in 0 .. 7 |-> n[i]]
  OBVIOUS
<1> HIDE DEF n
<1>3. word_value(n) = (WORD - 1) - x /\ word_value(word_at(n, 4)) = (WORD - 1) - y
  BY <1>1, ComplementWord
<1>4. x \in Int /\ y \in Int /\ WORD \in Int
  BY <1>1, WordBytes, Bases
<1> HIDE DEF x, y
<1>5. double_value(n, word_at(n, 4)) = ((WORD - 1) - x) + (WORD * ((WORD - 1) - y))
  BY <1>3 DEF double_value
<1>6. v = x + (WORD * y)
  BY DEF double_value, x, y
<1>7. ((WORD - 1) - x) + (WORD * ((WORD - 1) - y)) = ((WORD * WORD) - 1) - (x + (WORD * y))
  BY <1>4
<1>8. (DOUBLE - 1) - v = double_value(n, word_at(n, 4))
  BY <1>5, <1>6, <1>7 DEF DOUBLE
<1>9. double_bytes(double_value(n, word_at(n, 4))) = [i \in 0 .. 7 |-> n[i]]
  BY <1>1, DoubleBytes
<1>. QED BY <1>2, <1>8, <1>9 DEF n

-----------------------------------------------------------------------------
(* The value that memory_amo computes with, of an operand of size bytes,   *)
(* and its eight bytes: those of a word are followed by its sign.          *)
OperandOf(b, size) == operand(b, word_at(b, 4), size = 8)
Wide(b, size) ==
  [i \in 0 .. 7 |-> IF i < size THEN b[i]
                    ELSE IF 2 * word_value(b) >= WORD THEN BASE - 1 ELSE 0]

IsOperand(b, size) == \A i \in 0 .. size - 1 : b[i] \in Byte

(* The value of an operand is that of the eight bytes of Wide.             *)
LEMMA WideValue ==
  ASSUME NEW size \in {4, 8}, NEW b, IsOperand(b, size)
  PROVE  /\ \A i \in 0 .. 7 : Wide(b, size)[i] \in Byte
         /\ OperandOf(b, size) = double_value(Wide(b, size), word_at(Wide(b, size), 4))
         /\ double_bytes(OperandOf(b, size)) = Wide(b, size)
         /\ OperandOf(b, size) \in 0 .. DOUBLE - 1
<1> DEFINE w == Wide(b, size)
           x == word_value(b)
<1>1. 0 \in Byte /\ BASE - 1 \in Byte
  BY Bases DEF Byte
<1>2. \A i \in 0 .. 7 : w[i] \in Byte
  BY <1>1 DEF IsOperand, Wide
<1>3. \A i \in 0 .. 3 : w[i] = b[i] /\ b[i] \in Byte
  BY DEF IsOperand, Wide
<1>4. word_value(w) = x
  BY <1>3 DEF word_value
<1>5. w = [i \in 0 .. 7 |-> w[i]]
  BY DEF Wide
<1>6. OperandOf(b, size) = double_value(w, word_at(w, 4))
  <2>1. CASE size = 8
    <3>1. \A i \in 0 .. 7 : w[i] = b[i]
      BY <2>1 DEF Wide
    <3>2. word_at(w, 4) = word_at(b, 4)
      BY <3>1 DEF word_at
    <3> HIDE DEF w
    <3> QED BY <1>4, <2>1, <3>2 DEF OperandOf, operand, double_value
  <2>2. CASE size = 4
    <3>1. OperandOf(b, size) = sign_extended(x)
      BY <2>2 DEF OperandOf, operand
    <3>2. x \in 0 .. WORD - 1
      BY <1>3, WordBytes
    <3>3. CASE 2 * x >= WORD
      <4>1. \A i \in 0 .. 3 : word_at(w, 4)[i] = (BASE - 1) - 0
        BY <2>2, <3>3, Bases DEF Wide, word_at
      <4> DEFINE z == [i \in 0 .. 3 |-> 0]
                 y == word_at(w, 4)
      <4>2. \A i \in 0 .. 3 : y[i] = (BASE - 1) - z[i]
        BY <4>1
      <4>3. \A i \in 0 .. 3 : z[i] \in Byte
        BY <1>1
      <4>4. word_value(z) = 0
        BY Bases DEF word_value
      <4> HIDE DEF y, z
      <4>5. word_value(y) = (WORD - 1) - 0
        BY <4>2, <4>3, <4>4, ComplementWord
      <4>6. double_value(w, y) = x + (WORD * (WORD - 1))
        BY <1>4, <4>5, Bases DEF double_value
      <4>7. sign_extended(x) = (x + DOUBLE) - WORD
        BY <3>3 DEF sign_extended
      <4> HIDE DEF x
      <4>8. WORD * (WORD - 1) = DOUBLE - WORD
        BY Bases
      <4>9. x + (WORD * (WORD - 1)) = (x + DOUBLE) - WORD
        BY <4>8, <3>2, Bases
      <4> QED BY <3>1, <4>6, <4>7, <4>9 DEF y
    <3>4. CASE ~(2 * x >= WORD)
      <4>1. \A i \in 0 .. 3 : word_at(w, 4)[i] = 0
        BY <2>2, <3>4 DEF Wide, word_at
      <4>2. word_value(word_at(w, 4)) = 0
        BY <4>1, Bases DEF word_value
      <4>3. double_value(w, word_at(w, 4)) = x + (WORD * 0)
        BY <1>4, <4>2 DEF double_value
      <4>4. sign_extended(x) = x
        BY <3>4 DEF sign_extended
      <4> HIDE DEF w, x
      <4> QED BY <3>1, <3>2, <4>3, <4>4, Bases
    <3> QED BY <3>3, <3>4
  <2> QED BY <2>1, <2>2
<1> HIDE DEF w
<1>7. /\ double_value(w, word_at(w, 4)) \in 0 .. DOUBLE - 1
      /\ double_bytes(double_value(w, word_at(w, 4))) = [i \in 0 .. 7 |-> w[i]]
  BY <1>2, DoubleBytes
<1>. QED BY <1>2, <1>5, <1>6, <1>7 DEF w

(* The comparison of 64 bits decides as one of the operand's own width.    *)
LEMMA Comparisons ==
  ASSUME NEW size \in {4, 8}, NEW m, NEW c, IsOperand(m, size), IsOperand(c, size)
  PROVE  LET x == OperandOf(m, size)
             y == OperandOf(c, size)
         IN  /\ x > y <=> Less(Value(c, size), Value(m, size), size, FALSE)
             /\ x < y <=> Less(Value(m, size), Value(c, size), size, FALSE)
             /\ as_signed(x) > as_signed(y) <=> Less(Value(c, size), Value(m, size), size, TRUE)
             /\ as_signed(x) < as_signed(y) <=> Less(Value(m, size), Value(c, size), size, TRUE)
<1> DEFINE x == OperandOf(m, size)
           y == OperandOf(c, size)
<1>1. CASE size = 8
  <2>1. x = Value(m, size) /\ y = Value(c, size)
    BY <1>1 DEF OperandOf, operand, Value
  <2>2. x \in 0 .. DOUBLE - 1 /\ y \in 0 .. DOUBLE - 1
    BY WideValue
  <2>3. Modulus(size) = DOUBLE /\ DOUBLE \in Nat
    BY <1>1, Bases DEF Modulus
  <2> HIDE DEF x, y
  <2>4. /\ x > y <=> Less(y, x, size, FALSE)
        /\ x < y <=> Less(x, y, size, FALSE)
    BY <2>2 DEF Less
  <2>5. /\ as_signed(x) > as_signed(y) <=> Less(y, x, size, TRUE)
        /\ as_signed(x) < as_signed(y) <=> Less(x, y, size, TRUE)
    BY <2>2, <2>3 DEF Less, as_signed
  <2> QED BY <2>1, <2>4, <2>5 DEF x, y
<1>2. CASE size = 4
  <2> DEFINE p == Value(m, size)
             q == Value(c, size)
  <2>1. x = sign_extended(p) /\ y = sign_extended(q)
    BY <1>2 DEF OperandOf, operand, Value
  <2>2. p \in 0 .. WORD - 1 /\ q \in 0 .. WORD - 1
    <3>1. (\A i \in 0 .. 3 : m[i] \in Byte) /\ \A i \in 0 .. 3 : c[i] \in Byte
      BY <1>2 DEF IsOperand
    <3> QED BY <1>2, <3>1, WordBytes DEF Value
  <2>3. Modulus(size) = WORD /\ DOUBLE \in Nat /\ WORD \in Nat /\ DOUBLE >= WORD
    BY <1>2, Bases DEF Modulus
  <2> HIDE DEF x, y, p, q
  <2>4. /\ x > y <=> Less(q, p, size, FALSE)
        /\ x < y <=> Less(p, q, size, FALSE)
    BY <2>1, <2>2, <2>3 DEF Less, sign_extended
  <2>5. /\ as_signed(x) = IF 2 * p >= WORD THEN p - WORD ELSE p
        /\ as_signed(y) = IF 2 * q >= WORD THEN q - WORD ELSE q
    BY <2>1, <2>2, <2>3 DEF sign_extended, as_signed
  <2>6. /\ as_signed(x) > as_signed(y) <=> Less(q, p, size, TRUE)
        /\ as_signed(x) < as_signed(y) <=> Less(p, q, size, TRUE)
    BY <2>2, <2>3, <2>5 DEF Less
  <2> QED BY <2>4, <2>6 DEF x, y, p, q
<1>. QED BY <1>1, <1>2

HasBytes(v) == \A i \in 0 .. 7 : double_bytes(v)[i] \in Byte
IsBytewise(r, Op, v, w) ==
  \A i \in 0 .. 7 : double_bytes(r)[i] = Op[<<double_bytes(v)[i], double_bytes(w)[i]>>]

(* An operation on the bytes of two values gives the value of these bytes. *)
LEMMA BitwiseBytes ==
  ASSUME NEW Op \in [Byte \X Byte -> Byte], NEW v, NEW w, HasBytes(v), HasBytes(w)
  PROVE  IsBytewise(bitwise(Op, v, w), Op, v, w)
<1> DEFINE b == [i \in 0 .. 7 |-> Op[<<double_bytes(v)[i], double_bytes(w)[i]>>]]
<1>1. \A i \in 0 .. 7 : b[i] \in Byte
  BY DEF HasBytes
<1>2. bitwise(Op, v, w) = double_value(b, word_at(b, 4))
  BY DEF bitwise
<1>3. b = [i \in 0 .. 7 |-> b[i]]
  OBVIOUS
<1> HIDE DEF b
<1>4. double_bytes(double_value(b, word_at(b, 4))) = [i \in 0 .. 7 |-> b[i]]
  BY <1>1, DoubleBytes
<1>5. double_bytes(bitwise(Op, v, w)) = b
  BY <1>2, <1>3, <1>4, Zenon
<1>. QED BY <1>5 DEF b, IsBytewise

(* Reducing first by the square of the base changes no digit below it.     *)
LEMMA ModuloOfModulo ==
  ASSUME NEW W \in Nat \ {0}, NEW z \in Nat
  PROVE  (z % (W * W)) % W = z % W
<1> DEFINE M == W * W
           q == z \div M
           r == z % M
<1>1. M \in Nat \ {0}
  OBVIOUS
<1>2. z = (M * q) + r /\ q \in Nat /\ r \in Nat
  <2> HIDE DEF M
  <2> QED BY <1>1
<1> HIDE DEF q, r
<1>3. M * q = W * (W * q)
  BY <1>2
<1> DEFINE a == r % W
           k == r \div W
<1>4. r = a + (W * k) /\ a \in 0 .. W - 1 /\ k \in Nat
  BY <1>2
<1> HIDE DEF a, k
<1>5. z = a + (W * ((W * q) + k)) /\ (W * q) + k \in Nat
  BY <1>2, <1>3, <1>4
<1>6. z % W = a
  BY <1>4, <1>5, Digits
<1>7. r % W = a
  BY <1>4, Digits
<1>. QED BY <1>6, <1>7 DEF r, M

(* The low word of a sum does not depend on the signs of the operands.     *)
LEMMA SumOfWords ==
  ASSUME NEW x \in 0 .. WORD - 1, NEW y \in 0 .. WORD - 1
  PROVE  ((sign_extended(x) + sign_extended(y)) % DOUBLE) % WORD = ((x + y) % WORD) % WORD
<1> DEFINE s == sign_extended(x) + sign_extended(y)
<1>1. WORD \in Nat \ {0} /\ DOUBLE = WORD * WORD /\ DOUBLE >= WORD /\ DOUBLE \in Nat
  BY Bases
<1>2. \E k \in Nat : s = (x + y) + (WORD * k)
  <2>1. /\ sign_extended(x) = x + (WORD * (WORD - 1)) \/ sign_extended(x) = x + (WORD * 0)
        /\ sign_extended(y) = y + (WORD * (WORD - 1)) \/ sign_extended(y) = y + (WORD * 0)
    BY <1>1 DEF sign_extended
  <2>2. \A i, j \in Nat : (x + (WORD * i)) + (y + (WORD * j)) = (x + y) + (WORD * (i + j))
    BY <1>1
  <2>3. WORD - 1 \in Nat /\ 0 \in Nat
    BY <1>1
  <2> HIDE DEF s
  <2>4. \E i, j \in Nat : s = (x + (WORD * i)) + (y + (WORD * j))
    BY <2>1, <2>3 DEF s
  <2> QED BY <2>2, <2>4
<1> PICK k \in Nat : s = (x + y) + (WORD * k)
  BY <1>2
<1>3. s \in Nat
  BY <1>1
<1> HIDE DEF s
<1>4. (s % DOUBLE) % WORD = s % WORD
  BY <1>1, <1>3, ModuloOfModulo
<1> DEFINE a == (x + y) % WORD
           h == (x + y) \div WORD
<1>5. x + y = a + (WORD * h) /\ a \in 0 .. WORD - 1 /\ h \in Nat
  BY <1>1
<1> HIDE DEF a, h
<1>6. s = a + (WORD * (h + k)) /\ h + k \in Nat
  <2>1. s = (a + (WORD * h)) + (WORD * k)
    BY <1>5
  <2>2. WORD * (h + k) = (WORD * h) + (WORD * k)
    BY <1>1, <1>5
  <2> QED BY <1>1, <1>5, <2>1, <2>2
<1>7. s % WORD = a
  <2> DEFINE g == h + k
  <2>1. s = a + (WORD * g) /\ g \in Nat
    BY <1>6
  <2> HIDE DEF g
  <2>2. WORD \in Nat \ {0} /\ a \in 0 .. WORD - 1
    BY <1>1, <1>5
  <2>3. (a + (WORD * g)) % WORD = a
    BY <2>1, <2>2, Digits, Zenon
  <2> QED BY <2>1, <2>3
<1>8. a % WORD = a
  BY <1>1, <1>5
<1>. QED BY <1>4, <1>7, <1>8 DEF a, s

(* Every operation of memory_amo, on 64 bits, leaves in the operand's own  *)
(* bytes what the operation of the operand's width does: signs of words do *)
(* not reach them, and comparisons decide alike.                           *)
THEOREM AtomicsComputeTheirWidth ==
  ASSUME NEW op \in AtomicOps, NEW size \in {4, 8}, NEW m, NEW c,
         IsOperand(m, size), IsOperand(c, size)
  PROVE  \A i \in 0 .. size - 1 :
           double_bytes(amo_value(op, OperandOf(m, size), OperandOf(c, size)))[i]
             = Expected(op, size, m, c)[i]
<1> DEFINE x == OperandOf(m, size)
           y == OperandOf(c, size)
           mw == Wide(m, size)
           cw == Wide(c, size)
<1>1. /\ x \in 0 .. DOUBLE - 1 /\ y \in 0 .. DOUBLE - 1
      /\ double_bytes(x) = mw /\ double_bytes(y) = cw
      /\ y = double_value(cw, word_at(cw, 4))
      /\ \A i \in 0 .. 7 : mw[i] \in Byte /\ cw[i] \in Byte
  BY WideValue
<1>2. \A i \in 0 .. size - 1 : mw[i] = m[i] /\ cw[i] = c[i] /\ i \in 0 .. 7
  BY DEF Wide
<1>3. mw = [i \in 0 .. 7 |-> mw[i]] /\ cw = [i \in 0 .. 7 |-> cw[i]]
  BY DEF Wide
<1>4. /\ x > y <=> Less(Value(c, size), Value(m, size), size, FALSE)
      /\ x < y <=> Less(Value(m, size), Value(c, size), size, FALSE)
      /\ as_signed(x) > as_signed(y) <=> Less(Value(c, size), Value(m, size), size, TRUE)
      /\ as_signed(x) < as_signed(y) <=> Less(Value(m, size), Value(c, size), size, TRUE)
  BY Comparisons
<1> HIDE DEF x, y, mw, cw
<1>5. ASSUME op = "ADD"
      PROVE  \A i \in 0 .. size - 1 :
               double_bytes((x + y) % DOUBLE)[i]
                 = double_bytes((Value(m, size) + Value(c, size)) % Modulus(size))[i]
  <2>1. CASE size = 8
    <3>1. x = Value(m, size) /\ y = Value(c, size) /\ Modulus(size) = DOUBLE
      BY <2>1 DEF x, y, OperandOf, operand, Value, Modulus
    <3> QED BY <3>1
  <2>2. CASE size = 4
    <3> DEFINE p == word_value(m)
               q == word_value(c)
    <3>1. /\ x = sign_extended(p) /\ y = sign_extended(q) /\ Modulus(size) = WORD
          /\ Value(m, size) = p /\ Value(c, size) = q
      BY <2>2 DEF x, y, OperandOf, operand, Value, Modulus
    <3>2. p \in 0 .. WORD - 1 /\ q \in 0 .. WORD - 1
      <4>1. (\A i \in 0 .. 3 : m[i] \in Byte) /\ \A i \in 0 .. 3 : c[i] \in Byte
        BY <2>2 DEF IsOperand
      <4> QED BY <4>1, WordBytes
    <3> HIDE DEF p, q
    <3>3. ((x + y) % DOUBLE) % WORD = ((p + q) % WORD) % WORD
      BY <3>1, <3>2, SumOfWords
    <3>4. \A v : \A i \in 0 .. 3 : double_bytes(v)[i] = word_bytes(v % WORD)[i]
      BY DEF double_bytes
    <3> QED BY <2>2, <3>1, <3>3, <3>4
  <2> QED BY <2>1, <2>2
<1>6. ASSUME NEW Op \in [Byte \X Byte -> Byte], NEW i \in 0 .. 7
      PROVE  double_bytes(bitwise(Op, x, y))[i] = Op[<<mw[i], cw[i]>>]
  <2>1. HasBytes(x) /\ HasBytes(y)
    BY <1>1 DEF HasBytes
  <2>2. IsBytewise(bitwise(Op, x, y), Op, x, y)
    BY <2>1, BitwiseBytes
  <2> QED BY <1>1, <2>2 DEF IsBytewise
<1>7. ASSUME NEW Op \in [Byte \X Byte -> Byte], NEW i \in 0 .. 7
      PROVE  double_bytes(bitwise(Op, x, (DOUBLE - 1) - y))[i] = Op[<<mw[i], (BASE - 1) - cw[i]>>]
  <2> DEFINE z == (DOUBLE - 1) - y
  <2>1. double_bytes(z) = [j \in 0 .. 7 |-> (BASE - 1) - cw[j]]
    BY <1>1, Complement
  <2> HIDE DEF z
  <2>2. \A j \in 0 .. 7 : (BASE - 1) - cw[j] \in Byte
    BY <1>1, Bases DEF Byte
  <2>3. HasBytes(x) /\ HasBytes(z)
    BY <1>1, <2>1, <2>2 DEF HasBytes
  <2>4. IsBytewise(bitwise(Op, x, z), Op, x, z)
    BY <2>3, BitwiseBytes
  <2> QED BY <1>1, <2>1, <2>4 DEF z, IsBytewise
<1>8. /\ ByteAnd \in [Byte \X Byte -> Byte] /\ ByteOr \in [Byte \X Byte -> Byte]
      /\ ByteXor \in [Byte \X Byte -> Byte]
  BY StorePathAssumption
<1>9. SUFFICES ASSUME NEW i \in 0 .. size - 1
               PROVE  double_bytes(amo_value(op, x, y))[i] = Expected(op, size, m, c)[i]
  BY DEF x, y
<1>10. i \in 0 .. 7 /\ mw[i] = m[i] /\ cw[i] = c[i]
  BY <1>2
<1>11. CASE op = "ADD"
  BY <1>5, <1>11 DEF amo_value, Expected
<1>12. CASE op = "CLR"
  BY <1>7, <1>8, <1>10, <1>12 DEF amo_value, Expected
<1>13. CASE op = "SET"
  BY <1>6, <1>8, <1>10, <1>13 DEF amo_value, Expected
<1>14. CASE op = "EOR"
  BY <1>6, <1>8, <1>10, <1>14 DEF amo_value, Expected
<1>15. CASE op = "SMAX"
  BY <1>1, <1>4, <1>10, <1>15 DEF amo_value, Expected
<1>16. CASE op = "SMIN"
  BY <1>1, <1>4, <1>10, <1>16 DEF amo_value, Expected
<1>17. CASE op = "UMAX"
  BY <1>1, <1>4, <1>10, <1>17 DEF amo_value, Expected
<1>18. CASE op = "UMIN"
  BY <1>1, <1>4, <1>10, <1>18 DEF amo_value, Expected
<1>19. CASE op \in {"SWAP", "STEX", "LDEX"}
  BY <1>1, <1>10, <1>19 DEF amo_value, Expected
<1>20. op \in {"ADD", "CLR", "SET", "EOR", "SMAX", "SMIN", "UMAX",
               "UMIN", "SWAP", "LDEX", "STEX"}
  BY StorePathAssumption
<1>. QED
  BY <1>11, <1>12, <1>13, <1>14, <1>15, <1>16, <1>17, <1>18, <1>19, <1>20

-----------------------------------------------------------------------------
(* The bytes after a write of the enabled bytes.                           *)
LEMMA WrittenByte ==
  ASSUME NEW m, NEW E, NEW data, NEW a \in Int
  PROVE  ByteAt(WriteBytes(m, E, data), a) = IF a \in E THEN data[a] ELSE ByteAt(m, a)
<1> DEFINE w == WordOf(a)
           i == a % 4
           n == WriteBytes(m, E, data)
<1>1. i \in 0 .. 3 /\ w + i = a
  BY DEF WordOf
<1>2. DOMAIN n = DOMAIN m \cup {WordOf(x) : x \in E}
  BY DEF WriteBytes
<1>3. CASE w \in DOMAIN n
  <2>1. n[w] = [j \in 0 .. 3 |-> IF w + j \in E THEN data[w + j] ELSE Read(m, w)[j]]
    BY <1>3 DEF WriteBytes
  <2>2. n[w][i] = IF a \in E THEN data[a] ELSE Read(m, w)[i]
    BY <1>1, <2>1
  <2>. QED
    BY <2>2, <1>3 DEF ByteAt, Read
<1>4. CASE w \notin DOMAIN n
  <2>1. a \notin E /\ w \notin DOMAIN m
    BY <1>2, <1>4
  <2>. QED
    BY <2>1, <1>4 DEF ByteAt, Read
<1>. QED
  BY <1>3, <1>4

(* The lanes of an aligned access of S bytes, where a line is a number of  *)
(* such accesses.                                                          *)
LEMMA AlignedAccess ==
  ASSUME NEW S \in Nat \ {0}, NEW L \in Nat \ {0}, L % S = 0,
         NEW addr \in Nat, addr % S = 0
  PROVE  /\ addr % L \in 0 .. L - 1
         /\ (addr % L) % S = 0
         /\ ((addr % L) \div S) * S = addr % L
         /\ (addr % L) + S <= L
<1> DEFINE r == addr % L
           q == addr \div L
           k == L \div S
           j == addr \div S
           t == j - (k * q)
<1>1. /\ r \in 0 .. L - 1 /\ q \in Nat /\ addr = (L * q) + r
      /\ k \in Nat /\ L = S * k
      /\ j \in Nat /\ addr = S * j
  OBVIOUS
<1>2. t \in Int
  BY <1>1
<1> HIDE DEF r, q, k, j
<1>3. r = S * t
  <2>1. r = (S * j) - ((S * k) * q)
    BY <1>1
  <2>2. (S * j) - ((S * k) * q) = S * (j - (k * q))
    BY <1>1
  <2>. QED
    BY <2>1, <2>2
<1> HIDE DEF t
<1>4. t >= 0 /\ t < k
  BY <1>1, <1>2, <1>3
<1>5. S * (t + 1) <= S * k
  BY <1>1, <1>2, <1>4
<1>6. r + S <= L
  BY <1>1, <1>2, <1>3, <1>5
<1>7. r % S = 0 /\ r \div S = t
  BY <1>2, <1>3, <1>4
<1>. QED
  BY <1>1, <1>2, <1>3, <1>6, <1>7 DEF r

(* A line of the program is below Top, with all its bytes.                 *)
LEMMA LineBelowTop ==
  ASSUME NEW addr \in 0 .. Top - 1
  PROVE  /\ LineOf(addr) \in 0 .. Top - 1 /\ LineOf(addr) <= addr
         /\ LineOf(addr) % LineBytes = 0
         /\ \A j \in Lanes : LineOf(addr) + j \in 0 .. Top - 1
<1> DEFINE L == LineBytes
           r == addr % L
           q == addr \div L
           k == Top \div L
           p == L * q
<1>1. /\ L \in Nat \ {0} /\ r \in 0 .. L - 1 /\ q \in Nat /\ addr = p + r
      /\ k \in Nat /\ Top = L * k /\ addr \in 0 .. Top - 1
  BY MemoryAssumption, StorePathAssumption
<1>2. LineOf(addr) = addr - r /\ Lanes = 0 .. L - 1
  BY DEF LineOf, Lanes
<1>3. q < k
  BY <1>1
<1>4. p + L <= L * k
  <2> HIDE DEF L, r, q, k
  <2>1. L * (q + 1) <= L * k
    BY <1>1, <1>3
  <2>. QED
    BY <1>1, <2>1
<1>5. p \in Nat /\ p % L = 0
  <2> HIDE DEF L, r, q, k
  <2>. QED
    BY <1>1
<1> HIDE DEF p, r, q, k
<1>6. LineOf(addr) = p
  BY <1>1, <1>2, <1>5
<1>7. p + L <= Top
  BY <1>1, <1>4
<1> HIDE DEF L
<1>8. p \in 0 .. Top - 1 /\ p <= addr /\ \A j \in 0 .. L - 1 : p + j \in 0 .. Top - 1
  BY <1>1, <1>5, <1>7
<1>9. LineOf(addr) % LineBytes = 0
  BY <1>5, <1>6 DEF L
<1>. QED
  BY <1>2, <1>6, <1>8, <1>9, Zenon

(* A write with byte enables into the line of an address.                  *)
LEMMA LineWritten ==
  ASSUME NEW m, NEW addr \in Nat, NEW be \in SUBSET Lanes, NEW data, NEW a \in Int
  PROVE  ByteAt(memory_write(m, addr, be, data), a)
           = IF a - LineOf(addr) \in be THEN data[a - LineOf(addr)] ELSE ByteAt(m, a)
<1> DEFINE base == LineOf(addr)
           E == {base + j : j \in be}
           d == [x \in base .. base + LineBytes - 1 |-> data[x - base]]
<1>1. base \in Int /\ LineBytes \in Nat
  BY MemoryAssumption DEF LineOf
<1>2. memory_write(m, addr, be, data) = WriteBytes(m, E, d)
  BY DEF memory_write
<1>3. ByteAt(memory_write(m, addr, be, data), a) = IF a \in E THEN d[a] ELSE ByteAt(m, a)
  <2> HIDE DEF E, d, base
  <2>1. ByteAt(WriteBytes(m, E, d), a) = IF a \in E THEN d[a] ELSE ByteAt(m, a)
    BY WrittenByte
  <2>. QED
    BY <1>2, <2>1, Zenon
<1> HIDE DEF base
<1>4. a \in E <=> a - base \in be
  BY <1>1 DEF Lanes
<1>5. ASSUME a - base \in be PROVE d[a] = data[a - base]
  <2>1. a \in base .. base + LineBytes - 1
    BY <1>1, <1>5 DEF Lanes
  <2>. QED
    BY <2>1
<1>. QED
  BY <1>3, <1>4, <1>5 DEF base

(* The sizes of requests, as powers of two.                                *)
LEMMA Sizes ==
  ASSUME NEW size \in 0 .. 7
  PROVE  2^size \in Nat \ {0}
<1>1. size \in {0, 1, 2, 3, 4, 5, 6, 7}
  OBVIOUS
<1>2. /\ 2^0 \in Nat \ {0} /\ 2^1 \in Nat \ {0} /\ 2^2 \in Nat \ {0} /\ 2^3 \in Nat \ {0}
      /\ 2^4 \in Nat \ {0} /\ 2^5 \in Nat \ {0} /\ 2^6 \in Nat \ {0} /\ 2^7 \in Nat \ {0}
  OBVIOUS
<1>. QED
  BY <1>1, <1>2, Zenon

(* The data and the byte enables of an aligned access.                     *)
LEMMA Alignment ==
  ASSUME NEW size \in 0 .. 7, 2^size <= VlenBytes,
         NEW addr \in 0 .. Top - 1, addr % 2^size = 0, NEW data
  PROVE  LET S == 2^size
             f == addr % LineBytes
         IN  /\ aligned_be(size, addr) = f .. f + S - 1
             /\ f \in Nat /\ f + S <= LineBytes
             /\ \A j \in f .. f + S - 1 : aligned_data(size, addr, data)[j] = data[j - f]
<1> DEFINE S == 2^size
           f == addr % LineBytes
<1>1. S \in Nat \ {0}
  BY Sizes
<1>2. /\ LineBytes \in Nat \ {0} /\ LineBytes % S = 0 /\ S <= VlenBytes
      /\ VlenBytes \in Nat /\ addr \in Nat /\ addr % S = 0
  <2>1. LineBytes \in Nat \ {0} /\ VlenBytes \in Nat /\ Top \in Nat
    BY MemoryAssumption, StorePathAssumption
  <2>2. LineBytes % S = 0
    BY StorePathAssumption, Zenon
  <2>. QED
    BY <2>1, <2>2
<1>3. first_lane(size, addr) = (f \div S) * S
  BY DEF first_lane
<1>4. data_lanes(size, addr) = first_lane(size, addr) .. first_lane(size, addr) + S - 1
  BY DEF data_lanes
<1>5. /\ aligned_be(size, addr) = IF S > VlenBytes THEN Lanes ELSE data_lanes(size, addr)
      /\ aligned_data(size, addr, data)
           = [j \in Lanes |->
                IF S > VlenBytes THEN BASE - 1
                ELSE IF j \in data_lanes(size, addr) THEN data[j - first_lane(size, addr)]
                ELSE 0]
  BY DEF aligned_be, aligned_data
<1>6. /\ f \in 0 .. LineBytes - 1 /\ (f \div S) * S = f /\ f + S <= LineBytes
  <2> HIDE DEF S
  <2>. QED
    BY <1>1, <1>2, AlignedAccess, Zenon
<1> HIDE DEF S, f
<1>7. ~(S > VlenBytes)
  BY <1>1, <1>2
<1>8. data_lanes(size, addr) = f .. f + S - 1 /\ first_lane(size, addr) = f
  BY <1>3, <1>4, <1>6
<1>9. ASSUME NEW j \in f .. f + S - 1
      PROVE  aligned_data(size, addr, data)[j] = data[j - f]
  <2>1. j \in Lanes
    BY <1>1, <1>2, <1>6 DEF Lanes
  <2>. QED
    BY <1>5, <1>7, <1>8, <2>1
<1>10. aligned_be(size, addr) = f .. f + S - 1
  BY <1>5, <1>7, <1>8
<1>. QED
  BY <1>6, <1>9, <1>10 DEF S, f

-----------------------------------------------------------------------------
(* The invariant: the words hold the bytes, line by line and lane by lane. *)
BytesAgree ==
  /\ bytes \in [0 .. Top - 1 -> Byte]
  /\ \A a \in 0 .. Top - 1 : ByteAt(mem, a) = bytes[a]

StoreIInv == BytesAgree /\ AtomicReturnsOldLine /\ HostWritesString

(* No word is in memoryContents, and every byte reads as zero.             *)
LEMMA StoreInitIInv == StoreInit => StoreIInv
<1> SUFFICES ASSUME StoreInit PROVE StoreIInv
  OBVIOUS
<1>1. 0 \in Byte
  BY MemoryAssumption DEF Byte
<1>2. ASSUME NEW a \in 0 .. Top - 1 PROVE ByteAt(mem, a) = 0
  <2>1. a % 4 \in 0 .. 3
    BY StorePathAssumption
  <2>2. DOMAIN mem = {}
    BY DEF StoreInit
  <2>. QED
    BY <2>1, <2>2 DEF ByteAt, Read
<1>. QED
  BY <1>1, <1>2 DEF StoreInit, StoreIInv, BytesAgree, AtomicReturnsOldLine, HostWritesString

(* A change of the same bytes in the memory and in what software sees.     *)
LEMMA SameChange ==
  ASSUME BytesAgree, NEW addr \in Nat, NEW size \in Nat, NEW data,
         \A i \in 0 .. size - 1 : data[i] \in Byte,
         \A a \in 0 .. Top - 1 :
           ByteAt(mem', a) = IF a \in addr .. addr + size - 1
                             THEN data[a - addr] ELSE ByteAt(mem, a),
         bytes' = Replaced(addr, size, data)
  PROVE  BytesAgree'
<1>1. DOMAIN bytes = 0 .. Top - 1 /\ Top \in Nat
  BY StorePathAssumption DEF BytesAgree
<1>2. bytes' = [a \in 0 .. Top - 1 |->
                  IF a \in addr .. addr + size - 1 THEN data[a - addr] ELSE bytes[a]]
  BY <1>1 DEF Replaced
<1>3. ASSUME NEW a \in 0 .. Top - 1
      PROVE  bytes'[a] = ByteAt(mem', a) /\ bytes'[a] \in Byte
  <2>1. bytes'[a] = IF a \in addr .. addr + size - 1 THEN data[a - addr] ELSE bytes[a]
    BY <1>2
  <2>2. CASE a \in addr .. addr + size - 1
    <3>1. a - addr \in 0 .. size - 1
      BY <1>1, <2>2
    <3>. QED
      BY <2>1, <2>2, <3>1
  <2>3. CASE a \notin addr .. addr + size - 1
    BY <2>1, <2>3 DEF BytesAgree
  <2>. QED
    BY <2>2, <2>3
<1>. QED
  BY <1>2, <1>3 DEF BytesAgree

(* An aligned store, its byte enables and the masks of its words.          *)
LEMMA StoreStep ==
  ASSUME StoreIInv, NEW mem_size \in MemSizes, NEW addr \in Addrs,
         NEW data_rs2 \in Registers, Store(mem_size, addr, data_rs2)
  PROVE  StoreIInv'
<1> DEFINE size == req_size(mem_size)
           S == 2^size
           f == addr % LineBytes
           be == aligned_be(size, addr)
           data == aligned_data(size, addr, data_rs2)
<1>1. size \in 0 .. 7
  <2>1. mem_size \in 0 .. 15
    BY StorePathAssumption
  <2>2. mem_size \div 8 \in 0 .. 1 /\ mem_size % 4 \in 0 .. 3
    BY <2>1
  <2>. QED
    BY <2>2 DEF req_size
<1>2. /\ S <= VlenBytes /\ addr % S = 0
      /\ mem' = memory_write(mem, addr, be, data)
      /\ bytes' = Replaced(addr, S, data_rs2)
  BY DEF Store
<1>3. addr \in 0 .. Top - 1 /\ addr \in Nat /\ Top \in Nat
  BY StorePathAssumption
<1>4. S \in Nat \ {0}
  BY <1>1, Sizes
<1> HIDE DEF size
<1>5. /\ be = f .. f + S - 1
      /\ f \in Nat /\ f + S <= LineBytes
      /\ \A j \in f .. f + S - 1 : data[j] = data_rs2[j - f]
  BY <1>1, <1>2, <1>3, Alignment
<1> HIDE DEF S, be, data
<1>6. be \in SUBSET Lanes
  BY <1>4, <1>5, MemoryAssumption DEF Lanes
<1>7. LineOf(addr) = addr - f
  BY DEF LineOf
<1> HIDE DEF f
<1>8. ASSUME NEW a \in 0 .. Top - 1
      PROVE  ByteAt(mem', a) = IF a \in addr .. addr + S - 1
                               THEN data_rs2[a - addr] ELSE ByteAt(mem, a)
  <2>1. a \in Int
    BY <1>3
  <2>2. ByteAt(mem', a) = IF a - LineOf(addr) \in be
                          THEN data[a - LineOf(addr)] ELSE ByteAt(mem, a)
    BY <1>2, <1>3, <1>6, <2>1, LineWritten
  <2> DEFINE j == a - LineOf(addr)
  <2>3. j \in Int /\ j - f = a - addr /\ (j \in be <=> a \in addr .. addr + S - 1)
    BY <1>3, <1>4, <1>5, <1>7, <2>1
  <2> HIDE DEF j
  <2>4. j \in be => data[j] = data_rs2[a - addr]
    BY <1>5, <2>3
  <2>. QED
    BY <2>2, <2>3, <2>4 DEF j
<1>9. \A i \in 0 .. S - 1 : data_rs2[i] \in Byte
  <2>1. data_rs2 \in [0 .. VlenBytes - 1 -> Byte] /\ VlenBytes \in Nat
    BY StorePathAssumption
  <2>. QED
    BY <1>2, <1>4, <2>1
<1>10. BytesAgree'
  BY <1>2, <1>3, <1>4, <1>8, <1>9, SameChange DEF StoreIInv
<1>11. UNCHANGED shown_vars
  BY DEF Store
<1>. QED
  BY <1>10, <1>11 DEF StoreIInv, AtomicReturnsOldLine, HostWritesString, shown_vars

(* A line of zeros.                                                        *)
LEMMA CboZeroStep ==
  ASSUME StoreIInv, NEW addr \in Addrs, CboZero(addr)
  PROVE  StoreIInv'
<1> DEFINE base == LineOf(addr)
           zeros == [j \in Lanes |-> 0]
<1>1. /\ base \in 0 .. Top - 1 /\ base % LineBytes = 0
      /\ Top \in Nat /\ LineBytes \in Nat /\ addr \in 0 .. Top - 1
  BY LineBelowTop, StorePathAssumption, MemoryAssumption
<1>2. /\ mem' = memory_write(mem, base, Lanes, zeros)
      /\ bytes' = Replaced(base, LineBytes, zeros)
      /\ UNCHANGED shown_vars
  BY DEF CboZero
<1>3. LineOf(base) = base
  BY <1>1 DEF LineOf
<1>4. \A j \in 0 .. LineBytes - 1 : zeros[j] = 0 /\ zeros[j] \in Byte
  BY MemoryAssumption DEF Lanes, Byte
<1> HIDE DEF base, zeros
<1>5. ASSUME NEW a \in 0 .. Top - 1
      PROVE  ByteAt(mem', a) = IF a \in base .. base + LineBytes - 1
                               THEN zeros[a - base] ELSE ByteAt(mem, a)
  <2>1. a \in Int /\ base \in Nat
    BY <1>1
  <2>2. ByteAt(mem', a) = IF a - base \in Lanes THEN zeros[a - base] ELSE ByteAt(mem, a)
    BY <1>2, <1>3, <2>1, LineWritten
  <2>3. a - base \in Lanes <=> a \in base .. base + LineBytes - 1
    BY <1>1, <2>1 DEF Lanes
  <2>. QED
    BY <2>2, <2>3
<1>6. BytesAgree'
  BY <1>1, <1>2, <1>4, <1>5, SameChange DEF StoreIInv
<1>. QED
  BY <1>2, <1>6 DEF StoreIInv, AtomicReturnsOldLine, HostWritesString, shown_vars

(* The word reads of the host find the bytes of its buffer.                *)
LEMMA HostWriteStep ==
  ASSUME StoreIInv, NEW b \in Buffers, HostWrite(b.addr, b.len)
  PROVE  StoreIInv'
<1>1. /\ b.addr \in Nat /\ b.len \in Nat /\ b.addr + b.len <= Top /\ Top \in Nat
      /\ b.addr % 4 = 0
  BY StorePathAssumption DEF HostWrite
<1> DEFINE addr == b.addr
           len == b.len
<1>0. addr \in Nat /\ len \in Nat /\ addr + len <= Top /\ Top \in Nat /\ addr % 4 = 0
  BY <1>1
<1> HIDE DEF addr, len
<1>2. ASSUME NEW i \in 0 .. len - 1
      PROVE  Read(mem, addr + (i - (i % 4)))[i % 4] = bytes[addr + i]
  <2>1. addr + i \in 0 .. Top - 1
    BY <1>0
  <2>2. (addr + i) % 4 = i % 4
    BY <1>0
  <2>3. WordOf(addr + i) = addr + (i - (i % 4))
    BY <1>0, <2>2 DEF WordOf
  <2>4. ByteAt(mem, addr + i) = bytes[addr + i]
    BY <2>1 DEF StoreIInv, BytesAgree
  <2>. QED
    BY <2>2, <2>3, <2>4 DEF ByteAt
<1>3. text' = expected_text'
  BY <1>2 DEF HostWrite, host_text, addr, len
<1>4. UNCHANGED <<mem, bytes, result, old_line>>
  BY DEF HostWrite
<1>. QED
  BY <1>3, <1>4 DEF StoreIInv, BytesAgree, AtomicReturnsOldLine, HostWritesString, ByteAt, Read

-----------------------------------------------------------------------------
(* Segments.                                                               *)

(* A block reaches the end of the word that it begins in, or begins at a   *)
(* word, or is empty.                                                      *)
IsWhole(addr, size) == size = 0 \/ addr % 4 = 0 \/ (addr % 4) + size >= 4

WholeSegments ==
  \A s \in Segments : /\ IsWhole(s.paddr, s.filesz)
                      /\ IsWhole(s.paddr + s.filesz, s.memsz - s.filesz)

(* Such a block writes its own bytes, and no others.                       *)
LEMMA WholeBlock ==
  ASSUME NEW addr \in Nat, NEW size \in Nat \ {0}, IsWhole(addr, size)
  PROVE  block_bytes(addr, size) = addr .. addr + size - 1
<1> DEFINE o == addr % 4
           w == WordOf(addr)
<1>1. o \in 0 .. 3 /\ w \in Nat /\ addr = w + o
  BY DEF WordOf
<1>2. CASE o = 0
  <2>1. prologue_bytes(addr, size) = {}
    BY <1>2 DEF prologue_bytes
  <2>. QED
    BY <1>2, <2>1 DEF block_bytes
<1>3. CASE o # 0
  <2>1. o + size >= 4 /\ ~(4 - o > size)
    BY <1>1, <1>3 DEF IsWhole
  <2>2. prologue_bytes(addr, size) = {w + i : i \in (o .. o + 4 - 1) \cap (0 .. 3)}
    BY <1>3, <2>1 DEF prologue_bytes
  <2>3. prologue_bytes(addr, size) = w + o .. w + 3
    <3> HIDE DEF o, w
    <3> DEFINE K == (o .. o + 4 - 1) \cap (0 .. 3)
    <3>1. \A i : i \in K <=> i \in o .. 3
      BY <1>1
    <3> HIDE DEF K
    <3>2. ASSUME NEW x \in w + o .. w + 3 PROVE \E i \in K : x = w + i
      <4>1. x - w \in o .. 3 /\ x = w + (x - w)
        BY <1>1
      <4>. QED
        BY <3>1, <4>1
    <3>3. ASSUME NEW i \in K PROVE w + i \in w + o .. w + 3
      BY <1>1, <3>1
    <3>4. prologue_bytes(addr, size) = {w + i : i \in K}
      BY <2>2 DEF K
    <3>. QED
      BY <3>2, <3>3, <3>4
  <2>4. block_bytes(addr, size) = (w + o .. w + 3) \cup (w + 4 .. addr + size - 1)
    BY <1>3, <2>3 DEF block_bytes
  <2>5. addr + size - 1 >= w + 3 /\ addr + size - 1 \in Int
    BY <1>1, <2>1
  <2> HIDE DEF o, w
  <2>6. ASSUME NEW x
        PROVE  x \in addr .. addr + size - 1
                 <=> x \in w + o .. w + 3 \/ x \in w + 4 .. addr + size - 1
    BY <1>1, <2>5
  <2>. QED
    BY <2>4, <2>6
<1>. QED
  BY <1>2, <1>3

(* The two blocks of a segment: the part in the file, then zeros.          *)
LEMMA LoadSegmentStep ==
  ASSUME WholeSegments, StoreIInv, NEW s \in Segments, LoadSegment(s)
  PROVE  StoreIInv'
<1> DEFINE p == s.paddr
           n == s.filesz
           start == p + n
           rest == s.memsz - n
           F == File(s)
           zeros == [a \in WordOf(start) .. start + rest + 3 |->
                       IF a < start + rest THEN 0 ELSE BASE - 1]
           loaded == IF n > 0 THEN write_block(mem, p, n, F) ELSE mem
<1>1. /\ p \in Nat /\ n \in Nat /\ rest \in Nat /\ start + rest <= Top /\ Top \in Nat
      /\ start \in Nat /\ start + rest = p + s.memsz /\ s.memsz \in Nat
  BY StorePathAssumption
<1>2. IsWhole(p, n) /\ IsWhole(start, rest)
  BY DEF WholeSegments
<1>3. /\ mem' = IF rest > 0 THEN write_block(loaded, start, rest, zeros) ELSE loaded
      /\ bytes' = [a \in DOMAIN bytes |->
                     CASE a \in p .. start - 1 -> F[a]
                       [] a \in start .. start + rest - 1 -> 0
                       [] OTHER -> bytes[a]]
      /\ UNCHANGED shown_vars
  <2>1. p + s.memsz = start + rest
    BY <1>1
  <2>. QED
    BY <2>1 DEF LoadSegment, load_segment
<1>4. ASSUME NEW a \in Int
      PROVE  ByteAt(loaded, a) = IF a \in p .. start - 1 THEN F[a] ELSE ByteAt(mem, a)
  <2>1. CASE n > 0
    <3>1. block_bytes(p, n) = p .. start - 1
      BY <1>1, <1>2, <2>1, WholeBlock
    <3> DEFINE E == p .. start - 1
    <3> HIDE DEF p, n, start, F, E
    <3>2. ByteAt(WriteBytes(mem, E, F), a) = IF a \in E THEN F[a] ELSE ByteAt(mem, a)
      BY WrittenByte
    <3>3. loaded = WriteBytes(mem, E, F)
      BY <2>1, <3>1 DEF write_block, E
    <3>. QED
      BY <3>2, <3>3 DEF E
  <2>2. CASE ~(n > 0)
    BY <1>1, <2>2
  <2>. QED
    BY <2>1, <2>2
<1>5. ASSUME NEW a \in Int
      PROVE  ByteAt(mem', a) = IF a \in start .. start + rest - 1 THEN 0
                               ELSE ByteAt(loaded, a)
  <2>1. CASE rest > 0
    <3>1. block_bytes(start, rest) = start .. start + rest - 1
      BY <1>1, <1>2, <2>1, WholeBlock
    <3>2. a \in start .. start + rest - 1 => zeros[a] = 0
      <4>1. WordOf(start) <= start
        BY <1>1 DEF WordOf
      <4>2. WordOf(start) \in Int
        BY <1>1 DEF WordOf
      <4> HIDE DEF start, rest
      <4>. QED
        BY <1>1, <4>1, <4>2
    <3> DEFINE E == start .. start + rest - 1
    <3> HIDE DEF p, n, start, rest, F, zeros, loaded, E
    <3>3. ByteAt(WriteBytes(loaded, E, zeros), a)
            = IF a \in E THEN zeros[a] ELSE ByteAt(loaded, a)
      BY WrittenByte
    <3>4. mem' = WriteBytes(loaded, E, zeros)
      BY <1>3, <2>1, <3>1 DEF write_block, E
    <3>. QED
      BY <3>2, <3>3, <3>4 DEF E
  <2>2. CASE ~(rest > 0)
    BY <1>1, <1>3, <2>2
  <2>. QED
    BY <2>1, <2>2
<1>6. ASSUME NEW a \in p .. start - 1 PROVE F[a] \in Byte
  <2>1. a \in WordOf(p) .. p + s.memsz + 3
    BY <1>1 DEF WordOf
  <2>2. F[a] = 1 + (a % (BASE - 1))
    BY <2>1 DEF File
  <2> DEFINE D == BASE - 1
  <2>3. D \in Nat \ {0} /\ a \in Nat /\ Byte = 0 .. D
    BY <1>1, MemoryAssumption DEF Byte
  <2>4. F[a] = 1 + (a % D)
    BY <2>2
  <2> HIDE DEF D, F
  <2>5. a % D \in 0 .. D - 1
    BY <2>3
  <2>. QED
    BY <2>3, <2>4, <2>5
<1> HIDE DEF p, n, start, rest, F, zeros, loaded
<1>7. ASSUME NEW a \in 0 .. Top - 1
      PROVE  bytes'[a] = ByteAt(mem', a) /\ bytes'[a] \in Byte
  <2>1. /\ a \in Int /\ a \in DOMAIN bytes /\ bytes[a] \in Byte
        /\ ByteAt(mem, a) = bytes[a]
    BY <1>1 DEF StoreIInv, BytesAgree
  <2>2. 0 \in Byte
    BY MemoryAssumption DEF Byte
  <2>3. CASE a \in p .. start - 1
    <3>1. a \notin start .. start + rest - 1
      BY <1>1, <2>3
    <3>. QED
      BY <1>3, <1>4, <1>5, <1>6, <2>1, <2>3, <3>1
  <2>4. CASE a \in start .. start + rest - 1
    <3>1. a \notin p .. start - 1
      BY <1>1, <2>4
    <3>. QED
      BY <1>3, <1>5, <2>1, <2>2, <2>4, <3>1
  <2>5. CASE a \notin p .. start - 1 /\ a \notin start .. start + rest - 1
    BY <1>3, <1>4, <1>5, <2>1, <2>5
  <2>. QED
    BY <2>3, <2>4, <2>5
<1>8. DOMAIN bytes = 0 .. Top - 1
  BY DEF StoreIInv, BytesAgree
<1>9. BytesAgree'
  BY <1>3, <1>7, <1>8 DEF BytesAgree
<1>. QED
  BY <1>3, <1>9 DEF StoreIInv, AtomicReturnsOldLine, HostWritesString, shown_vars

-----------------------------------------------------------------------------
(* Atomic operations.                                                      *)

(* The words of a function of at least as many bytes are those of b.       *)
LEMMA SameOperand ==
  ASSUME NEW size \in {4, 8}, NEW lo, NEW hi, NEW b,
         \A i \in 0 .. 3 : lo[i] = b[i],
         size = 8 => \A i \in 0 .. 3 : hi[i] = b[4 + i]
  PROVE  operand(lo, hi, size = 8) = OperandOf(b, size)
<1>1. word_value(lo) = word_value(b)
  BY DEF word_value
<1>2. CASE size = 8
  <2> DEFINE w == word_at(b, 4)
  <2>1. \A i \in 0 .. 3 : w[i] = b[4 + i]
    BY DEF word_at
  <2>2. \A i \in 0 .. 3 : hi[i] = w[i]
    BY <1>2, <2>1
  <2> HIDE DEF w
  <2>3. word_value(hi) = word_value(w)
    BY <2>2 DEF word_value
  <2>. QED
    BY <1>1, <1>2, <2>3 DEF OperandOf, operand, double_value, w
<1>3. CASE size = 4
  BY <1>1, <1>3 DEF OperandOf, operand
<1>. QED
  BY <1>2, <1>3

(* The bytes of an expected value.                                         *)
LEMMA ExpectedBytes ==
  ASSUME NEW op \in AtomicOps, NEW size \in {4, 8}, NEW m, NEW c,
         IsOperand(m, size), IsOperand(c, size)
  PROVE  IsOperand(Expected(op, size, m, c), size)
<1> DEFINE e == Expected(op, size, m, c)
<1>1. ASSUME NEW v \in Int, NEW i \in 0 .. 7
      PROVE  double_bytes(v)[i] \in Byte
  <2> DEFINE l == v % WORD
             h == v \div WORD
  <2>1. l \in Int /\ h \in Int
    BY Bases
  <2>2. double_bytes(v)[i] = IF i < 4 THEN word_bytes(l)[i] ELSE word_bytes(h)[i - 4]
    BY DEF double_bytes
  <2> HIDE DEF l, h
  <2>3. ASSUME NEW u \in Int, NEW j \in 0 .. 3 PROVE word_bytes(u)[j] \in Byte
    <3> DEFINE u1 == u \div BASE
               u2 == u1 \div BASE
               u3 == u2 \div BASE
    <3>1. BASE \in Nat \ {0}
      BY MemoryAssumption
    <3>2. \A z \in Int : z \div BASE \in Int /\ z % BASE \in Byte
      BY <3>1 DEF Byte
    <3>3. u1 \in Int
      BY <3>2
    <3>4. u2 \in Int
      BY <3>2, <3>3
    <3>5. u3 \in Int
      BY <3>2, <3>4
    <3>6. word_bytes(u)[j] \in {u % BASE, u1 % BASE, u2 % BASE, u3 % BASE}
      BY DEF word_bytes
    <3> HIDE DEF u1, u2, u3
    <3>. QED
      BY <3>2, <3>3, <3>4, <3>5, <3>6
  <2>. QED
    BY <2>1, <2>2, <2>3
<1>2. CASE op = "ADD"
  <2> DEFINE w == (Value(m, size) + Value(c, size)) % Modulus(size)
  <2>1. w \in Int
    <3>1. ASSUME NEW b, IsOperand(b, size) PROVE Value(b, size) \in Nat
      <4>1. CASE size = 8
        <5>1. double_value(b, word_at(b, 4)) \in 0 .. DOUBLE - 1
          BY <3>1, <4>1, DoubleBytes DEF IsOperand
        <5>. QED
          BY <4>1, <5>1, Bases DEF Value
      <4>2. CASE size = 4
        <5>1. word_value(b) \in 0 .. WORD - 1
          BY <3>1, <4>2, WordBytes DEF IsOperand
        <5>. QED
          BY <4>2, <5>1, Bases DEF Value
      <4>. QED
        BY <4>1, <4>2
    <3>2. Value(m, size) \in Nat /\ Value(c, size) \in Nat
      BY <3>1
    <3>3. Modulus(size) \in Nat \ {0}
      BY Bases DEF Modulus
    <3>. QED
      BY <3>2, <3>3
  <2>2. e = [i \in 0 .. size - 1 |-> double_bytes(w)[i]]
    BY <1>2 DEF Expected
  <2> HIDE DEF w
  <2>. QED
    BY <1>1, <2>1, <2>2 DEF IsOperand
<1>3. ASSUME NEW Op \in {ByteAnd, ByteOr, ByteXor}, NEW i \in 0 .. size - 1
      PROVE  /\ Op[<<m[i], c[i]>>] \in Byte
             /\ Op[<<m[i], (BASE - 1) - c[i]>>] \in Byte
  <2>1. Op \in [Byte \X Byte -> Byte]
    BY StorePathAssumption
  <2>2. m[i] \in Byte /\ c[i] \in Byte /\ (BASE - 1) - c[i] \in Byte
    BY MemoryAssumption DEF IsOperand, Byte
  <2>. QED
    BY <2>1, <2>2
<1>4. CASE op = "CLR"
  BY <1>3, <1>4 DEF Expected, IsOperand
<1>5. CASE op = "SET"
  BY <1>3, <1>5 DEF Expected, IsOperand
<1>6. CASE op = "EOR"
  BY <1>3, <1>6 DEF Expected, IsOperand
<1>7. CASE op \in {"SMAX", "SMIN", "UMAX", "UMIN", "LDEX", "SWAP", "STEX"}
  <2>1. ASSUME NEW i \in 0 .. size - 1 PROVE e[i] \in {m[i], c[i]}
    BY <1>7 DEF Expected
  <2>. QED
    BY <2>1 DEF IsOperand
<1>. QED
  BY <1>2, <1>4, <1>5, <1>6, <1>7, StorePathAssumption

(* An atomic operation, from the words of the memory and of the line.      *)
LEMMA AtomicStep ==
  ASSUME StoreIInv, NEW op \in AtomicOps, NEW size \in {2, 3}, NEW addr \in Words,
         NEW data_rs2 \in Registers, Atomic(op, size, addr, data_rs2)
  PROVE  StoreIInv'
<1> DEFINE S == 2^size
           f == addr % LineBytes
           data == aligned_data(size, addr, data_rs2)
           m == [i \in 0 .. S - 1 |-> bytes[addr + i]]
           expected == Expected(op, S, m, data_rs2)
<1>1. /\ S \in {4, 8} /\ (size = 3 <=> S = 8) /\ size \in 0 .. 7
      /\ S <= VlenBytes /\ VlenBytes \in Nat
  <2>1. 2^2 = 4 /\ 2^3 = 8
    OBVIOUS
  <2>2. VlenBytes \in Nat /\ VlenBytes >= 8
    BY StorePathAssumption
  <2>3. (size = 2 => S = 2^2) /\ (size = 3 => S = 2^3)
    BY Zenon
  <2> HIDE DEF S
  <2>. QED
    BY <2>1, <2>2, <2>3
<1>2. /\ addr % S = 0
      /\ mem' = memory_amo(mem, addr, size = 3, op, data)
      /\ result' = amo_result(mem, addr)
      /\ old_line' = [j \in Lanes |-> bytes[LineOf(addr) + j]]
      /\ bytes' = Replaced(addr, S, expected)
      /\ UNCHANGED <<text, expected_text>>
  BY DEF Atomic
<1>3. addr \in 0 .. Top - 1 /\ addr \in Nat /\ Top \in Nat /\ LineBytes \in Nat
  BY StorePathAssumption, MemoryAssumption
<1>4. /\ f \in Nat /\ f + S <= LineBytes
      /\ \A j \in f .. f + S - 1 : data[j] = data_rs2[j - f]
  BY <1>1, <1>2, <1>3, Alignment
<1>5. LineOf(addr) = addr - f /\ \A j \in 0 .. LineBytes - 1 : LineOf(addr) + j \in 0 .. Top - 1
  BY <1>3, LineBelowTop DEF LineOf, Lanes
<1> HIDE DEF S, data, f
<1>6. \A i \in 0 .. S - 1 : addr + i \in 0 .. Top - 1
  <2> SUFFICES ASSUME NEW i \in 0 .. S - 1 PROVE addr + i \in 0 .. Top - 1
    OBVIOUS
  <2>1. f + i \in 0 .. LineBytes - 1
    BY <1>1, <1>3, <1>4
  <2>2. LineOf(addr) + (f + i) = addr + i
    BY <1>1, <1>3, <1>4, <1>5
  <2>. QED
    BY <1>5, <2>1, <2>2
<1>7. \A i \in 0 .. S - 1 : m[i] = ByteAt(mem, addr + i) /\ m[i] = bytes[addr + i]
  BY <1>6 DEF StoreIInv, BytesAgree
<1>8. IsOperand(m, S) /\ IsOperand(data_rs2, S)
  <2>1. data_rs2 \in [0 .. VlenBytes - 1 -> Byte]
    BY StorePathAssumption
  <2>2. bytes \in [0 .. Top - 1 -> Byte]
    BY DEF StoreIInv, BytesAgree
  <2>3. IsOperand(data_rs2, S)
    BY <1>1, <2>1 DEF IsOperand
  <2>4. IsOperand(m, S)
    BY <1>6, <1>7, <2>2 DEF IsOperand
  <2>. QED
    BY <2>3, <2>4
<1> DEFINE x == operand(Read(mem, addr), Read(mem, addr + 4), S = 8)
           y == operand(word_at(data, f), word_at(data, f + 4), S = 8)
<1>9. x = OperandOf(m, S)
  <2>1. addr % 4 = 0
    BY <1>1, <1>2, <1>3
  <2>2. ASSUME NEW i \in 0 .. 3
        PROVE  /\ WordOf(addr + i) = addr /\ (addr + i) % 4 = i
               /\ WordOf(addr + (4 + i)) = addr + 4 /\ (addr + (4 + i)) % 4 = i
    BY <1>3, <2>1 DEF WordOf
  <2>3. ASSUME NEW i \in 0 .. 3
        PROVE  /\ Read(mem, addr)[i] = m[i]
               /\ S = 8 => Read(mem, addr + 4)[i] = m[4 + i]
    <3>1. i \in 0 .. S - 1 /\ (S = 8 => 4 + i \in 0 .. S - 1)
      BY <1>1
    <3> HIDE DEF m
    <3>2. m[i] = ByteAt(mem, addr + i) /\ (S = 8 => m[4 + i] = ByteAt(mem, addr + (4 + i)))
      BY <1>7, <3>1
    <3>. QED
      BY <2>2, <3>2 DEF ByteAt
  <2> HIDE DEF m
  <2>. QED
    BY <1>1, <2>3, SameOperand
<1>10. y = OperandOf(data_rs2, S)
  <2>1. ASSUME NEW i \in 0 .. 3
        PROVE  /\ word_at(data, f)[i] = data_rs2[i]
               /\ S = 8 => word_at(data, f + 4)[i] = data_rs2[4 + i]
    <3>1. word_at(data, f)[i] = data[f + i] /\ word_at(data, f + 4)[i] = data[f + 4 + i]
      BY DEF word_at
    <3>2. data[f + i] = data_rs2[i]
      <4>1. f + i \in f .. f + S - 1 /\ (f + i) - f = i
        BY <1>1, <1>4
      <4>. QED
        BY <1>4, <4>1
    <3>3. S = 8 => data[f + 4 + i] = data_rs2[4 + i]
      <4>1. S = 8 => f + 4 + i \in f .. f + S - 1 /\ (f + 4 + i) - f = 4 + i
        BY <1>1, <1>4
      <4>. QED
        BY <1>4, <4>1
    <3>. QED
      BY <3>1, <3>2, <3>3
  <2>. QED
    BY <1>1, <2>1, SameOperand
<1> HIDE DEF m
<1>11. IsOperand(expected, S)
  BY <1>1, <1>8, ExpectedBytes
<1> DEFINE value == double_bytes(amo_value(op, x, y))
           E == addr .. addr + S - 1
           d == [a \in addr .. addr + 7 |-> value[a - addr]]
<1>12. \A i \in 0 .. S - 1 : value[i] = expected[i]
  BY <1>1, <1>8, <1>9, <1>10, AtomicsComputeTheirWidth
<1>13. mem' = WriteBytes(mem, E, d)
  <2>1. (size = 3) = (S = 8)
    BY <1>1
  <2>2. (IF size = 3 THEN 8 ELSE 4) = S
    BY <1>1
  <2>. QED
    BY <1>2, <2>1, <2>2 DEF memory_amo, f
<1> HIDE DEF expected, value
<1>14. ASSUME NEW a \in 0 .. Top - 1
       PROVE  ByteAt(mem', a) = IF a \in addr .. addr + S - 1
                                THEN expected[a - addr] ELSE ByteAt(mem, a)
  <2>1. a \in Int
    BY <1>3
  <2>2. a \in E => d[a] = expected[a - addr]
    <3>1. a \in E => a \in addr .. addr + 7 /\ a - addr \in 0 .. S - 1
      BY <1>1, <1>3
    <3>. QED
      BY <1>12, <3>1
  <2> HIDE DEF E, d
  <2>3. ByteAt(WriteBytes(mem, E, d), a) = IF a \in E THEN d[a] ELSE ByteAt(mem, a)
    BY <2>1, WrittenByte
  <2>. QED
    BY <1>13, <2>2, <2>3 DEF E
<1>15. BytesAgree'
  BY <1>1, <1>2, <1>3, <1>11, <1>14, SameChange DEF StoreIInv, IsOperand
<1>16. result' = old_line'
  <2>1. result' = [j \in Lanes |-> ByteAt(mem, LineOf(addr) + j)]
    BY <1>2 DEF amo_result, memory_read
  <2>2. \A j \in Lanes : ByteAt(mem, LineOf(addr) + j) = bytes[LineOf(addr) + j]
    BY <1>5 DEF StoreIInv, BytesAgree, Lanes
  <2>. QED
    BY <1>2, <2>1, <2>2
<1>. QED
  BY <1>2, <1>15, <1>16 DEF StoreIInv, AtomicReturnsOldLine, HostWritesString

(* Every step preserves the invariant.                                     *)
LEMMA StoreNextIInv ==
  ASSUME WholeSegments
  PROVE  StoreIInv /\ [StoreNext]_store_vars => StoreIInv'
<1> SUFFICES ASSUME StoreIInv, [StoreNext]_store_vars
             PROVE  StoreIInv'
  OBVIOUS
<1>1. ASSUME NEW s \in Segments, LoadSegment(s) PROVE StoreIInv'
  BY <1>1, LoadSegmentStep
<1>2. CASE Start
  BY <1>2 DEF Start, StoreIInv, BytesAgree, ByteAt, Read, AtomicReturnsOldLine,
     HostWritesString, shown_vars
<1>3. ASSUME NEW mem_size \in MemSizes, NEW addr \in Addrs, NEW data_rs2 \in Registers,
             Store(mem_size, addr, data_rs2)
      PROVE  StoreIInv'
  BY <1>3, StoreStep
<1>4. ASSUME NEW addr \in Addrs, CboZero(addr) PROVE StoreIInv'
  BY <1>4, CboZeroStep
<1>5. ASSUME NEW op \in AtomicOps, NEW size \in {2, 3}, NEW addr \in Words,
             NEW data_rs2 \in Registers, Atomic(op, size, addr, data_rs2)
      PROVE  StoreIInv'
  BY <1>5, AtomicStep
<1>6. ASSUME NEW b \in Buffers, HostWrite(b.addr, b.len) PROVE StoreIInv'
  BY <1>6, HostWriteStep
<1>7. CASE UNCHANGED store_vars
  BY <1>7 DEF store_vars, StoreIInv, BytesAgree, ByteAt, Read, AtomicReturnsOldLine,
     HostWritesString, shown_vars
<1>. QED
  BY <1>1, <1>2, <1>3, <1>4, <1>5, <1>6, <1>7 DEF StoreNext

(* The inductive invariant holds in every state.                           *)
THEOREM StoresAreExact == ASSUME WholeSegments PROVE StoreSpec => []StoreIInv
  BY StoreInitIInv, StoreNextIInv, PTL DEF StoreSpec

(* Loads see what software stored, whatever segments, stores, line clears  *)
(* and atomic operations came before, of every size, at every place of the *)
(* memory (dcache_interface.sv, dpi_perfect_memory.cpp).                   *)
THEOREM MemoryHoldsBytesAlways ==
  ASSUME WholeSegments PROVE StoreSpec => []MemoryHoldsBytes
<1>1. StoreIInv => MemoryHoldsBytes
  <2> SUFFICES ASSUME StoreIInv, NEW a \in DOMAIN bytes, a % LineBytes = 0
               PROVE  memory_read(mem, a) = [j \in Lanes |-> bytes[a + j]]
    BY DEF MemoryHoldsBytes
  <2>1. a \in 0 .. Top - 1
    BY DEF StoreIInv, BytesAgree
  <2>2. LineOf(a) = a
    BY <2>1 DEF LineOf
  <2>3. \A j \in Lanes : a + j \in 0 .. Top - 1
    BY <2>1, <2>2, LineBelowTop
  <2>. QED
    BY <2>2, <2>3 DEF memory_read, StoreIInv, BytesAgree
<1>. QED
  BY <1>1, StoresAreExact, PTL

(* An atomic operation returns the line as it was before (memory_amo).     *)
THEOREM AtomicsReturnOldLine ==
  ASSUME WholeSegments PROVE StoreSpec => []AtomicReturnsOldLine
<1>1. StoreIInv => AtomicReturnsOldLine
  BY DEF StoreIInv
<1>. QED
  BY <1>1, StoresAreExact, PTL

(* The text that the host writes is that of the buffer (tohost).           *)
THEOREM HostWritesStrings ==
  ASSUME WholeSegments PROVE StoreSpec => []HostWritesString
<1>1. StoreIInv => HostWritesString
  BY DEF StoreIInv
<1>. QED
  BY <1>1, StoresAreExact, PTL
=============================================================================

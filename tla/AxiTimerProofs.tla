--------------------------- MODULE AxiTimerProofs ---------------------------
(***************************************************************************)
(* Theorems about AxiTimer, for every width of the registers and every     *)
(* period.                                                                 *)
(*                                                                         *)
(* That a write is answered once rests on aw_en: it is low from the edge   *)
(* that accepts a write to the edge at which its response is taken. That a *)
(* read is answered once rests on the master, which does not read again    *)
(* before it has its answer.                                               *)
(***************************************************************************)
EXTENDS AxiTimer, TLAPS

WriteChannel ==
  /\ WriteAnsweredOnce
  /\ axi_wready = axi_awready
  /\ axi_awready => aw # None /\ w # None /\ ~aw_en /\ ~axi_bvalid
  /\ aw_en => ~axi_bvalid

(* A read response has been asked for.                                     *)
ReadIsOwed == axi_rvalid => ar_owed > 0

IInv == TypeOK /\ WriteChannel /\ ReadIsOwed

(* With one read outstanding at most.                                      *)
ReadChannel ==
  /\ ReadAnsweredOnce
  /\ ar # None => ar_owed = 0
  /\ axi_arready => ar # None /\ axi_araddr = ar

-----------------------------------------------------------------------------
(* The registers after an edge.                                            *)
LEMMA RegsKeepType ==
  ASSUME TypeOK
  PROVE  /\ ticked \in [Timer -> Words]
         /\ slv_reg_wren => written(axi_awaddr, w) \in [Timer -> Words]
         /\ regs_next \in [Timer -> Words]
<1>1. ticked \in [Timer -> Words]
  <2>1. (regs["time_l"] + 1) % HALF \in Words /\ (regs["time_h"] + 1) % HALF \in Words
    BY AxiTimerAssumption DEF TypeOK, Words, Timer
  <2>2. QED BY <2>1 DEF ticked, TypeOK, Timer
<1>2. slv_reg_wren => written(axi_awaddr, w) \in [Timer -> Words]
  <2> SUFFICES ASSUME slv_reg_wren, axi_awaddr # "other", w # NoStrobe
               PROVE  [regs EXCEPT ![axi_awaddr] = w] \in [Timer -> Words]
    BY DEF written, TypeOK
  <2>1. axi_awaddr \in Timer /\ w \in Words
    BY DEF slv_reg_wren, TypeOK, Regs, Data
  <2>2. QED BY <2>1 DEF TypeOK
<1>3. QED BY <1>1, <1>2 DEF regs_next, TypeOK

LEMMA ReadKeepsType ==
  ASSUME TypeOK, NEW r \in Regs
  PROVE  reg_data_out(r) \in Words
BY AxiTimerAssumption DEF TypeOK, reg_data_out, Regs, Words

-----------------------------------------------------------------------------
(* A rising edge keeps the invariant of the write channel.                 *)
LEMMA EdgeKeepsWriteChannel ==
  ASSUME IInv, NEW bready \in BOOLEAN, NEW rready \in BOOLEAN,
         ClockEdge(bready, rready)
  PROVE  WriteChannel' /\ aw_owed' \in Nat /\ w_owed' \in Nat
<1>1. /\ axi_awready' = takes_write /\ axi_wready' = (takes_write /\ ~axi_wready)
      /\ aw_en' = IF takes_write THEN FALSE ELSE (bready /\ axi_bvalid) \/ aw_en
      /\ axi_bvalid' = ((slv_reg_wren /\ ~axi_bvalid) \/ (axi_bvalid /\ ~bready))
      /\ aw' = IF axi_awready THEN None ELSE aw
      /\ w' = IF axi_wready THEN None ELSE w
      /\ aw_owed' = Owed(aw_owed, axi_awready /\ aw # None, bready /\ axi_bvalid)
      /\ w_owed' = Owed(w_owed, axi_wready /\ w # None, bready /\ axi_bvalid)
  BY DEF ClockEdge, MasterEdge, aw_en_next, bvalid_next
<1>2. CASE axi_awready
  <2>1. slv_reg_wren /\ ~takes_write /\ ~axi_bvalid /\ ~aw_en /\ axi_wready
        /\ aw_owed = 0 /\ w_owed = 0
    BY <1>2 DEF IInv, WriteChannel, WriteAnsweredOnce, slv_reg_wren, takes_write
  <2>2. axi_awready' = FALSE /\ axi_wready' = FALSE /\ ~aw_en' /\ axi_bvalid'
    BY <1>1, <2>1 DEF takes_write
  <2>3. aw_owed' = 1 /\ w_owed' = 1
    BY <1>1, <1>2, <2>1 DEF Owed, slv_reg_wren
  <2>4. QED BY <2>2, <2>3 DEF WriteChannel, WriteAnsweredOnce
<1>3. CASE ~axi_awready /\ takes_write
  <2>1. ~slv_reg_wren /\ ~axi_bvalid /\ aw # None /\ w # None /\ ~axi_wready
        /\ aw_owed = 0 /\ w_owed = 0
    BY <1>3 DEF IInv, WriteChannel, WriteAnsweredOnce, slv_reg_wren, takes_write
  <2>2. axi_awready' /\ axi_wready' /\ ~aw_en' /\ ~axi_bvalid' /\ aw' = aw /\ w' = w
    BY <1>1, <1>3, <2>1
  <2>3. aw_owed' = 0 /\ w_owed' = 0
    BY <1>1, <1>3, <2>1 DEF Owed
  <2>4. axi_awready' = TRUE /\ axi_wready' = TRUE
    BY <1>1, <1>3, <2>1
  <2>5. QED BY <2>1, <2>2, <2>3, <2>4 DEF WriteChannel, WriteAnsweredOnce
<1>4. CASE ~axi_awready /\ ~takes_write
  <2>1. ~slv_reg_wren /\ ~axi_wready
    BY <1>4 DEF IInv, WriteChannel, slv_reg_wren
  <2>2. axi_awready' = FALSE /\ axi_wready' = FALSE
    BY <1>1, <1>4, <2>1 DEF IInv, TypeOK, takes_write
  <2>3. axi_bvalid' = (axi_bvalid /\ ~bready) /\ (aw_en' => ~axi_bvalid')
    BY <1>1, <1>4, <2>1 DEF IInv, WriteChannel, TypeOK
  <2>4. /\ aw_owed' = IF axi_bvalid /\ ~bready THEN 1 ELSE 0
        /\ w_owed' = IF axi_bvalid /\ ~bready THEN 1 ELSE 0
    <3>1. CASE axi_bvalid
      <4>1. aw_owed = 1 /\ w_owed = 1
        BY <3>1 DEF IInv, WriteChannel, WriteAnsweredOnce
      <4>2. QED BY <1>1, <1>4, <2>1, <3>1, <4>1 DEF Owed
    <3>2. CASE ~axi_bvalid
      <4>1. aw_owed = 0 /\ w_owed = 0
        BY <3>2 DEF IInv, WriteChannel, WriteAnsweredOnce
      <4>2. QED BY <1>1, <1>4, <2>1, <3>2, <4>1 DEF Owed
    <3>3. QED BY <3>1, <3>2
  <2>5. QED BY <2>2, <2>3, <2>4 DEF WriteChannel, WriteAnsweredOnce
<1>5. QED BY <1>2, <1>3, <1>4 DEF IInv, TypeOK

(* A rising edge keeps the type invariant.                                 *)
LEMMA EdgeKeepsType ==
  ASSUME IInv, NEW bready \in BOOLEAN, NEW rready \in BOOLEAN,
         ClockEdge(bready, rready), aw_owed' \in Nat, w_owed' \in Nat,
         ar_owed' \in Nat
  PROVE  TypeOK'
<1>1. TypeOK
  BY DEF IInv
<1>2. regs' \in [Timer -> Words]
  BY <1>1, RegsKeepType DEF ClockEdge
<1>3. internal_timer' \in 0 .. PERIOD
  BY <1>1, AxiTimerAssumption DEF ClockEdge, internal_timer_next, TypeOK
<1>4. /\ axi_awready' \in BOOLEAN /\ axi_wready' \in BOOLEAN /\ aw_en' \in BOOLEAN
      /\ axi_bvalid' \in BOOLEAN /\ axi_arready' \in BOOLEAN /\ axi_rvalid' \in BOOLEAN
  BY <1>1, Zenon
     DEF ClockEdge, TypeOK, aw_en_next, bvalid_next, rvalid_next, takes_write, slv_reg_rden
<1>5. axi_awaddr' \in Regs /\ axi_araddr' \in Regs
  BY <1>1 DEF ClockEdge, TypeOK, takes_write
<1>6. axi_rdata' \in Words /\ ar_value' \in Words
  <2>1. axi_rdata' \in Words
    BY <1>1, ReadKeepsType DEF ClockEdge, TypeOK
  <2>2. ar_value' \in Words
    BY <1>1, ReadKeepsType DEF ClockEdge, MasterEdge, TypeOK
  <2>3. QED BY <2>1, <2>2
<1>7. aw' \in Regs \cup {None} /\ w' \in Data \cup {None} /\ ar' \in Regs \cup {None}
  BY <1>1 DEF ClockEdge, MasterEdge, TypeOK
<1>8. QED
  BY <1>2, <1>3, <1>4, <1>5, <1>6, <1>7 DEF TypeOK


(* A rising edge keeps reads owed as long as a response is on offer.       *)
LEMMA EdgeKeepsReadIsOwed ==
  ASSUME IInv, NEW bready \in BOOLEAN, NEW rready \in BOOLEAN,
         ClockEdge(bready, rready)
  PROVE  ReadIsOwed' /\ ar_owed' \in Nat
<1>1. /\ axi_rvalid' = (slv_reg_rden \/ (axi_rvalid /\ ~rready))
      /\ ar_owed' = Owed(ar_owed, axi_arready /\ ar # None, rready /\ axi_rvalid)
  BY DEF ClockEdge, MasterEdge, rvalid_next
<1> DEFINE up   == axi_arready /\ ar # None
           down == rready /\ axi_rvalid
<1>2. ar_owed \in Nat /\ (down => ar_owed > 0) /\ (slv_reg_rden => up /\ ~down)
  BY DEF IInv, TypeOK, ReadIsOwed, slv_reg_rden
<1>3. ar_owed' = Owed(ar_owed, up, down)
  BY <1>1
<1>4. axi_rvalid' => up \/ (ar_owed > 0 /\ ~down)
  BY <1>1, <1>2 DEF IInv, ReadIsOwed
<1> HIDE DEF up, down
<1>5. CASE up /\ ~down
  <2>1. ar_owed' = ar_owed + 1 BY <1>2, <1>3, <1>5 DEF Owed
  <2>2. QED BY <1>2, <1>4, <1>5, <2>1 DEF ReadIsOwed
<1>6. CASE ~up /\ down
  <2>1. ar_owed' = ar_owed - 1 BY <1>2, <1>3, <1>6 DEF Owed
  <2>2. QED BY <1>2, <1>4, <1>6, <2>1 DEF ReadIsOwed
<1>7. CASE up /\ down
  <2>1. ar_owed' = ar_owed BY <1>2, <1>3, <1>7 DEF Owed
  <2>2. QED BY <1>2, <1>4, <1>7, <2>1 DEF ReadIsOwed
<1>8. CASE ~up /\ ~down
  <2>1. ar_owed' = ar_owed BY <1>2, <1>3, <1>8 DEF Owed
  <2>2. QED BY <1>2, <1>4, <1>8, <2>1 DEF ReadIsOwed
<1>9. QED BY <1>5, <1>6, <1>7, <1>8

(* The strengthened invariant holds in every reachable state.              *)
THEOREM Invariance == Spec => []IInv
<1>1. Init => IInv
  <2> SUFFICES ASSUME Init PROVE IInv
    OBVIOUS
  <2>1. 0 \in Words /\ 0 \in 0 .. PERIOD /\ "time_l" \in Regs /\ 0 \in Nat
    BY AxiTimerAssumption DEF Regs, Timer, Words
  <2>2. TypeOK
    BY <2>1, Zenon DEF Init, TypeOK
  <2>3. WriteChannel /\ ReadIsOwed
    BY DEF Init, WriteChannel, WriteAnsweredOnce, ReadIsOwed
  <2>4. QED BY <2>2, <2>3 DEF IInv
<1>2. IInv /\ [Next]_vars => IInv'
  <2> SUFFICES ASSUME IInv, [Next]_vars PROVE IInv'
    OBVIOUS
  <2> USE DEF IInv, WriteChannel, WriteAnsweredOnce, ReadIsOwed
  <2>1. ASSUME NEW r \in Writes, MasterAddresses(r) PROVE IInv'
    BY <2>1, AxiTimerAssumption DEF MasterAddresses, slave_vars, owed_vars, TypeOK
  <2>2. ASSUME NEW r \in Reads, MasterReads(r) PROVE IInv'
    BY <2>2, AxiTimerAssumption DEF MasterReads, slave_vars, owed_vars, TypeOK
  <2>3. ASSUME NEW data \in Data, MasterSends(data) PROVE IInv'
    BY <2>3, AxiTimerAssumption DEF MasterSends, slave_vars, owed_vars, TypeOK
  <2>4. ASSUME NEW bready \in BOOLEAN, NEW rready \in BOOLEAN, ClockEdge(bready, rready)
        PROVE  IInv'
    <3> USE DEF IInv
    <3>1. WriteChannel' /\ aw_owed' \in Nat /\ w_owed' \in Nat
      BY <2>4, EdgeKeepsWriteChannel
    <3>2. ReadIsOwed' /\ ar_owed' \in Nat
      BY <2>4, EdgeKeepsReadIsOwed
    <3>3. TypeOK'
      BY <2>4, <3>1, <3>2, EdgeKeepsType
    <3>4. QED BY <3>1, <3>2, <3>3
  <2>5. CASE UNCHANGED vars
    BY <2>5 DEF vars, slave_vars, owed_vars, TypeOK
  <2>6. QED BY <2>1, <2>2, <2>3, <2>4, <2>5 DEF Next
<1>3. QED BY <1>1, <1>2, PTL DEF Spec

(* Type correctness: the prescaler keeps its range, and no response is     *)
(* taken that is not owed.                                                 *)
THEOREM TypeCorrect == Spec => []TypeOK
<1>1. IInv => TypeOK BY DEF IInv
<1>2. QED BY <1>1, Invariance, PTL

(* Every accepted write is answered once, address and data together.       *)
THEOREM WritesAnsweredOnce == Spec => []WriteAnsweredOnce
<1>1. IInv => WriteAnsweredOnce BY DEF IInv, WriteChannel
<1>2. QED BY <1>1, Invariance, PTL

-----------------------------------------------------------------------------
(* Every accepted read is answered once, with the value at its acceptance, *)
(* if the master keeps one read outstanding.                               *)
THEOREM ReadsAnsweredOnce ==
  ASSUME MaxReads = 1
  PROVE  Spec => []ReadAnsweredOnce
<1>1. Init => ReadChannel
  BY DEF Init, ReadChannel, ReadAnsweredOnce
<1>2. IInv /\ ReadChannel /\ [Next]_vars => ReadChannel'
  <2> SUFFICES ASSUME IInv, ReadChannel, [Next]_vars PROVE ReadChannel'
    OBVIOUS
  <2>1. ASSUME NEW r \in Writes, MasterAddresses(r) PROVE ReadChannel'
    BY <2>1 DEF MasterAddresses, slave_vars, owed_vars, ReadChannel, ReadAnsweredOnce
  <2>2. ASSUME NEW r \in Reads, MasterReads(r) PROVE ReadChannel'
    <3>1. ar_owed = 0 /\ ar' # None /\ ar = None
      BY <2>2, MaxReads = 1, AxiTimerAssumption DEF MasterReads, IInv, TypeOK
    <3>2. QED
      BY <2>2, <3>1 DEF MasterReads, slave_vars, owed_vars, ReadChannel, ReadAnsweredOnce
  <2>3. ASSUME NEW data \in Data, MasterSends(data) PROVE ReadChannel'
    BY <2>3 DEF MasterSends, slave_vars, owed_vars, ReadChannel, ReadAnsweredOnce
  <2>4. ASSUME NEW bready \in BOOLEAN, NEW rready \in BOOLEAN, ClockEdge(bready, rready)
        PROVE  ReadChannel'
    <3>1. /\ axi_arready' = (~axi_arready /\ ar # None)
          /\ axi_araddr' = IF ~axi_arready /\ ar # None THEN ar ELSE axi_araddr
          /\ axi_rvalid' = (slv_reg_rden \/ (axi_rvalid /\ ~rready))
          /\ axi_rdata' = IF slv_reg_rden THEN reg_data_out(axi_araddr) ELSE axi_rdata
          /\ ar' = IF axi_arready THEN None ELSE ar
          /\ ar_owed' = Owed(ar_owed, axi_arready /\ ar # None, rready /\ axi_rvalid)
          /\ ar_value' = IF axi_arready /\ ar # None THEN reg_data_out(ar) ELSE ar_value
      BY <2>4 DEF ClockEdge, MasterEdge, rvalid_next
    <3>2. CASE axi_arready
      <4>1. ar # None /\ axi_araddr = ar /\ ar_owed = 0 /\ ~axi_rvalid /\ slv_reg_rden
        BY <3>2 DEF ReadChannel, ReadAnsweredOnce, slv_reg_rden
      <4>2. axi_rvalid' /\ axi_rdata' = ar_value' /\ ar' = None /\ ~axi_arready'
        BY <3>1, <3>2, <4>1, Zenon
      <4>3. ar_owed' = 1
        <5>1. ar_owed' = Owed(0, axi_arready /\ ar # None, rready /\ axi_rvalid)
          BY <3>1, <4>1, Zenon
        <5>2. QED BY <3>2, <4>1, <5>1 DEF Owed
      <4>4. QED BY <4>2, <4>3 DEF ReadChannel, ReadAnsweredOnce
    <3>3. CASE ~axi_arready /\ axi_rvalid
      <4>1. ar = None /\ ar_owed = 1 /\ axi_rdata = ar_value /\ ~slv_reg_rden
        BY <3>3 DEF ReadChannel, ReadAnsweredOnce, slv_reg_rden
      <4>2. /\ axi_rvalid' <=> ~rready
            /\ axi_rdata' = ar_value' /\ ar' = None /\ ~axi_arready'
        BY <3>1, <3>3, <4>1, Zenon
      <4>3. /\ rready => ar_owed' = 0
            /\ ~rready => ar_owed' = 1
        <5>1. ar_owed' = Owed(1, axi_arready /\ ar # None, rready /\ axi_rvalid)
          BY <3>1, <4>1, Zenon
        <5>2. QED BY <3>3, <5>1 DEF Owed
      <4>4. QED BY <4>2, <4>3 DEF ReadChannel, ReadAnsweredOnce
    <3>4. CASE ~axi_arready /\ ~axi_rvalid
      <4>1. ar_owed = 0 /\ ~slv_reg_rden
        BY <3>4 DEF ReadChannel, ReadAnsweredOnce, slv_reg_rden
      <4>2. ~axi_rvalid' /\ ar' = ar /\ (ar # None => axi_araddr' = ar)
            /\ (axi_arready' => ar # None)
        BY <3>1, <3>4, <4>1, Zenon
      <4>3. ar_owed' = 0
        <5>1. ar_owed' = Owed(0, axi_arready /\ ar # None, rready /\ axi_rvalid)
          BY <3>1, <4>1, Zenon
        <5>2. QED BY <3>4, <5>1 DEF Owed
      <4>4. QED BY <4>2, <4>3 DEF ReadChannel, ReadAnsweredOnce
    <3>5. QED BY <3>2, <3>3, <3>4
  <2>5. CASE UNCHANGED vars
    BY <2>5 DEF vars, slave_vars, owed_vars, ReadChannel, ReadAnsweredOnce
  <2>6. QED BY <2>1, <2>2, <2>3, <2>4, <2>5 DEF Next
<1>3. ReadChannel => ReadAnsweredOnce
  BY DEF ReadChannel
<1>4. QED BY <1>1, <1>2, <1>3, Invariance, PTL DEF Spec

-----------------------------------------------------------------------------
(* The 64-bit value of two halves.                                         *)

LEMMA MulStep ==
  ASSUME NEW h \in Nat, NEW a \in Nat, NEW c \in Nat, a > c
  PROVE  a * h >= c * h + h
<1> DEFINE k == a - (c + 1)
<1>1. k \in Nat /\ a = (c + 1) + k
  OBVIOUS
<1> HIDE DEF k
<1>2. k * h >= 0
  BY <1>1, SMT
<1>3. a * h = (c * h + h) + k * h
  BY <1>1, SMT
<1>4. c * h \in Nat /\ k * h \in Nat
  BY <1>1, SMT
<1>5. QED BY <1>2, <1>3, <1>4, SMT

LEMMA Halves ==
  ASSUME NEW h \in Nat \ {0}, NEW a \in 0 .. h - 1, NEW b \in 0 .. h - 1,
         NEW c \in 0 .. h - 1, NEW d \in 0 .. h - 1
  PROVE  a * h + b >= c * h + d <=> (a > c \/ (a = c /\ b >= d))
<1>1. a * h \in Nat /\ c * h \in Nat
  BY SMT
<1>2. CASE a = c
  BY <1>1, <1>2, SMT
<1>3. CASE a > c
  <2>1. a * h >= c * h + h BY <1>3, MulStep
  <2>2. QED BY <1>1, <1>3, <2>1, SMT
<1>4. CASE c > a
  <2>1. c * h >= a * h + h BY <1>4, MulStep
  <2>2. QED BY <1>1, <1>4, <2>1, SMT
<1>5. QED BY <1>2, <1>3, <1>4, SMT

(* The interrupt is the comparison of the 64-bit registers.                *)
THEOREM IrqCompares == Spec => []IrqIsComparison
<1>1. TypeOK => IrqIsComparison
  <2> SUFFICES ASSUME TypeOK PROVE IrqIsComparison
    OBVIOUS
  <2> DEFINE th == regs["time_h"]
             tl == regs["time_l"]
             ch == regs["timecmp_h"]
             cl == regs["timecmp_l"]
  <2>1. /\ HALF \in Nat \ {0}
        /\ th \in 0 .. HALF - 1 /\ tl \in 0 .. HALF - 1
        /\ ch \in 0 .. HALF - 1 /\ cl \in 0 .. HALF - 1
    BY AxiTimerAssumption DEF TypeOK, Timer, Words
  <2>2. /\ irq_o <=> (cl # 0 \/ ch # 0) /\ (th > ch \/ (th = ch /\ tl >= cl))
        /\ Time = th * HALF + tl /\ Timecmp = ch * HALF + cl
    BY DEF irq_o, Time, Timecmp
  <2> HIDE DEF th, tl, ch, cl
  <2>3. Time >= Timecmp <=> (th > ch \/ (th = ch /\ tl >= cl))
    BY <2>1, <2>2, Halves
  <2>4. Timecmp # 0 <=> (cl # 0 \/ ch # 0)
    <3>1. CASE ch = 0 BY <2>1, <2>2, <3>1, SMT
    <3>2. CASE ch # 0
      <4>1. ch * HALF >= 0 * HALF + HALF BY <2>1, <3>2, MulStep
      <4>2. ch * HALF >= 1 BY <2>1, <4>1, SMT
      <4>3. QED BY <2>1, <2>2, <3>2, <4>2, SMT
    <3>3. QED BY <3>1, <3>2
  <2>5. QED BY <2>2, <2>3, <2>4 DEF IrqIsComparison
<1>2. QED BY <1>1, TypeCorrect, PTL

(* The carry between the halves is that of a 64-bit counter.               *)
LEMMA CarryIsRight ==
  ASSUME NEW h \in Nat \ {0, 1}, NEW a \in 0 .. h - 1, NEW b \in 0 .. h - 1
  PROVE  ((IF b = h - 1 THEN (a + 1) % h ELSE a) * h) + ((b + 1) % h)
           = ((a * h + b) + 1) % (h * h)
<1>1. a * h \in Nat /\ h * h \in Nat \ {0} /\ h * h >= a * h + h
  BY MulStep, SMT
<1>2. (a * h + b) + 1 = a * h + (b + 1)
  BY <1>1, SMT
<1>3. CASE b # h - 1
  <2>1. (b + 1) % h = b + 1 BY <1>3, SMT
  <2>2. a * h + (b + 1) \in 0 .. h * h - 1 BY <1>1, <1>3, SMT
  <2>3. (a * h + (b + 1)) % (h * h) = a * h + (b + 1)
    <3> DEFINE m == h * h
               x == a * h + (b + 1)
    <3>1. m \in Nat \ {0} /\ x \in 0 .. m - 1 BY <1>1, <2>2
    <3> HIDE DEF m, x
    <3>2. x % m = x BY <3>1, SMT
    <3>3. QED BY <3>2 DEF m, x
  <2>4. QED BY <1>2, <1>3, <2>1, <2>3
<1>4. CASE b = h - 1 /\ a # h - 1
  <2>1. (b + 1) % h = 0 /\ (a + 1) % h = a + 1 BY <1>4, SMT
  <2>2. (a + 1) * h = a * h + h BY <1>1, SMT
  <2>3. h * h >= (a + 1) * h + h BY <1>4, MulStep, SMT
  <2>4. (a * h + h) % (h * h) = a * h + h
    <3> DEFINE m == h * h
               x == a * h + h
    <3>1. m \in Nat \ {0} /\ x \in 0 .. m - 1 BY <1>1, <2>2, <2>3, SMT
    <3> HIDE DEF m, x
    <3>2. x % m = x BY <3>1, SMT
    <3>3. QED BY <3>2 DEF m, x
  <2>5. b + 1 = h BY <1>4, SMT
  <2>6. QED BY <1>1, <1>2, <1>4, <2>1, <2>2, <2>4, <2>5
<1>5. CASE b = h - 1 /\ a = h - 1
  <2>1. (b + 1) % h = 0 /\ (a + 1) % h = 0 BY <1>5, SMT
  <2>2. a * h + (b + 1) = h * h
    <3>1. a + 1 = h /\ b + 1 = h BY <1>5, SMT
    <3>2. (a + 1) * h = a * h + h BY <1>1, SMT
    <3>3. QED BY <3>1, <3>2
  <2>3. (h * h) % (h * h) = 0
    <3> DEFINE m == h * h
    <3>1. m \in Nat \ {0} BY <1>1
    <3> HIDE DEF m
    <3>2. m % m = 0 BY <3>1, SMT
    <3>3. QED BY <3>2 DEF m
  <2>4. QED BY <1>2, <1>5, <2>1, <2>2, <2>3
<1>6. QED BY <1>3, <1>4, <1>5

(* Time, seen as 64 bits, stays or steps by one unless it is written.      *)
THEOREM TimeSteps == Spec => TimeStepsByOne
<1> DEFINE Step == slv_reg_wren \/ Time' \in {Time, (Time + 1) % (HALF * HALF)}
<1>1. TypeOK /\ [Next]_vars => [Step]_vars
  <2> SUFFICES ASSUME TypeOK, [Next]_vars, ~slv_reg_wren
               PROVE  Time' = Time \/ Time' = (Time + 1) % (HALF * HALF)
    OBVIOUS
  <2>1. CASE regs' = regs
    BY <2>1 DEF Time
  <2>2. CASE regs' = ticked
    <3> DEFINE th == regs["time_h"]
               tl == regs["time_l"]
    <3>1. HALF \in Nat \ {0, 1} /\ th \in 0 .. HALF - 1 /\ tl \in 0 .. HALF - 1
      BY AxiTimerAssumption DEF TypeOK, Timer, Words
    <3>2. /\ regs'["time_l"] = (tl + 1) % HALF
          /\ regs'["time_h"] = IF tl = HALF - 1 THEN (th + 1) % HALF ELSE th
      BY <2>2 DEF ticked, TypeOK, Timer
    <3>3. /\ Time = th * HALF + tl
          /\ Time' = regs'["time_h"] * HALF + regs'["time_l"]
      BY DEF Time
    <3> HIDE DEF th, tl
    <3>4. ((IF tl = HALF - 1 THEN (th + 1) % HALF ELSE th) * HALF) + ((tl + 1) % HALF)
            = ((th * HALF + tl) + 1) % (HALF * HALF)
      BY <3>1, CarryIsRight
    <3>5. QED BY <3>2, <3>3, <3>4
  <2>3. regs' = regs \/ regs' = ticked
    <3>1. CASE Next
      BY <3>1 DEF Next, MasterAddresses, MasterReads, MasterSends, ClockEdge, regs_next,
                  slave_vars
    <3>2. CASE UNCHANGED vars
      BY <3>2 DEF vars, slave_vars
    <3>3. QED BY <3>1, <3>2
  <2>4. QED BY <2>1, <2>2, <2>3
<1>2. QED BY <1>1, TypeCorrect, PTL DEF Spec, TimeStepsByOne
=============================================================================

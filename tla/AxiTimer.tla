------------------------------ MODULE AxiTimer ------------------------------
(***************************************************************************)
(* fpga/common/rtl/axi_timer.sv: the time base of the FPGA systems, an     *)
(* AXI4-Lite slave with the 64-bit registers time and timecmp in 32-bit    *)
(* halves, a prescaler (internal_timer) and the timer interrupt.           *)
(*                                                                         *)
(* One ClockEdge step is one rising edge of S_AXI_ACLK. The AXI master is  *)
(* outside the module: it raises AWVALID, WVALID and ARVALID (aw, w and ar *)
(* are not None) in its own time, holds them until they are accepted, and  *)
(* counts what it is owed. axi_bresp and axi_rresp are constant.           *)
(***************************************************************************)
EXTENDS Integers

CONSTANTS
  HALF,      \* 2^32, the values of a register
  PERIOD,    \* 10'd1000, the last value of the prescaler
  MaxReads,  \* reads the master keeps outstanding: 1
  Writes,    \* the registers the master writes: all
  Reads,     \* the registers the master reads: all
  None,      \* a channel of the master is idle
  NoStrobe   \* write data whose strobes are all low

(* The register an address selects; "other" stands for all the rest.       *)
Timer == {"time_l", "time_h", "timecmp_l", "timecmp_h"}
Regs == Timer \cup {"other"}

(* Write data, with all strobes high or all low.                           *)
Words == 0 .. HALF - 1
Data == Words \cup {NoStrobe}

ASSUME AxiTimerAssumption ==
  /\ HALF \in Nat \ {0, 1}
  /\ PERIOD \in Nat \ {0}
  /\ MaxReads \in Nat \ {0}
  /\ Writes \subseteq Regs /\ Reads \subseteq Regs
  /\ NoStrobe \notin Words
  /\ None \notin Regs /\ None \notin Data

VARIABLES
  regs,            \* [Timer -> Words]
  internal_timer,  \* the prescaler
  axi_awready, axi_wready, aw_en, axi_awaddr, axi_bvalid,
  axi_arready, axi_araddr, axi_rvalid, axi_rdata,
  aw, w, ar,       \* what the master offers on its channels, or None
  aw_owed, w_owed, \* addresses and data accepted for which no B was taken
  ar_owed,         \* addresses accepted for which no R was taken
  ar_value         \* what the last accepted read named held at that edge

slave_vars == <<regs, internal_timer, axi_awready, axi_wready, aw_en, axi_awaddr,
                axi_bvalid, axi_arready, axi_araddr, axi_rvalid, axi_rdata>>
owed_vars == <<aw_owed, w_owed, ar_owed, ar_value>>
vars == <<slave_vars, aw, w, ar, owed_vars>>

-----------------------------------------------------------------------------
(* Mutated forms of the definitions below, used to show that the           *)
(* properties can fail.                                                    *)

ticked_carry_late ==
  [regs EXCEPT !["time_l"] = (@ + 1) % HALF,
               !["time_h"] = IF regs["time_l"] = 0 THEN (@ + 1) % HALF ELSE @]
bvalid_never_falls(bready) ==
  (axi_wready /\ w # None /\ axi_awready /\ aw # None) \/ axi_bvalid
irq_compares_halves ==
  /\ regs["timecmp_l"] # 0 \/ regs["timecmp_h"] # 0
  /\ regs["time_h"] >= regs["timecmp_h"] /\ regs["time_l"] >= regs["timecmp_l"]
takes_write_while_answering == ~axi_awready /\ aw # None /\ w # None
aw_en_never_set(bready) == aw_en /\ ~(~axi_awready /\ aw # None /\ w # None)
answers_any_read(rready) == (axi_arready /\ ar # None) \/ axi_rvalid
prescaler_cleared_by_any_write ==
  IF (axi_wready /\ w # None /\ axi_awready /\ aw # None) \/ internal_timer = PERIOD
    THEN 0 ELSE internal_timer + 1

-----------------------------------------------------------------------------
(* Combinational signals and next values.                                  *)

(* The condition under which a write is accepted: address and data         *)
(* together, and no write unanswered.                                      *)
takes_write == ~axi_awready /\ aw # None /\ w # None /\ aw_en

slv_reg_wren == axi_wready /\ w # None /\ axi_awready /\ aw # None

slv_reg_rden == axi_arready /\ ar # None /\ ~axi_rvalid

aw_en_next(bready) ==
  IF takes_write THEN FALSE ELSE (bready /\ axi_bvalid) \/ aw_en

bvalid_next(bready) ==
  (slv_reg_wren /\ ~axi_bvalid) \/ (axi_bvalid /\ ~bready)

rvalid_next(rready) == slv_reg_rden \/ (axi_rvalid /\ ~rready)

(* What a read of the register returns.                                    *)
reg_data_out(r) == IF r = "other" THEN 0 ELSE regs[r]

(* The registers after a tick, and after a write.                          *)
ticked ==
  [regs EXCEPT !["time_l"] = (@ + 1) % HALF,
               !["time_h"] = IF regs["time_l"] = HALF - 1 THEN (@ + 1) % HALF ELSE @]

written(r, data) ==
  IF r = "other" \/ data = NoStrobe THEN regs ELSE [regs EXCEPT ![r] = data]

regs_next ==
  IF slv_reg_wren THEN written(axi_awaddr, w)
  ELSE IF internal_timer = PERIOD THEN ticked ELSE regs

(* A write stops the prescaler for its cycle, and one to time_l clears it. *)
internal_timer_next ==
  IF slv_reg_wren THEN IF axi_awaddr = "time_l" THEN 0 ELSE internal_timer
  ELSE IF internal_timer = PERIOD THEN 0 ELSE internal_timer + 1

irq_o ==
  /\ regs["timecmp_l"] # 0 \/ regs["timecmp_h"] # 0
  /\ \/ regs["time_h"] > regs["timecmp_h"]
     \/ regs["time_h"] = regs["timecmp_h"] /\ regs["time_l"] >= regs["timecmp_l"]
-----------------------------------------------------------------------------
(* After S_AXI_ARESETN, which resets the bus and its master too.           *)
Init ==
  /\ regs = [r \in Timer |-> 0]
  /\ internal_timer = 0
  /\ axi_awready = FALSE /\ axi_wready = FALSE /\ aw_en = TRUE
  /\ axi_awaddr = "time_l" /\ axi_bvalid = FALSE
  /\ axi_arready = FALSE /\ axi_araddr = "time_l"
  /\ axi_rvalid = FALSE /\ axi_rdata = 0
  /\ aw = None /\ w = None /\ ar = None
  /\ aw_owed = 0 /\ w_owed = 0 /\ ar_owed = 0 /\ ar_value = 0

(* The master raises the valid of a channel; address and data of a write   *)
(* in any order, a read only while it has fewer than MaxReads outstanding. *)
MasterAddresses(r) ==
  /\ aw = None /\ aw' = r
  /\ UNCHANGED <<slave_vars, w, ar, owed_vars>>

MasterSends(data) ==
  /\ w = None /\ w' = data
  /\ UNCHANGED <<slave_vars, aw, ar, owed_vars>>

MasterReads(r) ==
  /\ ar = None /\ ar_owed < MaxReads /\ ar' = r
  /\ UNCHANGED <<slave_vars, aw, w, owed_vars>>

Owed(owed, accepted, answered) ==
  owed + (IF accepted THEN 1 ELSE 0) - (IF answered THEN 1 ELSE 0)

(* The master at an edge: what was accepted is no longer offered.          *)
MasterEdge(bready, rready) ==
  LET reads == axi_arready /\ ar # None
  IN  /\ aw' = IF axi_awready THEN None ELSE aw
      /\ w' = IF axi_wready THEN None ELSE w
      /\ ar' = IF axi_arready THEN None ELSE ar
      /\ aw_owed' = Owed(aw_owed, axi_awready /\ aw # None, bready /\ axi_bvalid)
      /\ w_owed' = Owed(w_owed, axi_wready /\ w # None, bready /\ axi_bvalid)
      /\ ar_owed' = Owed(ar_owed, reads, rready /\ axi_rvalid)
      /\ ar_value' = IF reads THEN reg_data_out(ar) ELSE ar_value

(* A rising edge; the master is ready for responses or not.                *)
ClockEdge(bready, rready) ==
  /\ axi_awready' = takes_write
  /\ axi_wready' = (takes_write /\ ~axi_wready)
  /\ aw_en' = aw_en_next(bready)
  /\ axi_awaddr' = IF takes_write THEN aw ELSE axi_awaddr
  /\ regs' = regs_next
  /\ internal_timer' = internal_timer_next
  /\ axi_bvalid' = bvalid_next(bready)
  /\ axi_arready' = (~axi_arready /\ ar # None)
  /\ axi_araddr' = IF ~axi_arready /\ ar # None THEN ar ELSE axi_araddr
  /\ axi_rvalid' = rvalid_next(rready)
  /\ axi_rdata' = IF slv_reg_rden THEN reg_data_out(axi_araddr) ELSE axi_rdata
  /\ MasterEdge(bready, rready)

Next ==
  \/ \E r \in Writes : MasterAddresses(r)
  \/ \E r \in Reads : MasterReads(r)
  \/ \E data \in Data : MasterSends(data)
  \/ \E bready, rready \in BOOLEAN : ClockEdge(bready, rready)

(* The clock runs, and the master takes every response sooner or later.    *)
Fairness ==
  /\ WF_vars(\E rready \in BOOLEAN : ClockEdge(TRUE, rready))
  /\ WF_vars(\E bready \in BOOLEAN : ClockEdge(bready, TRUE))

Spec == Init /\ [][Next]_vars

FairSpec == Spec /\ Fairness
-----------------------------------------------------------------------------
(* The 64-bit values the halves stand for.                                 *)
Time == regs["time_h"] * HALF + regs["time_l"]
Timecmp == regs["timecmp_h"] * HALF + regs["timecmp_l"]

(* The types of the variables. The counts stay natural numbers: the master *)
(* takes no response that it is not owed.                                  *)
TypeOK ==
  /\ regs \in [Timer -> Words]
  /\ internal_timer \in 0 .. PERIOD
  /\ axi_awready \in BOOLEAN /\ axi_wready \in BOOLEAN /\ aw_en \in BOOLEAN
  /\ axi_bvalid \in BOOLEAN /\ axi_arready \in BOOLEAN /\ axi_rvalid \in BOOLEAN
  /\ axi_awaddr \in Regs /\ axi_araddr \in Regs /\ axi_rdata \in Words
  /\ aw \in Regs \cup {None} /\ w \in Data \cup {None} /\ ar \in Regs \cup {None}
  /\ aw_owed \in Nat /\ w_owed \in Nat /\ ar_owed \in Nat /\ ar_value \in Words

(* "This design expects no outstanding transactions": however early the    *)
(* master offers the next write, each accepted address is paired with one  *)
(* accepted data word and answered by one response.                        *)
WriteAnsweredOnce ==
  aw_owed = w_owed /\ aw_owed = (IF axi_bvalid THEN 1 ELSE 0)

(* An accepted read is answered once, with what the register it named held *)
(* at the edge of its acceptance, while writes and ticks change it.        *)
ReadAnsweredOnce ==
  /\ ar_owed = (IF axi_rvalid THEN 1 ELSE 0)
  /\ axi_rvalid => axi_rdata = ar_value

(* The interrupt is the 64-bit comparison time >= timecmp, for a timecmp   *)
(* that is not zero.                                                       *)
IrqIsComparison == irq_o <=> Timecmp # 0 /\ Time >= Timecmp

(* Seen as 64 bits, time steps by one, carry and wrap-around included,     *)
(* unless it is written.                                                   *)
TimeStepsByOne ==
  [][slv_reg_wren \/ Time' \in {Time, (Time + 1) % (HALF * HALF)}]_vars

(* A write whose address and data are offered is accepted.                 *)
WriteAccepted == (aw # None /\ w # None) ~> aw_owed > 0

(* Time goes on unless time_l is written again and again: rearming timecmp *)
(* as often as one likes does not stop it.                                 *)
TimeAdvances ==
  []<><<Time' # Time>>_vars \/ []<>(slv_reg_wren /\ axi_awaddr = "time_l")
=============================================================================

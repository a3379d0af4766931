---------------------------- MODULE MCCommitLog ----------------------------
(***************************************************************************)
(* CommitLog with an instruction for each branch of dump_file, two values  *)
(* of fflags, bytes of two bits and addresses of four. There is no bound   *)
(* on the number of cycles.                                                *)
(***************************************************************************)
EXTENDS CommitLog

(* An instruction without effects, and others by what differs.             *)
nop == [pc |-> 1, inst |-> 19, opcode |-> "other", func3 |-> 0, xcpt |-> FALSE,
        csr_xcpt |-> FALSE, cause |-> 0, tval |-> 0, writes |-> {}, dst |-> 5,
        data |-> 0, fflags_wr_valid |-> FALSE, sew |-> 0, lmul |-> 0, vl |-> 4,
        mem_type |-> 0, mem_addr |-> 0, csr |-> <<>>]
fadd == [nop EXCEPT !.writes = {"f"}, !.data = 3, !.fflags_wr_valid = TRUE]
load == [nop EXCEPT !.writes = {"x"}, !.data = 9, !.mem_type = 1, !.mem_addr = 12]
store(func3) == [nop EXCEPT !.func3 = func3, !.data = 30000, !.mem_type = 2, !.mem_addr = 3]
csrw(csr) == [nop EXCEPT !.writes = {"x"}, !.data = 1, !.csr = csr]
fault(cause, inst) == [nop EXCEPT !.xcpt = TRUE, !.cause = cause, !.tval = 7, !.inst = inst]
trap(tval) == [nop EXCEPT !.csr_xcpt = TRUE, !.cause = 2, !.tval = tval,
                          !.csr = <<<<mstatus, 6144>>, <<834, 2>>>>]

(* Two symbols of an address, two addresses of a symbol, and section names. *)
Entry(name, value) == [name |-> name, value |-> value]
MCsymtab == <<Entry(NoName, 3), Entry(2, 2), Entry(1, 2), Entry(3, 1), Entry(3, 4)>>
MCKinds ==
  {nop, [nop EXCEPT !.pc = 2], fadd, [fadd EXCEPT !.writes = {"x"}, !.data = 1], load,
   [nop EXCEPT !.writes = {"v"}, !.data = 20, !.sew = 2, !.lmul = 7],
   [nop EXCEPT !.opcode = "vext", !.writes = {"x"}, !.lmul = 4],
   [nop EXCEPT !.opcode = "vse", !.mem_type = 2, !.func3 = 7],
   store(0), store(5), store(2), store(3), [load EXCEPT !.mem_type = 3],
   csrw(<<<<mstatus, 7689>>>>), csrw(<<<<fcsr, 97>>>>), csrw(<<<<834, 5>>>>),
   fault(8, 115), fault(5, 19), fault(12, 19), fault(2, WriteToHost), trap(0), trap(3)}
MCFlags == {0, 17}
=============================================================================

----------------------------- MODULE CommitLog -----------------------------
(***************************************************************************)
(* simulator/models/cxx/dpi_commit_log.cpp and the module                  *)
(* simulator/models/hdl/commit_log_behav.sv that calls it: the log of the  *)
(* committed instructions, which is compared with the log of the simulator *)
(* Spike. At most two instructions commit in a clock cycle; what they      *)
(* change in the control and status registers is reported beforehand, in   *)
(* one list for both.                                                      *)
(*                                                                         *)
(* A line is a sequence of items <<name, number>>; the layout of numbers   *)
(* and the disassembly are left out. The core is outside the repository:   *)
(* how it reports is taken from the comments of dump_file. The list is     *)
(* kept as two, the values reported for fflags and the other changes:      *)
(* nothing depends on the order between the two.                           *)
(***************************************************************************)
EXTENDS SequencesExt, SymbolTable

CONSTANTS
  BASE,       \* 2^8, the values of a byte of data
  AddrValues, \* 2^40, the addresses
  Kinds,      \* instructions that may commit, see Instruction
  Flags,      \* values of fflags
  WriteToHost \* 0x9f019073, an instruction that writes the register tohost

Registers == 0 .. 31
fflags == 1
fcsr == 3
mstatus == 768

(* The fields of commit_data_t that the log depends on. opcode: is_vext,   *)
(* is_vse or neither; writes: the valid bits of the registers; csr: what   *)
(* the instruction reports by csr_change besides fflags.                   *)
Instruction ==
  [pc : Nat, inst : Nat, opcode : {"vext", "vse", "other"}, func3 : 0 .. 7,
   xcpt : BOOLEAN, csr_xcpt : BOOLEAN, cause : Nat, tval : Nat, writes : SUBSET {"x", "f", "v"},
   dst : Registers, data : Nat, fflags_wr_valid : BOOLEAN,
   sew : Nat, lmul : 0 .. 7, vl : Nat, mem_type : 0 .. 3, mem_addr : Nat,
   csr : Seq((Nat \ {fflags}) \X Nat)]

ASSUME CommitLogAssumption ==
  /\ Kinds \subseteq Instruction
  /\ \A c \in Kinds : c.xcpt => c.csr = <<>> /\ ~c.fflags_wr_valid
  /\ Flags \subseteq 0 .. 31
  /\ BASE \in Nat \ {0} /\ AddrValues \in Nat \ {0}

CAUSE_INSTR_PAGE_FAULT == 12
Ecalls == {8, 9, 11}

VARIABLES
  file,         \* signatureFile: the lines that are in the file or buffered
  signature,    \* register file as printed
  csr_changes,  \* [fflags |-> values, others |-> changes]
  last_fflags,
  pending       \* instructions of this cycle that are still to be logged,
                \*   with the value of fflags after the cycle

vars == <<file, signature, csr_changes, last_fflags, pending>>

-----------------------------------------------------------------------------
(* The stream: what it has buffered, and what is in the file; earlier:     *)
(* what was logged in earlier cycles is in the file too. A stream that is  *)
(* opened while it is open, or used while it is closed, fails, and drops   *)
(* what it is given from then on.                                          *)
put(f, lines) ==
  IF f.status = "open" THEN [f EXCEPT !.buffer = @ \o lines]
  ELSE [f EXCEPT !.status = "failed"]
flush(f) ==
  LET written == [f EXCEPT !.disk = @ \o f.buffer]
  IN  [written EXCEPT !.buffer = <<>>]
close(f) ==
  IF f.status = "open" THEN [flush(f) EXCEPT !.status = "closed"]
  ELSE [f EXCEPT !.status = "failed"]
opened(f) == [f EXCEPT !.status = IF @ = "closed" THEN "open" ELSE "failed"]

NoChanges == [fflags |-> <<>>, others |-> <<>>]

(* Mutated forms of the definitions below, used to show that the           *)
(* properties can fail.                                                    *)

open_truncated(f) == [opened(f) EXCEPT !.earlier = FALSE, !.disk = <<>>]
all_deleted(changes) == NoChanges

open_append(f) == opened(f)

-----------------------------------------------------------------------------
(* dump_file in parts, in its order.                                       *)
(* Instruction: an instruction that could not be fetched has no line.      *)
header_lines(c) ==
  LET symbol == memory_symbol_from_addr(c.pc)
  IN  (IF symbol # NoName THEN <<<<<<"symbol", symbol>>>>>> ELSE <<>>)
        \o (IF c.xcpt /\ c.cause = CAUSE_INSTR_PAGE_FAULT THEN <<>>
            ELSE <<<<<<"pc", c.pc>>>>>>)

(* All reports of fflags belong to the first instruction of the cycle that *)
(* writes it; a second one shows the value of the first.                   *)
own_flags(c) == IF c.fflags_wr_valid THEN csr_changes.fflags ELSE <<>>
flags_items(c) ==
  IF own_flags(c) # <<>>
    THEN [i \in DOMAIN own_flags(c) |-> <<"c1_fflags", own_flags(c)[i]>>]
    ELSE IF c.fflags_wr_valid THEN <<<<"c1_fflags", last_fflags>>>> ELSE <<>>
last_fflags_next(c) ==
  IF own_flags(c) = <<>> THEN last_fflags ELSE Last(own_flags(c))

signature_next(c) ==
  IF c.writes \cap {"x", "f"} # {} THEN [signature EXCEPT ![c.dst] = c.data] ELSE signature

(* A vector instruction shows its configuration, with the reserved lmul    *)
(* left out, also if it writes a scalar register (vext) or none (vse).     *)
vector_items(c) ==
  IF "v" \in c.writes \/ c.opcode \in {"vext", "vse"}
    THEN (IF c.sew \in 0 .. 3 THEN <<<<"e", c.sew>>>> ELSE <<>>)
           \o (IF c.lmul = 4 THEN <<>> ELSE <<<<"m", c.lmul>>>>)
           \o <<<<"l", c.vl>>>>
           \o (IF "v" \in c.writes THEN <<<<"v", c.dst>>, <<"data", c.data>>>> ELSE <<>>)
    ELSE <<>>

register_items(c) ==
  LET scalar(r) == IF r \in c.writes
                     THEN <<<<r, c.dst>>, <<"data", signature_next(c)[c.dst]>>>> ELSE <<>>
  IN  scalar("x") \o scalar("f") \o vector_items(c)

(* Spike has no fields 0x600 in mstatus, and shows the fields of fcsr.     *)
csr_item(change) ==
  LET value == change[2]
  IN  CASE change[1] = mstatus ->
             <<<<"csr", mstatus>>, <<"data", value - (512 * ((value \div 512) % 4))>>>>
        [] change[1] = fcsr    ->
             <<<<"c1_fflags", value % 32>>, <<"c2_frm", (value \div 32) % 8>>>>
        [] OTHER               -> <<<<"csr", change[1]>>, <<"data", value>>>>
csr_items(changes) == FlattenSeq([i \in DOMAIN changes |-> csr_item(changes[i])])

(* fflags stays in the list for the second instruction of the cycle.       *)
kept_changes(changes) == [changes EXCEPT !.others = <<>>]

csr_changes_next(c) ==
  CASE c.xcpt           -> csr_changes
    [] ~c.xcpt /\ c.csr_xcpt -> NoChanges
    [] OTHER            -> IF c.fflags_wr_valid THEN NoChanges ELSE kept_changes(csr_changes)

(* The address is extended by its sign. An atomic operation shows nothing: *)
(* commit_log_dump_amo_write, which would supply its data, has no caller.  *)
signedAddr(a) == IF 2 * a >= AddrValues THEN a - AddrValues ELSE a
stored_bytes(func3) ==
  CASE func3 \in {0, 4} -> 1 [] func3 \in {1, 5} -> 2 [] func3 = 2 -> 4 [] OTHER -> 8
memory_items(c) ==
  CASE c.mem_type = 1 -> <<<<"mem", signedAddr(c.mem_addr)>>>>
    [] c.mem_type = 2 -> <<<<"mem", signedAddr(c.mem_addr)>>,
                           <<"data", c.data % BASE^stored_bytes(c.func3)>>>>
    [] OTHER -> <<>>

commit_line(c) ==
  <<<<"core", c.pc>>>> \o flags_items(c) \o register_items(c)
    \o csr_items(csr_changes.others) \o memory_items(c)

(* dump_xcpt                                                               *)
xcpt_lines(cause, epc, tval) ==
  <<<<<<"exception", cause>>, <<"epc", epc>>>>>>
    \o (IF cause \in Ecalls THEN <<>> ELSE <<<<<<"tval", tval>>>>>>)
xcpt_tval(c) ==
  IF c.xcpt THEN IF c.inst = WriteToHost THEN 0 ELSE c.tval
  ELSE IF c.tval # 0 THEN c.tval ELSE c.inst
dump_xcpt(f, lines) == close(put(open_append(f), lines))

dump_file(c) ==
  LET f == put(file, header_lines(c))
  IN  flush(IF c.xcpt \/ c.csr_xcpt
              THEN open_append(dump_xcpt(close(f), xcpt_lines(c.cause, c.pc, xcpt_tval(c))))
              ELSE put(f, <<commit_line(c)>>))

-----------------------------------------------------------------------------
Init ==
  /\ file = opened([earlier |-> TRUE, disk |-> <<>>, buffer |-> <<>>,
                    status |-> "closed"])
  /\ signature = [r \in Registers |-> 0]
  /\ csr_changes = NoChanges
  /\ last_fflags \in Flags      \* never initialised
  /\ pending = <<>>

(* The instructions that may commit together: an exception comes last, and *)
(* an instruction that uses a control and status register first.           *)
MayFollow(c, d) == ~c.xcpt /\ ~c.csr_xcpt /\ ~d.csr_xcpt /\ d.csr = <<>>
Together ==
  {<<c>> : c \in Kinds}
    \cup {p \in {<<c, d>> : c, d \in Kinds} : MayFollow(p[1], p[2])}

(* The core reports the changes of a cycle: those of the instruction that  *)
(* uses a control and status register, and fflags once, accrued by all     *)
(* instructions of the cycle.                                              *)
csr_change(commits, flags) ==
  [fflags |-> csr_changes.fflags
       \o (IF \E i \in DOMAIN commits : commits[i].fflags_wr_valid THEN <<flags>> ELSE <<>>),
   others |-> csr_changes.others \o commits[1].csr]

Cycle(commits, flags) ==
  /\ pending = <<>>
  /\ pending' = [i \in DOMAIN commits |-> [kind |-> commits[i], flags |-> flags]]
  /\ csr_changes' = csr_change(commits, flags)
  /\ file' = [file EXCEPT !.disk = <<>>]    \* counts as earlier from here on
  /\ UNCHANGED <<signature, last_fflags>>

commit_log ==
  /\ pending # <<>>
  /\ LET c == Head(pending).kind
     IN  /\ file' = dump_file(c)
         /\ signature' = signature_next(c)
         /\ csr_changes' = csr_changes_next(c)
         /\ last_fflags' = IF c.xcpt \/ c.csr_xcpt THEN last_fflags ELSE last_fflags_next(c)
  /\ pending' = Tail(pending)

Next ==
  \/ \E commits \in Together, flags \in Flags : Cycle(commits, flags)
  \/ commit_log

Spec == Init /\ [][Next]_vars
-----------------------------------------------------------------------------
(* What the reader should see of an instruction on its own.                *)
Effects(p) ==
  LET c == p.kind
      scalar(r) == IF r \in c.writes THEN <<<<r, c.dst>>, <<"data", c.data>>>> ELSE <<>>
  IN  <<<<"core", c.pc>>>>
        \o (IF c.fflags_wr_valid THEN <<<<"c1_fflags", p.flags>>>> ELSE <<>>)
        \o (scalar("x") \o scalar("f") \o vector_items(c))
        \o csr_items(c.csr) \o memory_items(c)
LinesFor(p) ==
  LET c == p.kind
  IN  header_lines(c)
        \o (IF c.xcpt \/ c.csr_xcpt THEN xcpt_lines(c.cause, c.pc, xcpt_tval(c))
            ELSE <<Effects(p)>>)

(* The log shows each instruction with its own changes, though both        *)
(* instructions of a cycle share one list, from which the first takes what *)
(* is its own and leaves what is not, and an exception takes part of it.   *)
Trace == INSTANCE CommitTrace WITH
  Commits <- [kind : Kinds, flags : Flags],
  trace <- file.disk \o file.buffer
TraceSpec == Trace!Spec

(* Whenever dump_file has returned, the file, which is closed and opened   *)
(* again around each exception, holds all that was logged.                 *)
FileHoldsTrace == file.status = "open" /\ file.earlier /\ file.buffer = <<>>
=============================================================================

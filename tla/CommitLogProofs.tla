-------------------------- MODULE CommitLogProofs --------------------------
(***************************************************************************)
(* Proofs about CommitLog, for every set of instructions: the file is open *)
(* and complete whenever dump_file has returned, and each instruction is   *)
(* in it with what it did itself, in order.                                *)
(***************************************************************************)
EXTENDS CommitLog, SequenceTheorems, TLAPS

-----------------------------------------------------------------------------
(* A stream in a state, with its lines: one that was never opened while it *)
(* was open, nor used while it was closed.                                 *)
Holds(f, status, disk, buffer) ==
  /\ DOMAIN f = {"earlier", "disk", "buffer", "status"}
  /\ f.earlier = TRUE
  /\ f.disk = disk /\ f.buffer = buffer /\ f.status = status

LEMMA ReplaceDisk ==
  \A f, s, d, b, x : Holds(f, s, d, b) => Holds([f EXCEPT !.disk = x], s, x, b)
BY DEF Holds

LEMMA ReplaceBuffer ==
  \A f, s, d, b, x : Holds(f, s, d, b) => Holds([f EXCEPT !.buffer = x], s, d, x)
BY DEF Holds

LEMMA ReplaceStatus ==
  \A f, s, d, b, x : Holds(f, s, d, b) => Holds([f EXCEPT !.status = x], x, d, b)
BY DEF Holds

(* Writing to an open stream and flushing it.                              *)
LEMMA PutLines ==
  ASSUME NEW f, NEW d, NEW b, NEW lines, Holds(f, "open", d, b)
  PROVE  Holds(put(f, lines), "open", d, b \o lines)
<1>1. put(f, lines) = [f EXCEPT !.buffer = b \o lines]
  <2>1. put(f, lines) = [f EXCEPT !.buffer = f.buffer \o lines]
    BY DEF put, Holds
  <2>2. f.buffer = b
    BY DEF Holds
  <2> QED BY <2>1, <2>2, Zenon
<1>2. Holds([f EXCEPT !.buffer = b \o lines], "open", d, b \o lines)
  BY ReplaceBuffer, Zenon
<1> QED BY <1>1, <1>2, Zenon

LEMMA FlushLines ==
  ASSUME NEW f, NEW d, NEW b, Holds(f, "open", d, b)
  PROVE  Holds(flush(f), "open", d \o b, <<>>)
<1> DEFINE written == [f EXCEPT !.disk = f.disk \o f.buffer]
<1>1. flush(f) = [written EXCEPT !.buffer = <<>>]
  BY Zenon DEF flush
<1>2. f.disk = d /\ f.buffer = b
  BY DEF Holds
<1>3. Holds([f EXCEPT !.disk = d \o b], "open", d \o b, b)
  BY ReplaceDisk, Zenon
<1>4. Holds(written, "open", d \o b, b)
  BY <1>2, <1>3, Zenon
<1> HIDE DEF written
<1>5. Holds([written EXCEPT !.buffer = <<>>], "open", d \o b, <<>>)
  BY <1>4, ReplaceBuffer, Zenon
<1> QED BY <1>1, <1>5, Zenon

(* Closing an open stream, and opening a closed one, does not fail.        *)
LEMMA CloseFile ==
  ASSUME NEW f, NEW d, NEW b, Holds(f, "open", d, b)
  PROVE  Holds(close(f), "closed", d \o b, <<>>)
<1>1. close(f) = [flush(f) EXCEPT !.status = "closed"]
  BY DEF close, Holds
<1> DEFINE flushed == flush(f)
           e == d \o b
<1>2. Holds(flushed, "open", e, <<>>)
  BY FlushLines
<1> HIDE DEF flushed, e
<1>3. Holds([flushed EXCEPT !.status = "closed"], "closed", e, <<>>)
  BY <1>2, ReplaceStatus
<1> QED BY <1>1, <1>3, Zenon DEF flushed, e

LEMMA OpenFile ==
  ASSUME NEW f, NEW d, NEW b, Holds(f, "closed", d, b)
  PROVE  Holds(open_append(f), "open", d, b)
<1>1. open_append(f) = [f EXCEPT !.status = "open"]
  BY DEF open_append, opened, Holds
<1>2. Holds([f EXCEPT !.status = "open"], "open", d, b)
  BY ReplaceStatus
<1> QED BY <1>1, <1>2, Zenon

(* What dump_file adds to a file that is open and flushed: the lines of    *)
(* the header, and those of the exception or of the commit.                *)
Added(c) ==
  IF c.xcpt \/ c.csr_xcpt THEN xcpt_lines(c.cause, c.pc, xcpt_tval(c))
  ELSE <<commit_line(c)>>

DiskAfter(c, d) ==
  LET h == <<>> \o header_lines(c)
  IN  IF c.xcpt \/ c.csr_xcpt THEN ((d \o h) \o (<<>> \o Added(c))) \o <<>>
      ELSE d \o (h \o Added(c))

LEMMA DumpAppends ==
  ASSUME NEW c, NEW d, Holds(file, "open", d, <<>>)
  PROVE  Holds(dump_file(c), "open", DiskAfter(c, d), <<>>)
<1> DEFINE h == <<>> \o header_lines(c)
           f == put(file, header_lines(c))
           x == Added(c)
<1>1. Holds(f, "open", d, h)
  BY PutLines
<1>2. CASE c.xcpt \/ c.csr_xcpt
  <2> DEFINE e == d \o h
  <2>1. dump_file(c) = flush(open_append(dump_xcpt(close(f), x)))
    BY <1>2 DEF dump_file, Added
  <2> HIDE DEF f, h, x
  <2>2. Holds(close(f), "closed", e, <<>>)
    BY <1>1, CloseFile
  <2> HIDE DEF e
  <2>3. Holds(open_append(close(f)), "open", e, <<>>)
    BY <2>2, OpenFile
  <2>4. Holds(put(open_append(close(f)), x), "open", e, <<>> \o x)
    BY <2>3, PutLines
  <2>5. Holds(dump_xcpt(close(f), x), "closed", e \o (<<>> \o x), <<>>)
    BY <2>4, CloseFile DEF dump_xcpt
  <2>6. Holds(open_append(dump_xcpt(close(f), x)), "open", e \o (<<>> \o x), <<>>)
    BY <2>5, OpenFile
  <2>7. Holds(flush(open_append(dump_xcpt(close(f), x))), "open",
              (e \o (<<>> \o x)) \o <<>>, <<>>)
    BY <2>6, FlushLines
  <2>8. DiskAfter(c, d) = (e \o (<<>> \o x)) \o <<>>
    BY <1>2 DEF DiskAfter, e, h, x
  <2> QED BY <2>1, <2>7, <2>8, Zenon
<1>3. CASE ~(c.xcpt \/ c.csr_xcpt)
  <2>1. dump_file(c) = flush(put(f, x))
    BY <1>3 DEF dump_file, Added
  <2>2. DiskAfter(c, d) = d \o (h \o x)
    BY <1>3 DEF DiskAfter
  <2> HIDE DEF f, h, x
  <2>3. Holds(put(f, x), "open", d, h \o x)
    BY <1>1, PutLines
  <2>4. Holds(flush(put(f, x)), "open", d \o (h \o x), <<>>)
    BY <2>3, FlushLines
  <2> QED BY <2>1, <2>2, <2>4, Zenon
<1> QED BY <1>2, <1>3

FileInv == Holds(file, "open", file.disk, <<>>)

LEMMA InitFile == Init => FileInv
BY DEF Init, FileInv, Holds, opened

LEMMA NextFile == FileInv /\ [Next]_vars => FileInv'
<1> SUFFICES ASSUME FileInv, [Next]_vars PROVE FileInv'
  OBVIOUS
<1>1. ASSUME NEW d, Holds(file', "open", d, <<>>) PROVE FileInv'
  BY <1>1 DEF FileInv, Holds
<1>2. ASSUME NEW commits \in Together, NEW flags \in Flags, Cycle(commits, flags)
      PROVE  FileInv'
  <2>1. file' = [file EXCEPT !.disk = <<>>]
    BY <1>2 DEF Cycle
  <2>2. Holds([file EXCEPT !.disk = <<>>], "open", <<>>, <<>>)
    BY ReplaceDisk, Zenon DEF FileInv
  <2> QED BY <1>1, <2>1, <2>2, Zenon
<1>3. CASE commit_log
  <2> DEFINE c == Head(pending).kind
  <2>1. file' = dump_file(c)
    BY <1>3 DEF commit_log
  <2> HIDE DEF c
  <2>2. Holds(dump_file(c), "open", DiskAfter(c, file.disk), <<>>)
    BY DumpAppends DEF FileInv
  <2> QED BY <1>1, <2>1, <2>2, Zenon
<1>4. CASE UNCHANGED vars
  BY <1>4 DEF vars, FileInv
<1> QED BY <1>2, <1>3, <1>4 DEF Next

(* Whatever is committed, the file is open, complete and flushed after it, *)
(* also around an exception (dpi_commit_log.cpp, lines 80-91).             *)
THEOREM FileHoldsTraceAlways == Spec => []FileHoldsTrace
<1>1. FileInv => FileHoldsTrace
  BY DEF FileInv, Holds, FileHoldsTrace
<1> QED BY InitFile, NextFile, <1>1, PTL DEF Spec

-----------------------------------------------------------------------------
(* Which lines. What is reported for the instructions of a cycle, and what *)
(* is left of it for the second one.                                       *)
Reports == [kind : Kinds, flags : Flags]
Ends(c) == c.xcpt \/ c.csr_xcpt
FlagsOf(valid, flags) == IF valid THEN <<flags>> ELSE <<>>

Idle == pending = <<>> /\ csr_changes = NoChanges

(* One instruction is left: fflags, if it writes them, are in the list, or *)
(* were shown for the one before and are remembered.                       *)
LastOne(p) ==
  /\ pending = <<p>>
  /\ \/ csr_changes = [fflags |-> FlagsOf(p.kind.fflags_wr_valid, p.flags),
                       others |-> p.kind.csr]
     \/ /\ p.kind.fflags_wr_valid /\ last_fflags = p.flags
        /\ csr_changes = [fflags |-> <<>>, others |-> p.kind.csr]

FirstOfTwo(p, q) ==
  /\ pending = <<p, q>> /\ p.flags = q.flags
  /\ MayFollow(p.kind, q.kind)
  /\ csr_changes =
       [fflags |-> FlagsOf(p.kind.fflags_wr_valid \/ q.kind.fflags_wr_valid, p.flags),
        others |-> p.kind.csr]

ListInv ==
  \/ Idle
  \/ \E p \in Reports : LastOne(p)
  \/ \E p, q \in Reports : FirstOfTwo(p, q)

(* All lines that any instruction is shown with.                           *)
LineSet(p) ==
  LET c == p.kind
  IN  {<<<<"symbol", memory_symbol_from_addr(c.pc)>>>>, <<<<"pc", c.pc>>>>,
       <<<<"exception", c.cause>>, <<"epc", c.pc>>>>, <<<<"tval", xcpt_tval(c)>>>>,
       Effects(p)}
AllLines == UNION {LineSet(p) : p \in Reports}

SignatureInv == signature \in [Registers -> Nat]
DiskInv == file.disk \in Seq(AllLines)

TraceInv == FileInv /\ ListInv /\ SignatureInv /\ DiskInv

(* The instruction that is logged next is shown as it should be: the line  *)
(* is computed from the list and from last_fflags.                         *)
LEMMA FlagsAreRight ==
  ASSUME NEW p \in Reports,
         \/ LastOne(p)
         \/ \E q \in Reports : FirstOfTwo(p, q)
  PROVE  flags_items(p.kind) =
           IF p.kind.fflags_wr_valid THEN <<<<"c1_fflags", p.flags>>>> ELSE <<>>
<1> DEFINE c == p.kind
<1>1. CASE ~c.fflags_wr_valid
  <2>1. own_flags(c) = <<>>
    BY <1>1 DEF own_flags
  <2> QED BY <1>1, <2>1 DEF flags_items
<1>2. CASE c.fflags_wr_valid
  <2>1. CASE csr_changes.fflags = <<p.flags>>
    <3>1. own_flags(c) = <<p.flags>>
      BY <1>2, <2>1 DEF own_flags
    <3>2. own_flags(c) # <<>>
      BY <3>1
    <3>3. flags_items(c) = [i \in DOMAIN <<p.flags>> |-> <<"c1_fflags", <<p.flags>>[i]>>]
      BY <3>1, <3>2 DEF flags_items
    <3>4. [i \in DOMAIN <<p.flags>> |-> <<"c1_fflags", <<p.flags>>[i]>>]
            = <<<<"c1_fflags", p.flags>>>>
      OBVIOUS
    <3> QED BY <1>2, <3>3, <3>4
  <2>2. CASE csr_changes.fflags = <<>> /\ last_fflags = p.flags
    <3>1. own_flags(c) = <<>>
      BY <2>2 DEF own_flags
    <3> QED BY <1>2, <2>2, <3>1 DEF flags_items
  <2>3. \/ csr_changes.fflags = <<p.flags>>
        \/ csr_changes.fflags = <<>> /\ last_fflags = p.flags
    BY <1>2 DEF LastOne, FirstOfTwo, FlagsOf
  <2> QED BY <2>1, <2>2, <2>3
<1> QED BY <1>1, <1>2

LEMMA CommitLineIsRight ==
  ASSUME SignatureInv, NEW p \in Reports,
         \/ LastOne(p)
         \/ \E q \in Reports : FirstOfTwo(p, q)
  PROVE  commit_line(p.kind) = Effects(p)
<1> DEFINE c == p.kind
<1>1. c \in Instruction
  BY CommitLogAssumption DEF Reports
<1>2. csr_changes.others = c.csr
  BY DEF LastOne, FirstOfTwo
<1>3. ASSUME NEW r \in {"x", "f"}, r \in c.writes
      PROVE  signature_next(c)[c.dst] = c.data
  <2>1. c.dst \in Registers /\ c.writes \cap {"x", "f"} # {}
    BY <1>1, <1>3 DEF Instruction
  <2>2. signature_next(c) = [signature EXCEPT ![c.dst] = c.data]
    BY <2>1 DEF signature_next
  <2> QED BY <2>1, <2>2 DEF SignatureInv
<1>4. register_items(c) =
        (IF "x" \in c.writes THEN <<<<"x", c.dst>>, <<"data", c.data>>>> ELSE <<>>)
          \o (IF "f" \in c.writes THEN <<<<"f", c.dst>>, <<"data", c.data>>>> ELSE <<>>)
          \o vector_items(c)
  BY <1>3 DEF register_items
<1> QED
  BY <1>2, <1>4, FlagsAreRight DEF commit_line, Effects

LEMMA AddedIsRight ==
  ASSUME SignatureInv, NEW p \in Reports,
         \/ LastOne(p)
         \/ \E q \in Reports : FirstOfTwo(p, q)
  PROVE  /\ LinesFor(p) = header_lines(p.kind) \o Added(p.kind)
         /\ header_lines(p.kind) \in Seq(AllLines) /\ Added(p.kind) \in Seq(AllLines)
<1> DEFINE c == p.kind
<1>1. commit_line(c) = Effects(p)
  BY CommitLineIsRight
<1>2. LineSet(p) \subseteq AllLines
  BY DEF AllLines
<1>3. header_lines(c) \in Seq(AllLines)
  <2> DEFINE s == memory_symbol_from_addr(c.pc)
             a == IF s # NoName THEN <<<<<<"symbol", s>>>>>> ELSE <<>>
             b == IF c.xcpt /\ c.cause = CAUSE_INSTR_PAGE_FAULT THEN <<>>
                  ELSE <<<<<<"pc", c.pc>>>>>>
  <2>1. <<<<"symbol", s>>>> \in AllLines /\ <<<<"pc", c.pc>>>> \in AllLines
    BY <1>2 DEF LineSet
  <2>2. a \in Seq(AllLines) /\ b \in Seq(AllLines)
    BY <2>1
  <2> HIDE DEF a, b
  <2>3. a \o b \in Seq(AllLines)
    BY <2>2, ConcatProperties
  <2> QED BY <2>3 DEF header_lines, a, b
<1>4. Added(c) \in Seq(AllLines)
  <2>1. CASE Ends(c)
    <3> DEFINE a == <<<<<<"exception", c.cause>>, <<"epc", c.pc>>>>>>
               b == IF c.cause \in Ecalls THEN <<>> ELSE <<<<<<"tval", xcpt_tval(c)>>>>>>
    <3>1. /\ <<<<"exception", c.cause>>, <<"epc", c.pc>>>> \in AllLines
          /\ <<<<"tval", xcpt_tval(c)>>>> \in AllLines
      BY <1>2 DEF LineSet
    <3>2. a \in Seq(AllLines) /\ b \in Seq(AllLines)
      BY <3>1
    <3> HIDE DEF a, b
    <3>3. a \o b \in Seq(AllLines)
      BY <3>2, ConcatProperties
    <3>4. xcpt_lines(c.cause, c.pc, xcpt_tval(c)) = a \o b
      BY DEF xcpt_lines, a, b
    <3> QED BY <2>1, <3>3, <3>4 DEF Added, Ends
  <2>2. CASE ~Ends(c)
    <3>1. Effects(p) \in AllLines
      BY <1>2 DEF LineSet
    <3>2. Added(c) = <<Effects(p)>>
      BY <1>1, <2>2 DEF Added, Ends
    <3> QED BY <3>1, <3>2
  <2> QED BY <2>1, <2>2
<1>5. LinesFor(p) = header_lines(c) \o Added(c)
  BY <1>1 DEF LinesFor, Added
<1> QED BY <1>3, <1>4, <1>5

(* One call of dump_file adds the lines of its instruction.                *)
LEMMA TraceGrows ==
  ASSUME FileInv, DiskInv, SignatureInv, NEW p \in Reports, commit_log,
         \/ LastOne(p)
         \/ \E q \in Reports : FirstOfTwo(p, q)
  PROVE  /\ file'.disk \o file'.buffer = (file.disk \o file.buffer) \o LinesFor(p)
         /\ DiskInv'
<1> DEFINE c == p.kind
           h == header_lines(c)
           x == Added(c)
           d == file.disk
<1>1. Head(pending).kind = c
  BY DEF LastOne, FirstOfTwo
<1>2. Holds(file', "open", DiskAfter(c, d), <<>>)
  BY <1>1, DumpAppends DEF commit_log, FileInv
<1>3. /\ LinesFor(p) = h \o x /\ h \in Seq(AllLines) /\ x \in Seq(AllLines)
      /\ d \in Seq(AllLines) /\ file.buffer = <<>> /\ <<>> \in Seq(AllLines)
  BY AddedIsRight, EmptySeq DEF DiskInv, FileInv, Holds
<1>4. /\ file'.disk = DiskAfter(c, d) /\ file'.buffer = <<>>
  BY <1>2 DEF Holds
<1> HIDE DEF h, x, d
<1>5. /\ h \o x \in Seq(AllLines) /\ d \o h \in Seq(AllLines)
      /\ <<>> \o h = h /\ <<>> \o x = x /\ d \o <<>> = d
  BY <1>3, ConcatProperties, ConcatEmptySeq
<1>6. /\ (d \o h) \o x = d \o (h \o x)
      /\ d \o (h \o x) \in Seq(AllLines)
      /\ (d \o (h \o x)) \o <<>> = d \o (h \o x)
  <2>1. d \o (h \o x) \in Seq(AllLines)
    BY <1>3, <1>5, ConcatProperties
  <2> QED BY <2>1, <1>3, ConcatAssociative, ConcatEmptySeq
<1>7. DiskAfter(c, d) = d \o (h \o x)
  <2>1. DiskAfter(c, d) = IF Ends(c) THEN ((d \o (<<>> \o h)) \o (<<>> \o x)) \o <<>>
                          ELSE d \o ((<<>> \o h) \o x)
    BY DEF DiskAfter, Ends, h, x
  <2>2. ((d \o (<<>> \o h)) \o (<<>> \o x)) \o <<>> = d \o (h \o x)
    BY <1>5, <1>6, Zenon
  <2>3. d \o ((<<>> \o h) \o x) = d \o (h \o x)
    BY <1>5, Zenon
  <2> QED BY <2>1, <2>2, <2>3, Zenon
<1>8. file'.disk \o file'.buffer = (d \o file.buffer) \o LinesFor(p)
  BY <1>3, <1>4, <1>5, <1>6, <1>7, Zenon
<1>9. DiskInv'
  BY <1>4, <1>6, <1>7, Zenon DEF DiskInv
<1> QED
  BY <1>8, <1>9 DEF d

(* What the log remembers between its two calls of a cycle.                *)
LEMMA ListStep ==
  ASSUME ListInv, commit_log
  PROVE  /\ \E p \in Reports : /\ LastOne(p) \/ \E q \in Reports : FirstOfTwo(p, q)
                              /\ Head(pending) = p
         /\ ListInv'
<1>1. pending # <<>> /\ pending' = Tail(pending)
  BY DEF commit_log
<1>2. \A c \in Kinds : c \in Instruction /\ (c.xcpt => c.csr = <<>> /\ ~c.fflags_wr_valid)
  BY CommitLogAssumption
<1>3. ASSUME NEW p \in Reports, LastOne(p) PROVE Head(pending) = p /\ Idle'
  <2> DEFINE c == p.kind
  <2>1. Head(pending) = p /\ Tail(pending) = <<>>
    BY <1>3 DEF LastOne
  <2>2. csr_changes' = csr_changes_next(c)
    BY <2>1 DEF commit_log
  <2>3. csr_changes_next(c) = NoChanges
    <3>1. CASE c.xcpt
      <4>1. c.csr = <<>> /\ ~c.fflags_wr_valid
        BY <1>2, <3>1 DEF Reports
      <4> QED BY <1>3, <3>1, <4>1 DEF LastOne, FlagsOf, csr_changes_next, NoChanges
    <3>2. CASE ~c.xcpt /\ (c.csr_xcpt \/ c.fflags_wr_valid)
      BY <3>2 DEF csr_changes_next
    <3>3. CASE ~c.xcpt /\ ~c.csr_xcpt /\ ~c.fflags_wr_valid
      <4>1. csr_changes_next(c) = [csr_changes EXCEPT !.others = <<>>]
        BY <3>3 DEF csr_changes_next, kept_changes
      <4>2. csr_changes = [fflags |-> <<>>, others |-> c.csr]
        BY <1>3, <3>3 DEF LastOne, FlagsOf
      <4> QED BY <4>1, <4>2 DEF NoChanges
    <3> QED BY <3>1, <3>2, <3>3
  <2> QED BY <1>1, <2>1, <2>2, <2>3 DEF Idle
<1>4. ASSUME NEW p \in Reports, NEW q \in Reports, FirstOfTwo(p, q)
      PROVE  Head(pending) = p /\ LastOne(q)'
  <2> DEFINE c == p.kind
             e == q.kind
  <2>1. Head(pending) = p /\ Tail(pending) = <<q>>
    BY <1>4 DEF FirstOfTwo
  <2>2. /\ ~c.xcpt /\ ~c.csr_xcpt /\ e.csr = <<>> /\ p.flags = q.flags
        /\ csr_changes = [fflags |-> FlagsOf(c.fflags_wr_valid \/ e.fflags_wr_valid, p.flags),
                          others |-> c.csr]
    BY <1>4 DEF FirstOfTwo, MayFollow
  <2>3. csr_changes' = csr_changes_next(c) /\ last_fflags' = last_fflags_next(c)
    BY <2>1, <2>2 DEF commit_log
  <2>4. CASE c.fflags_wr_valid
    <3>1. csr_changes' = NoChanges
      BY <2>2, <2>3, <2>4 DEF csr_changes_next
    <3>2. last_fflags' = q.flags
      <4>1. own_flags(c) = <<p.flags>> /\ <<p.flags>> # <<>> /\ Last(<<p.flags>>) = p.flags
        BY <2>2, <2>4 DEF own_flags, FlagsOf, Last
      <4> QED BY <2>2, <2>3, <4>1 DEF last_fflags_next
    <3> QED BY <1>1, <2>1, <2>2, <3>1, <3>2 DEF LastOne, NoChanges, FlagsOf
  <2>5. CASE ~c.fflags_wr_valid
    <3>1. csr_changes' = [csr_changes EXCEPT !.others = <<>>]
      BY <2>2, <2>3, <2>5 DEF csr_changes_next, kept_changes
    <3>2. csr_changes' = [fflags |-> FlagsOf(e.fflags_wr_valid, q.flags), others |-> e.csr]
      BY <2>2, <2>5, <3>1 DEF FlagsOf
    <3> QED BY <1>1, <2>1, <3>2 DEF LastOne
  <2> QED BY <2>1, <2>4, <2>5
<1>5. ~Idle
  BY <1>1 DEF Idle
<1>6. CASE \E p \in Reports : LastOne(p)
  BY <1>3, <1>6 DEF ListInv
<1>7. CASE \E p, q \in Reports : FirstOfTwo(p, q)
  BY <1>4, <1>7 DEF ListInv
<1> QED
  BY <1>5, <1>6, <1>7 DEF ListInv

(* What the core reports in a cycle belongs to the instructions of it.     *)
LEMMA ListAtCycle ==
  ASSUME ListInv, NEW commits \in Together, NEW flags \in Flags, Cycle(commits, flags)
  PROVE  /\ ListInv'
         /\ Len(pending') \in 1 .. 2
         /\ \A i \in DOMAIN pending' : pending'[i] \in Reports
<1>1. pending = <<>> /\ csr_changes = NoChanges
  BY DEF Cycle, ListInv, LastOne, FirstOfTwo, Idle
<1>2. \A c \in Kinds : <<>> \o c.csr = c.csr
  BY CommitLogAssumption, ConcatEmptySeq DEF Instruction
<1>3. /\ csr_changes' = csr_change(commits, flags)
      /\ pending' = [i \in DOMAIN commits |-> [kind |-> commits[i], flags |-> flags]]
  BY DEF Cycle
<1>4. \A valid \in BOOLEAN : <<>> \o FlagsOf(valid, flags) = FlagsOf(valid, flags)
  BY DEF FlagsOf
<1>5. csr_change(commits, flags) =
        [fflags |-> <<>> \o FlagsOf(\E i \in DOMAIN commits : commits[i].fflags_wr_valid, flags),
         others |-> <<>> \o commits[1].csr]
  BY <1>1 DEF csr_change, NoChanges, FlagsOf
<1>6. ASSUME NEW c \in Kinds, commits = <<c>>
      PROVE  /\ LastOne([kind |-> c, flags |-> flags])'
             /\ pending' = <<[kind |-> c, flags |-> flags]>>
  <2>1. pending' = <<[kind |-> c, flags |-> flags]>>
    BY <1>3, <1>6
  <2>2. (\E i \in DOMAIN commits : commits[i].fflags_wr_valid) <=> c.fflags_wr_valid
    BY <1>6
  <2>3. csr_changes' = [fflags |-> FlagsOf(c.fflags_wr_valid, flags), others |-> c.csr]
    BY <1>2, <1>3, <1>4, <1>5, <1>6, <2>2 DEF FlagsOf
  <2> QED BY <2>1, <2>3 DEF LastOne
<1>7. ASSUME NEW c \in Kinds, NEW e \in Kinds, commits = <<c, e>>, MayFollow(c, e)
      PROVE  /\ FirstOfTwo([kind |-> c, flags |-> flags], [kind |-> e, flags |-> flags])'
             /\ pending' = <<[kind |-> c, flags |-> flags], [kind |-> e, flags |-> flags]>>
  <2>1. pending' = <<[kind |-> c, flags |-> flags], [kind |-> e, flags |-> flags]>>
    BY <1>3, <1>7
  <2>2. (\E i \in DOMAIN commits : commits[i].fflags_wr_valid)
          <=> c.fflags_wr_valid \/ e.fflags_wr_valid
    BY <1>7
  <2>3. csr_changes' =
          [fflags |-> FlagsOf(c.fflags_wr_valid \/ e.fflags_wr_valid, flags), others |-> c.csr]
    BY <1>2, <1>3, <1>4, <1>5, <1>7, <2>2 DEF FlagsOf
  <2> QED BY <1>7, <2>1, <2>3 DEF FirstOfTwo
<1>8. \A c \in Kinds : [kind |-> c, flags |-> flags] \in Reports
  BY DEF Reports
<1>9. CASE \E c \in Kinds : commits = <<c>>
  <2> PICK c \in Kinds : commits = <<c>>
    BY <1>9
  <2> DEFINE p == [kind |-> c, flags |-> flags]
  <2>1. p \in Reports /\ LastOne(p)' /\ pending' = <<p>>
    BY <1>6, <1>8
  <2> HIDE DEF p
  <2>2. ListInv'
    <3>1. \E r \in Reports : LastOne(r)'
      BY <2>1, Zenon
    <3> QED BY <3>1 DEF ListInv
  <2>3. Len(pending') = 1 /\ DOMAIN pending' = {1} /\ pending'[1] = p
    BY <2>1
  <2> QED BY <2>1, <2>2, <2>3
<1>10. CASE \E c, e \in Kinds : commits = <<c, e>> /\ MayFollow(c, e)
  <2> PICK c \in Kinds, e \in Kinds : commits = <<c, e>> /\ MayFollow(c, e)
    BY <1>10
  <2> DEFINE p == [kind |-> c, flags |-> flags]
             q == [kind |-> e, flags |-> flags]
  <2>1. p \in Reports /\ q \in Reports /\ FirstOfTwo(p, q)' /\ pending' = <<p, q>>
    BY <1>7, <1>8
  <2> HIDE DEF p, q
  <2>2. ListInv'
    <3>1. \E r, s \in Reports : FirstOfTwo(r, s)'
      BY <2>1, Zenon
    <3> QED BY <3>1 DEF ListInv
  <2>3. Len(pending') = 2 /\ DOMAIN pending' = {1, 2} /\ pending'[1] = p /\ pending'[2] = q
    BY <2>1
  <2> QED BY <2>1, <2>2, <2>3
<1>11. \/ \E c \in Kinds : commits = <<c>>
       \/ \E c, e \in Kinds : commits = <<c, e>> /\ MayFollow(c, e)
  BY DEF Together
<1> QED
  BY <1>9, <1>10, <1>11

(* The registers as printed stay registers.                                *)
LEMMA SignatureStep ==
  ASSUME SignatureInv, NEW p \in Reports
  PROVE  signature_next(p.kind) \in [Registers -> Nat]
<1>1. p.kind \in Instruction
  BY CommitLogAssumption DEF Reports
<1>2. p.kind.dst \in Registers /\ p.kind.data \in Nat
  BY <1>1 DEF Instruction
<1> QED BY <1>2 DEF SignatureInv, signature_next

LEMMA InitTrace == Init => TraceInv
<1> SUFFICES ASSUME Init PROVE TraceInv
  OBVIOUS
<1>1. FileInv
  BY InitFile
<1>2. ListInv
  BY DEF Init, ListInv, Idle
<1>3. SignatureInv
  BY DEF Init, SignatureInv
<1>4. DiskInv
  <2>1. file.disk = <<>>
    BY DEF Init, opened
  <2> QED BY <2>1, EmptySeq DEF DiskInv
<1> QED BY <1>1, <1>2, <1>3, <1>4 DEF TraceInv

(* Each step keeps the invariant, and is a step of the abstract trace.     *)
LEMMA CycleIsTraced ==
  ASSUME TraceInv, NEW commits \in Together, NEW flags \in Flags, Cycle(commits, flags)
  PROVE  TraceInv' /\ Trace!Cycle
<1>1. FileInv'
  <2>1. Next
    BY DEF Next
  <2> QED BY <2>1, NextFile DEF TraceInv
<1>2. /\ ListInv' /\ Len(pending') \in 1 .. 2
      /\ \A i \in DOMAIN pending' : pending'[i] \in Reports
  BY ListAtCycle DEF TraceInv
<1>3. SignatureInv'
  BY DEF Cycle, TraceInv, SignatureInv
<1>4. file'.disk = <<>> /\ file'.buffer = <<>>
  <2>1. file'.disk = [file EXCEPT !.disk = <<>>].disk
    BY DEF Cycle
  <2>2. Holds([file EXCEPT !.disk = <<>>], "open", <<>>, <<>>)
    BY ReplaceDisk, Zenon DEF FileInv, TraceInv
  <2>3. file'.buffer = <<>>
    BY <1>1 DEF FileInv, Holds
  <2> QED BY <2>1, <2>2, <2>3 DEF Holds
<1>5. DiskInv'
  BY <1>4, EmptySeq DEF DiskInv
<1>6. pending = <<>>
  BY DEF Cycle
<1>7. file'.disk \o file'.buffer = <<>>
  BY <1>4
<1>8. Trace!Cycle
  BY <1>2, <1>6, <1>7 DEF Trace!Cycle, Reports
<1> QED BY <1>1, <1>2, <1>3, <1>5, <1>8 DEF TraceInv

LEMMA CommitIsTraced ==
  ASSUME TraceInv, commit_log
  PROVE  TraceInv' /\ Trace!Show
<1>1. FileInv'
  <2>1. Next
    BY DEF Next
  <2> QED BY <2>1, NextFile DEF TraceInv
<1>2. /\ \E p \in Reports : /\ LastOne(p) \/ \E q \in Reports : FirstOfTwo(p, q)
                            /\ Head(pending) = p
      /\ ListInv'
  BY ListStep DEF TraceInv
<1> PICK p \in Reports : /\ LastOne(p) \/ \E q \in Reports : FirstOfTwo(p, q)
                         /\ Head(pending) = p
  BY <1>2
<1>3. /\ file'.disk \o file'.buffer = (file.disk \o file.buffer) \o LinesFor(p)
      /\ DiskInv'
  BY TraceGrows DEF TraceInv
<1>4. SignatureInv'
  <2>1. signature' = signature_next(p.kind)
    BY DEF commit_log
  <2> QED BY <2>1, SignatureStep DEF TraceInv, SignatureInv
<1>5. Trace!Show
  <2>1. pending # <<>> /\ pending' = Tail(pending)
    BY DEF commit_log
  <2>2. file'.disk \o file'.buffer = (file.disk \o file.buffer) \o LinesFor(Head(pending))
    BY <1>3
  <2> QED BY <2>1, <2>2 DEF Trace!Show
<1> QED BY <1>1, <1>2, <1>3, <1>4, <1>5 DEF TraceInv

LEMMA NextTrace ==
  TraceInv /\ [Next]_vars => TraceInv' /\ [Trace!Next]_(Trace!trace_vars)
<1> SUFFICES ASSUME TraceInv, [Next]_vars
             PROVE  TraceInv' /\ [Trace!Next]_(Trace!trace_vars)
  OBVIOUS
<1>1. ASSUME NEW commits \in Together, NEW flags \in Flags, Cycle(commits, flags)
      PROVE  TraceInv' /\ Trace!Cycle
  BY <1>1, CycleIsTraced
<1>2. CASE commit_log
  BY <1>2, CommitIsTraced DEF Trace!Next
<1>3. CASE UNCHANGED vars
  BY <1>3 DEF vars, TraceInv, FileInv, ListInv, Idle, LastOne, FirstOfTwo, SignatureInv,
              DiskInv, Trace!trace_vars
<1> QED BY <1>1, <1>2, <1>3 DEF Next, Trace!Next

(* The log shows each instruction with its own changes: CommitLog          *)
(* implements CommitTrace, whatever instructions commit                    *)
(* (dpi_commit_log.cpp, lines 62-260).                                     *)
THEOREM TraceIsImplemented == Spec => TraceSpec
<1>1. Init => Trace!Init
  BY DEF Init, opened, Trace!Init
<1> QED BY InitTrace, NextTrace, <1>1, PTL DEF Spec, TraceSpec, Trace!Spec
=============================================================================

------------------------------ MODULE Konata ------------------------------
(***************************************************************************)
(* simulator/models/cxx/dpi_konata.cpp: the log of the pipeline for the    *)
(* viewer Konata. In every cycle dump_file gets the instruction in each    *)
(* stage, the stalls, the flushes and the writebacks, and writes what has  *)
(* changed; it remembers the last cycle, and the instructions it has shown *)
(* in the instruction queue. A cycle in which nothing happens is counted   *)
(* and not logged. (The ports of ir and rr are exchanged in the call of    *)
(* konata_behav.sv and again in konata_dump, which cancels.)               *)
(*                                                                         *)
(* The pipeline is the core's, which is outside the repository: two fetch  *)
(* stages, decode, an instruction queue whose head is renamed (ir), read   *)
(* registers, execute, and units that write back in any order. An empty    *)
(* stage has the identifier None. A stage stalls with those before it, up  *)
(* to the queue.                                                           *)
(***************************************************************************)
EXTENDS Integers, SequencesExt, FiniteSets

CONSTANTS
  MaxInst,    \* instructions fetched in one behaviour
  QueueSize,  \* of the instruction queue
  MaxUnits,   \* instructions between execute and writeback
  MaxQuiet    \* cycles in a row that are not logged

None == 0
Insts == 1 .. MaxInst
Flushes == {"none", "jump", "branch", "exception"}
StageOrder == <<"none", "F1", "F2", "D", "Q", "I", "R", "X", "flushed", "committed">>
Rank(stage) == CHOOSE i \in DOMAIN StageOrder : StageOrder[i] = stage

ASSUME KonataAssumption ==
  /\ MaxInst \in Nat \ {0} /\ QueueSize \in Nat \ {0}
  /\ MaxUnits \in Nat \ {0} /\ MaxQuiet \in Nat \ {0}

VARIABLES
  fetched,                       \* instructions so far
  if1, if2, id, iq, rr, exe, units,  \* where they are
  retired, retired_by_store,     \* written back, and those by the store port
  cycles, last_if1_id, last_if2_id, last_id_id,
  last_id_valid, last_id_flush, last_id_stall,
  enqueuedInsts,                 \* shown in the queue
  seen,                          \* what the viewer shows of each instruction
  held,                          \* instructions that stalled in if1
  unlogged                       \* those that entered iq before a quiet cycle

core_vars == <<fetched, if1, if2, id, iq, rr, exe, units, retired, retired_by_store>>
log_vars == <<cycles, last_if1_id, last_if2_id, last_id_id, last_id_valid,
              last_id_flush, last_id_stall, enqueuedInsts, seen>>
history_vars == <<held, unlogged>>
vars == <<core_vars, log_vars, history_vars>>

-----------------------------------------------------------------------------
(* The inputs of a cycle: how many stages stall from if1 on and from ir    *)
(* on, what is flushed, and what is written back, by the store port or by  *)
(* one of the eight others.                                                *)
Inputs ==
  [front : 0 .. 3, back : 0 .. 3, flush : Flushes,
   wb : SUBSET units, store : {{}} \cup {{u} : u \in units}]

ir == IF iq = <<>> THEN None ELSE Head(iq)
if1_stall(c) == c.front >= 1
if2_stall(c) == c.front >= 2
id_stall(c) == c.front >= 3
ir_stall(c) == c.back >= 1
rr_stall(c) == c.back >= 2
exe_stall(c) == c.back >= 3
if_flush(c) == c.flush # "none"
ir_flush(c) == c.flush \in {"branch", "exception"}   \* with id_flush and rr_flush
exe_flush(c) == c.flush = "exception"                \* or exe_kill

-----------------------------------------------------------------------------
(* Mutated forms of the definitions below, used to show that the           *)
(* properties can fail.                                                    *)

no_writeback(c) == FALSE
sent_again == ~last_id_stall /\ ~last_id_flush
sent_although_stalled == last_id_valid /\ ~last_id_flush
erased_first(c) ==
  LET rest == IF ir # None /\ ~ir_stall(c) THEN enqueuedInsts \ {ir} ELSE enqueuedInsts
  IN  IF ir_flush(c) THEN {}
      ELSE IF last_id_valid /\ ~last_id_stall /\ ~last_id_flush
             THEN rest \cup {last_id_id} ELSE rest

-----------------------------------------------------------------------------
(* dump_file                                                               *)

any_writeback(c) == c.wb # {}

(* A cycle without progress, flush or writeback is not logged. The store   *)
(* port is not among the conditions.                                       *)
quiet(c) ==
  ~ \/ if1 # None /\ ~if1_stall(c)
    \/ if2 # None /\ ~if2_stall(c)
    \/ id # None /\ ~id_stall(c)
    \/ ir # None /\ ~ir_stall(c)
    \/ rr # None /\ ~rr_stall(c)
    \/ exe # None /\ ~exe_stall(c)
    \/ any_writeback(c)
    \/ if_flush(c)

(* What a block of dump_file shows in the viewer. The event I introduces   *)
(* an instruction to the viewer: what the log says of one that it has not  *)
(* introduced ("none") shows nothing. An event S moves an instruction to a *)
(* stage, an event R takes it out, and E and L, the end of a stage and its *)
(* label, come with those. Every block starts from the view the one before *)
(* it leaves. None is in no view: the events of empty stages, which a      *)
(* flush causes, are about no instruction.                                 *)
When(condition, insts) == IF condition THEN insts ELSE {}
Shown(view, insts, stage) ==
  [i \in Insts |-> IF i \in insts /\ view[i] # "none" THEN stage ELSE view[i]]

(* The events I and S of the first stage, in the first cycle there or not  *)
(* at all: an instruction that stalls in that cycle is in last_if1_id when *)
(* it goes on.                                                             *)
introduced(c) ==
  When(if1 # None /\ ~if1_stall(c) /\ ~if_flush(c) /\ last_if1_id # if1, {if1})
first_events(c, view) == [i \in Insts |-> IF i \in introduced(c) THEN "F1" ELSE view[i]]

fetch_events(c, view) ==
  LET first == first_events(c, view)
  IN  IF if_flush(c) THEN Shown(first, {if2}, "flushed")
      ELSE Shown(first, When(if2 # None /\ ~if2_stall(c) /\ last_if2_id # if2, {if2}), "F2")

decode_shown(c) == id # None /\ id # last_id_id
decode_events(c, view) ==
  IF ir_flush(c) THEN Shown(view, {id}, "flushed")
  ELSE Shown(view, When(decode_shown(c), {id}), "D")

(* The instruction decoded in the last cycle went to the queue.            *)
sent_to_queue == last_id_valid /\ ~last_id_stall /\ ~last_id_flush
queue_events(c, view) ==
  Shown(view, When(sent_to_queue, {last_id_id}), IF ir_flush(c) THEN "flushed" ELSE "Q")

enqueued_next(c) ==
  LET inserted == IF sent_to_queue THEN enqueuedInsts \cup {last_id_id} ELSE enqueuedInsts
  IN  IF ir_flush(c) THEN {}
      ELSE IF ir # None /\ ~ir_stall(c) THEN inserted \ {ir} ELSE inserted

rename_events(c, view) ==
  IF ir_flush(c) THEN Shown(view, {ir} \cup enqueuedInsts, "flushed")
  ELSE Shown(view, When(ir # None /\ ~ir_stall(c), {ir}), "I")

(* These look at the stall of the stage before.                            *)
read_events(c, view) ==
  IF ir_flush(c) THEN Shown(view, {rr}, "flushed")
  ELSE Shown(view, When(rr # None /\ ~ir_stall(c), {rr}), "R")
execute_events(c, view) ==
  IF exe_flush(c) THEN Shown(view, {exe}, "flushed")
  ELSE Shown(view, When(exe # None /\ ~rr_stall(c), {exe}), "X")
writeback_events(c, view) == Shown(view, c.wb \cup c.store, "committed")

(* The blocks in their order.                                              *)
fetch_decode(c) == decode_events(c, fetch_events(c, seen))
queue_rename(c) == rename_events(c, queue_events(c, fetch_decode(c)))
events(c) == writeback_events(c, execute_events(c, read_events(c, queue_rename(c))))

konata_dump(c) ==
  /\ IF quiet(c)
       THEN cycles' = cycles + 1 /\ UNCHANGED <<enqueuedInsts, seen>>
       ELSE /\ cycles' = 1
            /\ enqueuedInsts' = enqueued_next(c)
            /\ seen' = events(c)
  /\ last_if1_id' = if1
  /\ last_if2_id' = IF if2 # None THEN if2 ELSE last_if2_id
  /\ last_id_id' = IF id # None THEN id ELSE last_id_id
  /\ last_id_valid' = (id # None)
  /\ last_id_flush' = ir_flush(c)
  /\ last_id_stall' = id_stall(c)

(* What the properties ask of the past: which instructions stalled in the  *)
(* first stage, and which of those in the queue entered it before a cycle  *)
(* that is not logged.                                                     *)
Remember(c) ==
  /\ held' = held \cup When(if1 # None /\ if1_stall(c), {if1})
  /\ unlogged' = (unlogged \cup When(quiet(c) /\ sent_to_queue, {last_id_id})) \cap ToSet(iq')

-----------------------------------------------------------------------------
(* The pipeline at the end of the cycle.                                   *)
Advance(c, new) ==
  LET sent   == id # None /\ ~id_stall(c)
      popped == IF ir # None /\ ~ir_stall(c) THEN Tail(iq) ELSE iq
      gone   == c.wb \cup c.store
      done   == IF exe # None /\ ~exe_stall(c) THEN {exe} ELSE {}
  IN  /\ if1' = IF if1_stall(c) /\ ~if_flush(c) THEN if1 ELSE new
      /\ if2' = IF if_flush(c) THEN None
                ELSE IF if2_stall(c) THEN if2 ELSE IF if1_stall(c) THEN None ELSE if1
      /\ id' = IF ir_flush(c) THEN None ELSE IF id_stall(c) THEN id
               ELSE IF if_flush(c) \/ if2_stall(c) THEN None ELSE if2
      /\ iq' = IF ir_flush(c) THEN <<>> ELSE IF sent THEN Append(popped, id) ELSE popped
      /\ rr' = IF ir_flush(c) THEN None ELSE IF rr_stall(c) THEN rr
               ELSE IF ir_stall(c) THEN None ELSE ir
      /\ exe' = IF exe_flush(c) THEN None ELSE IF exe_stall(c) THEN exe
                ELSE IF ir_flush(c) \/ rr_stall(c) THEN None ELSE rr
      /\ units' = IF exe_flush(c) THEN {} ELSE (units \ gone) \cup done
      /\ retired' = retired \cup gone
      /\ retired_by_store' = retired_by_store \cup c.store

(* The stage at which a stall begins holds an instruction, but for ir,     *)
(* whose stall also keeps the registers from being read.                   *)
Possible(c) ==
  /\ c.front = 1 => if1 # None
  /\ c.front = 2 => if2 # None
  /\ c.front = 3 => id # None
  /\ c.back = 2 => rr # None
  /\ c.back = 3 => exe # None
  /\ c.wb \cap c.store = {}
  /\ Len(iq) = QueueSize /\ id # None => id_stall(c)
  /\ Cardinality(units) = MaxUnits /\ exe # None => exe_stall(c)
  /\ c.flush = "jump" => id # None /\ ~id_stall(c)
  /\ c.flush = "branch" => exe # None /\ ~exe_stall(c)

Init ==
  /\ fetched = 0
  /\ if1 = None /\ if2 = None /\ id = None /\ iq = <<>> /\ rr = None /\ exe = None
  /\ units = {} /\ retired = {} /\ retired_by_store = {}
  /\ cycles = 1 /\ last_if1_id = 1 /\ last_if2_id = 1 /\ last_id_id = 1
  /\ last_id_valid = FALSE /\ last_id_flush = FALSE /\ last_id_stall = FALSE
  /\ enqueuedInsts = {}
  /\ seen = [i \in Insts |-> "none"]
  /\ held = {} /\ unlogged = {}

Fetch(c) ==
  \E new \in {None} \cup (IF fetched < MaxInst /\ (if_flush(c) \/ ~if1_stall(c))
                            THEN {fetched + 1} ELSE {}) :
    /\ fetched' = IF new = None THEN fetched ELSE new
    /\ Advance(c, new)

ClockEdge(c) ==
  /\ Possible(c)
  /\ quiet(c) => cycles < MaxQuiet
  /\ konata_dump(c)
  /\ Fetch(c)
  /\ Remember(c)

Next == \E c \in Inputs : ClockEdge(c)

Spec == Init /\ [][Next]_vars
-----------------------------------------------------------------------------
(* How far an instruction has come; one that is in no stage any more was   *)
(* written back or flushed.                                                *)
Reached(i) ==
  CASE i \in retired -> "committed"
    [] i \notin retired /\ (i \in units \/ i = exe) -> "X"
    [] i = rr -> "R"
    [] i \in ToSet(iq) -> "Q"
    [] i = id -> "D"
    [] i = if2 -> "F2"
    [] i = if1 -> "F1"
    [] i > fetched -> "none"
    [] OTHER -> "flushed"

(* The viewer never shows an instruction in a stage that it has not        *)
(* reached, or flushed or committed while it is not, although a part of    *)
(* each cycle is shown from what was remembered of the last one.           *)
ShownIsReached ==
  \A i \in Insts :
    /\ seen[i] = "flushed" => Reached(i) = "flushed"
    /\ Rank(seen[i]) <= Rank(Reached(i))

(* Nothing moves backwards in the viewer, and what has left it stays away. *)
StagesMoveForward ==
  [][\A i \in Insts :
       IF seen[i] \in {"flushed", "committed"} THEN seen'[i] = seen[i]
       ELSE Rank(seen'[i]) >= Rank(seen[i])]_seen

(* The queue of the log, with the instruction that enters it in this       *)
(* cycle, is the instruction queue, but for those that entered it before a *)
(* cycle that was not logged: a flush shows no other instruction as gone,  *)
(* and of those in the queue it leaves out none but these.                 *)
LoggedQueueIsReal ==
  /\ enqueuedInsts \subseteq ToSet(iq)
  /\ ToSet(iq) \subseteq enqueuedInsts \cup unlogged \cup When(sent_to_queue, {last_id_id})

(* Each writeback is shown, but for one by the store port, and for those   *)
(* of the instructions that stalled in the first stage: the log never      *)
(* introduces these, and the viewer shows nothing of them at all.          *)
CommittedIsShown ==
  /\ \A i \in retired \ (retired_by_store \cup held) : seen[i] = "committed"
  /\ \A i \in held : seen[i] = "none"
=============================================================================

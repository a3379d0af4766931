----------------------------- MODULE Checkpoint -----------------------------
(***************************************************************************)
(* The checkpoints of the Verilator simulation: the monitor of             *)
(* simulator/sim_top.sv that saves the model every checkpoint_cycles       *)
(* cycles, in two files in turn, and save_model, restore_model and main of *)
(* simulator/models/cxx/dpi_checkpoint.cpp.                                *)
(*                                                                         *)
(* The state of the model is its cycle and the flag that chooses the file; *)
(* both are part of what is saved. A save writes a file in two steps, and  *)
(* the process may be stopped between them. The memory behind the model is *)
(* not part of it: dpi_checkpoint.h writes its maps behind the model, each *)
(* as a length and pairs, in one stream that is read back in this order.   *)
(* (The map reverseSymbols, which follows symbols, is left out.)           *)
(***************************************************************************)
EXTENDS Integers, FiniteSets, SequencesExt

CONSTANTS
  Period,     \* checkpoint_cycles, not zero
  MaxCycles,  \* the simulation ends here
  None,       \* no file
  Torn,       \* a file that was opened for writing and not finished
  Programs,   \* ELF files, as the memory they are loaded into: [words, symbols]
  Stores      \* what the program may write at an edge, as a map

Files == {1, 2}
IsMap(m) == IsFiniteSet(DOMAIN m) /\ DOMAIN m \subseteq Nat /\ m \in [DOMAIN m -> Nat]
IsMemory(m) ==
  m = [words |-> m.words, symbols |-> m.symbols] /\ IsMap(m.words) /\ IsMap(m.symbols)
Images == [cycles : 0 .. MaxCycles, checkpointFile1 : BOOLEAN]

ASSUME CheckpointAssumption ==
  /\ Period \in Nat \ {0} /\ MaxCycles \in Nat
  /\ None # Torn /\ {None, Torn} \cap Images = {}
  /\ \A program \in Programs : IsMemory(program)
  /\ \A written \in Stores : IsMap(written)

VARIABLES
  process,          \* "stopped", "running", "saving"
  cycles,           \* the cycle of the model
  checkpointFile1,  \* the next checkpoint goes to the file 1
  disk,             \* [Files -> Images \cup {None, Torn}]
  newest,           \* the file that was written last, or None
  saves,            \* checkpoints this process has written, at most 2
  memoryContents,   \* [words, symbols]: partial maps of numbers to numbers
  stream,           \* [Files -> the part of each file behind the model]
  at_save           \* [Files -> memoryContents when the file was written]

memory_vars == <<memoryContents, stream, at_save>>
vars == <<process, cycles, checkpointFile1, disk, newest, saves, memory_vars>>

-----------------------------------------------------------------------------
(* Mutated forms of the definitions below, used to show that the           *)
(* properties can fail.                                                    *)

flag_cleared == FALSE
-----------------------------------------------------------------------------
(* A map with the pairs of another one put into it.                        *)
with(new, old) ==
  [k \in DOMAIN new \cup DOMAIN old |-> IF k \in DOMAIN new THEN new[k] ELSE old[k]]

(* operator<< and operator>> on maps, and on Memory32, whose addr_max is   *)
(* zero. The pairs are written in some order: the one of std::map is of no *)
(* consequence. A map that is read is cleared first: it may hold the       *)
(* program that the initial block has just loaded.                         *)
written_map(rhs) ==
  LET keys == SetToSeq(DOMAIN rhs)
      len  == Cardinality(DOMAIN rhs)
  IN  [j \in 1 .. 2 * len + 1 |->
         IF j = 1 THEN len
         ELSE IF j % 2 = 0 THEN keys[j \div 2] ELSE rhs[keys[j \div 2]]]

(* Of two pairs with one key the later one counts.                         *)
read_pairs(os, map) ==
  LET pairs(k) == {i \in 1 .. os[1] : os[2 * i] = k}
      last(k)  == CHOOSE i \in pairs(k) : \A j \in pairs(k) : j <= i
  IN  with([k \in {os[2 * i] : i \in 1 .. os[1]} |-> os[2 * last(k) + 1]], map)

not_cleared(os, rhs) == read_pairs(os, rhs)   \* a mutated form of read_map

read_map(os, rhs) == read_pairs(os, <<>>)

behind_map(os) == SubSeq(os, 2 * os[1] + 2, Len(os))

written_memory(rhs) == written_map(rhs.words) \o <<0>> \o written_map(rhs.symbols)

read_memory(os, rhs) ==
  [words |-> read_map(os, rhs.words),
   symbols |-> read_map(Tail(behind_map(os)), rhs.symbols)]

-----------------------------------------------------------------------------
due == cycles # 0 /\ cycles % Period = 0

file == IF checkpointFile1 THEN 1 ELSE 2

other_file_next == ~checkpointFile1

Init ==
  /\ process = "stopped"
  /\ cycles = 0 /\ checkpointFile1 = TRUE /\ saves = 0
  /\ disk = [f \in Files |-> None]
  /\ newest = None
  /\ memoryContents = [words |-> <<>>, symbols |-> <<>>]
  /\ stream = [f \in Files |-> <<>>]
  /\ at_save = [f \in Files |-> memoryContents]

(* main with a new model: the initial blocks are evaluated, which load the *)
(* program, then the reset.                                                *)
Start(program) ==
  /\ process = "stopped"
  /\ process' = "running"
  /\ cycles' = 0 /\ checkpointFile1' = TRUE /\ saves' = 0
  /\ memoryContents' = program
  /\ UNCHANGED <<disk, newest, stream, at_save>>

(* main with +checkpoint_restore_ON: the initial blocks are evaluated and  *)
(* their results replaced by the saved ones. The save happened within a    *)
(* clock edge, before or after the increment of cycles at that edge: which *)
(* one depends on the order the compiled model evaluates its blocks in.    *)
Restore(f, program) ==
  /\ process = "stopped"
  /\ disk[f] \in Images
  /\ process' = "running"
  /\ cycles' \in {disk[f].cycles, disk[f].cycles + 1}
  /\ checkpointFile1' = disk[f].checkpointFile1
  /\ saves' = 0
  /\ memoryContents' = read_memory(stream[f], program)
  /\ UNCHANGED <<disk, newest, stream, at_save>>

(* An edge without a checkpoint, at which words may be written.            *)
words_next(written) == with(written, memoryContents.words)
ClockEdge(written) ==
  /\ process = "running"
  /\ ~due
  /\ cycles < MaxCycles
  /\ cycles' = cycles + 1
  /\ memoryContents' = [memoryContents EXCEPT !.words = words_next(written)]
  /\ UNCHANGED <<process, checkpointFile1, disk, newest, saves, stream, at_save>>

(* An edge with a checkpoint: save_model opens the file, and with it the   *)
(* old content is gone,                                                    *)
SaveOpens ==
  /\ process = "running"
  /\ due
  /\ cycles < MaxCycles
  /\ process' = "saving"
  /\ disk' = [disk EXCEPT ![file] = Torn]
  /\ newest' = file
  /\ UNCHANGED <<cycles, checkpointFile1, saves, memory_vars>>

(* writes the state of the model and the memory, and returns; then the     *)
(* flag is inverted. A word written at this edge counts to the one before  *)
(* or after.                                                               *)
SaveCloses ==
  /\ process = "saving"
  /\ process' = "running"
  /\ disk' = [disk EXCEPT ![file] = [cycles |-> cycles,
                                     checkpointFile1 |-> checkpointFile1]]
  /\ checkpointFile1' = other_file_next
  /\ cycles' = cycles + 1
  /\ saves' = IF saves < 2 THEN saves + 1 ELSE saves
  /\ stream' = [stream EXCEPT ![file] = written_memory(memoryContents)]
  /\ at_save' = [at_save EXCEPT ![file] = memoryContents]
  /\ UNCHANGED <<newest, memoryContents>>

(* The end of the simulation, or of the process that runs it.              *)
Stop ==
  /\ process # "stopped"
  /\ process' = "stopped"
  /\ UNCHANGED <<cycles, checkpointFile1, disk, newest, saves, memory_vars>>

Next ==
  \/ \E program \in Programs : Start(program)
  \/ \E f \in Files, program \in Programs : Restore(f, program)
  \/ \E written \in {<<>>} \cup Stores : ClockEdge(written)
  \/ SaveOpens \/ SaveCloses \/ Stop

Spec == Init /\ [][Next]_vars
-----------------------------------------------------------------------------
(* "It saves the last 2 checkpoints": however the process was started and  *)
(* whatever its predecessors left on the disk, once it has written two the *)
(* files hold the last two multiples of the period; and once it has        *)
(* written one, the last of them stays intact in some file while the next  *)
(* is written, and also if the process is stopped in the middle of that.   *)
LastTwoSaved ==
  LET last == ((cycles - 1) \div Period) * Period
  IN  saves >= 1 =>
        /\ \E f \in Files : disk[f] \in Images /\ disk[f].cycles = last
        /\ process = "running" /\ saves = 2 =>
             /\ \A f \in Files : disk[f] \in Images
             /\ {disk[f].cycles : f \in Files} = {last, last - Period}

(* A restored simulation goes on with the memory of the checkpoint, and    *)
(* nothing of the program that was loaded when it was started.             *)
RestoredAsSaved ==
  [][\A f \in Files, program \in Programs :
       Restore(f, program) => memoryContents' = at_save[f]]_vars

(* "and overwrites the oldest one when creating a third one": a save never *)
(* opens the file that was written last while the other one exists.        *)
OverwritesOldest ==
  [][\A f \in Files :
       disk'[f] = Torn /\ disk[f] # Torn =>
         f # newest \/ \E g \in Files : disk[g] = None]_vars
=============================================================================

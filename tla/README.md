# TLA+ models of the Sargantana core tile

This directory holds TLA+ models of the logic that is written in this
repository, the TLC configurations that check them on small instances, and
TLAPS proofs of their main safety properties for every value of the constants.

The repository is the *tile* around the Sargantana core: the adapters between
the core and its caches, the wiring that turns them into a tile for the
OpenPiton system, and the simulator and FPGA support in which the tile runs.
The core, the HPDcache, the instruction cache and the L1.5 translation are git
submodules whose directories are empty here; the models treat them as
environments, as the code in this repository uses them.

    tlc -workers 2 -config MCFetchPath.cfg MCFetchPath     # check one instance
    tlapm DcacheInterfaceProofs.tla                        # check one set of proofs

`PROJECT.json` lists the runs, the mutated definitions that each property
rejects, the source lines of every definition, the hazards and the theorems.

## 1. The system

     core --req/rsp--> dcache_interface --> HPDcache --> hpdcache_to_l15 --> L1.5
      |                                                        ^
      |  fetch                                                 | one-entry FIFO
      +--> icache_interface --+--> instruction cache --miss----+
                              +--> nc_icache_buffer --fetch----+
                                          ^                    |
                                          +---- one grant -----+

In the simulator (`simulator/sim_top.sv`) the right-hand side is replaced by
`l2_behav`, the boot ROM model and the program buffer of the debug module; on
an FPGA by `axi_arbiter`, with `axi_timer` as the time base.

| Component | State | Operations and interaction | What is hard |
|---|---|---|---|
| `dcache_interface` | one IDLE/PENDING bit per register tag, a simulation counter | presents the core's request to the cache unless its tag is PENDING; passes the response on | responses in any order, send and receive in one cycle, two ready/valid gates that must agree, `$fatal`s |
| `nc_icache_buffer` | four-state machine, one line, its address, three pulses | fetches non-cached lines over the memory port of the instruction cache | a kill at any moment; a grant wire shared with the cache; no valid bit |
| `icache_interface` | the pc of the last request | gates the fetch, picks the word of the line | the response belongs to the pc of an earlier cycle |
| `top_tile` | none of its own | merges cache and buffer responses towards the core, both listen to one grant | who owns the grant |
| `l2_behav`: `mem_channel` (two instances) | circular FIFO, three-state control, response registers | delays requests, performs them on the DPI memory, holds the response | pop before delivery, unguarded decrement of the count |
| `l2_behav`: instruction channel | delay counter, busy flag, line | answers one miss after `INST_DELAY` cycles | takes no request while busy, follows the address while it counts |
| `bootrom_behav`, program buffer of `sim_top` | request flag and counter; one response register | answer the non-cached buffer | responder chosen by the address of the moment |
| `l2_behav`: data side | the two `mem_channel`s, one memory | gives the read response port to atomic operations; calls the host when a store to `tohost` is presented | the host runs ahead of the queued writes; two channels on one response port |
| host (`dpi_host.cpp`) | none of its own | reads the arguments of a system call and the text from the memory, writes the result to `fromhost` | atomicity against the channels, the end of the program |
| checkpoints (`sim_top`, `dpi_checkpoint.cpp`, `dpi_checkpoint.h`) | two files, the flag that alternates them (itself saved), the maps behind the model | save every N cycles, restore at the start | a stop within a save, the flag restored with the model, maps that already hold a program |
| memory behind the DPI (`dpi_perfect_memory.cpp`, `loadelf.cpp`) | sparse map of 32-bit words and two maps of symbols, filled from the ELF file | read, masked write, atomic operations, symbol of an address | byte enables against the alignment done in `dcache_interface`, blocks at any offset |
| `drac_openpiton_wrapper`, L1.5 adapter | wake-up counter, one-entry FIFO, request ids | arbitrates five requesters to the L1.5, demultiplexes responses | dropped write-ok, response on two ports at once, invalidations |
| `axi_timer` | time, timecmp, prescaler, AXI4-Lite handshake registers | register reads and writes, tick, interrupt | channels in any order, 64-bit values in halves, prescaler boundary |
| `axi_arbiter` | beat counter, FIFO of misses | joins instruction and data requests to one AXI port | response demultiplexed by the current miss id |
| commit log (`dpi_commit_log.cpp`) | list of changed control and status registers, register file as printed, last `fflags`, a file | one line for each committed instruction, two calls in a cycle | which instruction of the cycle a change belongs to; a file that is closed and opened again |
| Konata log (`dpi_konata.cpp`) | what was in each stage in the last cycle, the instructions in the queue | one call per cycle, writes what has changed | flushes against what was remembered, cycles that are not logged |
| rename checker | a copy of the register map | not instantiated | |

What makes each one correct, in one line:

* `dcache_interface`: a tag names at most one unanswered operation; the core
  and the cache agree on what was handed over; no tag stays blocked.
* fetch path: the fetch stage gets the instruction of the pc it waits for,
  whatever was killed before; each grant has one owner; every fetch is answered.
* simulated memory: accepted requests are performed in order and answered once.
* simulator responders: together they are one memory that answers each fetch
  once, in order, with its own line.
* data side and host: each response reaches the port that asked, and a fenced
  system call is executed once, with its own arguments, and returns.
* checkpoints: two good files hold the last two states, memory included.
* logs: each instruction is shown with what it did itself, in order, and never
  where it is not.
* `axi_timer`: one response per transfer, a 64-bit monotonic time, an exact
  comparison.
* L1.5 adapter and arbiter: every request is forwarded once, every response
  reaches the port that asked.

## 2. Modules

| Module | Models | Composes |
|---|---|---|
| `TagService` | what the core is promised by its data path (abstract) | |
| `DcacheInterface` | `dcache_interface.sv` 193-278 | refines `TagService` |
| `DcacheInterfaceProofs` | theorems about both models of `dcache_interface.sv`: `DcacheInterface` and `StorePath` | |
| `NcIcacheBuffer` | `nc_icache_buffer.sv` | |
| `FetchPath` | `icache_interface.sv`, `top_tile.sv` 312-315 and 405-484 | extends `NcIcacheBuffer`, with fetch stage, cache and memory as environment |
| `SimFetch` | `sim_top.sv` 45-123 and 192-217, `bootrom_behav.sv`, instruction channel of `l2_behav.sv` | extends `FetchPath`; refines its `Spec` |
| `MemService` | what a requester is promised by a memory channel (abstract) | |
| `MemChannel` | `mem_channel` of `l2_behav.sv` | refines `MemService` |
| `MemChannelProofs` | theorems about `MemChannel` | |
| `AxiTimer`, `AxiTimerProofs` | `axi_timer.sv` and theorems about it | |
| `HostService` | what a program is promised by the host (abstract) | |
| `HostLink` | data side of `l2_behav.sv` 343-468, `dpi_host.cpp` | two instances of `MemChannel`; refines `HostService` |
| `Checkpoint` | checkpoint monitor of `sim_top.sv`, `dpi_checkpoint.cpp`, `dpi_checkpoint.h` | |
| `PerfectMemory` | `dpi_perfect_memory.cpp` without atomics, segments of `loadelf.cpp` | |
| `StorePath` | alignment of `dcache_interface.sv` 109-181, `memory_amo`, the text of `dpi_host.cpp` 31-40 | extends `PerfectMemory` |
| `SymbolTable` | symbols of `loadelf.cpp` 43-69 and of `dpi_perfect_memory.cpp` | |
| `CommitTrace` | what the reader of the commit log is promised (abstract) | |
| `CommitLog` | `dpi_commit_log.cpp` | extends `SymbolTable`; refines `CommitTrace` |
| `Konata` | `dpi_konata.cpp` | with the pipeline of the core as environment |
| `FetchPathProofs` | theorems about `FetchPath` and `SimFetch` | |
| `HostLinkProofs` | theorems about `HostLink` | `MemChannelProofs`, instantiated for each channel |
| `CheckpointProofs`, `CommitLogProofs`, `KonataProofs` | theorems about these modules | |
| `MC<module>` | instances: model values and bounds | one per module that is checked |

Conventions. A variable is a register (or an external party) and keeps its
name; an operator with the name of a wire is that wire; `x_next` or `x_d` is
the value the register `x` takes at the edge. All non-blocking assignments of
an edge are one `ClockEdge` (or `Cycle`) step whose parameters are the inputs
of that cycle. Data is abstracted to what tells two values apart: an address
of the fetch path is the 8-byte line, a line of data is named by the line it
was read from, a memory is one location holding the tag of its last writer.
`Spec` is the safety part, `FairSpec` adds fairness (the fetch modules have it
in `Spec` and `SimSpec`).

### DcacheInterface

`transaction_table` and `transactions_in_flight` are the registers of the
code. `req_cpu_dcache` is the request the core presents. `core_waits` and
`dcache_owes` are two ghost counts per tag, each updated from its own side of
the handshake: the core's from `resp_dcache_cpu_o.ready`, the cache's from
`req_valid & dcache_ready`. That they never differ is what the two separate
gates of the code (lines 73 and 223) must achieve. A flush may withdraw a
request; a prefetch has `need_rsp = 0` and touches no entry. Reset is an
action, so the properties hold across resets.

### NcIcacheBuffer, FetchPath

`NcEdge` is the state machine and the registers; `Cycle` is one cycle of the
buffer, the fetch interface, the tile wiring, and the three environments. The
assumptions on the environments are:

* the fetch stage has one fetch outstanding, presents the next when the last
  is answered or dropped, and drops on a kill or an invalidation;
* the cache accepts nothing while a miss is outstanding; a killed miss waits
  for its refill; it fills from the first grant it sees;
* the memory answers in order, and a grant carries data or an invalidation.

Nothing says that a grant belongs to the party that listens: this is
`OneRequestInMemory` and `WaitsForItsOwnGrant`, and follows from the gating of
`tile_ready` by the busy signal of the buffer. A non-cached fetch outside the
mapped sections is accepted by both handshakes and forgotten, as in the code.
Reset is the initial state.

### SimFetch

The grant of `FetchPath` is no longer chosen by an abstract memory but computed
from the registers of the boot ROM, the program buffer and the L2 instruction
channel. `mem_reqs` becomes a record of what was asked, and the property
`FetchPathSpec` (the whole `Spec` of `FetchPath`, fairness included) says that
the three responders are such a memory. Two facts of the environment are used:
the request of the cache is a pulse of one cycle and its address is held
during the miss, and the debug module answers the program buffer in the cycle
of the request. No mapped non-cached line outside both sections is fetched:
such a fetch selects the unconnected input of the multiplexer and is never
answered.

### MemChannel

The FIFO slots, both pointers, `count`, the control state and the response
registers. The 64-bit time stamps are replaced by an age that saturates at
`DELAY`. `Reset` is an action and, as in the code, does not clear the slots and
leaves their write enabled. A request is any record with a tag and a command
(`Ops`): the channel looks at nothing else, and its user puts there what it needs.

### AxiTimer

All registers; the master raises each channel in its own time and holds it.
`aw_owed`, `w_owed` and `ar_owed` are ghost counts of what was accepted and not
answered. Strobes are all high or all low. A master has one read outstanding
(`MaxReads`): the slave asserts `arready` without looking at a pending
response, and its comment "This design expects no outstanding transactions"
is the assumption.

### Checkpoint

The model's state is its cycle and `checkpointFile1`. A save opens (and so
truncates) the file, then writes it; `Stop` may come between. `Restore` needs
an intact file. `memoryContents` is what lies behind the DPI, and `stream` the
part of each file that `dpi_checkpoint.h` writes: each map as its length and its
pairs, read back in the same order into maps that already hold the program of
the command line. `at_save` is a ghost copy of what was saved. Whether the saved
cycle is before or after its increment
depends on the order in which the compiled model evaluates two blocks of one
edge, so both are possible.

### PerfectMemory, StorePath

A word of the memory is a function from four lanes to bytes; the calls of
`Memory32::write` that one operation makes to different words are one
`WriteBytes`. `StorePath` keeps beside it `bytes`, the memory as software sees
it, on which an operation is defined without words, masks, lanes or sign
extension. Bitwise operations on two bytes are constants, so that the proofs do
not depend on them; `MCStorePath` gives them their values. `HostWrite` is the loop with which the host copies the buffer of a
system call out of the words. What is assumed of the parts between core and memory:

* the core traps an access that is not a multiple of its size;
* the HPDcache hands line, byte enables and address on, in order, and turns an
  AND of the core into CLR with an inverted operand;
* whether a store-conditional may write is decided by the HPDcache: the memory
  performs each STEX it is given;
* addresses are below 4 GiB, of which the memory keeps 32 bits, and `addr_max`
  is zero as in every use;
* the buffer that the host prints is aligned to a word, as the code asserts.

### HostLink

Both data channels with all their registers, over one memory of six words; the
tag of a request stands for its address, since each word has at most one request
outstanding. At an
edge, the read channel, the write channel and the host may use the memory in any
order, as the order of the `always` blocks is not defined. The environment is

* the HPDcache: one request of each kind presented at a time, one outstanding
  request for each word, the address and the data of a write presented in any
  order, the two halves of an atomic response taken together (the assertion of
  lines 434-437);
* the program, which follows the protocol of the RISC-V tests, with a fence
  before the store to `tohost`, a poll of `fromhost` that is not cached, and a
  store of zero when a result was read.

Without the fence the arguments could still be in the FIFO of the write channel
when the host reads the memory: the monitor looks at the request port, not at the
end of the FIFO. This is the reason for `HostServiceSpec`, which says that the
fence is enough. The store to `tohost` itself is always performed after the call.
The text of a call is not empty: a result of zero could not be told from none.

### CommitLog, SymbolTable, CommitTrace

`dump_file` in operators that follow its parts: header, flags, registers, other
registers, memory, exception. A line is a sequence of named numbers. `file` is
the `ofstream`: what is buffered, what is on disk, and whether it is open, closed
or failed. The environment is the commit stage: an exception comes last in a
cycle, an instruction that uses a control and status register first, and `fflags`
is reported once for both. `CommitTrace` shows each instruction what it did on
its own; that the shared list, the erased entries and `last_fflags` amount to
that is `TraceSpec`. The list is kept as two, the values reported for `fflags` and the
other changes: the code tells the two kinds apart at every use, and prints the
first before the second. `last_fflags` is never initialised and starts with any value.
An exception leaves what was reported for it in the list (line 80 does not clear
it): the model's core reports nothing for an instruction that raises one.

### Konata

`konata_dump` has one operator for each stage, in the order of the code; `Shown`
applies the events S and R as the viewer does. The event I introduces an
instruction (`first_events`): the viewer knows nothing of one before it, and what
the log says later of one that was never introduced shows nothing. That the viewer
ignores such records is assumed of Konata, which is outside the repository. The
histories `held` and `unlogged` remember what the properties have to except: the
instructions that stalled in IF1, and those that entered the queue before a cycle
that was not logged. The pipeline is an environment that moves
instructions as the inputs of the log say. `Possible` is what is assumed of it: a
stall begins at a stage that holds an instruction, a full queue stalls decode, a
full set of units stalls execute, a jump leaves from decode and a branch from
execute.

## 3. Runs

| Run | Instance | What it shows |
|---|---|---|
| `dcache_interface` | 5 tags, one prefetch type, 8 counter states | `NeverRespondedTwice` (a `$fatal`), `PendingIsOwed`, `CoreAndDcacheAgree`, `InFlightCountsPending`; `RequestEventuallyTaken`; refines `TagService` |
| `fetch_path` | 2 mapped non-cached lines, 1 unmapped, 1 cached, 2 words | `FetchGetsItsInstruction`, `HitHoldsLine`, `OneRequestInMemory`, `WaitsForItsOwnGrant`; `FetchAnswered` |
| `sim_fetch` | 2 boot ROM lines, 1 program buffer line, 1 cached line, `BROM_DELAY` 3 as in the code, `INST_DELAY` 5 | `GrantAnswersOldest`, `NoRequestLost`; refines `FetchPath` |
| `mem_channel` | 2 slots, delay 2, 2 tags | `PopsOnlyDueEntry`; `EveryRequestAnswered`; refines `MemService` |
| `host_link` | two channels of 2 slots, delay 1, two calls told apart by their argument | `PortsAgree`; `SyscallReturns`; refines `HostService` |
| `axi_timer` | one-bit halves, prescaler of 3 states, all registers written, two read | `WriteAnsweredOnce`, `ReadAnsweredOnce`, `IrqIsComparison`, `TimeStepsByOne`; `WriteAccepted`, `TimeAdvances` |
| `checkpoint` | a checkpoint every 2 cycles, six in a simulation, two programs, any number of restarts | `LastTwoSaved`, `RestoredAsSaved` |
| `checkpoint_restore` | as above | `OverwritesOldest` is violated (finding 1) |
| `store_path` | two lines of 32 bytes, bytes of two bits, three operations in a row | `MemoryHoldsBytes`, `AtomicReturnsOldLine`, `HostWritesString` |
| `store_path_short_block` | as above, with short segments | `MemoryHoldsBytes` is violated (finding 2) |
| `commit_log` | 22 kinds of instructions, one for each branch of `dump_file`, two values of `fflags`, any number of cycles | `FileHoldsTrace`; refines `CommitTrace` |
| `konata` | 4 instructions, a queue of 2, 2 units, one quiet cycle in a row | `ShownIsReached`, `LoggedQueueIsReal`, `CommittedIsShown`; `StagesMoveForward` |

Why the bounds are enough:

* *Tags* interact only through the shared counter and the single request port.
  A tag that is waited for, one sent, one or two answered and one idle need five.
* *Fetch lines*: the buffer holds one line and at most one is in flight, so a
  hit, a replacement and a killed fetch need two mapped lines; the unmapped and
  the cached one are the other two routes a fetch can take.
* *INST_DELAY* only has to be longer than the boot ROM's answer, so that every
  other responder can be asked and answer while the channel is busy.
* *Two slots* let the FIFO be empty, partly filled and full, wrap around and be
  written and read in one cycle. The theorems cover every size.
* *One-bit halves* make every carry, the wrap-around and every order of the
  four halves of the comparison reachable. The theorems cover every width.
* *Six checkpoints* let each file be written, torn, restored and rewritten in
  every order in one or several processes.
* *Two slots and a delay of one* let the write channel hold a store to
  `fromhost` behind another one while the host is called, and an atomic response
  meet a read response. Two calls are enough to print an old argument.
* *Four instructions* let a flush meet two in the queue and one on its way
  there, while an older one executes. One quiet cycle lets the remembered state
  age; it does not change further in those that follow it. The theorems cover any
  number.
* *Two commits in a cycle* is what the core does; the state left from one cycle
  to the next is the register file, the list and `last_fflags`.
* *Three operations* let a store be followed by an atomic operation on the same
  bytes and a neighbour, after a segment or not; each operation is right or
  wrong on its own, so longer sequences only vary the old contents. Two-bit
  bytes make every sign and carry of words and double words reachable.

### Fairness

* The clock runs: weak fairness of the edge in every module.
* `DcacheInterface`: the cache answers each operation it took, and is ready
  again in the end. Withdrawing is not fair, so it rescues no waiting request.
* `FetchPath`: memory does not stay silent for ever while it owes an answer.
  The fair step has no kill, so a kill rescues nothing. In `SimFetch` this
  assumption is gone: only the clock is fair, and the liveness of the memory is
  proved of the responders by TLC.
* `MemChannel`, `AxiTimer`: the other side takes a response in the end.
* `HostLink`: the clock runs with the cache ready (a weak step in which both
  responses can be taken), a write that is begun is presented whole, and the
  program goes on polling. Other reads do not overtake a poll for ever. Nothing
  is assumed of the order of the blocks at an edge.
* `Checkpoint`, `StorePath`, `CommitLog` and `Konata` have safety properties only.

## 4. Findings

1. `sim_top.sv:557` saves the model before inverting `checkpointFile1`. A
   simulation restored from the newest file therefore writes its first
   checkpoint over that very file; `README.md:91` says that it "overwrites the
   oldest one" (`checkpoint_restore`). Within one process, and once two
   checkpoints were written, `LastTwoSaved` holds all the same. It counts the
   checkpoints of one process: what a restored process does to those of the one
   before it is the subject of `OverwritesOldest`.
2. `dpi_perfect_memory.cpp:169` shifts the mask of an unaligned block that ends
   in its first word by `m_size - size` from four ones, although `m_size` is
   less than four: a byte after the block is overwritten too, with what follows
   the buffer (`store_path_short_block`). `loadelf.hpp:12` gives the callback
   as `write(paddr, size, pbuffer)`. Only the tail of a segment within one word
   can meet it: the run `store_path` has segments that begin at a word or reach
   the end of the word they begin in.

Seen while reading or modelling, and not the subject of a run:

* `nc_icache_buffer.sv:121` empties the buffer by setting its address to 0, and
  there is no valid bit. With address 0 in a mapped non-cached section, a fetch
  of that line after a reset or a kill hits a buffer that does not hold it,
  against the comment of line 115 "the instruction is in the buffer". The run
  `fetch_path` and the theorems `FetchesAreRight` and `HitsAreRight` assume no
  such mapping.
* `axi_timer.sv:273` counts 0 to 1000 inclusive, so a tick takes 1001 cycles;
  the comment of line 272 says "1 tic per 1000 clk cycles".
* `dpi_konata.cpp:150` tests every writeback port but that of stores, so an
  instruction that a store port writes back in an otherwise quiet cycle is never
  shown as committed; `CommittedIsShown` leaves these out.
* `dpi_konata.cpp:158` writes the event I, which introduces an instruction to the
  viewer, only if IF1 does not stall and the instruction is not `last_if1_id`;
  line 271 updates `last_if1_id` whether it was written or not. An instruction that
  stalls in its first cycle in IF1 is therefore never introduced, and none of its
  later events, its writeback included, is shown. `CommittedIsShown` says so
  of these, and promises the writeback of the others.
* `dpi_konata.cpp:179` shows that an instruction entered the queue one cycle late,
  from `last_id_valid`. If that cycle is not logged the event is lost, and a later
  flush does not take the instruction out of the viewer. `LoggedQueueIsReal` says
  that only these are missing from the queue of the log.
* `dpi_commit_log.cpp:58` (`commit_log_dump_amo_write`) has no caller, so that an
  atomic operation shows neither address nor data; `last_fflags` has no initial
  value.
* `dpi_host.cpp:37` reads words at the address of the buffer plus multiples of
  four, which trips the assertion of `dpi_perfect_memory.cpp:194` for an
  unaligned buffer; a program without the symbol `fromhost` gets its result at
  address 0; an unknown call, or one that writes nothing, never returns.
* `sim_top.sv:536` multiplies the argument `checkpoint_Mcycles` by 10, where
  `README.md:91` speaks of millions of cycles.
* `dpi_rename_checking.cpp:106` reads the same element in each iteration, in code
  that nothing instantiates.

## 5. Proofs

All theorems are about `Spec` and hold for every value of the constants that
the named assumption of the module allows.

**DcacheInterface** (`DcacheAssumption`: finitely many tags, fewer than the
states of the counter). The properties are not inductive one by one: that the
cache owes a tag at most once follows from the table blocking it, that the
table blocks it follows from the table agreeing with the cache, and the
counter is right only if each response finds its entry PENDING. `IInv` joins
`TypeOK`, `OwedIsPending` (the cache owes exactly one operation of each PENDING
tag and none of the others), `CoreAndDcacheAgree` and `InFlightCountsPending`.
The step of `ClockEdge` splits on whether a tag is sent and whether one is
received; the cardinality of `Pending` changes by `FiniteSetTheorems`, and the
modulo of the counter is removed because `Cardinality(Tids) < CounterStates`.
From it: `TypeCorrect`, `FatalsUnreachable`, `NoStaleEntry`, `Agreement`,
`CounterExact`, and `ImplementsTagService`, the safety part of the refinement.

**MemChannel** (`MemChannelAssumption`). `IInv` joins `TypeOK`,
`PointersAgree`, `LiveSlotsHold` (a slot between the pointers holds an entry)
and `HeadDue` (in S_MEM_INTERFACE the head exists and is due). The last is what
makes the unguarded decrement harmless. From it: `TypeCorrect`,
`PointersConsistent`, `PopsAreDue`. `ChannelIsMemory` is the refinement of
`MemService`, which says that requests are performed in the order of their
acceptance and answered once. Its queue is `Queued`, the slots seen through the
pointers, and the lemma `QueuedAfterEdge` is the heart of the proof: an edge
appends the accepted request to that queue, and drops its head when it is
performed, at every position of the pointers and in one edge if need be. It also
needs `ResponseAssumption`: zero, and the absence of a response, are told from
the tags.

**HostLink** (`HostLinkAssumption`: any size and delay of the channels, any set of
calls, and model values that differ). The lemmas about a channel are used twice,
`RP!` for the read channel and `WP!` for the write channel, so that nothing about
slots and pointers is proved again. `LinkInv` joins

* `ChannelsInv`, the `FifoInv` of each channel, and `PortsAgree` itself;
* `ReadsInv` and `WritesInv`: no two requests of a channel have the same tag,
  `lock` is the only word of atomic operations, and a response shown is of no
  request that is still queued. Without them a response could take away what the
  cache waits for on behalf of another request, and `PortsAgree` would not hold
  after the next edge;
* `ArgumentsInv`: in the phase in which the program stores its arguments, each one
  stored is in the memory or in a request that the memory has not seen yet
  (`Unperformed`), with its own value. With the fence nothing is unperformed, so
  that the memory holds the arguments when the store to `tohost` is presented;
* `CalledInv`: while that store is presented the write channel is idle, the call
  is not executed and `fromhost` is zero; once it is accepted, the call is
  executed. A result read is therefore the result of this call;
* `QuietInv`: outside of a call nothing polls, and `fromhost` is zero again once
  the program's store of zero is performed, so that the next poll cannot read the
  result of the last call.

One edge is split by what it does to the write channel, to the memory and to
`awaits_r` and `awaits_w`; the order of the three blocks at an edge
(`MemoryEdge`) is a case split, and all orders give the same result because the
two writers write different words. From it: `PortsAgreeAlways`, `CallsAreServed`
(the refinement of `HostService`).

**AxiTimer** (`AxiTimerAssumption`: halves of at least two values, any period).
`IInv` joins `TypeOK`, `WriteChannel` (the four handshake registers of the
write side and the owed counts take only four combinations) and `ReadIsOwed`.
`ReadsAnsweredOnce` needs `MaxReads = 1`, stated as its assumption, and a
further invariant `ReadChannel` over the address register. `IrqCompares` and
`TimeSteps` rest on two arithmetic lemmas: `Halves`, that lexicographic order
of the halves is the order of the 64-bit values, and `CarryIsRight`, that the
two conditional increments are one increment modulo `HALF * HALF`.

**FetchPath** (`NcAssumption`, `FetchAssumption`: any sets of lines;
`FetchesAreRight` and `HitsAreRight` assume besides that the line of address 0 is
not a mapped non-cached one). `ControlInv` ties the
states of the buffer and of the cache to the content of the memory side: it
holds nothing, the request of the buffer alone, or the request of the cache
alone, and the party whose request it holds is the one that waits. It is
inductive because a busy buffer or a busy cache accepts no request
(`RequestMeansIdle`), so that no second one can be made. From it:
`OneRequestAtATime`, `OwnGrantAwaited`. `DataInv` adds that whoever works for the
fetch works for the line of the fetch, that the buffer and the cache hold the
line they name, and that the fetch got its instruction; that a grant carries the
line of the one that waits (`GrantedLine`) is `ControlInv` again. From it:
`FetchesAreRight`, `HitsAreRight`.

**SimFetch** (in the same proof module, `SimFetchAssumption` besides the two others).
`SimInv` says where a request is: it relates the oldest one in `mem_reqs` to the
registers of the one responder that has it, and every other responder is idle,
because `ControlInv` leaves at most one request in the memory side. From it:
`GrantsAnswerTheOldest`, `RequestsAreKept`. A grant computed from the registers
is then one that `FetchPath` allows (`SimIsFetchPath`, the safety part of the
refinement), so that what is proved of fetches holds with the responders
(`SimFetchesAreRight`).

**Checkpoint** (`CheckpointAssumption`: a period of at least one, programs and
stores that are finite maps of numbers). `LastTwoSaved`
speaks of quotients; the invariant says instead that the file not chosen holds
the last multiple of the period before `cycles`, and, after two saves, the chosen
one the multiple before it. The file not chosen is the one no save opens, which is
why the last checkpoint survives an interrupted one. Four lemmas on multiples of `Period` connect the two.
From it: `LastTwoSavedAlways`. `RestoredAsSavedAlways` rests on `MapReadBack`: a
map that was written as its length and its pairs, in any order of its keys, is
read back as it was, whatever stood in its place, and what is left of the stream
begins behind it; `MemoryReadBack` puts two maps and `addr_max` one behind the
other. `StreamsInv` says that each intact file holds the stream of the memory of
its moment; a torn one holds nothing that is ever read.

**CommitLog** (`CommitLogAssumption`, which also says that an instruction that
raises an exception reports no changes; `SymbolTableAssumption`). The stream is
followed through `dump_file`: each operation on it takes an open or closed stream
to an open or closed one and keeps what earlier cycles have written. From it:
`FileHoldsTraceAlways`. `TraceIsImplemented` is the refinement of `CommitTrace`.
Its invariant `ListInv` says what the shared list holds at each of the three
moments of a cycle: nothing when all are logged; the changes of both instructions
before the first; and before the last one exactly its own, or no `fflags` but
their value in `last_fflags`, when the first one took them. `FlagsAreRight` and
`CommitLineIsRight` show that in both cases the line printed is the one that the
instruction would have got on its own.

**Konata** (`KonataAssumption`). The four properties are proved together, as the
queue that a flush empties is part of what the viewer shows. `QueueInv` adds to
`LoggedIsQueued`, one half of `LoggedQueueIsReal`, that the instruction the log remembers as sent is in the real
queue already (`SentIsQueued`). `PipelineInv` says that each instruction is in
one place (`OnePlace`), so that the stage it has `Reached` only grows
(`ReachedStep`). `ViewInv` adds the properties of the view to `IntroductionInv`,
which `CommittedIsShown` rests on: an instruction in IF1 is `last_if1_id` exactly
if it has stalled there, one that has is unknown to the viewer for ever, and every
other one behind IF1 is known. `Introduces` shows that no block but the first makes
an instruction known or forgets it. The view
of a cycle is built block by block, and each block is shown to keep `Fits`: an
instruction stays as it was shown or moves to a stage between the one it was in
and the one it goes to. This is what makes a remembered register, true one cycle
ago, still not ahead of the instruction, and it is `StagesMoveForward` too. From
it: `ShownIsReachedAlways`, `CommittedIsShownAlways`,
`StagesMoveForwardAlways`, `LoggedQueueIsRealAlways`.

**StorePath** (`MemoryAssumption`, `StorePathAssumption`: any line, vector length
and width of a byte, a line being a number of accesses of each size; in the proof
module of `DcacheInterface`). All theorems assume `WholeSegments`: each
block of a segment begins at a word, is empty, or reaches the end of the word it
begins in. Finding 2 is that the property fails without it. `StoreIInv` is
`BytesAgree`, each byte of the words is the one software left there, and the two
equalities of `AtomicReturnsOldLine` and `HostWritesString`, which need it at the
step that takes their values.

* `WrittenByte` says what a masked write of words is, byte by byte; with
  `Alignment` (the lanes of an aligned access are those of its address, and inside
  the line) a store replaces its own bytes and no others. `WholeBlock` is the same
  for the prologue, loop and epilogue of a block.
* `AtomicsComputeTheirWidth` is about `memory_amo` alone: all operations are done on
  64 bits, with the sign of 32-bit operands extended. The sum has the low
  word of the 32-bit sum (`SumOfWords`, `ModuloOfModulo`), the comparisons, signed
  and unsigned, decide alike (`Comparisons`), and the bitwise operations work on
  each byte alone (`BitwiseBytes`, `Complement`). It rests on what it means to be a
  digit (`Digits`, `WordBytes`, `DoubleBytes`): values of words are polynomials in
  `BASE`, not the bits of a number of fixed width.

From it: `StoresAreExact`, `MemoryHoldsBytesAlways`, `AtomicsReturnOldLine`,
`HostWritesStrings`.

Model-checked only: every liveness property, and the fairness of the refinements,
which are out of the prover's reach. Each safety invariant and action property of
the passing runs is stated by a theorem, but for these assumptions: `StorePath`
for segments without short blocks, `FetchPath` without the line of address 0,
`ReadsAnsweredOnce` for one read at a time.

## 6. Not modelled

* The core, the HPDcache, the instruction cache, `hpdcache_to_l15`, common
  cells, the AXI library and the debug module: submodules, not in the
  repository. They appear as environments.
* `sargantana_subtile`, `axi_wrapper`, `sargantana_wrapper`: connections. The
  program-buffer multiplexer of `axi_wrapper` is that of `sim_top`, which
  `SimFetch` models from there.
* `bin2hex`, the UART and the vendor AXI models: conversion and I/O.
* The rename checker: no module instantiates it.
* `svdpi.h` and `elf.h`: declarations of the DPI and of the ELF format.
* Number formats, disassembly and labels in the two logs; the names of the units
  of execution.
* In `dcache_interface`, the table of operation codes and the split of the
  address (lines 53-107), which have no state.
* The order in which Verilator evaluates blocks of one edge: where it matters
  every order is allowed. A model that is saved in the middle of its own
  evaluation (`sim_top.sv:557`) is represented by its registers alone.
* The test benches: read for what they say of the modules.
* The LaTeX documents under `doc/` describe a state machine of the data cache
  interface that the code no longer has; no property is taken from them.

## 7. Plan

The order is by how much of a running program depends on the part.

Done, each with its proofs: `DcacheInterface`, `NcIcacheBuffer` and `FetchPath`,
`SimFetch`, `MemChannel`, `HostLink`, `AxiTimer`, `Checkpoint`, `PerfectMemory` and
`StorePath`, `SymbolTable` and `CommitLog`, `Konata`.

Left, in this order:

1. `L15Adapter`, `WakeUp`: arbitration, the one-entry FIFO, the response
   demultiplexer and the invalidation path of the OpenPiton adapter; the
   wake-up counter of the wrapper.
2. `AxiArbiter`: the response demultiplexer and the FIFO of misses.

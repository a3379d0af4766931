-------------------------- MODULE MemChannelProofs --------------------------
(***************************************************************************)
(* Theorems about MemChannel, for every size, delay and set of tags.       *)
(*                                                                         *)
(* The counter is decremented without looking at empty, so that neither    *)
(* TypeOK nor PointersAgree is inductive: that a pop finds an entry rests  *)
(* on the state machine having seen a due entry one edge earlier, and on   *)
(* that entry still being at the head.                                     *)
(***************************************************************************)
EXTENDS MemChannel, SequenceTheorems, TLAPS

(* The slot j lies between the read and the write pointer.                 *)
Live(j) ==
  (read_ptr <= j /\ j < read_ptr + count) \/ j < read_ptr + count - SIZE

(* Every slot between the pointers holds an entry.                         *)
LiveSlotsHold == \A j \in 0 .. SIZE - 1 : Live(j) => memory[j] # NoEntry

(* In S_MEM_INTERFACE the head is an entry that is due.                    *)
HeadDue ==
  state = "S_MEM_INTERFACE" => count > 0 /\ head.age = DELAY

FifoInv == FifoTypeOK /\ PointersAgree /\ LiveSlotsHold /\ HeadDue

IInv == TypeOK /\ FifoInv

-----------------------------------------------------------------------------
(* A pointer or a position less than two rounds ahead wraps around once.   *)
LEMMA Wrap ==
  ASSUME NEW n \in Nat \ {0}, NEW x \in 0 .. 2 * n - 1
  PROVE  x % n = IF x < n THEN x ELSE x - n
<1>1. CASE x < n BY <1>1, SMT
<1>2. CASE x >= n
  <2>1. x = (x - n) + 1 * n /\ x - n \in 0 .. n - 1 BY <1>2, SMT
  <2>2. QED BY <2>1, SMT
<1>3. QED BY <1>1, <1>2, SMT

(* The next slot after a slot.                                             *)
LEMMA NextSlot ==
  ASSUME NEW p \in 0 .. SIZE - 1
  PROVE  (p + 1) % SIZE = IF p + 1 = SIZE THEN 0 ELSE p + 1
<1>1. SIZE \in Nat \ {0}
  BY MemChannelAssumption
<1>2. QED BY <1>1, Wrap, SMT

(* PointersAgree without the remainder.                                    *)
LEMMA AgreeUnfolded ==
  ASSUME NEW r \in 0 .. SIZE - 1, NEW c \in 0 .. SIZE
  PROVE  (r + c) % SIZE = IF r + c < SIZE THEN r + c ELSE (r + c) - SIZE
<1>1. SIZE \in Nat \ {0} /\ (r + c) \in 0 .. 2 * SIZE - 1
  BY MemChannelAssumption
<1>2. QED BY <1>1, Wrap

-----------------------------------------------------------------------------
(* An entry one cycle older is an entry, and a due entry stays as it is.   *)
LEMMA OlderEntry ==
  /\ \A e \in Entries : Older(e) \in Entries
  /\ Older(NoEntry) = NoEntry
  /\ \A e \in Entries : e.age = DELAY => Older(e) = e
  /\ \A e \in Entries : Older(e).op = e.op
BY MemChannelAssumption DEF Older, Entries

(* What is accepted is an operation, and there is room for it.             *)
LEMMA WriteFits ==
  ASSUME FifoInv, NEW req \in Ops \cup {NoReq}, fifo_write(req)
  PROVE  req \in Ops /\ count < SIZE
BY MemChannelAssumption DEF FifoInv, FifoTypeOK, fifo_write, full

(* What is popped is an entry that is due.                                 *)
LEMMA ReadDue ==
  ASSUME FifoInv, fifo_read
  PROVE  count > 0 /\ head \in Entries /\ head.age = DELAY
<1>1. count > 0 /\ head.age = DELAY
  BY DEF FifoInv, HeadDue, fifo_read
<1>2. read_ptr \in 0 .. SIZE - 1 /\ Live(read_ptr)
  BY <1>1 DEF FifoInv, FifoTypeOK, Live
<1>3. head # NoEntry
  BY <1>2 DEF FifoInv, LiveSlotsHold, head
<1>4. QED
  BY <1>1, <1>2, <1>3 DEF FifoInv, FifoTypeOK, head

(* The slots after an edge.                                                *)
LEMMA SlotsAfterEdge ==
  ASSUME FifoInv, NEW req \in Ops \cup {NoReq}, memory' = slots_next(req)
  PROVE  /\ memory' \in [0 .. SIZE - 1 -> Entries \cup {NoEntry}]
         /\ \A j \in 0 .. SIZE - 1 :
              /\ memory[j] # NoEntry => memory'[j] # NoEntry
              /\ fifo_write(req) /\ j = write_ptr => memory'[j] # NoEntry
              /\ ~(fifo_write(req) /\ j = write_ptr) => memory'[j] = Older(memory[j])
<1> DEFINE fresh == [op |-> req, age |-> 1]
<1>1. fifo_write(req) => fresh \in Entries
  BY WriteFits, MemChannelAssumption DEF Entries
<1>2. NoEntry \notin Entries
  BY MemChannelAssumption
<1>3. \A j \in 0 .. SIZE - 1 :
        memory[j] \in Entries \cup {NoEntry}
  BY DEF FifoInv, FifoTypeOK
<1>4. \A j \in 0 .. SIZE - 1 :
        memory'[j] = IF fifo_write(req) /\ j = write_ptr THEN fresh ELSE Older(memory[j])
  BY DEF slots_next
<1>5. \A j \in 0 .. SIZE - 1 : Older(memory[j]) \in Entries \cup {NoEntry}
  BY <1>3, OlderEntry
<1>6. memory' \in [0 .. SIZE - 1 -> Entries \cup {NoEntry}]
  BY <1>1, <1>5 DEF slots_next
<1>7. \A j \in 0 .. SIZE - 1 : memory[j] # NoEntry => Older(memory[j]) # NoEntry
  BY <1>2, <1>3, OlderEntry
<1> HIDE DEF fresh
<1>8. QED BY <1>1, <1>2, <1>4, <1>6, <1>7

-----------------------------------------------------------------------------
(* A rising edge keeps the invariant of the FIFO.                          *)
LEMMA FifoEdgeKeeps ==
  ASSUME FifoInv, NEW req \in Ops \cup {NoReq}, NEW rsp_ready_i \in BOOLEAN,
         FifoEdge(req), state' = state_next(rsp_ready_i)
  PROVE  FifoInv'
<1> DEFINE write == fifo_write(req)
           read  == fifo_read
<1>1. /\ write \in BOOLEAN /\ read \in BOOLEAN
      /\ SIZE \in Nat \ {0}
      /\ write_ptr \in 0 .. SIZE - 1 /\ read_ptr \in 0 .. SIZE - 1
      /\ count \in 0 .. SIZE
      /\ write => count < SIZE
      /\ read => count > 0
  BY WriteFits, ReadDue, MemChannelAssumption DEF FifoInv, FifoTypeOK, fifo_write, fifo_read
<1>2. /\ memory' = slots_next(req)
      /\ write_ptr' = IF write THEN (write_ptr + 1) % SIZE ELSE write_ptr
      /\ read_ptr' = IF read THEN (read_ptr + 1) % SIZE ELSE read_ptr
      /\ count' = IF write /\ ~read THEN count + 1
                  ELSE IF read /\ ~write THEN count - 1 ELSE count
  BY <1>1 DEF FifoEdge, count_next, empty
<1>3. state' = state_next(rsp_ready_i)
  OBVIOUS
<1>4. /\ write_ptr' = IF ~write THEN write_ptr
                      ELSE IF write_ptr + 1 = SIZE THEN 0 ELSE write_ptr + 1
      /\ read_ptr' = IF ~read THEN read_ptr
                     ELSE IF read_ptr + 1 = SIZE THEN 0 ELSE read_ptr + 1
  BY <1>1, <1>2, NextSlot
<1>5. write_ptr = IF read_ptr + count < SIZE THEN read_ptr + count
                  ELSE (read_ptr + count) - SIZE
  BY <1>1, AgreeUnfolded DEF FifoInv, PointersAgree
<1>6. write_ptr' \in 0 .. SIZE - 1 /\ read_ptr' \in 0 .. SIZE - 1 /\ count' \in 0 .. SIZE
  <2> HIDE DEF write, read
  <2>1. QED BY <1>1, <1>2, <1>4
<1>7. FifoTypeOK'
  <2>1. memory' \in [0 .. SIZE - 1 -> Entries \cup {NoEntry}]
    BY <1>2, SlotsAfterEdge
  <2>2. state' \in {"S_WAIT_DELAY", "S_MEM_INTERFACE", "S_WAIT_READY"}
    BY <1>3 DEF FifoInv, FifoTypeOK, state_next
  <2>3. QED BY <1>6, <2>1, <2>2 DEF FifoTypeOK
<1>8. PointersAgree'
  <2> HIDE DEF write, read
  <2>1. write_ptr' = IF read_ptr' + count' < SIZE THEN read_ptr' + count'
                     ELSE (read_ptr' + count') - SIZE
    <3>1. CASE write /\ read BY <1>1, <1>2, <1>4, <1>5, <3>1
    <3>2. CASE write /\ ~read BY <1>1, <1>2, <1>4, <1>5, <3>2
    <3>3. CASE ~write /\ read BY <1>1, <1>2, <1>4, <1>5, <3>3
    <3>4. CASE ~write /\ ~read BY <1>1, <1>2, <1>4, <1>5, <3>4
    <3>5. QED BY <3>1, <3>2, <3>3, <3>4
  <2>2. QED BY <1>6, <2>1, AgreeUnfolded DEF PointersAgree
<1>9. LiveSlotsHold'
  <2> SUFFICES ASSUME NEW j \in 0 .. SIZE - 1, Live(j)'
               PROVE  memory'[j] # NoEntry
    BY DEF LiveSlotsHold
  <2>1. Live(j) \/ (write /\ j = write_ptr)
    <3> HIDE DEF write, read
    <3>1. CASE write /\ read BY <1>1, <1>2, <1>4, <1>5, <3>1 DEF Live
    <3>2. CASE write /\ ~read BY <1>1, <1>2, <1>4, <1>5, <3>2 DEF Live
    <3>3. CASE ~write /\ read BY <1>1, <1>2, <1>4, <1>5, <3>3 DEF Live
    <3>4. CASE ~write /\ ~read BY <1>1, <1>2, <1>4, <1>5, <3>4 DEF Live
    <3>5. QED BY <3>1, <3>2, <3>3, <3>4
  <2>2. QED BY <1>2, <2>1, SlotsAfterEdge DEF FifoInv, LiveSlotsHold
<1>10. HeadDue'
  <2> SUFFICES ASSUME state' = "S_MEM_INTERFACE"
               PROVE  count' > 0 /\ head'.age = DELAY
    BY DEF HeadDue
  <2>1. ~read /\ count > 0 /\ head.age >= DELAY
    BY <1>1, <1>3 DEF state_next, fifo_read, empty, FifoInv, FifoTypeOK
  <2>2. read_ptr' = read_ptr /\ count' > 0 /\ ~(write /\ write_ptr = read_ptr)
    <3> HIDE DEF write, read
    <3>1. QED BY <1>1, <1>2, <1>4, <1>5, <2>1
  <2>3. head' = Older(head)
    BY <1>1, <1>2, <2>2, SlotsAfterEdge DEF head
  <2>4. head \in Entries /\ head.age = DELAY
    <3>1. Live(read_ptr) BY <1>1, <2>1 DEF Live
    <3>2. head \in Entries
      BY <1>1, <3>1 DEF FifoInv, LiveSlotsHold, FifoTypeOK, head
    <3>3. QED BY <2>1, <3>2, MemChannelAssumption DEF Entries
  <2>5. QED BY <2>2, <2>3, <2>4, OlderEntry
<1>11. QED BY <1>7, <1>8, <1>9, <1>10 DEF FifoInv

(* The response registers keep their types.                                *)
LEMMA ClockEdgeKeeps ==
  ASSUME IInv, NEW req \in Ops \cup {NoReq}, NEW rsp_ready_i \in BOOLEAN,
         ClockEdge(req, rsp_ready_i)
  PROVE  IInv'
<1>1. FifoInv'
  BY FifoEdgeKeeps DEF ClockEdge, IInv
<1>2. /\ next_tag' \in Tags \cup {Zero}
      /\ next_data' \in Tags \cup {Zero}
      /\ next_atomic' \in BOOLEAN
      /\ dpi_mem' \in Tags \cup {Zero}
  <2>1. CASE state # "S_MEM_INTERFACE"
    BY <2>1 DEF ClockEdge, DpiEdge, IInv, TypeOK
  <2>2. CASE state = "S_MEM_INTERFACE"
    <3>1. head.op.tag \in Tags
      BY <2>2, ReadDue, MemChannelAssumption DEF IInv, fifo_read, Entries
    <3>2. QED BY <2>2, <3>1 DEF ClockEdge, DpiEdge, IInv, TypeOK
  <2>3. QED BY <2>1, <2>2
<1>3. QED BY <1>1, <1>2 DEF IInv, FifoInv, TypeOK

(* Pointers and count of an empty FIFO.                                    *)
LEMMA EmptyAgrees ==
  0 \in 0 .. SIZE - 1 /\ 0 \in 0 .. SIZE /\ (0 + 0) % SIZE = 0
<1>1. SIZE \in Nat \ {0} /\ 0 \in 0 .. SIZE - 1 /\ 0 \in 0 .. SIZE
  BY MemChannelAssumption
<1>2. QED BY <1>1, SMT

(* So does an edge with rstn_i low: no slot is live after it.              *)
LEMMA ResetKeeps ==
  ASSUME IInv, NEW req \in Ops \cup {NoReq}, Reset(req)
  PROVE  IInv'
<1>1. memory' \in [0 .. SIZE - 1 -> Entries \cup {NoEntry}]
  BY SlotsAfterEdge DEF Reset, IInv
<1>2. TypeOK'
  BY <1>1, EmptyAgrees DEF Reset, IInv, TypeOK, FifoTypeOK
<1>3. PointersAgree'
  BY EmptyAgrees, Zenon DEF Reset, PointersAgree
<1>4. LiveSlotsHold'
  BY MemChannelAssumption DEF Reset, LiveSlotsHold, Live
<1>5. HeadDue'
  BY DEF Reset, HeadDue
<1>6. QED BY <1>2, <1>3, <1>4, <1>5 DEF IInv, FifoInv, TypeOK

(* An empty FIFO satisfies the invariant.                                  *)
LEMMA EmptyFifo ==
  ASSUME memory = [i \in 0 .. SIZE - 1 |-> NoEntry], write_ptr = 0, read_ptr = 0,
         count = 0, state = "S_WAIT_DELAY"
  PROVE  FifoInv
<1>1. FifoTypeOK BY EmptyAgrees DEF FifoTypeOK
<1>2. PointersAgree BY EmptyAgrees, Zenon DEF PointersAgree
<1>3. LiveSlotsHold BY MemChannelAssumption DEF LiveSlotsHold, Live
<1>4. HeadDue BY DEF HeadDue
<1>5. QED BY <1>1, <1>2, <1>3, <1>4 DEF FifoInv

(* The strengthened invariant holds in every reachable state.              *)
THEOREM Invariance == Spec => []IInv
<1>1. Init => IInv
  <2> SUFFICES ASSUME Init PROVE IInv
    OBVIOUS
  <2>1. FifoInv BY EmptyFifo DEF Init
  <2>2. QED BY <2>1 DEF Init, IInv, FifoInv, TypeOK
<1>2. IInv /\ [Next]_vars => IInv'
  <2> SUFFICES ASSUME IInv, [Next]_vars PROVE IInv'
    OBVIOUS
  <2>1. CASE Next BY <2>1, ClockEdgeKeeps, ResetKeeps DEF Next
  <2>2. CASE UNCHANGED vars
    BY <2>2 DEF vars, fifo_vars, IInv, FifoInv, TypeOK, FifoTypeOK, PointersAgree, LiveSlotsHold, Live,
                HeadDue, head
  <2>3. QED BY <2>1, <2>2
<1>3. QED BY <1>1, <1>2, PTL DEF Spec

(* The registers keep their types: count never leaves 0..SIZE, although    *)
(* it is decremented without a look at empty (l2_behav.sv, FIFO pointers). *)
THEOREM TypeCorrect == Spec => []TypeOK
<1>1. IInv => TypeOK BY DEF IInv
<1>2. QED BY <1>1, Invariance, PTL

(* The write pointer is always count slots ahead of the read pointer, so   *)
(* that no accepted request is overwritten or read twice.                  *)
THEOREM PointersConsistent == Spec => []PointersAgree
<1>1. IInv => PointersAgree BY DEF IInv, FifoInv
<1>2. QED BY <1>1, Invariance, PTL

(* The memory interface pops, and performs on the memory, only an entry    *)
(* that was accepted and has waited its delay.                             *)
THEOREM PopsAreDue == Spec => []PopsOnlyDueEntry
<1>1. IInv => PopsOnlyDueEntry
  <2> SUFFICES ASSUME IInv, fifo_read PROVE count > 0 /\ head # NoEntry /\ head.age = DELAY
    BY DEF PopsOnlyDueEntry
  <2>1. QED BY ReadDue, MemChannelAssumption DEF IInv
<1>2. QED BY <1>1, Invariance, PTL

-----------------------------------------------------------------------------
(* The channel is the memory that MemService promises. The queue of the    *)
(* requester is what lies between the pointers, read around the end of the *)
(* FIFO.                                                                   *)
Slot(i) == (read_ptr + i - 1) % SIZE

QueuedInSlots ==
  \A i \in 1 .. count :
    /\ Slot(i) = IF read_ptr + i - 1 < SIZE THEN read_ptr + i - 1
                 ELSE (read_ptr + i - 1) - SIZE
    /\ Slot(i) \in 0 .. SIZE - 1 /\ Live(Slot(i))
    /\ memory[Slot(i)] \in Entries
    /\ Queued[i] = memory[Slot(i)].op /\ Queued[i] \in Ops

LEMMA SlotAt == FifoInv => QueuedInSlots
<1> SUFFICES ASSUME FifoInv, NEW i \in 1 .. count
             PROVE  /\ Slot(i) = IF read_ptr + i - 1 < SIZE THEN read_ptr + i - 1
                                 ELSE (read_ptr + i - 1) - SIZE
                    /\ Slot(i) \in 0 .. SIZE - 1 /\ Live(Slot(i))
                    /\ memory[Slot(i)] \in Entries
                    /\ Queued[i] = memory[Slot(i)].op /\ Queued[i] \in Ops
  BY DEF QueuedInSlots
<1>1. SIZE \in Nat \ {0} /\ read_ptr \in 0 .. SIZE - 1 /\ count \in 0 .. SIZE
  BY MemChannelAssumption DEF FifoInv, FifoTypeOK
<1>2. (read_ptr + i - 1) \in 0 .. 2 * SIZE - 1
  BY <1>1
<1>3. Slot(i) = IF read_ptr + i - 1 < SIZE THEN read_ptr + i - 1
                ELSE (read_ptr + i - 1) - SIZE
  BY <1>1, <1>2, Wrap DEF Slot
<1>4. Slot(i) \in 0 .. SIZE - 1 /\ Live(Slot(i))
  BY <1>1, <1>3 DEF Live
<1> HIDE DEF Slot
<1>5. memory[Slot(i)] \in Entries
  BY <1>4 DEF FifoInv, FifoTypeOK, LiveSlotsHold
<1>6. Queued[i] = memory[Slot(i)].op
  BY DEF Queued, Slot
<1> QED
  BY <1>3, <1>4, <1>5, <1>6 DEF Entries

QueuedIsSeq == Queued \in Seq(Ops) /\ Len(Queued) = count

LEMMA QueuedSeq == FifoInv => QueuedIsSeq
<1> SUFFICES ASSUME FifoInv PROVE QueuedIsSeq
  OBVIOUS
<1>1. count \in Nat
  BY MemChannelAssumption DEF FifoInv, FifoTypeOK
<1>2. Queued = [i \in 1 .. count |-> Queued[i]] /\ DOMAIN Queued = 1 .. count
  BY DEF Queued
<1>3. \A i \in 1 .. count : Queued[i] \in Ops
  BY SlotAt DEF QueuedInSlots
<1> HIDE DEF Queued
<1>4. Queued \in [1 .. count -> Ops]
  BY <1>2, <1>3
<1>5. Queued \in Seq(Ops)
  BY <1>1, <1>4, SeqDef
<1>6. Len(Queued) = count
  BY <1>1, <1>2, <1>5, LenProperties
<1> QED
  BY <1>5, <1>6 DEF QueuedIsSeq

(* Positions before the last.                                              *)
LEMMA BeforeLast ==
  ASSUME NEW n \in Int, NEW i \in 1 .. n, NEW d \in 0 .. 1, NEW c \in Int
  PROVE  /\ i # n => i <= n - 1
         /\ c - d = n - 1 /\ i = n => i + d > c
         /\ c - d = n - 1 /\ i # n => i \in 1 .. c - d /\ i + d <= c
OBVIOUS

(* The queue after an edge: the oldest entry left if the channel read, and *)
(* the request came behind the others if it was accepted.                  *)
LEMMA QueuedAfterEdge ==
  ASSUME FifoInv, FifoInv', NEW req \in Ops \cup {NoReq}, FifoEdge(req)
  PROVE  Queued' = IF fifo_write(req)
                     THEN Append(IF fifo_read THEN Tail(Queued) ELSE Queued, req)
                     ELSE IF fifo_read THEN Tail(Queued) ELSE Queued
<1> DEFINE write == fifo_write(req)
           read == fifo_read
           kept == IF read THEN Tail(Queued) ELSE Queued
           ahead == IF read THEN 1 ELSE 0
<1>1. /\ SIZE \in Nat \ {0}
      /\ write_ptr \in 0 .. SIZE - 1 /\ read_ptr \in 0 .. SIZE - 1
      /\ count \in 0 .. SIZE /\ count' \in 0 .. SIZE
      /\ write => count < SIZE /\ req \in Ops
      /\ read => count > 0
  BY WriteFits, ReadDue, MemChannelAssumption DEF FifoInv, FifoTypeOK
<1>2. /\ memory' = slots_next(req)
      /\ read_ptr' = IF read THEN (read_ptr + 1) % SIZE ELSE read_ptr
      /\ count' = (count - ahead) + (IF write THEN 1 ELSE 0)
  BY <1>1 DEF FifoEdge, count_next, empty, fifo_read, fifo_write
<1>3. read_ptr' = IF ~read THEN read_ptr
                  ELSE IF read_ptr + 1 = SIZE THEN 0 ELSE read_ptr + 1
  BY <1>1, <1>2, NextSlot
<1>4. write_ptr = IF read_ptr + count < SIZE THEN read_ptr + count
                  ELSE (read_ptr + count) - SIZE
  BY <1>1, AgreeUnfolded DEF FifoInv, PointersAgree
<1>5. /\ Queued \in Seq(Ops) /\ Len(Queued) = count
      /\ Queued' \in Seq(Ops) /\ Len(Queued') = count'
  <2>1. QueuedIsSeq /\ QueuedIsSeq'
    BY QueuedSeq, PTL
  <2> QED
    BY <2>1 DEF QueuedIsSeq
<1>6. QueuedInSlots /\ QueuedInSlots'
  BY SlotAt, PTL
<1> HIDE DEF write, read
<1>a. /\ read => ahead = 1
      /\ ~read => ahead = 0
  OBVIOUS
<1>b. ahead \in 0 .. 1 /\ count \in Int /\ count' \in Int
  BY <1>1
<1> HIDE DEF ahead
<1>7. ASSUME NEW i \in 1 .. count'
      PROVE  /\ i + ahead <= count => Queued'[i] = Queued[i + ahead]
             /\ i + ahead > count => write /\ i = count' /\ Queued'[i] = req
  <2>1. i + ahead \in 1 .. count + 1 /\ (i + ahead = count + 1 => write /\ i = count')
    BY <1>1, <1>2, <1>a, <1>b
  <2>2. Slot(i)' = IF read_ptr + (i + ahead) - 1 < SIZE THEN read_ptr + (i + ahead) - 1
                   ELSE (read_ptr + (i + ahead) - 1) - SIZE
    <3>1. Slot(i)' = IF read_ptr' + i - 1 < SIZE THEN read_ptr' + i - 1
                     ELSE (read_ptr' + i - 1) - SIZE
      BY <1>6 DEF QueuedInSlots
    <3> HIDE DEF Slot
    <3>2. CASE read
      BY <1>1, <1>3, <1>a, <1>b, <3>1, <3>2
    <3>3. CASE ~read
      BY <1>1, <1>3, <1>a, <1>b, <3>1, <3>3
    <3> QED
      BY <3>2, <3>3
  <2>3. Slot(i)' \in 0 .. SIZE - 1 /\ Queued'[i] = memory'[Slot(i)'].op
    BY <1>6 DEF QueuedInSlots
  <2>4. CASE i + ahead <= count
    <3>1. /\ Slot(i + ahead) = Slot(i)'
          /\ memory[Slot(i + ahead)] \in Entries
          /\ Queued[i + ahead] = memory[Slot(i + ahead)].op
      BY <1>6, <2>1, <2>2, <2>4 DEF QueuedInSlots
    <3>2. ~(write /\ Slot(i)' = write_ptr)
      BY <1>1, <1>4, <1>a, <1>b, <2>1, <2>2, <2>4
    <3>3. memory'[Slot(i)'] = Older(memory[Slot(i)'])
      BY <1>2, <2>3, <3>2, SlotsAfterEdge DEF write
    <3>4. Older(memory[Slot(i + ahead)]).op = memory[Slot(i + ahead)].op
      BY <3>1, OlderEntry
    <3>5. Queued'[i] = Queued[i + ahead]
      BY <2>3, <3>1, <3>3, <3>4
    <3> QED
      BY <1>a, <1>b, <2>4, <3>5
  <2>5. CASE i + ahead = count + 1
    <3>1. write
      BY <2>1, <2>5
    <3>2. Slot(i)' = write_ptr
      BY <1>1, <1>4, <1>a, <1>b, <2>2, <2>5
    <3>3. memory'[write_ptr] = [op |-> req, age |-> 1]
      BY <1>1, <1>2, <3>1 DEF slots_next, write
    <3>4. Queued'[i] = req /\ i = count'
      BY <2>1, <2>3, <2>5, <3>2, <3>3
    <3> QED
      BY <1>1, <1>a, <1>b, <2>5, <3>1, <3>4
  <2> QED
    BY <1>a, <1>b, <2>1, <2>4, <2>5
<1>8. /\ kept \in Seq(Ops) /\ Len(kept) = count - ahead
      /\ \A i \in 1 .. count - ahead : kept[i] = Queued[i + ahead]
  <2>1. CASE read
    <3>1. Queued # <<>>
      BY <1>1, <1>5, <2>1, EmptySeq
    <3> QED
      BY <1>5, <1>a, <1>b, <2>1, <3>1, HeadTailProperties DEF kept
  <2>2. CASE ~read
    BY <1>5, <1>a, <1>b, <2>2 DEF kept
  <2> QED
    BY <2>1, <2>2
<1> HIDE DEF kept
<1>9. CASE write
  <2>1. Queued' = Append(kept, req)
    <3> DEFINE joined == Append(kept, req)
    <3>1. /\ joined \in Seq(Ops) /\ Len(joined) = Len(kept) + 1
          /\ \A i \in 1 .. Len(kept) : joined[i] = kept[i]
          /\ joined[Len(kept) + 1] = req
      BY <1>1, <1>8, <1>9, AppendProperties
    <3>2. Len(joined) = count' /\ count - ahead = count' - 1
      BY <1>2, <1>8, <1>9, <1>a, <1>b, <3>1
    <3> HIDE DEF joined
    <3>3. ASSUME NEW i \in 1 .. count' PROVE Queued'[i] = joined[i]
      <4>1. CASE i = count'
        <5>1. i + ahead > count
          BY <1>b, <3>2, <4>1, BeforeLast
        <5> QED
          BY <1>7, <1>8, <1>a, <1>b, <3>1, <3>2, <4>1, <5>1
      <4>2. CASE i # count'
        <5>1. i \in 1 .. count - ahead /\ i + ahead <= count
          BY <1>b, <3>2, <4>2, BeforeLast
        <5> QED
          BY <1>7, <1>8, <3>1, <5>1
      <4> QED
        BY <4>1, <4>2
    <3>4. Len(Queued') = Len(joined) /\ \A i \in 1 .. Len(Queued') : Queued'[i] = joined[i]
      BY <1>5, <3>2, <3>3
    <3>5. Queued' = joined
      BY <1>5, <3>1, <3>4, SeqEqual
    <3> QED
      BY <3>5 DEF joined
  <2> QED
    BY <1>9, <2>1 DEF write, kept, read
<1>10. CASE ~write
  <2>1. count' = count - ahead
    BY <1>2, <1>10, <1>a, <1>b
  <2>2. ASSUME NEW i \in 1 .. count' PROVE Queued'[i] = kept[i]
    <3>1. i + ahead <= count /\ i \in 1 .. count - ahead
      BY <1>a, <1>b, <2>1
    <3> QED
      BY <1>7, <1>8, <3>1
  <2>3. Len(Queued') = Len(kept) /\ \A i \in 1 .. Len(Queued') : Queued'[i] = kept[i]
    BY <1>5, <1>8, <2>1, <2>2
  <2>4. Queued' = kept
    BY <1>5, <1>8, <2>3, SeqEqual
  <2> QED
    BY <1>10, <2>4 DEF write, kept, read
<1> QED
  BY <1>9, <1>10

(* What the channel shows as its response, under the refinement.           *)
Shown ==
  IF rsp_valid_o THEN [tag |-> next_tag, data |-> next_data, atomic |-> next_atomic]
  ELSE NoRsp

(* A response on offer is told from none.                                  *)
ShownIsResponse == (Shown # NoRsp) <=> state = "S_WAIT_READY"

LEMMA ShownTold == IInv => ShownIsResponse
<1> SUFFICES ASSUME IInv PROVE ShownIsResponse
  OBVIOUS
<1>1. [tag |-> next_tag, data |-> next_data, atomic |-> next_atomic]
        \in [tag : Tags \cup {Zero}, data : Tags \cup {Zero}, atomic : BOOLEAN]
  BY DEF IInv, TypeOK
<1> QED
  BY <1>1, ResponseAssumption DEF ShownIsResponse, Shown, rsp_valid_o

(* The oldest of the queue is what the FIFO has at its head.               *)
LEMMA HeadIsOldest ==
  ASSUME FifoInv, fifo_read
  PROVE  Queued # <<>> /\ Head(Queued) = head.op
<1>1. /\ Queued \in Seq(Ops) /\ Len(Queued) = count
      /\ QueuedInSlots
  BY QueuedSeq, SlotAt DEF QueuedIsSeq
<1>2. count \in Nat /\ count > 0 /\ 1 \in 1 .. count /\ SIZE \in Nat \ {0}
      /\ read_ptr \in 0 .. SIZE - 1
  BY ReadDue, MemChannelAssumption DEF FifoInv, FifoTypeOK
<1>3. Queued # <<>>
  BY <1>1, <1>2, EmptySeq
<1>4. Head(Queued) = Queued[1]
  BY <1>1, <1>3, HeadTailProperties
<1>5. Queued[1] = memory[Slot(1)].op /\ Slot(1) = read_ptr
  BY <1>1, <1>2 DEF QueuedInSlots
<1> QED
  BY <1>3, <1>4, <1>5 DEF head

(* An edge performs the oldest request, delivers a response or does        *)
(* neither, and accepts a request or none at the same time.                *)
LEMMA EdgeIsService ==
  ASSUME IInv, IInv', NEW req \in Ops \cup {NoReq}, NEW rsp_ready_i \in BOOLEAN,
         ClockEdge(req, rsp_ready_i)
  PROVE  Service!Next
<1> DEFINE op == IF fifo_write(req) THEN req ELSE NoReq
<1>1. /\ FifoEdge(req) /\ DpiEdge /\ state' = state_next(rsp_ready_i)
      /\ state \in {"S_WAIT_DELAY", "S_MEM_INTERFACE", "S_WAIT_READY"}
  BY DEF ClockEdge, IInv, TypeOK, FifoTypeOK
<1>2. Queued' = Service!Joins(IF fifo_read THEN Tail(Queued) ELSE Queued, op)
  BY <1>1, QueuedAfterEdge DEF IInv, fifo_write, Service!Joins
<1>3. op \in Ops \cup {NoReq} /\ (op # NoReq => Len(Queued) < SIZE)
  BY WriteFits, QueuedSeq DEF QueuedIsSeq, IInv
<1>4. ShownIsResponse /\ ShownIsResponse'
  BY ShownTold, PTL
<1> HIDE DEF op, Queued
<1>5. CASE state = "S_MEM_INTERFACE"
  <2>1. Queued # <<>> /\ Head(Queued) = head.op /\ fifo_read
    BY <1>5, HeadIsOldest DEF fifo_read, IInv
  <2>2. state' = "S_WAIT_READY"
    BY <1>1, <1>5 DEF state_next
  <2>3. Shown = NoRsp
    BY <1>5 DEF Shown, rsp_valid_o
  <2>4. Shown' = Service!Result(Head(Queued))
    BY <1>1, <1>5, <2>1, <2>2 DEF Shown, rsp_valid_o, DpiEdge, Service!Result
  <2>5. dpi_mem' = IF Head(Queued).cmd \in {"write", "atomic"} THEN Head(Queued).tag
                   ELSE dpi_mem
    BY <1>1, <1>5, <2>1 DEF DpiEdge
  <2>6. Queued' = Service!Joins(Tail(Queued), op)
    BY <1>2, <2>1
  <2>7. Service!Perform(op)
    BY <2>1, <2>3, <2>4, <2>5, <2>6 DEF Service!Perform, Shown
  <2> QED
    BY <1>3, <2>7 DEF Service!Next
<1>6. ASSUME state # "S_MEM_INTERFACE"
      PROVE  /\ Queued' = Service!Joins(Queued, op)
             /\ UNCHANGED <<next_tag, next_data, next_atomic, dpi_mem>>
  BY <1>1, <1>2, <1>6 DEF fifo_read, DpiEdge
<1>7. CASE state = "S_WAIT_READY" /\ rsp_ready_i
  <2>1. Shown # NoRsp /\ Shown' = NoRsp
    BY <1>1, <1>4, <1>7 DEF ShownIsResponse, state_next
  <2>2. Service!Deliver(op)
    BY <1>6, <1>7, <2>1 DEF Service!Deliver, Shown
  <2> QED
    BY <1>3, <2>2 DEF Service!Next
<1>8. CASE state # "S_MEM_INTERFACE" /\ ~(state = "S_WAIT_READY" /\ rsp_ready_i)
  <2>1. Shown' = Shown
    BY <1>1, <1>6, <1>8 DEF state_next, Shown, rsp_valid_o
  <2>2. Service!Accept(op)
    BY <1>6, <1>8, <2>1 DEF Service!Accept, Shown
  <2> QED
    BY <1>3, <2>2 DEF Service!Next
<1> QED
  BY <1>5, <1>7, <1>8

(* An edge with rstn_i low forgets what was accepted and not answered.     *)
LEMMA ResetIsService ==
  ASSUME IInv', NEW req \in Ops \cup {NoReq}, Reset(req)
  PROVE  Service!Next
<1>1. QueuedIsSeq'
  <2>1. FifoInv'
    BY DEF IInv
  <2> QED
    BY <2>1, QueuedSeq, PTL
<1>2. count' = 0 /\ state' = "S_WAIT_DELAY" /\ dpi_mem' = dpi_mem
  BY DEF Reset
<1>3. Queued' = <<>>
  BY <1>1, <1>2, EmptySeq DEF QueuedIsSeq
<1>4. Shown' = NoRsp
  BY <1>2 DEF Shown, rsp_valid_o
<1> QED
  BY <1>2, <1>3, <1>4 DEF Service!Next, Service!Reset, Shown

(* Seen by its requester, the channel is a memory that performs the        *)
(* requests one by one in the order of their acceptance and answers each   *)
(* once, however the FIFO wraps around (l2_behav.sv, mem_channel).         *)
THEOREM ChannelIsMemory == Spec => ServiceSpec
<1>1. Init /\ IInv => Service!Init
  <2> SUFFICES ASSUME Init, IInv PROVE Service!Init
    OBVIOUS
  <2>1. Queued = <<>>
    <3>1. count = 0
      BY DEF Init
    <3>2. QueuedIsSeq
      BY QueuedSeq DEF IInv
    <3> QED
      BY <3>1, <3>2, EmptySeq DEF QueuedIsSeq
  <2> QED
    BY <2>1 DEF Init, Service!Init, rsp_valid_o
<1>2. IInv /\ IInv' /\ [Next]_vars => [Service!Next]_(Service!service_vars)
  <2> SUFFICES ASSUME IInv, IInv', [Next]_vars
               PROVE  [Service!Next]_(Service!service_vars)
    OBVIOUS
  <2>1. CASE Next
    BY <2>1, EdgeIsService, ResetIsService DEF Next
  <2>2. CASE UNCHANGED vars
    BY <2>2 DEF vars, fifo_vars, Service!service_vars, Queued, rsp_valid_o
  <2> QED
    BY <2>1, <2>2
<1> QED
  BY <1>1, <1>2, Invariance, PTL DEF Spec, ServiceSpec, Service!Spec
=============================================================================

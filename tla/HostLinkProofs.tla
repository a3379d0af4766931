--------------------------- MODULE HostLinkProofs ---------------------------
(***************************************************************************)
(* Theorems about HostLink, for every size and delay of the channels and   *)
(* every set of system calls: the two ports agree with the two channels,   *)
(* and the host executes each call once, with its own arguments.           *)
(*                                                                         *)
(* The lemmas about one channel (MemChannelProofs) are used twice, for     *)
(* the read channel (RP) and for the write channel (WP).                   *)
(***************************************************************************)
EXTENDS HostLink, SequenceTheorems, TLAPS

RP == INSTANCE MemChannelProofs WITH
  memory <- r_memory, write_ptr <- r_write_ptr, read_ptr <- r_read_ptr,
  count <- r_count, state <- r_state, next_tag <- r_next_tag,
  next_data <- r_next_data, next_atomic <- FALSE, dpi_mem <- mem

WP == INSTANCE MemChannelProofs WITH
  memory <- w_memory, write_ptr <- w_write_ptr, read_ptr <- w_read_ptr,
  count <- w_count, state <- w_state, next_tag <- w_next_tag,
  next_data <- w_next_data, next_atomic <- w_next_atomic, dpi_mem <- mem

-----------------------------------------------------------------------------
(* The operations of a queue, their tags, and a queue without two          *)
(* operations of the same tag.                                             *)
OpsOf(q) == {q[i] : i \in DOMAIN q}
TagsOf(s) == {o.tag : o \in s}
TagsDiffer(q) == \A i, j \in DOMAIN q : q[i].tag = q[j].tag => i = j

(* What is offered or not, as a set.                                       *)
OneOf(op) == IF op = NoReq THEN {} ELSE {op}

r_queue == OpsOf(R!Queued)
w_queue == OpsOf(W!Queued)

(* Writes and atomic operations that the memory has not seen.              *)
Unperformed == w_queue \cup OneOf(w_op)

-----------------------------------------------------------------------------
(* The inductive invariant, in parts.                                      *)

Types ==
  /\ r_next_tag \in Tags \cup {Zero} /\ r_next_data \in Nat
  /\ w_next_tag \in Tags \cup {Zero} /\ w_next_data \in Nat
  /\ w_next_atomic \in BOOLEAN
  /\ mem \in [Locations -> Nat]
  /\ finished \in BOOLEAN
  /\ r_req \in Ops \cup {NoReq} /\ w_op \in Ops \cup {NoReq}
  /\ w_valid \in SUBSET {"req", "data"}
  /\ awaits_r \in SUBSET Tags /\ awaits_w \in SUBSET Tags
  /\ phase \in {"arguments", "called", "clear", "cleared", "exited"}
  /\ call \in Calls /\ todo \in SUBSET Words

ChannelsInv == RP!FifoInv /\ WP!FifoInv

(* Both channels hold only what their users ask of them, and of each tag   *)
(* one operation.                                                          *)
Readable(o) == o.cmd = "read" /\ o.tag \in {"fromhost", "other"}
Writable(o) ==
  IF o.tag = "lock" THEN o.cmd = "atomic"
  ELSE o.cmd = "write" /\ o.tag \in Words \cup {"tohost", "fromhost"}

ReadsInv ==
  /\ TagsDiffer(R!Queued)
  /\ \A o \in r_queue \cup OneOf(r_req) : Readable(o)
  /\ R!rsp_valid_o => r_next_tag \in {"fromhost", "other"} \ TagsOf(r_queue)
  /\ r_req # NoReq => r_req.tag \notin awaits_r

WritesInv ==
  /\ TagsDiffer(W!Queued)
  /\ \A o \in Unperformed : Writable(o)
  /\ W!rsp_valid_o => /\ w_next_tag \notin TagsOf(w_queue)
                      /\ w_next_atomic <=> w_next_tag = "lock"
  /\ w_op # NoReq => w_op.tag \notin awaits_w
  /\ w_op = NoReq => w_valid = {}

(* What the program knows when it calls the host, and what the host knows. *)
Argument(w) == IF w = "which" THEN SYS_write ELSE call

(* In "arguments": what was stored is in the memory or on its way there.   *)
ArgumentsInv ==
  phase = "arguments" =>
    /\ printed = <<>> /\ mem["fromhost"] = 0
    /\ \A o \in Unperformed : o.tag \in (Words \ todo) \cup {"lock"}
    /\ \A o \in Unperformed : o.tag \in Words => o.val = Argument(o.tag)
    /\ \A w \in Words \ todo :
         w \notin TagsOf(Unperformed) => mem[w] = Argument(w)

(* In "called": the store to tohost is presented to an idle channel, or    *)
(* was accepted in the edge in which the host executed the call.           *)
CalledInv ==
  phase = "called" =>
    /\ mem["which"] = SYS_write /\ mem["arg"] = call
    /\ \A o \in Unperformed : o.tag = "tohost" /\ o.val = magicmem
    /\ w_op # NoReq => /\ w_queue = {}
                       /\ printed = <<>> /\ mem["fromhost"] = 0
    /\ w_op = NoReq => printed = <<call>>
    /\ R!rsp_valid_o /\ r_next_tag = "fromhost" /\ r_next_data # 0
         => printed # <<>>

(* In the other phases nothing is executed, and the word that is cleared   *)
(* is zero once its write is performed.                                    *)
QuietInv ==
  /\ phase # "called" =>
       /\ printed = <<>>
       /\ "fromhost" \notin awaits_r
       /\ r_req # NoReq => r_req.tag # "fromhost"
  /\ phase = "clear" => w_op = NoReq /\ \A o \in Unperformed : o.tag = "tohost"
  /\ phase = "cleared" =>
       /\ w_op # NoReq => w_op.tag = "fromhost"
       /\ \A o \in Unperformed : o.tag \in {"tohost", "fromhost"}
       /\ \A o \in Unperformed : o.tag = "fromhost" => o.val = 0
       /\ "fromhost" \notin TagsOf(Unperformed) => mem["fromhost"] = 0
  /\ phase = "exited" =>
       \A o \in Unperformed : /\ o.tag \in Words \cup {"lock", "tohost"}
                              /\ o.tag = "tohost" => o.val % 2 = 1

LinkInv ==
  /\ Types /\ ChannelsInv /\ PortsAgree
  /\ ReadsInv /\ WritesInv
  /\ ArgumentsInv /\ CalledInv /\ QuietInv

-----------------------------------------------------------------------------
(* Queues as sets of operations.                                           *)

(* An operation joins a queue that has none of its tag.                    *)
LEMMA NewestJoins ==
  ASSUME NEW q \in Seq(Ops), TagsDiffer(q), NEW op \in Ops,
         op.tag \notin TagsOf(OpsOf(q))
  PROVE  /\ OpsOf(Append(q, op)) = OpsOf(q) \cup {op}
         /\ TagsDiffer(Append(q, op))
<1> DEFINE longer == Append(q, op)
<1>1. /\ longer \in Seq(Ops) /\ Len(longer) = Len(q) + 1
      /\ \A i \in 1 .. Len(q) : longer[i] = q[i]
      /\ longer[Len(q) + 1] = op
  BY AppendProperties
<1>2. /\ DOMAIN q = 1 .. Len(q) /\ Len(q) \in Nat
      /\ DOMAIN longer = 1 .. Len(q) + 1
  BY <1>1, LenProperties
<1>3. \A i \in DOMAIN q : q[i].tag # op.tag
  BY DEF TagsOf, OpsOf
<1> HIDE DEF longer
<1>4. OpsOf(longer) = OpsOf(q) \cup {op}
  BY <1>1, <1>2 DEF OpsOf
<1>5. TagsDiffer(longer)
  <2> SUFFICES ASSUME NEW i \in DOMAIN longer, NEW j \in DOMAIN longer,
                      longer[i].tag = longer[j].tag
               PROVE  i = j
    BY DEF TagsDiffer
  <2>1. CASE i \in DOMAIN q /\ j \in DOMAIN q
    BY <1>1, <1>2, <2>1 DEF TagsDiffer
  <2>2. CASE i \in DOMAIN q /\ j = Len(q) + 1
    BY <1>1, <1>2, <1>3, <2>2
  <2>3. CASE i = Len(q) + 1 /\ j \in DOMAIN q
    BY <1>1, <1>2, <1>3, <2>3
  <2>4. CASE i = Len(q) + 1 /\ j = Len(q) + 1
    BY <2>4
  <2> QED
    BY <1>2, <2>1, <2>2, <2>3, <2>4
<1> QED
  BY <1>4, <1>5 DEF longer

(* The oldest operation leaves a queue.                                    *)
LEMMA OldestLeaves ==
  ASSUME NEW q \in Seq(Ops), TagsDiffer(q), q # <<>>
  PROVE  /\ Tail(q) \in Seq(Ops) /\ Head(q) \in OpsOf(q)
         /\ OpsOf(Tail(q)) = OpsOf(q) \ {Head(q)}
         /\ Head(q).tag \notin TagsOf(OpsOf(Tail(q)))
         /\ TagsDiffer(Tail(q))
<1> DEFINE rest == Tail(q)
<1>1. /\ Head(q) = q[1] /\ rest \in Seq(Ops)
      /\ Len(rest) = Len(q) - 1
      /\ \A i \in 1 .. Len(rest) : rest[i] = q[i + 1]
  BY HeadTailProperties
<1>2. /\ Len(q) \in Nat /\ Len(q) # 0
      /\ DOMAIN q = 1 .. Len(q) /\ DOMAIN rest = 1 .. Len(q) - 1
  BY <1>1, EmptySeq, LenProperties
<1> HIDE DEF rest
<1>3. \A i \in DOMAIN rest : i + 1 \in DOMAIN q /\ i + 1 # 1 /\ rest[i] = q[i + 1]
  BY <1>1, <1>2
<1>4. 1 \in DOMAIN q
  BY <1>2
<1>5. \A i \in DOMAIN rest : rest[i].tag # Head(q).tag
  BY <1>1, <1>3, <1>4 DEF TagsDiffer
<1>6. OpsOf(rest) = OpsOf(q) \ {Head(q)}
  <2>1. ASSUME NEW i \in DOMAIN q, q[i] # Head(q)
        PROVE  (i - 1) \in DOMAIN rest /\ rest[i - 1] = q[i]
    BY <1>1, <1>2, <2>1
  <2>2. \A o \in OpsOf(rest) : o \in OpsOf(q) /\ o # Head(q)
    BY <1>3, <1>5 DEF OpsOf
  <2>3. \A o \in OpsOf(q) : o # Head(q) => o \in OpsOf(rest)
    BY <2>1 DEF OpsOf
  <2> QED
    BY <2>2, <2>3
<1>7. TagsDiffer(rest)
  <2> SUFFICES ASSUME NEW i \in DOMAIN rest, NEW j \in DOMAIN rest,
                      rest[i].tag = rest[j].tag
               PROVE  i = j
    BY DEF TagsDiffer
  <2>1. i + 1 = j + 1
    BY <1>3 DEF TagsDiffer
  <2> QED
    BY <1>2, <2>1
<1>8. Head(q) \in OpsOf(q) /\ Head(q).tag \notin TagsOf(OpsOf(rest))
  BY <1>1, <1>4, <1>5 DEF OpsOf, TagsOf
<1> QED
  BY <1>1, <1>6, <1>7, <1>8 DEF rest

(* One edge of a queue: the oldest leaves or not, a new one joins or not.  *)
Leaving(q, read) == IF read THEN {Head(q)} ELSE {}
Remaining(q, read) == IF read THEN Tail(q) ELSE q
Moved(q, read, op) ==
  IF op = NoReq THEN Remaining(q, read) ELSE Append(Remaining(q, read), op)

LEMMA QueueEdge ==
  ASSUME NEW q \in Seq(Ops), TagsDiffer(q), NEW op \in Ops \cup {NoReq},
         op # NoReq => op.tag \notin TagsOf(OpsOf(q)),
         NEW read \in BOOLEAN, read => q # <<>>
  PROVE  /\ Leaving(q, read) \subseteq OpsOf(q)
         /\ OpsOf(Moved(q, read, op)) = (OpsOf(q) \ Leaving(q, read)) \cup OneOf(op)
         /\ \A o \in Leaving(q, read), p \in OpsOf(q) \ Leaving(q, read) : o.tag # p.tag
         /\ TagsDiffer(Moved(q, read, op))
<1> DEFINE kept == Remaining(q, read)
           popped == Leaving(q, read)
           after == Moved(q, read, op)
<1>1. /\ kept \in Seq(Ops) /\ TagsDiffer(kept)
      /\ popped \subseteq OpsOf(q) /\ OpsOf(kept) = OpsOf(q) \ popped
      /\ \A o \in popped, p \in OpsOf(q) \ popped : o.tag # p.tag
  BY OldestLeaves DEF TagsOf, Leaving, Remaining
<1>2. op # NoReq => op.tag \notin TagsOf(OpsOf(kept))
  BY <1>1 DEF TagsOf
<1>3. after = IF op = NoReq THEN kept ELSE Append(kept, op)
  BY DEF Moved
<1> HIDE DEF kept, popped, after
<1>4. OpsOf(after) = OpsOf(kept) \cup OneOf(op) /\ TagsDiffer(after)
  <2>1. CASE op = NoReq
    BY <1>1, <1>3, <2>1 DEF OneOf
  <2>2. CASE op # NoReq
    <3>1. op \in Ops /\ after = Append(kept, op) /\ OneOf(op) = {op}
      BY <1>3, <2>2 DEF OneOf
    <3>2. /\ OpsOf(Append(kept, op)) = OpsOf(kept) \cup {op}
          /\ TagsDiffer(Append(kept, op))
      BY <1>1, <1>2, <2>2, <3>1, NewestJoins
    <3> QED
      BY <3>1, <3>2
  <2> QED
    BY <2>1, <2>2
<1> QED
  BY <1>1, <1>4 DEF popped, after

-----------------------------------------------------------------------------
(* One edge of the two channels.                                           *)

LEMMA ChannelAssumptions ==
  /\ RP!MemChannelAssumption /\ RP!ResponseAssumption
  /\ WP!MemChannelAssumption /\ WP!ResponseAssumption
<1>1. \A op \in Ops : op.tag \in Tags /\ op.cmd \in RP!Cmds
  BY DEF Ops, RP!Cmds
<1>2. \A op \in Ops : op.tag \in Tags /\ op.cmd \in WP!Cmds
  BY DEF Ops, WP!Cmds
<1> QED
  BY <1>1, <1>2, HostLinkAssumption
    DEF RP!MemChannelAssumption, WP!MemChannelAssumption, RP!Entries, WP!Entries,
        RP!ResponseAssumption, WP!ResponseAssumption

r_popped == IF r_state = "S_MEM_INTERFACE" THEN {R!head.op} ELSE {}
r_pushed == IF R!fifo_write(r_req) THEN {r_req} ELSE {}
w_popped == IF w_state = "S_MEM_INTERFACE" THEN {W!head.op} ELSE {}
w_pushed == IF W!fifo_write(w_offered) THEN {w_op} ELSE {}

LEMMA QueuesHoldOps ==
  ASSUME LinkInv
  PROVE  /\ R!Queued \in Seq(Ops) /\ r_queue \in SUBSET Ops
         /\ W!Queued \in Seq(Ops) /\ w_queue \in SUBSET Ops
<1>1. RP!Queued \in Seq(Ops) /\ WP!Queued \in Seq(Ops)
  BY RP!QueuedSeq, WP!QueuedSeq, ChannelAssumptions
    DEF LinkInv, ChannelsInv, RP!QueuedIsSeq, WP!QueuedIsSeq
<1>2. R!Queued = RP!Queued /\ W!Queued = WP!Queued
  BY DEF R!Queued, RP!Queued, W!Queued, WP!Queued
<1>3. \A q \in Seq(Ops) : OpsOf(q) \in SUBSET Ops
  BY ElementOfSeq, LenProperties DEF OpsOf
<1> QED
  BY <1>1, <1>2, <1>3 DEF r_queue, w_queue

LEMMA ReadChannelEdge ==
  ASSUME LinkInv, NEW r_ready \in BOOLEAN, NEW w_ready \in BOOLEAN,
         ClockEdge(r_ready, w_ready)
  PROVE  /\ RP!FifoInv' /\ TagsDiffer(R!Queued')
         /\ r_popped \in SUBSET r_queue
         /\ r_queue' = (r_queue \ r_popped) \cup r_pushed
         /\ \A o \in r_popped, p \in r_queue \ r_popped : o.tag # p.tag
<1> DEFINE op == IF RP!fifo_write(r_req) THEN r_req ELSE NoReq
           read == RP!fifo_read
<1>1. RP!FifoInv
  BY DEF LinkInv, ChannelsInv
<1>2. RP!FifoEdge(r_req)
  BY DEF ClockEdge, R!FifoEdge, RP!FifoEdge, R!slots_next, RP!slots_next, R!Older, RP!Older,
         R!fifo_write, RP!fifo_write, R!full, RP!full, R!fifo_read, RP!fifo_read,
         R!empty, RP!empty, R!count_next, RP!count_next
<1>3. r_state' = RP!state_next(~atomic_shown /\ r_ready)
  BY DEF ClockEdge, read_channel_rsp_ready, R!state_next, RP!state_next,
         R!empty, RP!empty, R!head, RP!head
<1>4. r_req \in Ops \cup {NoReq} /\ (~atomic_shown /\ r_ready) \in BOOLEAN
  BY DEF LinkInv, Types
<1>5. RP!FifoInv'
  BY <1>1, <1>2, <1>3, <1>4, RP!FifoEdgeKeeps, ChannelAssumptions
<1>6. RP!Queued' = IF RP!fifo_write(r_req)
                     THEN Append(IF RP!fifo_read THEN Tail(RP!Queued) ELSE RP!Queued, r_req)
                     ELSE IF RP!fifo_read THEN Tail(RP!Queued) ELSE RP!Queued
  BY <1>1, <1>2, <1>4, <1>5, RP!QueuedAfterEdge, ChannelAssumptions
<1>7. RP!fifo_read => RP!Queued # <<>> /\ Head(RP!Queued) = RP!head.op
  BY <1>1, RP!HeadIsOldest, ChannelAssumptions
<1>8. /\ R!Queued = RP!Queued /\ R!Queued' = RP!Queued'
      /\ r_popped = Leaving(R!Queued, read)
      /\ r_pushed = OneOf(op)
  <2>1. R!Queued = RP!Queued /\ R!Queued' = RP!Queued'
    BY DEF R!Queued, RP!Queued
  <2>2. R!head = RP!head
    BY DEF R!head, RP!head
  <2>3. r_popped = Leaving(R!Queued, read)
    BY <1>7, <2>1, <2>2 DEF r_popped, RP!fifo_read, Leaving
  <2>4. r_pushed = OneOf(op)
    BY DEF r_pushed, OneOf, R!fifo_write, RP!fifo_write, R!full, RP!full
  <2> QED
    BY <2>1, <2>3, <2>4
<1>9. op # NoReq => op.tag \notin TagsOf(OpsOf(R!Queued))
  BY DEF LinkInv, ReadsInv, PortsAgree, InFlight, TagsOf, OpsOf
<1>10. R!Queued \in Seq(Ops) /\ TagsDiffer(R!Queued)
  BY QueuesHoldOps DEF LinkInv, ReadsInv
<1>11. op \in Ops \cup {NoReq} /\ read \in BOOLEAN /\ (read => R!Queued # <<>>)
  BY <1>4, <1>7, <1>8 DEF RP!fifo_read
<1>12. R!Queued' = Moved(R!Queued, read, op)
  BY <1>6, <1>8 DEF RP!fifo_write, Moved, Remaining
<1> HIDE DEF op, read
<1>13. /\ r_popped \subseteq OpsOf(R!Queued)
       /\ OpsOf(R!Queued') = (OpsOf(R!Queued) \ r_popped) \cup OneOf(op)
       /\ \A o \in r_popped, p \in OpsOf(R!Queued) \ r_popped : o.tag # p.tag
       /\ TagsDiffer(R!Queued')
  BY <1>8, <1>9, <1>10, <1>11, <1>12, QueueEdge
<1>14. r_queue' = OpsOf(R!Queued')
  BY DEF r_queue, OpsOf
<1> QED
  BY <1>5, <1>8, <1>13, <1>14 DEF r_queue

LEMMA WriteChannelEdge ==
  ASSUME LinkInv, NEW r_ready \in BOOLEAN, NEW w_ready \in BOOLEAN,
         ClockEdge(r_ready, w_ready)
  PROVE  /\ WP!FifoInv' /\ TagsDiffer(W!Queued')
         /\ w_popped \in SUBSET w_queue
         /\ w_queue' = (w_queue \ w_popped) \cup w_pushed
         /\ \A o \in w_popped, p \in w_queue \ w_popped : o.tag # p.tag
<1> DEFINE op == IF WP!fifo_write(w_offered) THEN w_offered ELSE NoReq
           read == WP!fifo_read
<1>1. WP!FifoInv
  BY DEF LinkInv, ChannelsInv
<1>2. WP!FifoEdge(w_offered)
  BY DEF ClockEdge, W!FifoEdge, WP!FifoEdge, W!slots_next, WP!slots_next, W!Older, WP!Older,
         W!fifo_write, WP!fifo_write, W!full, WP!full, W!fifo_read, WP!fifo_read,
         W!empty, WP!empty, W!count_next, WP!count_next
<1>3. w_state' = WP!state_next(w_ready)
  BY DEF ClockEdge, W!state_next, WP!state_next,
         W!empty, WP!empty, W!head, WP!head
<1>4. w_offered \in Ops \cup {NoReq}
  BY DEF LinkInv, Types, w_offered
<1>5. WP!FifoInv'
  BY <1>1, <1>2, <1>3, <1>4, WP!FifoEdgeKeeps, ChannelAssumptions
<1>6. WP!Queued' = IF WP!fifo_write(w_offered)
                     THEN Append(IF WP!fifo_read THEN Tail(WP!Queued) ELSE WP!Queued, w_offered)
                     ELSE IF WP!fifo_read THEN Tail(WP!Queued) ELSE WP!Queued
  BY <1>1, <1>2, <1>4, <1>5, WP!QueuedAfterEdge, ChannelAssumptions
<1>7. WP!fifo_read => WP!Queued # <<>> /\ Head(WP!Queued) = WP!head.op
  BY <1>1, WP!HeadIsOldest, ChannelAssumptions
<1>8. /\ W!Queued = WP!Queued /\ W!Queued' = WP!Queued'
      /\ w_popped = Leaving(W!Queued, read)
      /\ w_pushed = OneOf(op)
  <2>1. W!Queued = WP!Queued /\ W!Queued' = WP!Queued'
    BY DEF W!Queued, WP!Queued
  <2>2. W!head = WP!head
    BY DEF W!head, WP!head
  <2>3. w_popped = Leaving(W!Queued, read)
    BY <1>7, <2>1, <2>2 DEF w_popped, WP!fifo_read, Leaving
  <2>4. w_pushed = OneOf(op)
    BY DEF w_pushed, w_offered, OneOf, W!fifo_write, WP!fifo_write, W!full, WP!full
  <2> QED
    BY <2>1, <2>3, <2>4
<1>9. op # NoReq => op.tag \notin TagsOf(OpsOf(W!Queued))
  BY DEF LinkInv, WritesInv, PortsAgree, InFlight, TagsOf, OpsOf, w_offered
<1>10. W!Queued \in Seq(Ops) /\ TagsDiffer(W!Queued)
  BY QueuesHoldOps DEF LinkInv, WritesInv
<1>11. op \in Ops \cup {NoReq} /\ read \in BOOLEAN /\ (read => W!Queued # <<>>)
  BY <1>4, <1>7, <1>8 DEF WP!fifo_read
<1>12. W!Queued' = Moved(W!Queued, read, op)
  BY <1>6, <1>8 DEF WP!fifo_write, Moved, Remaining
<1> HIDE DEF op, read
<1>13. /\ w_popped \subseteq OpsOf(W!Queued)
       /\ OpsOf(W!Queued') = (OpsOf(W!Queued) \ w_popped) \cup OneOf(op)
       /\ \A o \in w_popped, p \in OpsOf(W!Queued) \ w_popped : o.tag # p.tag
       /\ TagsDiffer(W!Queued')
  BY <1>8, <1>9, <1>10, <1>11, <1>12, QueueEdge
<1>14. w_queue' = OpsOf(W!Queued')
  BY DEF w_queue, OpsOf
<1> QED
  BY <1>5, <1>8, <1>13, <1>14 DEF w_queue

-----------------------------------------------------------------------------
(* The ports of the cache at an edge, on sets of tags.                     *)

Shows(valid, tag) == IF valid THEN {tag} ELSE {}
LocksIn(s) == {o \in s : o.cmd = "atomic"}
r_shown == Shows(R!rsp_valid_o, r_next_tag)
w_shown == Shows(W!rsp_valid_o, w_next_tag)
lock_shown == Shows(atomic_shown, w_next_tag)

PortsInSets ==
  /\ awaits_r = TagsOf(r_queue) \cup r_shown \cup TagsOf(LocksIn(w_queue)) \cup lock_shown
  /\ awaits_w = TagsOf(w_queue) \cup w_shown

LEMMA PortsSame == PortsAgree <=> PortsInSets
<1>1. InFlight(R!Queued, R!rsp_valid_o, r_next_tag) = TagsOf(r_queue) \cup r_shown
  BY DEF InFlight, TagsOf, r_queue, OpsOf, r_shown, Shows
<1>2. InFlight(W!Queued, W!rsp_valid_o, w_next_tag) = TagsOf(w_queue) \cup w_shown
  BY DEF InFlight, TagsOf, w_queue, OpsOf, w_shown, Shows
<1>3. AtomicInFlight = TagsOf(LocksIn(w_queue)) \cup lock_shown
  BY DEF AtomicInFlight, TagsOf, LocksIn, w_queue, OpsOf, lock_shown, Shows
<1> QED
  BY <1>1, <1>2, <1>3 DEF PortsAgree, PortsInSets

LEMMA TagsOfUnion ==
  ASSUME NEW s, NEW t
  PROVE  /\ TagsOf(s \cup t) = TagsOf(s) \cup TagsOf(t)
         /\ LocksIn(s \cup t) = LocksIn(s) \cup LocksIn(t)
         /\ TagsOf(LocksIn(s)) \subseteq TagsOf(s)
BY DEF TagsOf, LocksIn

(* What the cache sees of the handshakes.                                  *)
LEMMA PortsAfterEdge ==
  ASSUME LinkInv, NEW r_ready \in BOOLEAN, NEW w_ready \in BOOLEAN,
         ClockEdge(r_ready, w_ready)
  PROVE  /\ r_pushed \cup OneOf(r_req') = OneOf(r_req)
         /\ r_req' \in {r_req, NoReq}
         /\ r_req' # NoReq => r_pushed = {}
         /\ w_pushed \cup OneOf(w_op') = OneOf(w_op)
         /\ w_op' \in {w_op, NoReq} /\ w_valid' \in {w_valid, {}}
         /\ w_op' # NoReq => w_pushed = {}
         /\ w_op' = NoReq => w_valid' = {}
         /\ awaits_r' = (awaits_r \ Shows(dc_read_resp_valid_o /\ r_ready, dc_read_resp_tag_o))
                          \cup TagsOf(r_pushed) \cup TagsOf(LocksIn(w_pushed))
         /\ awaits_w' = (awaits_w \ Shows(W!rsp_valid_o /\ w_ready, w_next_tag))
                          \cup TagsOf(w_pushed)
<1>1. R!fifo_write(r_req) <=> r_req # NoReq /\ R!req_ready_o
  BY DEF R!fifo_write, R!req_ready_o
<1>2. both_valid => w_op # NoReq
  BY DEF LinkInv, WritesInv, both_valid
<1>3. W!fifo_write(w_offered) <=> dc_write_req_ready_o
  BY <1>2 DEF W!fifo_write, W!req_ready_o, w_offered, dc_write_req_ready_o
<1>4. w_op = NoReq => w_valid = {} /\ ~dc_write_req_ready_o
  BY <1>2 DEF LinkInv, WritesInv, dc_write_req_ready_o
<1>5. PortsEdge(r_ready, w_ready)
  BY DEF ClockEdge
<1>6. /\ r_req' = IF R!fifo_write(r_req) THEN NoReq ELSE r_req
      /\ w_op' = IF dc_write_req_ready_o THEN NoReq ELSE w_op
      /\ w_valid' = IF dc_write_req_ready_o THEN {} ELSE w_valid
  BY <1>1, <1>5 DEF PortsEdge
<1>7. /\ TagsOf(r_pushed) = IF r_req # NoReq /\ R!req_ready_o THEN {r_req.tag} ELSE {}
      /\ TagsOf(w_pushed) = IF dc_write_req_ready_o THEN {w_op.tag} ELSE {}
      /\ TagsOf(LocksIn(w_pushed)) = IF dc_write_req_ready_o /\ w_op.cmd = "atomic"
                                       THEN {w_op.tag} ELSE {}
  BY <1>1, <1>3 DEF TagsOf, LocksIn, r_pushed, w_pushed
<1>8. awaits_r' = (awaits_r \ Shows(dc_read_resp_valid_o /\ r_ready, dc_read_resp_tag_o))
                    \cup TagsOf(r_pushed) \cup TagsOf(LocksIn(w_pushed))
  BY <1>5, <1>7 DEF PortsEdge, Shows
<1>9. awaits_w' = (awaits_w \ Shows(W!rsp_valid_o /\ w_ready, w_next_tag))
                    \cup TagsOf(w_pushed)
  BY <1>5, <1>7 DEF PortsEdge, Shows
<1>10. r_pushed \cup OneOf(r_req') = OneOf(r_req) /\ (r_req' # NoReq => r_pushed = {})
  BY <1>1, <1>6 DEF r_pushed, OneOf
<1>11. w_pushed \cup OneOf(w_op') = OneOf(w_op) /\ (w_op' # NoReq => w_pushed = {})
  BY <1>2, <1>3, <1>4, <1>6 DEF w_pushed, OneOf
<1> QED
  BY <1>4, <1>6, <1>8, <1>9, <1>10, <1>11

(* The memory of an edge: the host and the write channel in either order.  *)
LEMMA MemoryAfterEdge ==
  ASSUME MemoryEdge
  PROVE  \E h \in {mem, written(mem)}, b \in {mem, hosted(mem)} :
           /\ mem' \in {written(hosted(mem)), hosted(written(mem))}
           /\ printed' = IF phase' = "clear" THEN <<>> ELSE printed \o shown(h)
           /\ WriteEdge(b)
           /\ ReadEdge({mem, h, b, mem'})
<1>1. CASE /\ mem' = written(hosted(mem))
           /\ printed' = IF phase' = "clear" THEN <<>> ELSE printed \o shown(mem)
           /\ WriteEdge(hosted(mem))
           /\ ReadEdge({mem, mem, hosted(mem), mem'})
  BY <1>1
<1>2. CASE /\ mem' = hosted(written(mem))
           /\ printed' = IF phase' = "clear" THEN <<>> ELSE printed \o shown(written(mem))
           /\ WriteEdge(mem)
           /\ ReadEdge({mem, written(mem), mem, mem'})
  BY <1>2
<1> QED
  BY <1>1, <1>2, Zenon DEF MemoryEdge

(* What the response ports show after it.                                  *)
LEMMA ResponsesAfterEdge ==
  ASSUME LinkInv, NEW r_ready \in BOOLEAN, NEW w_ready \in BOOLEAN,
         ClockEdge(r_ready, w_ready)
  PROVE  /\ r_state = "S_MEM_INTERFACE" =>
              /\ ~R!rsp_valid_o /\ R!rsp_valid_o'
              /\ r_next_tag' = R!head.op.tag
         /\ r_state # "S_MEM_INTERFACE" =>
              /\ R!rsp_valid_o' <=> R!rsp_valid_o /\ ~(~atomic_shown /\ r_ready)
              /\ UNCHANGED <<r_next_tag, r_next_data>>
         /\ w_state = "S_MEM_INTERFACE" =>
              /\ ~W!rsp_valid_o /\ W!rsp_valid_o'
              /\ w_next_tag' = W!head.op.tag
              /\ w_next_atomic' <=> W!head.op.cmd = "atomic"
         /\ w_state # "S_MEM_INTERFACE" =>
              /\ W!rsp_valid_o' <=> W!rsp_valid_o /\ ~w_ready
              /\ w_next_tag' = w_next_tag
              /\ w_next_atomic' <=> w_next_atomic
<1>1. /\ r_state' = R!state_next(read_channel_rsp_ready(r_ready))
      /\ w_state' = W!state_next(w_ready)
      /\ MemoryEdge
  BY DEF ClockEdge
<1>2. /\ r_state \in {"S_WAIT_DELAY", "S_MEM_INTERFACE", "S_WAIT_READY"}
      /\ w_state \in {"S_WAIT_DELAY", "S_MEM_INTERFACE", "S_WAIT_READY"}
  BY DEF LinkInv, ChannelsInv, RP!FifoInv, RP!FifoTypeOK, WP!FifoInv, WP!FifoTypeOK
<1>3. (\E ms : ReadEdge(ms)) /\ (\E m : WriteEdge(m))
  BY <1>1, MemoryAfterEdge
<1>4. r_state = "S_MEM_INTERFACE" =>
        ~R!rsp_valid_o /\ R!rsp_valid_o' /\ r_next_tag' = R!head.op.tag
  BY <1>1, <1>3 DEF ReadEdge, R!state_next, R!rsp_valid_o
<1>5. r_state # "S_MEM_INTERFACE" =>
        /\ R!rsp_valid_o' <=> R!rsp_valid_o /\ ~(~atomic_shown /\ r_ready)
        /\ UNCHANGED <<r_next_tag, r_next_data>>
  BY <1>1, <1>2, <1>3 DEF ReadEdge, R!state_next, R!rsp_valid_o, read_channel_rsp_ready
<1>6. w_state = "S_MEM_INTERFACE" =>
        /\ ~W!rsp_valid_o /\ W!rsp_valid_o'
        /\ w_next_tag' = W!head.op.tag
  BY <1>1, <1>3 DEF WriteEdge, W!state_next, W!rsp_valid_o
<1>7. w_state # "S_MEM_INTERFACE" =>
        /\ W!rsp_valid_o' <=> W!rsp_valid_o /\ ~w_ready
        /\ w_next_tag' = w_next_tag
  BY <1>1, <1>2, <1>3 DEF WriteEdge, W!state_next, W!rsp_valid_o
<1>8. /\ w_state = "S_MEM_INTERFACE" => (w_next_atomic' <=> W!head.op.cmd = "atomic")
      /\ w_state # "S_MEM_INTERFACE" => (w_next_atomic' <=> w_next_atomic)
  BY <1>3, Zenon DEF WriteEdge
<1> QED
  BY <1>4, <1>5, <1>6, <1>7, <1>8

-----------------------------------------------------------------------------
(* The ports agree with the channels after an edge.                        *)

(* What is in flight has a tag of its own.                                 *)
InFlightApart ==
  /\ r_shown \cap TagsOf(r_queue) = {} /\ w_shown \cap TagsOf(w_queue) = {}
  /\ TagsOf(r_queue) \cup r_shown \subseteq {"fromhost", "other"}
  /\ lock_shown \subseteq w_shown \cap {"lock"}
  /\ TagsOf(LocksIn(Unperformed)) \subseteq {"lock"}
  /\ atomic_shown <=> lock_shown # {}

LEMMA FlightApart == LinkInv => InFlightApart
<1> SUFFICES ASSUME LinkInv PROVE InFlightApart
  OBVIOUS
<1>1. ReadsInv /\ WritesInv
  BY DEF LinkInv
<1>2. r_shown \cap TagsOf(r_queue) = {} /\ r_shown \subseteq {"fromhost", "other"}
  BY <1>1 DEF ReadsInv, r_shown, Shows
<1>3. w_shown \cap TagsOf(w_queue) = {}
  BY <1>1 DEF WritesInv, w_shown, Shows
<1>4. TagsOf(r_queue) \subseteq {"fromhost", "other"}
  BY <1>1 DEF ReadsInv, TagsOf, Readable
<1>5. lock_shown \subseteq w_shown \cap {"lock"} /\ (atomic_shown <=> lock_shown # {})
  BY <1>1 DEF WritesInv, lock_shown, w_shown, Shows, atomic_shown
<1>6. TagsOf(LocksIn(Unperformed)) \subseteq {"lock"}
  BY <1>1 DEF WritesInv, TagsOf, LocksIn, Writable
<1> QED
  BY <1>2, <1>3, <1>4, <1>5, <1>6 DEF InFlightApart

(* The ports after an edge, as sets.                                       *)
LEMMA ShownAfterEdge ==
  ASSUME LinkInv, NEW r_ready \in BOOLEAN, NEW w_ready \in BOOLEAN,
         ClockEdge(r_ready, w_ready)
  PROVE  /\ r_shown' = IF r_state = "S_MEM_INTERFACE" THEN TagsOf(r_popped)
                       ELSE IF ~atomic_shown /\ r_ready THEN {} ELSE r_shown
         /\ w_shown' = IF w_state = "S_MEM_INTERFACE" THEN TagsOf(w_popped)
                       ELSE IF w_ready THEN {} ELSE w_shown
         /\ lock_shown' = IF w_state = "S_MEM_INTERFACE" THEN TagsOf(LocksIn(w_popped))
                          ELSE {}
         /\ r_state = "S_MEM_INTERFACE" => r_shown = {}
         /\ w_state = "S_MEM_INTERFACE" => w_shown = {} /\ lock_shown = {}
         /\ r_state # "S_MEM_INTERFACE" => r_popped = {}
         /\ w_state # "S_MEM_INTERFACE" => w_popped = {}
<1>1. /\ r_shown' = Shows(R!rsp_valid_o', r_next_tag')
      /\ w_shown' = Shows(W!rsp_valid_o', w_next_tag')
      /\ lock_shown' = Shows(W!rsp_valid_o' /\ w_next_atomic', w_next_tag')
      /\ lock_shown = Shows(W!rsp_valid_o /\ w_next_atomic, w_next_tag)
  BY DEF r_shown, w_shown, lock_shown, atomic_shown, Shows
<1>2. atomic_shown => r_ready /\ w_ready
  BY DEF ClockEdge
<1>3. r_shown' = IF r_state = "S_MEM_INTERFACE" THEN TagsOf(r_popped)
                 ELSE IF ~atomic_shown /\ r_ready THEN {} ELSE r_shown
  BY <1>1, ResponsesAfterEdge DEF Shows, r_popped, TagsOf, r_shown
<1>4. w_shown' = IF w_state = "S_MEM_INTERFACE" THEN TagsOf(w_popped)
                 ELSE IF w_ready THEN {} ELSE w_shown
  BY <1>1, ResponsesAfterEdge DEF Shows, w_popped, TagsOf, w_shown
<1>5. lock_shown' = IF w_state = "S_MEM_INTERFACE" THEN TagsOf(LocksIn(w_popped)) ELSE {}
  <2>1. CASE w_state = "S_MEM_INTERFACE"
    BY <1>1, <2>1, ResponsesAfterEdge DEF Shows, w_popped, TagsOf, LocksIn
  <2>2. CASE w_state # "S_MEM_INTERFACE"
    BY <1>1, <1>2, <2>2, ResponsesAfterEdge DEF Shows, atomic_shown
  <2> QED
    BY <2>1, <2>2
<1>6. /\ r_state = "S_MEM_INTERFACE" => r_shown = {}
      /\ w_state = "S_MEM_INTERFACE" => w_shown = {} /\ lock_shown = {}
  BY <1>1, ResponsesAfterEdge DEF Shows, r_shown, w_shown
<1> QED
  BY <1>3, <1>4, <1>5, <1>6 DEF r_popped, w_popped

LEMMA PortsKept ==
  ASSUME LinkInv, NEW r_ready \in BOOLEAN, NEW w_ready \in BOOLEAN,
         ClockEdge(r_ready, w_ready)
  PROVE  PortsAgree'
<1>1. PortsInSets /\ InFlightApart
  BY PortsSame, FlightApart DEF LinkInv
<1>2. /\ r_popped \subseteq r_queue /\ r_queue' = (r_queue \ r_popped) \cup r_pushed
      /\ w_popped \subseteq w_queue /\ w_queue' = (w_queue \ w_popped) \cup w_pushed
  BY ReadChannelEdge, WriteChannelEdge
<1>3. /\ TagsOf(r_queue) = TagsOf(r_queue \ r_popped) \cup TagsOf(r_popped)
      /\ TagsOf(r_queue') = TagsOf(r_queue \ r_popped) \cup TagsOf(r_pushed)
  BY <1>2 DEF TagsOf
<1>4. /\ TagsOf(w_queue) = TagsOf(w_queue \ w_popped) \cup TagsOf(w_popped)
      /\ TagsOf(w_queue') = TagsOf(w_queue \ w_popped) \cup TagsOf(w_pushed)
  BY <1>2 DEF TagsOf
<1>5. /\ TagsOf(LocksIn(w_queue)) = TagsOf(LocksIn(w_queue \ w_popped)) \cup TagsOf(LocksIn(w_popped))
      /\ TagsOf(LocksIn(w_queue')) = TagsOf(LocksIn(w_queue \ w_popped)) \cup TagsOf(LocksIn(w_pushed))
      /\ TagsOf(LocksIn(w_queue)) \subseteq TagsOf(LocksIn(Unperformed))
      /\ TagsOf(LocksIn(w_queue)) \subseteq TagsOf(w_queue)
  BY <1>2 DEF TagsOf, LocksIn, Unperformed
<1> DEFINE r_done == Shows(dc_read_resp_valid_o /\ r_ready, dc_read_resp_tag_o)
           w_done == Shows(W!rsp_valid_o /\ w_ready, w_next_tag)
<1>6. /\ awaits_r' = (awaits_r \ r_done) \cup TagsOf(r_pushed) \cup TagsOf(LocksIn(w_pushed))
      /\ awaits_w' = (awaits_w \ w_done) \cup TagsOf(w_pushed)
  BY PortsAfterEdge
<1>7. /\ r_done = IF r_ready THEN IF atomic_shown THEN lock_shown ELSE r_shown ELSE {}
      /\ w_done = IF w_ready THEN w_shown ELSE {}
      /\ atomic_shown => r_ready
  BY DEF Shows, dc_read_resp_valid_o, dc_read_resp_tag_o, lock_shown, atomic_shown,
         r_shown, w_shown, ClockEdge
<1> HIDE DEF r_done, w_done
<1>8. awaits_w' = TagsOf(w_queue') \cup w_shown'
  BY <1>1, <1>4, <1>6, <1>7, ShownAfterEdge DEF PortsInSets, InFlightApart
<1>9. awaits_r' = TagsOf(r_queue') \cup r_shown' \cup TagsOf(LocksIn(w_queue')) \cup lock_shown'
  <2>1. awaits_r \ r_done = TagsOf(r_queue \ r_popped) \cup r_shown'
                              \cup TagsOf(LocksIn(w_queue \ w_popped)) \cup lock_shown'
    <3>1. (TagsOf(r_queue) \cup r_shown) \ r_done = TagsOf(r_queue \ r_popped) \cup r_shown'
      <4>1. CASE atomic_shown
        BY <1>1, <1>3, <1>7, <4>1, ShownAfterEdge DEF InFlightApart
      <4>2. CASE ~atomic_shown
        BY <1>1, <1>3, <1>7, <4>2, ShownAfterEdge DEF InFlightApart
      <4> QED
        BY <4>1, <4>2
    <3>2. (TagsOf(LocksIn(w_queue)) \cup lock_shown) \ r_done
            = TagsOf(LocksIn(w_queue \ w_popped)) \cup lock_shown'
      <4>1. CASE atomic_shown
        BY <1>1, <1>5, <1>7, <4>1, ShownAfterEdge DEF InFlightApart
      <4>2. CASE ~atomic_shown
        BY <1>1, <1>5, <1>7, <4>2, ShownAfterEdge DEF InFlightApart
      <4> QED
        BY <4>1, <4>2
    <3> QED
      BY <1>1, <3>1, <3>2 DEF PortsInSets
  <2> QED
    BY <1>3, <1>5, <1>6, <2>1
<1>10. PortsInSets'
  BY <1>8, <1>9 DEF PortsInSets
<1> QED
  BY <1>10, PortsSame, PTL

-----------------------------------------------------------------------------
(* What the channels hold, and the types, after an edge.                   *)

LEMMA ReadsKept ==
  ASSUME LinkInv, NEW r_ready \in BOOLEAN, NEW w_ready \in BOOLEAN,
         ClockEdge(r_ready, w_ready)
  PROVE  ReadsInv'
<1>1. ReadsInv /\ PortsInSets /\ InFlightApart
  BY PortsSame, FlightApart DEF LinkInv
<1>2. /\ r_popped \subseteq r_queue /\ r_queue' = (r_queue \ r_popped) \cup r_pushed
      /\ \A o \in r_popped, p \in r_queue \ r_popped : o.tag # p.tag
      /\ TagsDiffer(R!Queued')
  BY ReadChannelEdge
<1>3. /\ r_pushed \cup OneOf(r_req') = OneOf(r_req)
      /\ r_req' \in {r_req, NoReq} /\ (r_req' # NoReq => r_pushed = {})
      /\ TagsOf(OneOf(r_req)) \cap awaits_r = {}
  BY <1>1, PortsAfterEdge DEF ReadsInv, OneOf, TagsOf
<1>4. \A o \in r_queue' \cup OneOf(r_req') : Readable(o)
  BY <1>1, <1>2, <1>3 DEF ReadsInv
<1>5. R!rsp_valid_o' => r_next_tag' \in {"fromhost", "other"} \ TagsOf(r_queue')
  <2>1. TagsOf(r_queue') \subseteq TagsOf(r_queue \ r_popped) \cup TagsOf(OneOf(r_req))
    BY <1>2, <1>3 DEF TagsOf
  <2>2. /\ TagsOf(r_popped) \cap TagsOf(r_queue \ r_popped) = {}
        /\ TagsOf(r_popped) \cup TagsOf(r_queue \ r_popped) = TagsOf(r_queue)
    BY <1>2 DEF TagsOf
  <2>3. r_shown' \subseteq {"fromhost", "other"} /\ r_shown' \cap TagsOf(r_queue') = {}
    <3>1. CASE r_state = "S_MEM_INTERFACE"
      BY <1>1, <1>3, <2>1, <2>2, <3>1, ShownAfterEdge DEF PortsInSets, InFlightApart
    <3>2. CASE r_state # "S_MEM_INTERFACE"
      <4>1. r_shown' \subseteq r_shown
        BY <3>2, ShownAfterEdge
      <4> QED
        BY <1>1, <1>3, <2>1, <2>2, <4>1 DEF PortsInSets, InFlightApart
    <3> QED
      BY <3>1, <3>2
  <2> QED
    BY <2>3 DEF r_shown, Shows
<1>6. r_req' # NoReq => r_req'.tag \notin awaits_r'
  <2> SUFFICES ASSUME r_req' # NoReq PROVE r_req'.tag \notin awaits_r'
    OBVIOUS
  <2>1. r_req' = r_req /\ r_pushed = {} /\ r_req.tag \notin awaits_r
    BY <1>1, <1>3 DEF ReadsInv
  <2>2. r_req.tag # "lock"
    BY <1>1, <2>1 DEF ReadsInv, OneOf, Readable
  <2>3. TagsOf(LocksIn(w_pushed)) \subseteq {"lock"}
    <3>1. w_pushed \subseteq Unperformed
      BY PortsAfterEdge DEF Unperformed
    <3> QED
      BY <1>1, <3>1 DEF InFlightApart, TagsOf, LocksIn
  <2>4. awaits_r' \subseteq awaits_r \cup TagsOf(r_pushed) \cup TagsOf(LocksIn(w_pushed))
    BY PortsAfterEdge
  <2> QED
    BY <2>1, <2>2, <2>3, <2>4 DEF TagsOf
<1> QED
  BY <1>2, <1>4, <1>5, <1>6 DEF ReadsInv

(* What the memory has not seen after the edge.                            *)
LEMMA UnperformedAfterEdge ==
  ASSUME LinkInv, NEW r_ready \in BOOLEAN, NEW w_ready \in BOOLEAN,
         ClockEdge(r_ready, w_ready)
  PROVE  Unperformed' = Unperformed \ w_popped
<1>1. WritesInv /\ PortsInSets
  BY PortsSame DEF LinkInv
<1>2. w_popped \subseteq w_queue /\ w_queue' = (w_queue \ w_popped) \cup w_pushed
  BY WriteChannelEdge
<1>3. w_pushed \cup OneOf(w_op') = OneOf(w_op)
  BY PortsAfterEdge
<1>4. OneOf(w_op) \cap w_queue = {}
  BY <1>1 DEF WritesInv, PortsInSets, OneOf, TagsOf
<1>5. Unperformed' = w_queue' \cup OneOf(w_op')
  BY DEF Unperformed, OneOf
<1> QED
  BY <1>2, <1>3, <1>4, <1>5 DEF Unperformed

LEMMA WritesKept ==
  ASSUME LinkInv, NEW r_ready \in BOOLEAN, NEW w_ready \in BOOLEAN,
         ClockEdge(r_ready, w_ready)
  PROVE  WritesInv'
<1>1. WritesInv /\ PortsInSets /\ InFlightApart
  BY PortsSame, FlightApart DEF LinkInv
<1>2. /\ w_popped \subseteq w_queue /\ w_queue' = (w_queue \ w_popped) \cup w_pushed
      /\ \A o \in w_popped, p \in w_queue \ w_popped : o.tag # p.tag
      /\ TagsDiffer(W!Queued')
  BY WriteChannelEdge
<1>3. /\ w_pushed \cup OneOf(w_op') = OneOf(w_op)
      /\ w_op' \in {w_op, NoReq} /\ (w_op' # NoReq => w_pushed = {})
      /\ TagsOf(OneOf(w_op)) \cap awaits_w = {}
      /\ w_op' = NoReq => w_valid' = {}
  BY <1>1, PortsAfterEdge DEF WritesInv, OneOf, TagsOf
<1>4. \A o \in Unperformed' : Writable(o)
  BY <1>1, UnperformedAfterEdge DEF WritesInv
<1>5. W!rsp_valid_o' => w_next_tag' \notin TagsOf(w_queue')
  <2>1. TagsOf(w_queue') \subseteq TagsOf(w_queue \ w_popped) \cup TagsOf(OneOf(w_op))
    BY <1>2, <1>3 DEF TagsOf
  <2>2. /\ TagsOf(w_popped) \cap TagsOf(w_queue \ w_popped) = {}
        /\ TagsOf(w_popped) \cup TagsOf(w_queue \ w_popped) = TagsOf(w_queue)
    BY <1>2 DEF TagsOf
  <2>3. w_shown' \cap TagsOf(w_queue') = {}
    <3>1. CASE w_state = "S_MEM_INTERFACE"
      BY <1>1, <1>3, <2>1, <2>2, <3>1, ShownAfterEdge DEF PortsInSets, InFlightApart
    <3>2. CASE w_state # "S_MEM_INTERFACE"
      <4>1. w_shown' \subseteq w_shown
        BY <3>2, ShownAfterEdge
      <4> QED
        BY <1>1, <1>3, <2>1, <2>2, <4>1 DEF PortsInSets, InFlightApart
    <3> QED
      BY <3>1, <3>2
  <2> QED
    BY <2>3 DEF w_shown, Shows
<1>6. W!rsp_valid_o' => (w_next_atomic' <=> w_next_tag' = "lock")
  <2>1. CASE w_state = "S_MEM_INTERFACE"
    <3>1. W!head.op \in Unperformed
      BY <1>2, <2>1 DEF w_popped, Unperformed
    <3>2. W!head.op.cmd = "atomic" <=> W!head.op.tag = "lock"
      BY <1>1, <3>1 DEF WritesInv, Writable
    <3> QED
      BY <2>1, <3>2, ResponsesAfterEdge
  <2>2. CASE w_state # "S_MEM_INTERFACE"
    BY <1>1, <2>2, ResponsesAfterEdge DEF WritesInv
  <2> QED
    BY <2>1, <2>2
<1>7. w_op' # NoReq => w_op'.tag \notin awaits_w'
  BY <1>1, <1>3, PortsAfterEdge DEF WritesInv, TagsOf
<1> QED
  BY <1>2, <1>3, <1>4, <1>5, <1>6, <1>7 DEF WritesInv

(* The memory holds numbers, whoever writes them.                          *)
LEMMA MemoryTypes ==
  ASSUME LinkInv, NEW m \in [Locations -> Nat]
  PROVE  written(m) \in [Locations -> Nat] /\ hosted(m) \in [Locations -> Nat]
<1>1. w_state = "S_MEM_INTERFACE" => W!head.op \in Ops
  <2>1. w_state = "S_MEM_INTERFACE" => WP!head \in WP!Entries
    BY WP!ReadDue, ChannelAssumptions DEF LinkInv, ChannelsInv, WP!fifo_read
  <2> QED
    BY <2>1 DEF WP!Entries, WP!head, W!head
<1>2. w_state = "S_MEM_INTERFACE" => W!head.op.tag \in Locations /\ W!head.op.val \in Nat
  BY <1>1 DEF Ops, Tags
<1>3. written(m) \in [Locations -> Nat]
  BY <1>2 DEF written
<1>4. hosted(m) \in [Locations -> Nat]
  BY DEF hosted, answered
<1> QED
  BY <1>3, <1>4

LEMMA TypesKept ==
  ASSUME LinkInv, NEW r_ready \in BOOLEAN, NEW w_ready \in BOOLEAN,
         ClockEdge(r_ready, w_ready)
  PROVE  Types'
<1>1. Types /\ MemoryEdge /\ PollEdge(r_ready)
  BY DEF LinkInv, ClockEdge
<1>2. mem \in [Locations -> Nat] /\ written(mem) \in [Locations -> Nat]
      /\ hosted(mem) \in [Locations -> Nat]
  BY <1>1, MemoryTypes DEF Types
<1>3. PICK h \in {mem, written(mem)}, b \in {mem, hosted(mem)} :
        /\ mem' \in {written(hosted(mem)), hosted(written(mem))}
        /\ WriteEdge(b)
        /\ ReadEdge({mem, h, b, mem'})
  BY <1>1, MemoryAfterEdge
<1>4. mem' \in [Locations -> Nat]
  BY <1>2, <1>3, MemoryTypes
<1>5. /\ r_state = "S_MEM_INTERFACE" => R!head.op.tag \in Locations
      /\ w_state = "S_MEM_INTERFACE" => W!head.op.tag \in Locations
  <2>1. r_popped \subseteq Ops /\ w_popped \subseteq Ops
    BY ReadChannelEdge, WriteChannelEdge, QueuesHoldOps
  <2> QED
    BY <2>1 DEF r_popped, w_popped, Ops, Tags
<1>6. r_next_tag' \in Tags \cup {Zero} /\ r_next_data' \in Nat
  <2>1. CASE r_state = "S_MEM_INTERFACE"
    <3>1. PICK m \in {mem, h, b, mem'} :
            r_next_tag' = R!head.op.tag /\ r_next_data' = m[R!head.op.tag]
      BY <1>3, <2>1 DEF ReadEdge
    <3>2. m \in [Locations -> Nat]
      BY <1>2, <1>3, <1>4
    <3> QED
      BY <1>5, <2>1, <3>1, <3>2 DEF Tags
  <2>2. CASE r_state # "S_MEM_INTERFACE"
    BY <1>1, <1>3, <2>2 DEF ReadEdge, Types
  <2> QED
    BY <2>1, <2>2
<1>7. w_next_tag' \in Tags \cup {Zero} /\ w_next_data' \in Nat
  <2>1. b \in [Locations -> Nat]
    BY <1>2
  <2> QED
    BY <1>1, <1>3, <1>5, <2>1 DEF WriteEdge, Types, Tags
<1>8. w_next_atomic' \in BOOLEAN
  BY <1>1, <1>3, Zenon DEF WriteEdge, Types
<1>9. finished' \in BOOLEAN
  BY Zenon DEF ClockEdge
<1>10. /\ r_req' \in Ops \cup {NoReq} /\ w_op' \in Ops \cup {NoReq}
       /\ w_valid' \in SUBSET {"req", "data"}
  BY <1>1, PortsAfterEdge DEF Types
<1>11. awaits_r' \in SUBSET Tags /\ awaits_w' \in SUBSET Tags
  <2>1. OneOf(r_req) \subseteq Ops /\ OneOf(w_op) \subseteq Ops
    BY <1>1 DEF Types, OneOf
  <2>2. r_pushed \subseteq Ops /\ w_pushed \subseteq Ops
    BY <2>1, PortsAfterEdge
  <2>3. TagsOf(r_pushed) \subseteq Tags /\ TagsOf(w_pushed) \subseteq Tags
        /\ TagsOf(LocksIn(w_pushed)) \subseteq Tags
    BY <2>2 DEF TagsOf, LocksIn, Ops
  <2> QED
    BY <1>1, <2>3, PortsAfterEdge DEF Types
<1>12. /\ phase' \in {"arguments", "called", "clear", "cleared", "exited"}
       /\ call' \in Calls /\ todo' \in SUBSET Words
  BY <1>1 DEF PollEdge, Types
<1> QED
  BY <1>4, <1>6, <1>7, <1>8, <1>9, <1>10, <1>11, <1>12 DEF Types

-----------------------------------------------------------------------------
(* The program and the host at an edge.                                    *)

(* The write that is performed replaces its word and no other.             *)
LEMMA WrittenWord ==
  ASSUME LinkInv, NEW m \in [Locations -> Nat]
  PROVE  /\ \A o \in w_popped : written(m)[o.tag] = o.val
         /\ \A l \in Locations \ TagsOf(w_popped) : written(m)[l] = m[l]
         /\ w_popped = {} => written(m) = m
         /\ w_popped \subseteq w_queue
<1>1. w_popped \subseteq w_queue
  <2>1. w_state = "S_MEM_INTERFACE" => WP!Queued # <<>> /\ Head(WP!Queued) = WP!head.op
    BY WP!HeadIsOldest, ChannelAssumptions DEF LinkInv, ChannelsInv, WP!fifo_read
  <2>2. WP!Queued = W!Queued /\ WP!head = W!head
    BY DEF WP!Queued, W!Queued, WP!head, W!head
  <2>3. W!Queued # <<>> => Head(W!Queued) \in w_queue
    BY QueuesHoldOps, OldestLeaves DEF LinkInv, WritesInv, w_queue
  <2> QED
    BY <2>1, <2>2, <2>3 DEF w_popped
<1>2. CASE w_state # "S_MEM_INTERFACE"
  BY <1>1, <1>2 DEF w_popped, written
<1>3. CASE w_state = "S_MEM_INTERFACE"
  <2> DEFINE op == W!head.op
  <2>1. w_popped = {op} /\ op \in Ops
    BY <1>1, <1>3, QueuesHoldOps DEF w_popped
  <2>2. op.tag \in Locations /\ op.cmd \in {"write", "atomic"}
    BY <1>1, <2>1 DEF LinkInv, WritesInv, Unperformed, Writable, Ops, Tags
  <2>3. written(m) = [m EXCEPT ![op.tag] = op.val]
    BY <1>3, <2>2 DEF written
  <2> HIDE DEF op
  <2> QED
    BY <1>1, <2>1, <2>2, <2>3 DEF TagsOf
<1> QED
  BY <1>2, <1>3

(* No call is handed over before the program has called, or after the      *)
(* store to tohost was accepted.                                           *)
LEMMA NoCallPresented ==
  ASSUME LinkInv, phase # "called" \/ w_op = NoReq
  PROVE  ~is_call
<1> SUFFICES ASSUME is_call PROVE FALSE
  OBVIOUS
<1>1. both_valid /\ w_op.tag = "tohost" /\ w_op.val % 2 # 1
  BY DEF is_call, is_exit, is_tohost
<1>2. w_op # NoReq /\ w_op \in Unperformed
  BY <1>1 DEF LinkInv, WritesInv, both_valid, Unperformed, OneOf
<1> QED
  BY <1>1, <1>2 DEF LinkInv, Types, ArgumentsInv, QuietInv, Words

(* Then the edge leaves the memory to the write channel.                   *)
LEMMA EdgeWithoutCall ==
  ASSUME LinkInv, ~is_call, NEW r_ready \in BOOLEAN, NEW w_ready \in BOOLEAN,
         ClockEdge(r_ready, w_ready)
  PROVE  /\ mem' = written(mem)
         /\ printed \in {<<>>, <<call>>} =>
              printed' = IF phase' = "clear" THEN <<>> ELSE printed
         /\ call' = call /\ todo' = todo
         /\ phase' = IF phase = "called" /\ phase' = "clear" THEN "clear" ELSE phase
<1>1. \A m : hosted(m) = m /\ shown(m) = <<>>
  BY DEF hosted, shown
<1>2. /\ MemoryEdge /\ PollEdge(r_ready)
  BY DEF ClockEdge
<1>3. mem' = written(mem) /\ printed' = IF phase' = "clear" THEN <<>> ELSE printed \o <<>>
  BY <1>1, <1>2, MemoryAfterEdge
<1>4. /\ printed = <<>> => printed \o <<>> = printed
      /\ printed = <<call>> => printed \o <<>> = printed
  <2>1. <<>> \in Seq({call}) /\ <<call>> \in Seq({call})
    OBVIOUS
  <2>2. \A s \in Seq({call}) : s \o <<>> = s
    BY ConcatEmptySeq
  <2> QED
    BY <2>1, <2>2
<1> QED
  BY <1>2, <1>3, <1>4 DEF PollEdge

LEMMA ArgumentsKept ==
  ASSUME LinkInv, NEW r_ready \in BOOLEAN, NEW w_ready \in BOOLEAN,
         ClockEdge(r_ready, w_ready)
  PROVE  ArgumentsInv'
<1> SUFFICES ASSUME phase' = "arguments"
             PROVE  (/\ printed = <<>> /\ mem["fromhost"] = 0
                     /\ \A o \in Unperformed : o.tag \in (Words \ todo) \cup {"lock"}
                     /\ \A o \in Unperformed : o.tag \in Words => o.val = Argument(o.tag)
                     /\ \A w \in Words \ todo :
                          w \notin TagsOf(Unperformed) => mem[w] = Argument(w))'
  BY Zenon DEF ArgumentsInv
<1>1. phase = "arguments"
  BY DEF ClockEdge, PollEdge
<1>2. /\ printed = <<>> /\ mem["fromhost"] = 0
      /\ \A o \in Unperformed : o.tag \in (Words \ todo) \cup {"lock"}
      /\ \A o \in Unperformed : o.tag \in Words => o.val = Argument(o.tag)
      /\ \A w \in Words \ todo : w \notin TagsOf(Unperformed) => mem[w] = Argument(w)
  BY <1>1 DEF LinkInv, ArgumentsInv
<1>3. ~is_call
  BY <1>1, NoCallPresented
<1>4. mem' = written(mem) /\ printed' = <<>> /\ call' = call /\ todo' = todo
  BY <1>2, <1>3, EdgeWithoutCall
<1>5. Unperformed' = Unperformed \ w_popped /\ w_popped \subseteq Unperformed
  BY UnperformedAfterEdge, WriteChannelEdge DEF Unperformed
<1>6. /\ \A o \in w_popped : mem'[o.tag] = o.val
      /\ \A l \in Locations \ TagsOf(w_popped) : mem'[l] = mem[l]
  BY <1>4, WrittenWord DEF LinkInv, Types
<1>7. mem'["fromhost"] = 0
  BY <1>2, <1>5, <1>6 DEF TagsOf, Locations, Words
<1>8. \A w : Argument(w)' = Argument(w)
  BY <1>4 DEF Argument
<1>9. ASSUME NEW w \in Words \ todo, w \notin TagsOf(Unperformed')
      PROVE  mem'[w] = Argument(w)
  <2>1. CASE w \in TagsOf(w_popped)
    BY <1>2, <1>5, <1>6, <1>9, <2>1 DEF TagsOf
  <2>2. CASE w \notin TagsOf(w_popped)
    <3>1. w \notin TagsOf(Unperformed)
      BY <1>5, <1>9, <2>2 DEF TagsOf
    <3> QED
      BY <1>2, <1>6, <2>2, <3>1 DEF Locations
  <2> QED
    BY <2>1, <2>2
<1>10. TagsOf(Unperformed)' = TagsOf(Unperformed')
  BY DEF TagsOf
<1> QED
  BY <1>2, <1>4, <1>5, <1>7, <1>8, <1>9, <1>10

(* While the store to tohost is presented, the write channel is idle.      *)
LEMMA IdleWhenPresented ==
  ASSUME LinkInv, w_queue = {}
  PROVE  /\ w_state # "S_MEM_INTERFACE" /\ w_popped = {} /\ W!req_ready_o
         /\ \A m \in [Locations -> Nat] : written(m) = m
<1>1. W!Queued = <<>>
  <2>1. \A i \in DOMAIN W!Queued : FALSE
    BY DEF w_queue, OpsOf
  <2>2. W!Queued \in Seq(Ops)
    BY QueuesHoldOps
  <2>3. DOMAIN W!Queued = 1 .. Len(W!Queued) /\ Len(W!Queued) \in Nat
    BY <2>2, LenProperties
  <2>4. Len(W!Queued) = 0
    BY <2>1, <2>3
  <2> QED
    BY <2>2, <2>4, EmptySeq
<1>2. w_count = 0
  <2>1. WP!QueuedIsSeq
    BY WP!QueuedSeq, ChannelAssumptions DEF LinkInv, ChannelsInv
  <2>2. WP!Queued = W!Queued
    BY DEF WP!Queued, W!Queued
  <2> QED
    BY <1>1, <2>1, <2>2 DEF WP!QueuedIsSeq
<1>3. W!req_ready_o
  BY <1>2, HostLinkAssumption DEF W!req_ready_o, W!full
<1>4. w_state # "S_MEM_INTERFACE"
  BY <1>2 DEF LinkInv, ChannelsInv, WP!FifoInv, WP!HeadDue
<1> QED
  BY <1>3, <1>4 DEF w_popped, written

(* A result that is taken is that of a call that was executed.             *)
LEMMA ResultIsOwn ==
  ASSUME LinkInv, NEW r_ready \in BOOLEAN, NEW w_ready \in BOOLEAN,
         ClockEdge(r_ready, w_ready), phase' # phase
  PROVE  /\ phase = "called" /\ phase' = "clear" /\ printed # <<>> /\ w_op = NoReq
         /\ r_ready /\ ~atomic_shown /\ R!rsp_valid_o /\ r_next_tag = "fromhost"
<1>1. /\ phase = "called" /\ phase' = "clear" /\ dc_read_resp_valid_o /\ r_ready
      /\ dc_read_resp_tag_o = "fromhost" /\ dc_read_resp_data_o # 0
  BY DEF ClockEdge, PollEdge
<1>2. ~atomic_shown
  BY <1>1 DEF LinkInv, WritesInv, atomic_shown, dc_read_resp_tag_o
<1>3. R!rsp_valid_o /\ r_next_tag = "fromhost" /\ r_next_data # 0
  BY <1>1, <1>2 DEF dc_read_resp_valid_o, dc_read_resp_tag_o, dc_read_resp_data_o
<1>4. printed # <<>> /\ w_op = NoReq
  BY <1>1, <1>3 DEF LinkInv, CalledInv
<1> QED
  BY <1>1, <1>2, <1>3, <1>4

(* The edge in which the store to tohost is accepted executes the call.    *)
LEMMA EdgeWithCall ==
  ASSUME LinkInv, NEW r_ready \in BOOLEAN, NEW w_ready \in BOOLEAN,
         ClockEdge(r_ready, w_ready), phase = "called", w_op # NoReq, both_valid
  PROVE  /\ phase' = "called" /\ call' = call
         /\ printed = <<>> /\ printed' = <<call>> /\ w_op' = NoReq
         /\ mem'["which"] = SYS_write /\ mem'["arg"] = call
<1>1. /\ mem["which"] = SYS_write /\ mem["arg"] = call
      /\ w_op.tag = "tohost" /\ w_op.val = magicmem
      /\ w_queue = {} /\ printed = <<>>
  BY DEF LinkInv, CalledInv, Unperformed, OneOf
<1>2. phase' = "called" /\ call' = call
  BY <1>1, ResultIsOwn DEF ClockEdge, PollEdge
<1>3. is_call
  <2>1. magicmem % 2 # 1
    BY DEF magicmem
  <2> QED
    BY <1>1, <2>1 DEF is_call, is_exit, is_tohost
<1>4. mem \in [Locations -> Nat] /\ hosted(mem) \in [Locations -> Nat]
  BY MemoryTypes DEF LinkInv, Types
<1>5. written(mem) = mem /\ written(hosted(mem)) = hosted(mem)
  BY <1>1, <1>4, IdleWhenPresented
<1>6. shown(mem) = <<call>> /\ hosted(mem) = [mem EXCEPT !["fromhost"] = 1]
  BY <1>1, <1>3 DEF shown, hosted, answered, is_write
<1>7. mem' = hosted(mem) /\ printed' = printed \o <<call>>
  BY <1>2, <1>5, <1>6, MemoryAfterEdge DEF ClockEdge
<1>8. <<>> \o <<call>> = <<call>>
  <2>1. <<call>> \in Seq({call})
    OBVIOUS
  <2> QED
    BY <2>1, ConcatEmptySeq
<1>9. w_op' = NoReq
  <2>1. dc_write_req_ready_o
    BY <1>1, IdleWhenPresented DEF dc_write_req_ready_o
  <2> QED
    BY <2>1 DEF ClockEdge, PortsEdge
<1> QED
  BY <1>1, <1>2, <1>4, <1>6, <1>7, <1>8, <1>9 DEF Locations, Words

(* Before it, nothing of the program changes.                              *)
LEMMA EdgeBeforeCall ==
  ASSUME LinkInv, NEW r_ready \in BOOLEAN, NEW w_ready \in BOOLEAN,
         ClockEdge(r_ready, w_ready), phase = "called", w_op # NoReq, ~both_valid
  PROVE  /\ phase' = "called" /\ call' = call
         /\ printed = <<>> /\ printed' = <<>> /\ w_op' = w_op
         /\ mem' = mem /\ mem["fromhost"] = 0 /\ w_queue' = {}
         /\ r_next_data' # 0 /\ r_next_tag' = "fromhost" /\ R!rsp_valid_o' =>
              R!rsp_valid_o /\ r_next_tag = "fromhost" /\ r_next_data # 0
<1>1. w_queue = {} /\ printed = <<>> /\ mem["fromhost"] = 0
  BY DEF LinkInv, CalledInv
<1>2. phase' = "called" /\ call' = call
  BY <1>1, ResultIsOwn DEF ClockEdge, PollEdge
<1>3. ~is_call
  BY DEF is_call, is_tohost
<1>4. mem \in [Locations -> Nat]
  BY DEF LinkInv, Types
<1>5. written(mem) = mem /\ hosted(mem) = mem
  BY <1>1, <1>3, <1>4, IdleWhenPresented DEF hosted
<1>6. mem' = mem /\ printed' = <<>>
  BY <1>1, <1>2, <1>3, <1>5, EdgeWithoutCall
<1>7. w_op' = w_op
  BY DEF ClockEdge, PortsEdge, dc_write_req_ready_o
<1>8. w_queue' = {}
  <2>1. w_pushed = {}
    BY <1>7, PortsAfterEdge
  <2> QED
    BY <1>1, <2>1, WriteChannelEdge
<1>9. ASSUME r_next_data' # 0, r_next_tag' = "fromhost", R!rsp_valid_o'
      PROVE  R!rsp_valid_o /\ r_next_tag = "fromhost" /\ r_next_data # 0
  <2>1. CASE r_state = "S_MEM_INTERFACE"
    <3>1. \E h \in {mem}, b \in {mem} : ReadEdge({mem, h, b, mem})
      BY <1>5, <1>6, MemoryAfterEdge DEF ClockEdge
    <3>2. r_next_data' = mem[r_next_tag']
      BY <2>1, <3>1 DEF ReadEdge
    <3> QED
      BY <1>1, <1>9, <3>2
  <2>2. CASE r_state # "S_MEM_INTERFACE"
    BY <1>9, <2>2, ResponsesAfterEdge
  <2> QED
    BY <2>1, <2>2
<1> QED
  BY <1>1, <1>2, <1>6, <1>7, <1>8, <1>9

LEMMA CalledKept ==
  ASSUME LinkInv, NEW r_ready \in BOOLEAN, NEW w_ready \in BOOLEAN,
         ClockEdge(r_ready, w_ready)
  PROVE  CalledInv'
<1> SUFFICES ASSUME phase' = "called"
             PROVE  (/\ mem["which"] = SYS_write /\ mem["arg"] = call
                     /\ \A o \in Unperformed : o.tag = "tohost" /\ o.val = magicmem
                     /\ w_op # NoReq => /\ w_queue = {}
                                        /\ printed = <<>> /\ mem["fromhost"] = 0
                     /\ w_op = NoReq => printed = <<call>>
                     /\ R!rsp_valid_o /\ r_next_tag = "fromhost" /\ r_next_data # 0
                          => printed # <<>>)'
  BY Zenon DEF CalledInv
<1>1. phase = "called" /\ call' = call
  BY DEF ClockEdge, PollEdge
<1>2. /\ mem["which"] = SYS_write /\ mem["arg"] = call
      /\ \A o \in Unperformed : o.tag = "tohost" /\ o.val = magicmem
      /\ w_op = NoReq => printed = <<call>>
      /\ R!rsp_valid_o /\ r_next_tag = "fromhost" /\ r_next_data # 0 => printed # <<>>
  BY <1>1 DEF LinkInv, CalledInv
<1>3. /\ Unperformed' = Unperformed \ w_popped /\ w_popped \subseteq Unperformed
      /\ \A o \in Unperformed' : o.tag = "tohost" /\ o.val = magicmem
  BY <1>2, UnperformedAfterEdge, WriteChannelEdge DEF Unperformed
<1>4. CASE w_op # NoReq /\ both_valid
  BY <1>1, <1>3, <1>4, EdgeWithCall
<1>5. CASE w_op # NoReq /\ ~both_valid
  BY <1>1, <1>2, <1>3, <1>5, EdgeBeforeCall
<1>6. CASE w_op = NoReq
  <2>1. ~is_call
    BY <1>6, NoCallPresented
  <2>2. mem' = written(mem) /\ printed' = printed
    BY <1>2, <1>6, <2>1, EdgeWithoutCall
  <2>3. "which" \notin TagsOf(w_popped) /\ "arg" \notin TagsOf(w_popped)
    BY <1>2, <1>3 DEF TagsOf
  <2>4. mem'["which"] = SYS_write /\ mem'["arg"] = call
    BY <1>2, <2>2, <2>3, WrittenWord DEF LinkInv, Types, Locations, Words
  <2>5. w_op' = NoReq
    BY <1>6, PortsAfterEdge
  <2> QED
    BY <1>1, <1>2, <1>3, <1>6, <2>2, <2>4, <2>5
<1> QED
  BY <1>4, <1>5, <1>6

LEMMA QuietKept ==
  ASSUME LinkInv, NEW r_ready \in BOOLEAN, NEW w_ready \in BOOLEAN,
         ClockEdge(r_ready, w_ready)
  PROVE  QuietInv'
<1>1. /\ Unperformed' = Unperformed \ w_popped /\ w_popped \subseteq Unperformed
      /\ w_op' \in {w_op, NoReq} /\ r_req' \in {r_req, NoReq}
      /\ OneOf(r_req) = r_pushed \cup OneOf(r_req')
  BY UnperformedAfterEdge, WriteChannelEdge, PortsAfterEdge DEF Unperformed
<1>2. QuietInv /\ PortsInSets /\ InFlightApart
  BY PortsSame, FlightApart DEF LinkInv
<1>3. "fromhost" \notin TagsOf(LocksIn(w_pushed))
  <2>1. w_pushed \subseteq Unperformed
    BY PortsAfterEdge DEF Unperformed
  <2> QED
    BY <1>2, <2>1 DEF InFlightApart, TagsOf, LocksIn
<1>4. CASE phase' = phase /\ phase = "called"
  BY <1>4 DEF QuietInv
<1>5. CASE phase' = phase /\ phase # "called"
  <2>1. /\ printed = <<>> /\ "fromhost" \notin awaits_r
        /\ r_req # NoReq => r_req.tag # "fromhost"
    BY <1>2, <1>5 DEF QuietInv
  <2>2. mem' = written(mem) /\ printed' = <<>>
    BY <1>5, <2>1, NoCallPresented, EdgeWithoutCall
  <2>3. "fromhost" \notin TagsOf(r_pushed)
    BY <1>1, <2>1 DEF OneOf, TagsOf
  <2>4. "fromhost" \notin awaits_r'
    BY <1>3, <2>1, <2>3, PortsAfterEdge
  <2>5. r_req' # NoReq => r_req'.tag # "fromhost"
    BY <1>1, <2>1
  <2>6. phase' = "clear" => w_op' = NoReq /\ \A o \in Unperformed' : o.tag = "tohost"
    BY <1>1, <1>2, <1>5 DEF QuietInv
  <2>7. phase' = "exited" =>
          \A o \in Unperformed' : /\ o.tag \in Words \cup {"lock", "tohost"}
                                  /\ o.tag = "tohost" => o.val % 2 = 1
    BY <1>1, <1>2, <1>5 DEF QuietInv
  <2>8. ASSUME phase' = "cleared"
        PROVE  /\ w_op' # NoReq => w_op'.tag = "fromhost"
               /\ \A o \in Unperformed' : o.tag \in {"tohost", "fromhost"}
               /\ \A o \in Unperformed' : o.tag = "fromhost" => o.val = 0
               /\ "fromhost" \notin TagsOf(Unperformed') => mem'["fromhost"] = 0
    <3>1. /\ w_op # NoReq => w_op.tag = "fromhost"
          /\ \A o \in Unperformed : o.tag \in {"tohost", "fromhost"}
          /\ \A o \in Unperformed : o.tag = "fromhost" => o.val = 0
          /\ "fromhost" \notin TagsOf(Unperformed) => mem["fromhost"] = 0
      BY <1>2, <1>5, <2>8 DEF QuietInv
    <3>2. /\ \A o \in w_popped : mem'[o.tag] = o.val
          /\ \A l \in Locations \ TagsOf(w_popped) : mem'[l] = mem[l]
      BY <2>2, WrittenWord DEF LinkInv, Types
    <3>3. ASSUME "fromhost" \notin TagsOf(Unperformed') PROVE mem'["fromhost"] = 0
      <4>1. CASE "fromhost" \in TagsOf(w_popped)
        BY <1>1, <3>1, <3>2, <4>1 DEF TagsOf
      <4>2. CASE "fromhost" \notin TagsOf(w_popped)
        <5>1. "fromhost" \notin TagsOf(Unperformed)
          BY <1>1, <3>3, <4>2 DEF TagsOf
        <5> QED
          BY <3>1, <3>2, <4>2, <5>1 DEF Locations
      <4> QED
        BY <4>1, <4>2
    <3> QED
      BY <1>1, <3>1, <3>3
  <2>9. TagsOf(Unperformed)' = TagsOf(Unperformed')
    BY DEF TagsOf
  <2> QED
    BY <1>5, <2>2, <2>4, <2>5, <2>6, <2>7, <2>8, <2>9 DEF QuietInv
<1>6. CASE phase' # phase
  <2>1. /\ phase = "called" /\ phase' = "clear" /\ printed # <<>> /\ w_op = NoReq
        /\ r_ready /\ ~atomic_shown /\ R!rsp_valid_o /\ r_next_tag = "fromhost"
    BY <1>6, ResultIsOwn
  <2>2. printed' = <<>>
    BY <2>1, MemoryAfterEdge DEF ClockEdge
  <2>3. \A o \in Unperformed' : o.tag = "tohost"
    BY <1>1, <2>1 DEF LinkInv, CalledInv
  <2>4. "fromhost" \in awaits_r
    BY <1>2, <2>1 DEF PortsInSets, r_shown, Shows
  <2>5. r_req # NoReq => r_req.tag # "fromhost"
    BY <2>4 DEF LinkInv, ReadsInv
  <2>6. "fromhost" \notin TagsOf(r_pushed)
    BY <1>1, <2>5 DEF OneOf, TagsOf
  <2>7. Shows(dc_read_resp_valid_o /\ r_ready, dc_read_resp_tag_o) = {"fromhost"}
    BY <2>1 DEF Shows, dc_read_resp_valid_o, dc_read_resp_tag_o
  <2>8. "fromhost" \notin awaits_r'
    BY <1>3, <2>6, <2>7, PortsAfterEdge
  <2> QED
    BY <1>1, <2>1, <2>2, <2>3, <2>5, <2>8 DEF QuietInv
<1> QED
  BY <1>4, <1>5, <1>6

(* An edge keeps the invariant.                                            *)
LEMMA ClockEdgeKeeps ==
  ASSUME LinkInv, NEW r_ready \in BOOLEAN, NEW w_ready \in BOOLEAN,
         ClockEdge(r_ready, w_ready)
  PROVE  LinkInv'
<1>1. ChannelsInv'
  BY ReadChannelEdge, WriteChannelEdge DEF ChannelsInv
<1> QED
  BY <1>1, TypesKept, PortsKept, ReadsKept, WritesKept, ArgumentsKept, CalledKept,
     QuietKept DEF LinkInv

-----------------------------------------------------------------------------
(* Steps of the cache and the program, between the edges.                  *)

LEMMA DutSame ==
  ASSUME LinkInv, UNCHANGED <<dut_vars, awaits_r, awaits_w>>
  PROVE  /\ ChannelsInv' /\ PortsAgree'
         /\ r_queue' = r_queue /\ w_queue' = w_queue
         /\ TagsDiffer(R!Queued') /\ TagsDiffer(W!Queued')
         /\ R!rsp_valid_o' <=> R!rsp_valid_o
         /\ W!rsp_valid_o' <=> W!rsp_valid_o
         /\ w_next_tag' = w_next_tag /\ (w_next_atomic' <=> w_next_atomic)
         /\ r_next_tag' = r_next_tag /\ r_next_data' = r_next_data
         /\ mem' = mem /\ printed' = printed /\ (finished' <=> finished)
         /\ awaits_r' = awaits_r /\ awaits_w' = awaits_w
<1>1. UNCHANGED <<r_vars, w_vars, mem, printed, finished, awaits_r, awaits_w>>
  BY DEF dut_vars
<1>2. UNCHANGED <<r_memory, r_write_ptr, r_read_ptr, r_count, r_state, r_next_tag, r_next_data>>
  BY <1>1 DEF r_vars
<1>3. UNCHANGED <<w_memory, w_write_ptr, w_read_ptr, w_count, w_state, w_next_tag,
                  w_next_data, w_next_atomic>>
  BY <1>1 DEF w_vars
<1>4. RP!FifoInv'
  BY <1>2 DEF LinkInv, ChannelsInv, RP!FifoInv, RP!FifoTypeOK, RP!PointersAgree,
              RP!LiveSlotsHold, RP!Live, RP!HeadDue, RP!head
<1>5. WP!FifoInv'
  BY <1>3 DEF LinkInv, ChannelsInv, WP!FifoInv, WP!FifoTypeOK, WP!PointersAgree,
              WP!LiveSlotsHold, WP!Live, WP!HeadDue, WP!head
<1>6. R!Queued' = R!Queued /\ W!Queued' = W!Queued
  BY <1>2, <1>3 DEF R!Queued, W!Queued
<1>7. r_queue' = r_queue /\ w_queue' = w_queue
  BY <1>6 DEF r_queue, w_queue, OpsOf
<1>8. /\ R!rsp_valid_o' <=> R!rsp_valid_o
      /\ W!rsp_valid_o' <=> W!rsp_valid_o
  BY <1>2, <1>3 DEF R!rsp_valid_o, W!rsp_valid_o
<1>9. (w_next_atomic' <=> w_next_atomic) /\ (finished' <=> finished)
  BY <1>1, <1>3, Zenon
<1>10. PortsAgree'
  <2>1. r_shown' = r_shown /\ w_shown' = w_shown /\ lock_shown' = lock_shown
    BY <1>2, <1>3, <1>8, <1>9 DEF r_shown, w_shown, lock_shown, atomic_shown, Shows
  <2>2. PortsInSets
    BY PortsSame DEF LinkInv
  <2>3. PortsInSets'
    BY <1>1, <1>7, <2>1, <2>2 DEF PortsInSets, TagsOf, LocksIn
  <2> QED
    BY <2>3, PortsSame, PTL
<1> QED
  BY <1>1, <1>2, <1>3, <1>4, <1>5, <1>6, <1>7, <1>8, <1>9, <1>10
    DEF ChannelsInv, LinkInv, ReadsInv, WritesInv

(* A fence finds nothing on its way.                                       *)
LEMMA FenceDrains ==
  ASSUME LinkInv, fence
  PROVE  Unperformed = {} /\ w_queue = {}
<1>1. PortsInSets
  BY PortsSame DEF LinkInv
<1> QED
  BY <1>1 DEF fence, PortsInSets, Unperformed, OneOf, TagsOf

(* A read is presented.                                                    *)
LEMMA ReadKeeps ==
  ASSUME LinkInv, NEW tag \in {"fromhost", "other"}, Read(tag),
         tag = "fromhost" => phase = "called"
  PROVE  LinkInv'
<1> DEFINE op == Op(tag, "read", 0)
<1>1. /\ r_req = NoReq /\ tag \notin awaits_r /\ r_req' = op
      /\ UNCHANGED <<dut_vars, w_op, w_valid, awaits_r, awaits_w, program_vars>>
  BY DEF Read
<1>2. op \in Ops /\ op.tag = tag /\ op.cmd = "read" /\ OneOf(op) = {op}
  BY HostLinkAssumption DEF Op, Ops, Tags, Locations, Words, OneOf
<1> HIDE DEF op
<1>3. UNCHANGED <<phase, call, todo>>
  BY <1>1 DEF program_vars
<1>4. Types'
  <2>1. UNCHANGED <<r_vars, w_vars, mem, finished>>
    BY <1>1 DEF dut_vars
  <2>2. w_next_atomic' \in BOOLEAN /\ finished' \in BOOLEAN
    BY <2>1, Zenon DEF LinkInv, Types, w_vars
  <2> QED
    BY <1>1, <1>2, <1>3, <2>1, <2>2 DEF LinkInv, Types, r_vars, w_vars
<1>5. ReadsInv'
  <2>1. \A o \in r_queue \cup {op} : Readable(o)
    BY <1>2 DEF LinkInv, ReadsInv, Readable
  <2>2. OneOf(r_req') = {op} /\ TagsOf(r_queue') = TagsOf(r_queue)
    BY <1>1, <1>2, DutSame
  <2> QED
    BY <1>1, <1>2, <2>1, <2>2, DutSame DEF LinkInv, ReadsInv
<1>6. Unperformed' = Unperformed /\ TagsOf(Unperformed)' = TagsOf(Unperformed)
  BY <1>1, DutSame DEF Unperformed, OneOf, TagsOf
<1>7. WritesInv'
  <2>1. TagsOf(w_queue)' = TagsOf(w_queue)
    BY <1>1, DutSame DEF TagsOf
  <2> QED
    BY <1>1, <1>6, <2>1, DutSame DEF LinkInv, WritesInv
<1>8. \A w : Argument(w)' = Argument(w)
  BY <1>3 DEF Argument
<1>9. ArgumentsInv' /\ CalledInv'
  BY <1>1, <1>3, <1>6, <1>8, DutSame DEF LinkInv, ArgumentsInv, CalledInv
<1>10. QuietInv'
  BY <1>1, <1>2, <1>3, <1>6, DutSame DEF LinkInv, QuietInv
<1> QED
  BY <1>1, <1>4, <1>5, <1>7, <1>9, <1>10, DutSame DEF LinkInv

(* A part of a write is presented.                                         *)
LEMMA PresentKeeps ==
  ASSUME LinkInv, NEW part \in {"req", "data"}, Present(part)
  PROVE  LinkInv'
<1>1. /\ w_op # NoReq /\ w_valid' = w_valid \cup {part}
      /\ UNCHANGED <<dut_vars, r_req, w_op, awaits_r, awaits_w, program_vars>>
  BY DEF Present
<1>2. UNCHANGED <<phase, call, todo>>
  BY <1>1 DEF program_vars
<1>3. Types'
  <2>1. UNCHANGED <<r_vars, w_vars, mem, finished>>
    BY <1>1 DEF dut_vars
  <2>2. w_next_atomic' \in BOOLEAN /\ finished' \in BOOLEAN
    BY <2>1, Zenon DEF LinkInv, Types, w_vars
  <2> QED
    BY <1>1, <1>2, <2>1, <2>2 DEF LinkInv, Types, r_vars, w_vars
<1>4. /\ Unperformed' = Unperformed /\ TagsOf(Unperformed)' = TagsOf(Unperformed)
      /\ TagsOf(w_queue)' = TagsOf(w_queue) /\ TagsOf(r_queue)' = TagsOf(r_queue)
      /\ OneOf(r_req)' = OneOf(r_req)
  BY <1>1, DutSame DEF Unperformed, OneOf, TagsOf
<1>5. ReadsInv' /\ WritesInv'
  BY <1>1, <1>4, DutSame DEF LinkInv, ReadsInv, WritesInv
<1>6. \A w : Argument(w)' = Argument(w)
  BY <1>2 DEF Argument
<1>7. ArgumentsInv' /\ CalledInv' /\ QuietInv'
  BY <1>1, <1>2, <1>4, <1>6, DutSame DEF LinkInv, ArgumentsInv, CalledInv, QuietInv
<1> QED
  BY <1>1, <1>3, <1>5, <1>7, DutSame DEF LinkInv

(* A write begins to be presented.                                         *)
LEMMA WriteKeeps ==
  ASSUME LinkInv, NEW op \in Ops, Writable(op), Write(op),
         phase' \in {"arguments", "called", "clear", "cleared", "exited"},
         call' \in Calls, todo' \in SUBSET Words
  PROVE  /\ Types' /\ ChannelsInv' /\ PortsAgree' /\ ReadsInv' /\ WritesInv'
         /\ Unperformed' = Unperformed \cup {op}
         /\ w_op = NoReq /\ w_op' = op /\ r_req' = r_req
<1>1. /\ w_op = NoReq /\ op.tag \notin awaits_w /\ w_op' = op
      /\ UNCHANGED <<dut_vars, r_req, w_valid, awaits_r, awaits_w>>
  BY DEF Write
<1>2. op # NoReq /\ OneOf(op) = {op}
  BY HostLinkAssumption DEF OneOf
<1>3. Types'
  <2>1. UNCHANGED <<r_vars, w_vars, mem, finished>>
    BY <1>1 DEF dut_vars
  <2>2. w_next_atomic' \in BOOLEAN /\ finished' \in BOOLEAN
    BY <2>1, Zenon DEF LinkInv, Types, w_vars
  <2> QED
    BY <1>1, <2>1, <2>2 DEF LinkInv, Types, r_vars, w_vars
<1>4. /\ Unperformed' = Unperformed \cup {op}
      /\ TagsOf(w_queue)' = TagsOf(w_queue) /\ TagsOf(r_queue)' = TagsOf(r_queue)
      /\ OneOf(r_req)' = OneOf(r_req)
  BY <1>1, <1>2, DutSame DEF Unperformed, OneOf, TagsOf
<1>5. ReadsInv'
  BY <1>1, <1>4, DutSame DEF LinkInv, ReadsInv
<1>6. WritesInv'
  <2>1. \A o \in Unperformed' : Writable(o)
    BY <1>4 DEF LinkInv, WritesInv
  <2> QED
    BY <1>1, <1>2, <1>4, <2>1, DutSame DEF LinkInv, WritesInv
<1> QED
  BY <1>1, <1>3, <1>4, <1>5, <1>6, DutSame

LEMMA StoreArgumentKeeps ==
  ASSUME LinkInv, NEW w \in Words, StoreArgument(w)
  PROVE  LinkInv'
<1> DEFINE op == Op(w, "write", IF w = "which" THEN SYS_write ELSE call)
<1>1. /\ phase = "arguments" /\ w \in todo /\ Write(op)
      /\ phase' = phase /\ call' = call /\ todo' = todo \ {w}
  BY DEF StoreArgument
<1>2. op \in Ops /\ Writable(op) /\ op.tag = w /\ op.val = Argument(w)
  BY HostLinkAssumption
    DEF LinkInv, Types, Op, Ops, Tags, Locations, Words, Writable, Argument, SYS_write
<1> HIDE DEF op
<1>3. /\ Types' /\ ChannelsInv' /\ PortsAgree' /\ ReadsInv' /\ WritesInv'
      /\ Unperformed' = Unperformed \cup {op}
  BY <1>1, <1>2, WriteKeeps DEF LinkInv, Types
<1>4. mem' = mem /\ printed' = printed /\ awaits_r' = awaits_r /\ r_req' = r_req
  BY <1>1 DEF Write, dut_vars
<1>5. /\ printed = <<>> /\ mem["fromhost"] = 0
      /\ \A o \in Unperformed : o.tag \in (Words \ todo) \cup {"lock"}
      /\ \A o \in Unperformed : o.tag \in Words => o.val = Argument(o.tag)
      /\ \A v \in Words \ todo : v \notin TagsOf(Unperformed) => mem[v] = Argument(v)
  BY <1>1 DEF LinkInv, ArgumentsInv
<1>6. /\ TagsOf(Unperformed)' = TagsOf(Unperformed) \cup {w}
      /\ \A v : Argument(v)' = Argument(v)
  BY <1>1, <1>2, <1>3 DEF TagsOf, Argument
<1>7. ArgumentsInv'
  BY <1>1, <1>2, <1>3, <1>4, <1>5, <1>6 DEF ArgumentsInv
<1>8. CalledInv' /\ QuietInv'
  BY <1>1, <1>4, <1>5 DEF CalledInv, QuietInv, LinkInv
<1> QED
  BY <1>3, <1>7, <1>8 DEF LinkInv

LEMMA CallHostKeeps ==
  ASSUME LinkInv, CallHost
  PROVE  LinkInv'
<1> DEFINE op == Op("tohost", "write", magicmem)
<1>1. /\ phase = "arguments" /\ todo = {} /\ fence /\ Write(op)
      /\ phase' = "called" /\ call' = call /\ todo' = todo
  BY DEF CallHost
<1>2. op \in Ops /\ Writable(op) /\ op.tag = "tohost" /\ op.val = magicmem /\ op # NoReq
  BY HostLinkAssumption DEF Op, Ops, Tags, Locations, Words, Writable, magicmem
<1> HIDE DEF op
<1>3. /\ Types' /\ ChannelsInv' /\ PortsAgree' /\ ReadsInv' /\ WritesInv'
      /\ Unperformed' = Unperformed \cup {op} /\ w_op' = op
  BY <1>1, <1>2, WriteKeeps DEF LinkInv, Types
<1>4. UNCHANGED <<dut_vars, awaits_r, awaits_w>>
  BY <1>1 DEF Write
<1>5. Unperformed = {} /\ w_queue = {} /\ w_queue' = {}
  BY <1>1, <1>4, FenceDrains, DutSame
<1>6. /\ printed = <<>> /\ mem["fromhost"] = 0
      /\ mem["which"] = SYS_write /\ mem["arg"] = call
  BY <1>1, <1>5 DEF LinkInv, ArgumentsInv, Argument, Words, TagsOf
<1>7. ~(R!rsp_valid_o /\ r_next_tag = "fromhost")
  <2>1. "fromhost" \notin awaits_r
    BY <1>1 DEF LinkInv, QuietInv
  <2> QED
    BY <2>1, PortsSame DEF LinkInv, PortsInSets, r_shown, Shows
<1>8. CalledInv'
  BY <1>1, <1>2, <1>3, <1>4, <1>5, <1>6, <1>7, DutSame DEF CalledInv
<1>9. ArgumentsInv' /\ QuietInv'
  BY <1>1 DEF ArgumentsInv, QuietInv
<1> QED
  BY <1>3, <1>8, <1>9 DEF LinkInv

LEMMA ClearResultKeeps ==
  ASSUME LinkInv, ClearResult
  PROVE  LinkInv'
<1> DEFINE op == Op("fromhost", "write", 0)
<1>1. /\ phase = "clear" /\ Write(op)
      /\ phase' = "cleared" /\ call' = call /\ todo' = todo
  BY DEF ClearResult
<1>2. op \in Ops /\ Writable(op) /\ op.tag = "fromhost" /\ op.val = 0
  BY DEF Op, Ops, Tags, Locations, Words, Writable
<1> HIDE DEF op
<1>3. /\ Types' /\ ChannelsInv' /\ PortsAgree' /\ ReadsInv' /\ WritesInv'
      /\ Unperformed' = Unperformed \cup {op} /\ w_op' = op
  BY <1>1, <1>2, WriteKeeps DEF LinkInv, Types
<1>4. printed' = printed /\ awaits_r' = awaits_r /\ r_req' = r_req
  BY <1>1 DEF Write, dut_vars
<1>5. /\ printed = <<>> /\ "fromhost" \notin awaits_r
      /\ r_req # NoReq => r_req.tag # "fromhost"
      /\ \A o \in Unperformed : o.tag = "tohost"
  BY <1>1 DEF LinkInv, QuietInv
<1>6. "fromhost" \in TagsOf(Unperformed)'
  BY <1>2, <1>3 DEF TagsOf
<1>7. QuietInv'
  BY <1>1, <1>2, <1>3, <1>4, <1>5, <1>6 DEF QuietInv
<1>8. ArgumentsInv' /\ CalledInv'
  BY <1>1 DEF ArgumentsInv, CalledInv
<1> QED
  BY <1>3, <1>7, <1>8 DEF LinkInv

LEMMA NextCallKeeps ==
  ASSUME LinkInv, NextCall
  PROVE  LinkInv'
<1>1. /\ phase = "cleared" /\ fence /\ phase' = "arguments"
      /\ call' \in Calls /\ todo' = Words
      /\ UNCHANGED <<dut_vars, port_vars>>
  BY DEF NextCall
<1>2. UNCHANGED <<r_req, w_op, w_valid, awaits_r, awaits_w>>
  BY <1>1 DEF port_vars
<1>3. Types'
  <2>1. UNCHANGED <<r_vars, w_vars, mem, finished>>
    BY <1>1 DEF dut_vars
  <2>2. w_next_atomic' \in BOOLEAN /\ finished' \in BOOLEAN
    BY <2>1, Zenon DEF LinkInv, Types, w_vars
  <2> QED
    BY <1>1, <1>2, <2>1, <2>2 DEF LinkInv, Types, r_vars, w_vars
<1>4. /\ Unperformed' = Unperformed /\ TagsOf(Unperformed)' = TagsOf(Unperformed)
      /\ TagsOf(w_queue)' = TagsOf(w_queue) /\ TagsOf(r_queue)' = TagsOf(r_queue)
      /\ OneOf(r_req)' = OneOf(r_req)
  BY <1>1, <1>2, DutSame DEF Unperformed, OneOf, TagsOf
<1>5. ReadsInv' /\ WritesInv'
  BY <1>1, <1>2, <1>4, DutSame DEF LinkInv, ReadsInv, WritesInv
<1>6. Unperformed = {}
  BY <1>1, FenceDrains
<1>7. /\ printed = <<>> /\ mem["fromhost"] = 0 /\ "fromhost" \notin awaits_r
      /\ r_req # NoReq => r_req.tag # "fromhost"
  BY <1>1, <1>6 DEF LinkInv, QuietInv, TagsOf
<1>8. ArgumentsInv' /\ CalledInv' /\ QuietInv'
  BY <1>1, <1>2, <1>4, <1>6, <1>7, DutSame DEF ArgumentsInv, CalledInv, QuietInv
<1> QED
  BY <1>1, <1>2, <1>3, <1>5, <1>8, DutSame DEF LinkInv

LEMMA ExitKeeps ==
  ASSUME LinkInv, NEW code \in {0, 1}, Exit(code)
  PROVE  LinkInv'
<1> DEFINE op == Op("tohost", "write", 2 * code + 1)
<1>1. /\ phase = "arguments" /\ todo = Words /\ Write(op)
      /\ phase' = "exited" /\ call' = call /\ todo' = todo
  BY DEF Exit
<1>2. /\ op \in Ops /\ Writable(op) /\ op.tag = "tohost"
      /\ op.val % 2 = 1
  BY DEF Op, Ops, Tags, Locations, Words, Writable
<1> HIDE DEF op
<1>3. /\ Types' /\ ChannelsInv' /\ PortsAgree' /\ ReadsInv' /\ WritesInv'
      /\ Unperformed' = Unperformed \cup {op} /\ w_op' = op
  BY <1>1, <1>2, WriteKeeps DEF LinkInv, Types
<1>4. printed' = printed /\ awaits_r' = awaits_r /\ r_req' = r_req
  BY <1>1 DEF Write, dut_vars
<1>5. /\ printed = <<>> /\ "fromhost" \notin awaits_r
      /\ r_req # NoReq => r_req.tag # "fromhost"
      /\ \A o \in Unperformed : o.tag = "lock"
  BY <1>1 DEF LinkInv, QuietInv, ArgumentsInv
<1>6. QuietInv'
  BY <1>1, <1>2, <1>3, <1>4, <1>5 DEF QuietInv
<1>7. ArgumentsInv' /\ CalledInv'
  BY <1>1 DEF ArgumentsInv, CalledInv
<1> QED
  BY <1>3, <1>6, <1>7 DEF LinkInv

LEMMA AmoKeeps ==
  ASSUME LinkInv, Amo
  PROVE  LinkInv'
<1> DEFINE op == Op("lock", "atomic", 0)
<1>1. /\ phase = "arguments" /\ Write(op)
      /\ phase' = phase /\ call' = call /\ todo' = todo
  BY DEF Amo, program_vars
<1>2. op \in Ops /\ Writable(op) /\ op.tag = "lock"
  BY DEF Op, Ops, Tags, Locations, Words, Writable
<1> HIDE DEF op
<1>3. /\ Types' /\ ChannelsInv' /\ PortsAgree' /\ ReadsInv' /\ WritesInv'
      /\ Unperformed' = Unperformed \cup {op}
  BY <1>1, <1>2, WriteKeeps DEF LinkInv, Types
<1>4. mem' = mem /\ printed' = printed /\ awaits_r' = awaits_r /\ r_req' = r_req
  BY <1>1 DEF Write, dut_vars
<1>5. /\ TagsOf(Unperformed)' = TagsOf(Unperformed) \cup {"lock"}
      /\ \A v : Argument(v)' = Argument(v)
      /\ "lock" \notin Words
  BY <1>1, <1>2, <1>3 DEF TagsOf, Argument, Words
<1>6. ArgumentsInv'
  BY <1>1, <1>2, <1>3, <1>4, <1>5 DEF LinkInv, ArgumentsInv
<1>7. CalledInv' /\ QuietInv'
  BY <1>1, <1>4 DEF CalledInv, QuietInv, LinkInv, ArgumentsInv
<1> QED
  BY <1>3, <1>6, <1>7 DEF LinkInv

-----------------------------------------------------------------------------
(* The theorems.                                                           *)

LEMMA InitLinkInv == Init => LinkInv
<1> SUFFICES ASSUME Init PROVE LinkInv
  OBVIOUS
<1>1. ChannelsInv
  BY RP!EmptyFifo, WP!EmptyFifo, ChannelAssumptions DEF Init, ChannelsInv
<1>2. DOMAIN R!Queued = {} /\ DOMAIN W!Queued = {}
  BY DEF Init, R!Queued, W!Queued
<1>3. /\ r_queue = {} /\ w_queue = {} /\ Unperformed = {}
      /\ TagsDiffer(R!Queued) /\ TagsDiffer(W!Queued)
  BY <1>2 DEF Init, r_queue, w_queue, OpsOf, Unperformed, OneOf, TagsDiffer
<1>4. ~R!rsp_valid_o /\ ~W!rsp_valid_o
  BY DEF Init, R!rsp_valid_o, W!rsp_valid_o
<1>5. PortsAgree
  <2>1. r_shown = {} /\ w_shown = {} /\ lock_shown = {}
    BY <1>4 DEF r_shown, w_shown, lock_shown, atomic_shown, Shows
  <2>2. PortsInSets
    BY <1>3, <2>1 DEF Init, PortsInSets, TagsOf, LocksIn
  <2> QED
    BY <2>2, PortsSame
<1>6. Types
  BY HostLinkAssumption DEF Init, Types, Tags, Locations, Words
<1>7. ReadsInv /\ WritesInv
  BY <1>3, <1>4 DEF Init, ReadsInv, WritesInv, OneOf
<1>8. ArgumentsInv /\ CalledInv /\ QuietInv
  BY <1>3 DEF Init, ArgumentsInv, CalledInv, QuietInv, Locations
<1> QED
  BY <1>1, <1>5, <1>6, <1>7, <1>8 DEF LinkInv

LEMMA NextKeeps == LinkInv /\ [Next]_vars => LinkInv'
<1> SUFFICES ASSUME LinkInv, [Next]_vars PROVE LinkInv'
  OBVIOUS
<1>1. ASSUME NEW r_ready \in BOOLEAN, NEW w_ready \in BOOLEAN, ClockEdge(r_ready, w_ready)
      PROVE  LinkInv'
  BY <1>1, ClockEdgeKeeps
<1>2. ASSUME NEW part \in {"req", "data"}, Present(part) PROVE LinkInv'
  BY <1>2, PresentKeeps
<1>3. ASSUME NEW w \in Words, StoreArgument(w) PROVE LinkInv'
  BY <1>3, StoreArgumentKeeps
<1>4. ASSUME Poll \/ OtherRead PROVE LinkInv'
  BY <1>4, ReadKeeps DEF Poll, OtherRead
<1>5. ASSUME NEW code \in {0, 1}, Exit(code) PROVE LinkInv'
  BY <1>5, ExitKeeps
<1>6. ASSUME UNCHANGED vars PROVE LinkInv'
  <2>1. UNCHANGED <<dut_vars, r_req, w_op, w_valid, awaits_r, awaits_w, phase, call, todo>>
    BY <1>6 DEF vars, port_vars, program_vars
  <2>2. Types'
    <3>1. UNCHANGED <<r_vars, w_vars, mem, finished>>
      BY <2>1 DEF dut_vars
    <3>2. w_next_atomic' \in BOOLEAN /\ finished' \in BOOLEAN
      BY <3>1, Zenon DEF LinkInv, Types, w_vars
    <3> QED
      BY <2>1, <3>1, <3>2 DEF LinkInv, Types, r_vars, w_vars
  <2>3. /\ Unperformed' = Unperformed /\ TagsOf(Unperformed)' = TagsOf(Unperformed)
        /\ TagsOf(w_queue)' = TagsOf(w_queue) /\ TagsOf(r_queue)' = TagsOf(r_queue)
        /\ OneOf(r_req)' = OneOf(r_req)
    BY <2>1, DutSame DEF Unperformed, OneOf, TagsOf
  <2>4. ReadsInv' /\ WritesInv'
    BY <2>1, <2>3, DutSame DEF LinkInv, ReadsInv, WritesInv
  <2>5. \A w : Argument(w)' = Argument(w)
    BY <2>1 DEF Argument
  <2>6. ArgumentsInv' /\ CalledInv' /\ QuietInv'
    BY <2>1, <2>3, <2>5, DutSame DEF LinkInv, ArgumentsInv, CalledInv, QuietInv
  <2> QED
    BY <2>1, <2>2, <2>4, <2>6, DutSame DEF LinkInv
<1> QED
  BY <1>1, <1>2, <1>3, <1>4, <1>5, <1>6, CallHostKeeps, ClearResultKeeps, NextCallKeeps,
     AmoKeeps DEF Next

LEMMA LinkInvAlways == Spec => []LinkInv
BY InitLinkInv, NextKeeps, PTL DEF Spec

(* What the cache waits for is in one of the channels or on a response     *)
(* port, and nothing else is: no answer is lost, given twice or given to   *)
(* the wrong port (l2_behav.sv, mux_read_atomic and the two channels).     *)
THEOREM PortsAgreeAlways == Spec => []PortsAgree
<1>1. LinkInv => PortsAgree
  BY DEF LinkInv
<1> QED
  BY <1>1, LinkInvAlways, PTL

(* The steps that are seen at the host.                                    *)
LEMMA EdgeIsServed ==
  ASSUME LinkInv, NEW r_ready \in BOOLEAN, NEW w_ready \in BOOLEAN,
         ClockEdge(r_ready, w_ready)
  PROVE  [Host!Next]_(Host!host_vars)
<1>1. call \in Calls /\ NoCall \notin Calls
  BY HostLinkAssumption DEF LinkInv, Types
<1>2. CASE phase = "called" /\ w_op # NoReq /\ both_valid
  <2>1. Host!Execute
    BY <1>1, <1>2, EdgeWithCall DEF Host!Execute
  <2> QED
    BY <2>1 DEF Host!Next
<1>3. CASE phase = "called" /\ w_op # NoReq /\ ~both_valid
  BY <1>3, EdgeBeforeCall DEF Host!host_vars
<1>4. CASE phase = "called" /\ w_op = NoReq
  <2>1. printed = <<call>> /\ <<call>> # <<>>
    BY <1>4 DEF LinkInv, CalledInv
  <2>2. /\ printed' = IF phase' = "clear" THEN <<>> ELSE printed
        /\ call' = call
    BY <1>4, <2>1, NoCallPresented, EdgeWithoutCall
  <2>3. CASE phase' = phase
    BY <1>4, <2>2, <2>3 DEF Host!host_vars
  <2>4. CASE phase' # phase
    <3>1. phase' = "clear"
      BY <2>4, ResultIsOwn
    <3>2. Host!Return
      BY <2>1, <2>2, <3>1 DEF Host!Return
    <3> QED
      BY <3>2 DEF Host!Next
  <2> QED
    BY <2>3, <2>4
<1>5. CASE phase # "called"
  <2>1. printed = <<>>
    BY <1>5 DEF LinkInv, QuietInv
  <2>2. printed' = <<>> /\ phase' = phase
    BY <1>5, <2>1, NoCallPresented, EdgeWithoutCall
  <2> QED
    BY <1>5, <2>1, <2>2 DEF Host!host_vars
<1> QED
  BY <1>2, <1>3, <1>4, <1>5

(* Each system call that the program hands over is executed exactly once,  *)
(* with its own arguments, before it returns, although the host reads the  *)
(* memory at the edge in which the store to tohost is presented and the    *)
(* arguments go through the write channel (l2_behav.sv, dpi_host.cpp).     *)
THEOREM CallsAreServed == Spec => HostServiceSpec
<1>1. Init => Host!Init
  BY DEF Init, Host!Init
<1>2. LinkInv /\ [Next]_vars => [Host!Next]_(Host!host_vars)
  <2> SUFFICES ASSUME LinkInv, [Next]_vars PROVE [Host!Next]_(Host!host_vars)
    OBVIOUS
  <2>1. ASSUME NEW r_ready \in BOOLEAN, NEW w_ready \in BOOLEAN,
               ClockEdge(r_ready, w_ready)
        PROVE  [Host!Next]_(Host!host_vars)
    BY <2>1, EdgeIsServed
  <2>2. ASSUME CallHost PROVE [Host!Next]_(Host!host_vars)
    <3>1. phase = "arguments" /\ phase' = "called" /\ call' = call /\ printed' = printed
      BY <2>2 DEF CallHost, Write, dut_vars
    <3>2. call \in Calls
      BY DEF LinkInv, Types
    <3>3. Host!HandOver(call)
      BY <3>1 DEF Host!HandOver
    <3> QED
      BY <3>2, <3>3 DEF Host!Next
  <2>3. ASSUME \/ UNCHANGED <<dut_vars, phase, call>>
               \/ ClearResult \/ NextCall \/ \E code \in {0, 1} : Exit(code)
        PROVE  [Host!Next]_(Host!host_vars)
    <3>1. /\ printed' = printed
          /\ \/ phase' = phase /\ call' = call
             \/ phase # "called" /\ phase' # "called"
      BY <2>3 DEF dut_vars, ClearResult, NextCall, Exit, Write
    <3> QED
      BY <3>1 DEF Host!host_vars
  <2>4. (\/ UNCHANGED vars \/ Poll \/ OtherRead \/ Amo
         \/ \E part \in {"req", "data"} : Present(part)
         \/ \E w \in Words : StoreArgument(w)) => UNCHANGED <<dut_vars, phase, call>>
    BY DEF vars, program_vars, Poll, OtherRead, Read, Amo, Write, Present, StoreArgument
  <2> QED
    BY <2>1, <2>2, <2>3, <2>4 DEF Next
<1> QED
  BY <1>1, <1>2, LinkInvAlways, PTL DEF Spec, HostServiceSpec, Host!Spec
=============================================================================

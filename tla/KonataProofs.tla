---------------------------- MODULE KonataProofs ----------------------------
(***************************************************************************)
(* Proofs about Konata, for any number of instructions, any queue and any  *)
(* units: the queue of the log is the queue of the core but for what       *)
(* entered it before a cycle that was not logged, the viewer shows no      *)
(* instruction where it has not been, moves none back, and shows each      *)
(* writeback of an instruction that did not stall in the first stage.      *)
(***************************************************************************)
EXTENDS Konata, SequenceTheorems, TLAPS

(* The instruction decoded in the last cycle, which the log puts into its  *)
(* queue in this one, is already in the queue of the core.                 *)
SentIsQueued == sent_to_queue => last_id_id \in ToSet(iq)

(* What the log has in its queue is in the queue of the core.              *)
LoggedIsQueued == enqueuedInsts \subseteq ToSet(iq)

QueueType == iq \in Seq(Nat) /\ if1 \in Nat /\ if2 \in Nat /\ id \in Nat /\ fetched \in Nat

QueueInv == QueueType /\ SentIsQueued /\ LoggedIsQueued

(* Every instruction is in one place: what makes a view of it that was     *)
(* true one cycle ago still not ahead of it.                               *)
Injective(s) == \A m, n \in 1 .. Len(s) : s[m] = s[n] => m = n

OnePlace(i) ==
  /\ i = if1 => i \notin {if2, id, rr, exe} /\ i \notin ToSet(iq) \cup units \cup retired
  /\ i = if2 => i \notin {id, rr, exe} /\ i \notin ToSet(iq) \cup units \cup retired
  /\ i = id => i \notin {rr, exe} /\ i \notin ToSet(iq) \cup units \cup retired
  /\ i \in ToSet(iq) => i \notin {rr, exe} /\ i \notin units \cup retired
  /\ i = rr => i # exe /\ i \notin units \cup retired
  /\ i = exe => i \notin units \cup retired
  /\ i \in units => i \notin retired

PipelineType ==
  /\ fetched \in 0 .. MaxInst
  /\ if1 \in 0 .. fetched /\ if2 \in 0 .. fetched /\ id \in 0 .. fetched
  /\ rr \in 0 .. fetched /\ exe \in 0 .. fetched
  /\ ToSet(iq) \subseteq 1 .. fetched /\ Injective(iq)
  /\ units \subseteq 1 .. fetched /\ retired \subseteq 1 .. fetched

PipelineInv == QueueInv /\ PipelineType /\ \A i \in Insts : OnePlace(i)

Stages == {"none", "F1", "F2", "D", "Q", "I", "R", "X", "flushed", "committed"}

(* Which instructions the viewer knows. One in the first stage is in       *)
(* last_if1_id from its second cycle there on, and it is there for a       *)
(* second cycle only if it stalled: it is introduced when it leaves the    *)
(* stage after one cycle, or never.                                        *)
Introduction(i) ==
  /\ i > fetched => seen[i] = "none"
  /\ i = if1 /\ i = last_if1_id => i \in held
  /\ i = if1 /\ i # last_if1_id => i \notin held /\ seen[i] = "none"
  /\ i \in held => i <= fetched /\ seen[i] = "none"
  /\ i \in {if2, id, rr, exe} \cup ToSet(iq) \cup units \cup retired =>
       i \in held \/ seen[i] # "none"

IntroductionInv == held \subseteq Insts /\ \A i \in Insts : Introduction(i)

ViewInv ==
  /\ seen \in [Insts -> Stages]
  /\ ShownIsReached /\ CommittedIsShown /\ LoggedQueueIsReal /\ IntroductionInv

IInv == PipelineInv /\ ViewInv

-----------------------------------------------------------------------------
(* Taking the head from a sequence leaves all its other elements in it.    *)
LEMMA TailElements ==
  ASSUME NEW s \in Seq(Nat), s # <<>>
  PROVE  ToSet(s) \subseteq ToSet(Tail(s)) \cup {Head(s)}
<1> SUFFICES ASSUME NEW i \in 1 .. Len(s)
             PROVE  s[i] \in ToSet(Tail(s)) \cup {Head(s)}
  BY DEF ToSet
<1>1. CASE i = 1
  BY <1>1
<1>2. CASE i # 1
  <2>1. i - 1 \in 1 .. Len(Tail(s)) /\ Tail(s)[i - 1] = s[i]
    BY <1>2
  <2>2. DOMAIN Tail(s) = 1 .. Len(Tail(s))
    BY LenProperties, Tail(s) \in Seq(Nat)
  <2> QED BY <2>1, <2>2 DEF ToSet
<1> QED BY <1>1, <1>2

(* Appending an element adds it to the elements and nothing else.          *)
LEMMA AppendElements ==
  ASSUME NEW s \in Seq(Nat), NEW x \in Nat
  PROVE  ToSet(Append(s, x)) = ToSet(s) \cup {x}
<1>1. Append(s, x) \in Seq(Nat) /\ Len(Append(s, x)) = Len(s) + 1
  OBVIOUS
<1>2. \A i \in 1 .. Len(s) : Append(s, x)[i] = s[i]
  OBVIOUS
<1>3. Append(s, x)[Len(s) + 1] = x
  OBVIOUS
<1>4. DOMAIN Append(s, x) = DOMAIN s \cup {Len(s) + 1} /\ DOMAIN s = 1 .. Len(s)
  BY <1>1
<1> QED BY <1>2, <1>3, <1>4 DEF ToSet

-----------------------------------------------------------------------------
LEMMA InitQueueInv == Init => QueueInv
BY DEF Init, QueueInv, QueueType, SentIsQueued, LoggedIsQueued, sent_to_queue, ToSet, None

LEMMA NextQueueInv == QueueInv /\ [Next]_vars => QueueInv'
<1> SUFFICES ASSUME QueueInv, [Next]_vars PROVE QueueInv'
  OBVIOUS
<1> USE DEF QueueInv, QueueType
<1>1. CASE UNCHANGED vars
  BY <1>1 DEF vars, core_vars, log_vars, SentIsQueued, LoggedIsQueued, sent_to_queue
<1>2. ASSUME NEW c \in Inputs, ClockEdge(c) PROVE QueueInv'
  <2> DEFINE popped == IF ir # None /\ ~ir_stall(c) THEN Tail(iq) ELSE iq
             sent == id # None /\ ~id_stall(c)
             inserted == IF sent_to_queue THEN enqueuedInsts \cup {last_id_id}
                         ELSE enqueuedInsts
  <2>1. PICK new : /\ new \in {None} \cup {fetched + 1}
                   /\ fetched' = IF new = None THEN fetched ELSE new
                   /\ Advance(c, new)
    BY <1>2 DEF ClockEdge, Fetch
  <2>2. iq' = IF ir_flush(c) THEN <<>> ELSE IF sent THEN Append(popped, id) ELSE popped
    BY <2>1 DEF Advance
  <2>3. ir # None => iq # <<>> /\ ir = Head(iq)
    BY DEF ir
  <2>4. popped \in Seq(Nat)
    BY <2>3
  <2>5. QueueType'
    <3>1. new \in Nat /\ fetched' \in Nat
      BY <2>1 DEF None
    <3>2. if1' \in Nat /\ if2' \in Nat /\ id' \in Nat
      BY <2>1, <3>1 DEF Advance, None
    <3>3. iq' \in Seq(Nat)
      BY <2>2, <2>4
    <3> QED BY <3>1, <3>2, <3>3
  <2>6. ~ir_flush(c) => ToSet(popped) \subseteq ToSet(iq')
    <3>1. CASE sent
      BY <2>2, <2>4, <3>1, AppendElements
    <3>2. CASE ~sent
      BY <2>2, <3>2
    <3> QED BY <3>1, <3>2
  <2>7. konata_dump(c)
    BY <1>2 DEF ClockEdge
  <2>8. SentIsQueued'
    <3> SUFFICES ASSUME sent_to_queue' PROVE last_id_id' \in ToSet(iq')
      BY DEF SentIsQueued
    <3>1. sent /\ ~ir_flush(c) /\ last_id_id' = id
      BY <2>7 DEF konata_dump, sent_to_queue
    <3> HIDE DEF popped
    <3> QED BY <2>2, <2>4, <3>1, AppendElements
  <2>9. inserted \subseteq ToSet(iq)
    BY DEF SentIsQueued, LoggedIsQueued
  <2>10. LoggedIsQueued'
    <3>1. CASE quiet(c)
      <4>1. enqueuedInsts' = enqueuedInsts /\ popped = iq /\ ~ir_flush(c)
        BY <2>7, <3>1 DEF konata_dump, quiet, if_flush, ir_flush, Flushes
      <4> QED BY <2>6, <4>1 DEF LoggedIsQueued
    <3>2. CASE ~quiet(c) /\ ir_flush(c)
      BY <2>7, <3>2 DEF konata_dump, enqueued_next, LoggedIsQueued
    <3>3. CASE ~quiet(c) /\ ~ir_flush(c) /\ ir # None /\ ~ir_stall(c)
      <4>1. enqueuedInsts' = inserted \ {Head(iq)}
        BY <2>3, <2>7, <3>3 DEF konata_dump, enqueued_next
      <4>2. popped = Tail(iq)
        BY <3>3
      <4>3. ToSet(iq) \subseteq ToSet(Tail(iq)) \cup {Head(iq)}
        BY <2>3, <3>3, TailElements
      <4> QED BY <2>6, <2>9, <3>3, <4>1, <4>2, <4>3 DEF LoggedIsQueued
    <3>4. CASE ~quiet(c) /\ ~ir_flush(c) /\ ~(ir # None /\ ~ir_stall(c))
      <4>1. enqueuedInsts' = inserted /\ popped = iq
        BY <2>7, <3>4 DEF konata_dump, enqueued_next
      <4> QED BY <2>6, <2>9, <3>4, <4>1 DEF LoggedIsQueued
    <3> QED BY <3>1, <3>2, <3>3, <3>4
  <2> QED BY <2>5, <2>8, <2>10
<1> QED BY <1>1, <1>2 DEF Next

-----------------------------------------------------------------------------
(* The rank of a stage is its place in the order of the stages.            *)
LEMMA Ranks ==
  /\ Rank("none") = 1 /\ Rank("F1") = 2 /\ Rank("F2") = 3 /\ Rank("D") = 4 /\ Rank("Q") = 5
  /\ Rank("I") = 6 /\ Rank("R") = 7 /\ Rank("X") = 8
  /\ Rank("flushed") = 9 /\ Rank("committed") = 10
<1>1. DOMAIN StageOrder = 1 .. 10
  BY DEF StageOrder
<1>2. /\ StageOrder[1] = "none" /\ StageOrder[2] = "F1" /\ StageOrder[3] = "F2"
      /\ StageOrder[4] = "D" /\ StageOrder[5] = "Q" /\ StageOrder[6] = "I"
      /\ StageOrder[7] = "R" /\ StageOrder[8] = "X" /\ StageOrder[9] = "flushed"
      /\ StageOrder[10] = "committed"
  BY DEF StageOrder
<1> HIDE DEF StageOrder
<1>3. \A k, m \in 1 .. 10 : StageOrder[k] = StageOrder[m] => k = m
  BY <1>2
<1>4. ASSUME NEW k \in 1 .. 10 PROVE Rank(StageOrder[k]) = k
  <2>1. \E m \in DOMAIN StageOrder : StageOrder[m] = StageOrder[k]
    BY <1>1
  <2>2. Rank(StageOrder[k]) \in 1 .. 10 /\ StageOrder[Rank(StageOrder[k])] = StageOrder[k]
    BY <1>1, <2>1 DEF Rank
  <2> QED BY <1>3, <2>2
<1> QED BY <1>2, <1>4

(* Taking the head from a sequence without repetitions removes it from the *)
(* elements, and what remains has none either.                             *)
LEMMA TailInjective ==
  ASSUME NEW s \in Seq(Nat), s # <<>>, Injective(s)
  PROVE  ToSet(Tail(s)) = ToSet(s) \ {Head(s)} /\ Injective(Tail(s))
<1>1. Tail(s) \in Seq(Nat) /\ Len(Tail(s)) = Len(s) - 1 /\ Len(s) \in Nat \ {0}
  OBVIOUS
<1>2. \A k \in 1 .. Len(Tail(s)) : Tail(s)[k] = s[k + 1]
  OBVIOUS
<1>3. DOMAIN s = 1 .. Len(s) /\ DOMAIN Tail(s) = 1 .. Len(Tail(s)) /\ Head(s) = s[1]
  BY <1>1
<1>4. Injective(Tail(s))
  BY <1>1, <1>2 DEF Injective
<1>5. ToSet(Tail(s)) \subseteq ToSet(s) \ {Head(s)}
  <2> SUFFICES ASSUME NEW k \in 1 .. Len(Tail(s))
               PROVE  Tail(s)[k] \in ToSet(s) \ {Head(s)}
    BY <1>3 DEF ToSet
  <2>1. k + 1 \in 1 .. Len(s) /\ 1 \in 1 .. Len(s) /\ k + 1 # 1
    BY <1>1
  <2> QED BY <1>2, <1>3, <2>1 DEF ToSet, Injective
<1> QED BY <1>4, <1>5, TailElements

LEMMA AppendKeepsInjective ==
  ASSUME NEW s \in Seq(Nat), NEW x \in Nat, Injective(s), x \notin ToSet(s)
  PROVE  Injective(Append(s, x))
<1>1. Len(Append(s, x)) = Len(s) + 1 /\ Len(s) \in Nat /\ Append(s, x)[Len(s) + 1] = x
  OBVIOUS
<1>2. \A k \in 1 .. Len(s) : Append(s, x)[k] = s[k] /\ s[k] # x
  BY DEF ToSet
<1> QED BY <1>1, <1>2 DEF Injective

-----------------------------------------------------------------------------
(* Where an instruction is decides how far it has come.                    *)
PlaceIsReached ==
  \A i \in Insts :
    PipelineType /\ OnePlace(i) =>
      /\ i \in retired => Reached(i) = "committed"
      /\ i \in units \cup {exe} => Reached(i) = "X"
      /\ i = rr => Reached(i) = "R"
      /\ i \in ToSet(iq) => Reached(i) = "Q"
      /\ i = id => Reached(i) = "D"
      /\ i = if2 => Reached(i) = "F2"
      /\ i = if1 => Reached(i) = "F1"
      /\ i \notin {if1, if2, id, rr, exe} /\ i \notin ToSet(iq) \cup units \cup retired
           => Reached(i) = IF i > fetched THEN "none" ELSE "flushed"

LEMMA ReachedAt == PlaceIsReached
BY DEF PlaceIsReached, Reached, OnePlace, PipelineType

-----------------------------------------------------------------------------
(* The pipeline of the next cycle, by the fields of Advance. A stall keeps *)
(* the stages before it, a flush what is in front of it.                   *)
LEMMA PipelineStep ==
  ASSUME PipelineInv, NEW c \in Inputs, ClockEdge(c)
  PROVE  \E new \in {None, fetched + 1} :
           /\ new # None => fetched < MaxInst /\ (if_flush(c) \/ ~if1_stall(c))
           /\ fetched' = IF new = None THEN fetched ELSE new
           /\ if1' = IF if1_stall(c) /\ ~if_flush(c) THEN if1 ELSE new
           /\ if2' = IF if_flush(c) THEN None ELSE IF if2_stall(c) THEN if2
                     ELSE IF if1_stall(c) THEN None ELSE if1
           /\ id' = IF ir_flush(c) THEN None ELSE IF id_stall(c) THEN id
                    ELSE IF if_flush(c) \/ if2_stall(c) THEN None ELSE if2
           /\ rr' = IF ir_flush(c) THEN None ELSE IF rr_stall(c) THEN rr
                    ELSE IF ir_stall(c) THEN None ELSE ir
           /\ exe' = IF exe_flush(c) THEN None ELSE IF exe_stall(c) THEN exe
                     ELSE IF ir_flush(c) \/ rr_stall(c) THEN None ELSE rr
           /\ units' = IF exe_flush(c) THEN {}
                       ELSE (units \ (c.wb \cup c.store))
                              \cup IF exe # None /\ ~exe_stall(c) THEN {exe} ELSE {}
           /\ retired' = retired \cup c.wb \cup c.store
           /\ retired_by_store' = retired_by_store \cup c.store
           /\ iq' = IF ir_flush(c) THEN <<>>
                    ELSE IF id # None /\ ~id_stall(c)
                           THEN Append(IF ir # None /\ ~ir_stall(c) THEN Tail(iq) ELSE iq, id)
                           ELSE IF ir # None /\ ~ir_stall(c) THEN Tail(iq) ELSE iq
<1>1. PICK new \in {None} \cup (IF fetched < MaxInst /\ (if_flush(c) \/ ~if1_stall(c))
                                  THEN {fetched + 1} ELSE {}) :
        /\ fetched' = IF new = None THEN fetched ELSE new
        /\ Advance(c, new)
  BY DEF ClockEdge, Fetch
<1>2. new \in {None, fetched + 1}
  BY <1>1
<1>3. new # None => fetched < MaxInst /\ (if_flush(c) \/ ~if1_stall(c))
  BY <1>1
<1> QED
  BY <1>1, <1>2, <1>3 DEF Advance

(* A stall of a stage stalls those before it, and a flush of the later     *)
(* stages flushes the earlier ones.                                        *)
LEMMA StallsAndFlushes ==
  ASSUME NEW c \in Inputs, Possible(c)
  PROVE  /\ id_stall(c) => if2_stall(c)
         /\ if2_stall(c) => if1_stall(c)
         /\ exe_stall(c) => rr_stall(c)
         /\ rr_stall(c) => ir_stall(c)
         /\ exe_flush(c) => ir_flush(c)
         /\ ir_flush(c) => if_flush(c)
         /\ if_flush(c) /\ ~ir_flush(c) => ~id_stall(c)
         /\ ir_flush(c) /\ ~exe_flush(c) => ~exe_stall(c)
         /\ c.wb \subseteq units /\ c.store \subseteq units
BY DEF Inputs, Possible, id_stall, if2_stall, if1_stall, exe_stall, rr_stall, ir_stall,
       exe_flush, ir_flush, if_flush, Flushes

(* The instructions in the queue after a cycle.                            *)
LEMMA QueueStep ==
  ASSUME PipelineInv, NEW c \in Inputs, ClockEdge(c)
  PROVE  /\ ir # None => ir \in ToSet(iq)
         /\ ToSet(iq') = IF ir_flush(c) THEN {}
                         ELSE (ToSet(iq) \ IF ir # None /\ ~ir_stall(c) THEN {ir} ELSE {})
                                \cup IF id # None /\ ~id_stall(c) THEN {id} ELSE {}
         /\ Injective(iq')
<1> DEFINE popped == IF ir # None /\ ~ir_stall(c) THEN Tail(iq) ELSE iq
<1>1. iq \in Seq(Nat) /\ Injective(iq) /\ id \in Nat
  BY DEF PipelineInv, QueueInv, QueueType, PipelineType
<1>2. ir # None => iq # <<>> /\ ir = Head(iq)
  BY DEF ir
<1>3. ir # None => ir \in ToSet(iq)
  <2> SUFFICES ASSUME iq # <<>> PROVE Head(iq) \in ToSet(iq)
    BY <1>2
  <2>1. 1 \in DOMAIN iq /\ Head(iq) = iq[1]
    BY <1>1
  <2> QED BY <2>1 DEF ToSet
<1>4. /\ popped \in Seq(Nat) /\ Injective(popped)
      /\ ToSet(popped) = ToSet(iq) \ IF ir # None /\ ~ir_stall(c) THEN {ir} ELSE {}
  <2>1. CASE ir # None /\ ~ir_stall(c)
    <3>1. Tail(iq) \in Seq(Nat)
      BY <1>1, <1>2, <2>1
    <3> QED BY <1>1, <1>2, <2>1, <3>1, TailInjective
  <2>2. CASE ~(ir # None /\ ~ir_stall(c))
    BY <1>1, <2>2
  <2> QED BY <2>1, <2>2
<1>5. iq' = IF ir_flush(c) THEN <<>>
            ELSE IF id # None /\ ~id_stall(c) THEN Append(popped, id) ELSE popped
  BY PipelineStep
<1>6. id # None => id \in Insts /\ id \notin ToSet(iq)
  <2> SUFFICES ASSUME id # None PROVE id \in Insts /\ id \notin ToSet(iq)
    OBVIOUS
  <2>1. id \in Insts
    BY KonataAssumption DEF PipelineInv, PipelineType, Insts, None
  <2> QED BY <2>1 DEF PipelineInv, OnePlace
<1> HIDE DEF popped
<1>7. CASE ir_flush(c)
  <2>1. ToSet(<<>>) = {} /\ Injective(<<>>)
    BY DEF ToSet, Injective
  <2> QED BY <1>3, <1>5, <1>7, <2>1
<1>8. CASE ~ir_flush(c) /\ id # None /\ ~id_stall(c)
  <2>1. ToSet(Append(popped, id)) = ToSet(popped) \cup {id}
    BY <1>1, <1>4, AppendElements
  <2>2. Injective(Append(popped, id))
    BY <1>1, <1>4, <1>6, <1>8, AppendKeepsInjective
  <2> QED BY <1>3, <1>4, <1>5, <1>8, <2>1, <2>2
<1>9. CASE ~ir_flush(c) /\ ~(id # None /\ ~id_stall(c))
  BY <1>3, <1>4, <1>5, <1>9
<1> QED BY <1>7, <1>8, <1>9

-----------------------------------------------------------------------------
LEMMA InitPipelineInv == Init => PipelineInv
<1> SUFFICES ASSUME Init PROVE PipelineInv
  OBVIOUS
<1>1. ToSet(<<>>) = {} /\ Injective(<<>>)
  BY DEF ToSet, Injective
<1>2. PipelineType
  BY <1>1, KonataAssumption DEF Init, PipelineType, None
<1>3. \A i \in Insts : OnePlace(i)
  BY <1>1 DEF Init, OnePlace, None, Insts
<1> QED
  BY <1>2, <1>3, InitQueueInv DEF PipelineInv

LEMMA NextPipelineInv ==
  ASSUME PipelineInv, NEW c \in Inputs, ClockEdge(c), QueueInv'
  PROVE  PipelineInv'
<1>1. Possible(c)
  BY DEF ClockEdge
<1>2. PICK new \in {None, fetched + 1} :
        /\ new # None => fetched < MaxInst /\ (if_flush(c) \/ ~if1_stall(c))
        /\ fetched' = IF new = None THEN fetched ELSE new
        /\ if1' = IF if1_stall(c) /\ ~if_flush(c) THEN if1 ELSE new
    BY PipelineStep
<1>3. fetched \in 0 .. MaxInst /\ MaxInst \in Nat
  BY KonataAssumption DEF PipelineInv, PipelineType
<1>4. fetched' \in 0 .. MaxInst /\ fetched <= fetched' /\ fetched' \in Nat
  BY <1>2, <1>3
<1>5. /\ if1' \in {if1, None, fetched'} /\ if2' \in {if1, if2, None}
      /\ id' \in {if2, id, None} /\ rr' \in {ir, rr, None} /\ exe' \in {rr, exe, None}
  BY <1>2, PipelineStep
<1>6. ToSet(iq') \subseteq ToSet(iq) \cup IF id # None THEN {id} ELSE {}
  BY QueueStep
<1>7. /\ units' \subseteq units \cup IF exe # None THEN {exe} ELSE {}
      /\ retired' \subseteq retired \cup units
  BY <1>1, StallsAndFlushes, PipelineStep
<1>8. ir \in 0 .. fetched
  BY <1>3, QueueStep DEF PipelineInv, PipelineType, None
<1>9. PipelineType'
  <2>1. /\ if1' \in 0 .. fetched' /\ if2' \in 0 .. fetched' /\ id' \in 0 .. fetched'
        /\ rr' \in 0 .. fetched' /\ exe' \in 0 .. fetched'
    BY <1>3, <1>4, <1>5, <1>8 DEF PipelineInv, PipelineType, None
  <2>2. ToSet(iq') \subseteq 1 .. fetched' /\ units' \subseteq 1 .. fetched'
    BY <1>3, <1>4, <1>6, <1>7 DEF PipelineInv, PipelineType, None
  <2>3. retired' \subseteq 1 .. fetched'
    BY <1>3, <1>4, <1>7 DEF PipelineInv, PipelineType
  <2> QED BY <1>4, <2>1, <2>2, <2>3, QueueStep DEF PipelineType
<1>10. ASSUME NEW i \in Insts PROVE OnePlace(i)'
  <2>1. i # None /\ OnePlace(i)
    BY DEF PipelineInv, Insts, None
  <2>2. i = if1' => (i = if1 /\ if1_stall(c) /\ ~if_flush(c)) \/ i > fetched
    BY <1>2, <1>3, <2>1
  <2>3. i > fetched => /\ i \notin {if1, if2, id, rr, exe, ir}
                       /\ i \notin ToSet(iq) \cup units \cup retired
    BY <1>3, <1>8 DEF PipelineInv, PipelineType, Insts
  <2>4. i = if2' => /\ ~if_flush(c)
                    /\ (i = if2 /\ if2_stall(c)) \/ (i = if1 /\ ~if1_stall(c))
    BY <2>1, PipelineStep
  <2>5. i = id' => /\ ~ir_flush(c)
                   /\ (i = id /\ id_stall(c)) \/ (i = if2 /\ ~if2_stall(c) /\ ~if_flush(c))
    BY <2>1, PipelineStep
  <2>6. i \in ToSet(iq') => /\ ~ir_flush(c)
                            /\ \/ i \in ToSet(iq) /\ (i = ir => ir_stall(c))
                               \/ i = id /\ ~id_stall(c)
    BY <2>1, QueueStep
  <2>7. i = ir => i \in ToSet(iq)
    BY <2>1, QueueStep
  <2>8. i = rr' => (i = rr /\ rr_stall(c)) \/ (i = ir /\ ~ir_stall(c))
    BY <2>1, PipelineStep
  <2>9. i = exe' => (i = exe /\ exe_stall(c)) \/ (i = rr /\ ~rr_stall(c))
    BY <2>1, PipelineStep
  <2>10. i \in units' => \/ i \in units /\ i \notin c.wb \cup c.store
                         \/ i = exe /\ ~exe_stall(c)
    BY <2>1, PipelineStep
  <2>11. i \in retired' => i \in retired \/ (i \in units /\ i \in c.wb \cup c.store)
    BY <1>1, StallsAndFlushes, PipelineStep
  <2>12. /\ id_stall(c) => if2_stall(c)
         /\ if2_stall(c) => if1_stall(c)
         /\ exe_stall(c) => rr_stall(c)
         /\ rr_stall(c) => ir_stall(c)
    BY <1>1, StallsAndFlushes
  <2>13. i = if1' => i \notin {if2', id', rr', exe'} /\ i \notin ToSet(iq') \cup units' \cup retired'
    BY <2>1, <2>2, <2>3, <2>4, <2>5, <2>6, <2>7, <2>8, <2>9, <2>10, <2>11, <2>12 DEF OnePlace
  <2>14. i = if2' => i \notin {id', rr', exe'} /\ i \notin ToSet(iq') \cup units' \cup retired'
    BY <2>1, <2>4, <2>5, <2>6, <2>7, <2>8, <2>9, <2>10, <2>11, <2>12 DEF OnePlace
  <2>15. i = id' => i \notin {rr', exe'} /\ i \notin ToSet(iq') \cup units' \cup retired'
    BY <2>1, <2>5, <2>6, <2>7, <2>8, <2>9, <2>10, <2>11, <2>12 DEF OnePlace
  <2>16. i \in ToSet(iq') => i \notin {rr', exe'} /\ i \notin units' \cup retired'
    BY <2>1, <2>6, <2>7, <2>8, <2>9, <2>10, <2>11, <2>12 DEF OnePlace
  <2>17. /\ i = rr' => i # exe' /\ i \notin units' \cup retired'
         /\ i = exe' => i \notin units' \cup retired'
         /\ i \in units' => i \notin retired'
    BY <2>1, <2>7, <2>8, <2>9, <2>10, <2>11, <2>12 DEF OnePlace
  <2> QED BY <2>13, <2>14, <2>15, <2>16, <2>17 DEF OnePlace
<1> QED BY <1>9, <1>10 DEF PipelineInv, Insts

-----------------------------------------------------------------------------
(* How far a cycle takes an instruction, by where it is.                   *)
LEMMA ReachedStep ==
  ASSUME PipelineInv, NEW c \in Inputs, ClockEdge(c), PipelineInv', NEW i \in Insts
  PROVE  /\ i = if1 => /\ Reached(i) = "F1"
                       /\ Reached(i)' = IF if_flush(c) THEN "flushed"
                                        ELSE IF if1_stall(c) THEN "F1" ELSE "F2"
         /\ i = if2 => /\ Reached(i) = "F2"
                       /\ Reached(i)' = IF if_flush(c) THEN "flushed"
                                        ELSE IF if2_stall(c) THEN "F2" ELSE "D"
         /\ i = id => /\ Reached(i) = "D"
                      /\ Reached(i)' = IF ir_flush(c) THEN "flushed"
                                       ELSE IF id_stall(c) THEN "D" ELSE "Q"
         /\ i \in ToSet(iq) =>
              /\ Reached(i) = "Q"
              /\ Reached(i)' = IF ir_flush(c) THEN "flushed"
                               ELSE IF i = ir /\ ~ir_stall(c) THEN "R" ELSE "Q"
         /\ i = rr => /\ Reached(i) = "R"
                      /\ Reached(i)' = IF ir_flush(c) THEN "flushed"
                                       ELSE IF rr_stall(c) THEN "R" ELSE "X"
         /\ i = exe => /\ Reached(i) = "X"
                       /\ Reached(i)' = IF exe_flush(c) THEN "flushed" ELSE "X"
         /\ i \in units => /\ Reached(i) = "X"
                           /\ Reached(i)' = IF i \in c.wb \cup c.store THEN "committed"
                                            ELSE IF exe_flush(c) THEN "flushed" ELSE "X"
         /\ i \in retired => Reached(i) = "committed" /\ Reached(i)' = "committed"
         /\ i \notin {if1, if2, id, rr, exe} /\ i \notin ToSet(iq) \cup units \cup retired
              => \/ Reached(i) = "none" /\ Reached(i)' \in {"none", "F1"}
                 \/ Reached(i) = "flushed" /\ Reached(i)' = "flushed"
<1>1. PlaceIsReached /\ PlaceIsReached'
  BY ReachedAt, PTL
<1>2. PipelineType /\ OnePlace(i) /\ PipelineType' /\ OnePlace(i)' /\ i # None
  BY DEF PipelineInv, Insts, None
<1>3. Possible(c)
  BY DEF ClockEdge
<1>4. PICK new \in {None, fetched + 1} :
        /\ new # None => fetched < MaxInst /\ (if_flush(c) \/ ~if1_stall(c))
        /\ fetched' = IF new = None THEN fetched ELSE new
        /\ if1' = IF if1_stall(c) /\ ~if_flush(c) THEN if1 ELSE new
  BY PipelineStep
<1>5. fetched \in Nat /\ fetched' \in Nat /\ fetched <= fetched' /\ i \in Nat /\ None = 0
  BY <1>4, KonataAssumption DEF PipelineInv, PipelineType, None, Insts
<1>6. i \in {if1, if2, id, rr, exe} \cup ToSet(iq) \cup units \cup retired => i <= fetched
  BY <1>2, <1>5 DEF PipelineType
<1>7. /\ i <= fetched => (i = if1' <=> i = if1 /\ if1_stall(c) /\ ~if_flush(c))
      /\ i > fetched => i \notin {if2', id', rr', exe'} /\ i \notin ToSet(iq') \cup units' \cup retired'
      /\ i > fetched /\ i # if1' => i > fetched'
  <2>1. ir # None => ir \in ToSet(iq)
    BY QueueStep
  <2>2. /\ i = if2' => i \in {if1, if2}
        /\ i = id' => i \in {if2, id}
        /\ i = rr' => i \in {ir, rr}
        /\ i = exe' => i \in {rr, exe}
        /\ i \in units' => i \in units \cup {exe}
    BY <1>2, PipelineStep
  <2>3. i \in ToSet(iq') => i \in ToSet(iq) \cup {id}
    BY QueueStep
  <2>4. i \in retired' => i \in retired \cup units
    BY <1>3, StallsAndFlushes, PipelineStep
  <2>5. i > fetched =>
          i \notin {if2', id', rr', exe'} /\ i \notin ToSet(iq') \cup units' \cup retired'
    BY <1>2, <1>5, <1>6, <2>1, <2>2, <2>3, <2>4
  <2>6. i <= fetched => (i = if1' <=> i = if1 /\ if1_stall(c) /\ ~if_flush(c))
    BY <1>2, <1>4, <1>5
  <2>7. i > fetched /\ i # if1' => i > fetched'
    BY <1>4, <1>5
  <2> QED BY <2>5, <2>6, <2>7
<1>8. /\ i = if2' <=> ~if_flush(c) /\ IF if2_stall(c) THEN i = if2 ELSE ~if1_stall(c) /\ i = if1
      /\ i = id' <=> ~ir_flush(c) /\ IF id_stall(c) THEN i = id
                                     ELSE ~if_flush(c) /\ ~if2_stall(c) /\ i = if2
  BY <1>2, PipelineStep
<1>9. i \in ToSet(iq') <=> /\ ~ir_flush(c)
                           /\ \/ i \in ToSet(iq) /\ (i = ir => ir_stall(c))
                              \/ i = id /\ ~id_stall(c)
  <2>1. OnePlace(i)
    BY <1>2
  <2> QED BY <1>2, <2>1, QueueStep DEF OnePlace
<1>10. /\ i = rr' <=> /\ ~ir_flush(c)
                      /\ IF rr_stall(c) THEN i = rr ELSE ~ir_stall(c) /\ i = ir
       /\ i = exe' <=> /\ ~exe_flush(c)
                       /\ IF exe_stall(c) THEN i = exe
                          ELSE ~ir_flush(c) /\ ~rr_stall(c) /\ i = rr
  BY <1>2, PipelineStep
<1>11. /\ i \in units' <=> /\ ~exe_flush(c)
                           /\ \/ i \in units /\ i \notin c.wb \cup c.store
                              \/ i = exe /\ ~exe_stall(c)
       /\ i \in retired' <=> i \in retired \/ i \in c.wb \cup c.store
  BY <1>2, PipelineStep
<1>12. /\ id_stall(c) => if2_stall(c)
       /\ if2_stall(c) => if1_stall(c)
       /\ exe_stall(c) => rr_stall(c)
       /\ rr_stall(c) => ir_stall(c)
       /\ exe_flush(c) => ir_flush(c)
       /\ ir_flush(c) => if_flush(c)
       /\ if_flush(c) /\ ~ir_flush(c) => ~id_stall(c)
       /\ ir_flush(c) /\ ~exe_flush(c) => ~exe_stall(c)
       /\ i \in c.wb \cup c.store => i \in units
  BY <1>3, StallsAndFlushes
<1>13. i = ir => i \in ToSet(iq)
  BY <1>2, QueueStep
<1>14. i <= fetched => ~(i > fetched')
  BY <1>5
<1>15. CASE i \in {if1, if2, id}
  <2>1. i <= fetched
    BY <1>6, <1>15
  <2> QED
    BY <1>1, <1>2, <1>7, <1>8, <1>9, <1>10, <1>11, <1>12, <1>13, <1>14, <1>15, <2>1
    DEF PlaceIsReached, OnePlace
<1>16. CASE i \in ToSet(iq) \cup {rr}
  <2>1. i <= fetched
    BY <1>6, <1>16
  <2> QED
    BY <1>1, <1>2, <1>7, <1>8, <1>9, <1>10, <1>11, <1>12, <1>13, <1>14, <1>16, <2>1
    DEF PlaceIsReached, OnePlace
<1>17. CASE i \in {exe} \cup units \cup retired
  <2>1. i <= fetched
    BY <1>6, <1>17
  <2> QED
    BY <1>1, <1>2, <1>7, <1>8, <1>9, <1>10, <1>11, <1>12, <1>13, <1>14, <1>17, <2>1
    DEF PlaceIsReached, OnePlace
<1>18. CASE i \notin {if1, if2, id, rr, exe} /\ i \notin ToSet(iq) \cup units \cup retired
  <2>1. i \notin {if2', id', rr', exe'} /\ i \notin ToSet(iq') \cup units' \cup retired'
    BY <1>8, <1>9, <1>10, <1>11, <1>12, <1>13, <1>18
  <2>2. Reached(i) = IF i > fetched THEN "none" ELSE "flushed"
    BY <1>1, <1>2, <1>18 DEF PlaceIsReached
  <2>3. Reached(i)' = IF i = if1' THEN "F1" ELSE IF i > fetched' THEN "none" ELSE "flushed"
    BY <1>1, <1>2, <2>1 DEF PlaceIsReached
  <2>4. i <= fetched => i # if1'
    BY <1>7, <1>18
  <2> QED BY <1>5, <1>7, <1>14, <1>18, <2>2, <2>3, <2>4
<1> QED BY <1>15, <1>16, <1>17, <1>18

-----------------------------------------------------------------------------
(* What a cycle may show: each instruction stays as it was shown, or moves *)
(* to a stage between the one it was in and the one it goes to.            *)
Fits(view) ==
  /\ view \in [Insts -> Stages]
  /\ \A i \in Insts :
       /\ view[i] = "flushed" => Reached(i)' = "flushed"
       /\ Rank(view[i]) <= Rank(Reached(i)')
       /\ \/ view[i] = seen[i]
          \/ /\ Rank(view[i]) >= Rank(Reached(i))
             /\ Reached(i) \notin {"flushed", "committed"}

MayShow(insts, stage) ==
  \A i \in insts \cap Insts :
    /\ stage = "flushed" => Reached(i)' = "flushed"
    /\ Rank(stage) <= Rank(Reached(i)')
    /\ Rank(stage) >= Rank(Reached(i))
    /\ Reached(i) \notin {"flushed", "committed"}

LEMMA MovedFits ==
  ASSUME NEW view, NEW insts, NEW stage \in Stages, Fits(view), MayShow(insts, stage),
         NEW after \in [Insts -> Stages],
         \A i \in Insts : after[i] = view[i] \/ (i \in insts /\ after[i] = stage)
  PROVE  Fits(after)
<1>1. ASSUME NEW i \in Insts
      PROVE  /\ after[i] = "flushed" => Reached(i)' = "flushed"
             /\ Rank(after[i]) <= Rank(Reached(i)')
             /\ \/ after[i] = seen[i]
                \/ /\ Rank(after[i]) >= Rank(Reached(i))
                   /\ Reached(i) \notin {"flushed", "committed"}
  <2>1. CASE i \in insts /\ after[i] = stage
    BY <2>1 DEF MayShow
  <2>2. CASE after[i] = view[i]
    BY <2>2 DEF Fits
  <2> QED BY <2>1, <2>2
<1> QED BY <1>1 DEF Fits

LEMMA ShownFits ==
  ASSUME NEW view, NEW insts, NEW stage \in Stages, Fits(view), MayShow(insts, stage)
  PROVE  Fits(Shown(view, insts, stage))
<1> DEFINE after == Shown(view, insts, stage)
<1>1. after \in [Insts -> Stages]
  BY DEF Fits, Shown
<1>2. \A i \in Insts : after[i] = view[i] \/ (i \in insts /\ after[i] = stage)
  BY DEF Shown
<1> HIDE DEF after
<1>3. Fits(after)
  BY <1>1, <1>2, MovedFits
<1> QED BY <1>3 DEF after

(* The events of each block of dump_file may be shown.                     *)
LEMMA EventsFit ==
  ASSUME PipelineInv, NEW c \in Inputs, ClockEdge(c), PipelineInv', Fits(seen)
  PROVE  Fits(events(c))
<1>1. Possible(c)
  BY DEF ClockEdge
<1>2. /\ id_stall(c) => if2_stall(c)
      /\ if2_stall(c) => if1_stall(c)
      /\ exe_stall(c) => rr_stall(c)
      /\ rr_stall(c) => ir_stall(c)
      /\ exe_flush(c) => ir_flush(c)
      /\ ir_flush(c) => if_flush(c)
      /\ c.wb \subseteq units /\ c.store \subseteq units
  BY <1>1, StallsAndFlushes
<1>3. sent_to_queue => last_id_id \in ToSet(iq)
  BY DEF PipelineInv, QueueInv, SentIsQueued
<1>4. enqueuedInsts \subseteq ToSet(iq)
  BY DEF PipelineInv, QueueInv, LoggedIsQueued
<1>5. ir # None => ir \in ToSet(iq)
  BY QueueStep
<1>6. None \notin Insts
  BY DEF None, Insts
<1>7. \A view, insts, stage : stage \in Stages /\ Fits(view) /\ MayShow(insts, stage)
        => Fits(Shown(view, insts, stage))
  BY ShownFits
<1>8. \A stage : MayShow({}, stage)
  BY DEF MayShow
<1>9. Fits(fetch_events(c, seen))
  <2> DEFINE to_f2 == When(if2 # None /\ ~if2_stall(c) /\ last_if2_id # if2, {if2})
  <2>1. MayShow(introduced(c), "F1")
    BY <1>2, ReachedStep, Ranks DEF MayShow, introduced, When
  <2>2. if_flush(c) => MayShow({if2}, "flushed")
    BY ReachedStep, Ranks DEF MayShow
  <2>3. ~if_flush(c) => MayShow(to_f2, "F2")
    BY ReachedStep, Ranks DEF MayShow, When
  <2> HIDE DEF to_f2
  <2>4. Fits(first_events(c, seen))
    <3> DEFINE after == first_events(c, seen)
    <3>1. after \in [Insts -> Stages]
      BY DEF Fits, first_events, Stages
    <3>2. \A i \in Insts : after[i] = seen[i] \/ (i \in introduced(c) /\ after[i] = "F1")
      BY DEF first_events
    <3> HIDE DEF after
    <3>3. Fits(after)
      BY <2>1, <3>1, <3>2, MovedFits DEF Stages
    <3> QED BY <3>3 DEF after
  <2> QED BY <2>2, <2>3, <2>4, <1>7 DEF fetch_events, Stages, to_f2
<1>10. Fits(fetch_decode(c))
  <2>1. ir_flush(c) => MayShow({id}, "flushed")
    BY ReachedStep, Ranks DEF MayShow
  <2>2. ~ir_flush(c) => MayShow(When(decode_shown(c), {id}), "D")
    BY ReachedStep, Ranks DEF MayShow, When
  <2> QED BY <1>7, <1>9, <2>1, <2>2 DEF fetch_decode, decode_events, Stages
<1>11. Fits(queue_events(c, fetch_decode(c)))
  <2>1. MayShow(When(sent_to_queue, {last_id_id}), IF ir_flush(c) THEN "flushed" ELSE "Q")
    BY <1>3, ReachedStep, Ranks DEF MayShow, When
  <2> QED BY <1>7, <1>10, <2>1 DEF queue_events, Stages
<1>12. Fits(queue_rename(c))
  <2>1. ir_flush(c) => MayShow({ir} \cup enqueuedInsts, "flushed")
    BY <1>4, <1>5, <1>6, ReachedStep, Ranks DEF MayShow
  <2>2. ~ir_flush(c) => MayShow(When(ir # None /\ ~ir_stall(c), {ir}), "I")
    BY <1>5, ReachedStep, Ranks DEF MayShow, When
  <2> QED BY <1>7, <1>11, <2>1, <2>2 DEF queue_rename, rename_events, Stages
<1>13. Fits(read_events(c, queue_rename(c)))
  <2>1. ir_flush(c) => MayShow({rr}, "flushed")
    BY ReachedStep, Ranks DEF MayShow
  <2>2. ~ir_flush(c) => MayShow(When(rr # None /\ ~ir_stall(c), {rr}), "R")
    BY <1>2, ReachedStep, Ranks DEF MayShow, When
  <2> QED BY <1>7, <1>12, <2>1, <2>2 DEF read_events, Stages
<1>14. Fits(execute_events(c, read_events(c, queue_rename(c))))
  <2>1. exe_flush(c) => MayShow({exe}, "flushed")
    BY ReachedStep, Ranks DEF MayShow
  <2>2. ~exe_flush(c) => MayShow(When(exe # None /\ ~rr_stall(c), {exe}), "X")
    BY ReachedStep, Ranks DEF MayShow, When
  <2> QED BY <1>7, <1>13, <2>1, <2>2 DEF execute_events, Stages
<1>15. MayShow(c.wb \cup c.store, "committed")
  BY <1>2, ReachedStep, Ranks DEF MayShow
<1> QED BY <1>7, <1>14, <1>15 DEF events, writeback_events, Stages

(* What was shown in the last cycle may stay.                              *)
LEMMA SeenFits ==
  ASSUME PipelineInv, NEW c \in Inputs, ClockEdge(c), PipelineInv', ViewInv
  PROVE  Fits(seen)
<1> SUFFICES ASSUME NEW i \in Insts
             PROVE  /\ seen[i] = "flushed" => Reached(i)' = "flushed"
                    /\ Rank(seen[i]) <= Rank(Reached(i)')
  BY DEF Fits, ViewInv
<1>1. /\ Reached(i) = "flushed" => Reached(i)' = "flushed"
      /\ Rank(Reached(i)) <= Rank(Reached(i)')
      /\ Reached(i) \in Stages /\ Reached(i)' \in Stages
  BY ReachedStep, Ranks DEF Stages
<1>2. \A stage \in Stages : Rank(stage) \in Nat
  BY Ranks DEF Stages
<1>3. seen[i] \in Stages
  BY DEF ViewInv
<1>4. seen[i] = "flushed" => Reached(i) = "flushed"
  BY DEF ViewInv, ShownIsReached
<1>5. Rank(seen[i]) <= Rank(Reached(i))
  BY DEF ViewInv, ShownIsReached
<1> HIDE DEF Reached
<1> QED BY <1>1, <1>2, <1>3, <1>4, <1>5

LEMMA NextFits ==
  ASSUME IInv, NEW c \in Inputs, ClockEdge(c), PipelineInv'
  PROVE  Fits(seen')
<1>1. Fits(seen) /\ Fits(events(c))
  BY SeenFits, EventsFit DEF IInv
<1>2. seen' = seen \/ seen' = events(c)
  BY DEF ClockEdge, konata_dump
<1> QED BY <1>1, <1>2

-----------------------------------------------------------------------------
(* A block shows an instruction if the one before does: but for the first  *)
(* one, which introduces it, none makes it known or forgets it.            *)
LEMMA ShownKnows ==
  ASSUME NEW view, NEW insts, NEW stage, stage # "none", NEW i \in Insts
  PROVE  Shown(view, insts, stage)[i] = "none" <=> view[i] = "none"
BY DEF Shown

LEMMA Introduces ==
  ASSUME NEW c \in Inputs, ClockEdge(c), NEW i \in Insts
  PROVE  seen'[i] = "none" <=> seen[i] = "none" /\ i \notin introduced(c)
<1>1. \A view, insts, stage :
        stage # "none" => (Shown(view, insts, stage)[i] = "none" <=> view[i] = "none")
  BY ShownKnows
<1>2. first_events(c, seen)[i] = "none" <=> seen[i] = "none" /\ i \notin introduced(c)
  BY DEF first_events
<1>3. fetch_events(c, seen)[i] = "none" <=> first_events(c, seen)[i] = "none"
  BY <1>1 DEF fetch_events
<1>4. fetch_decode(c)[i] = "none" <=> fetch_events(c, seen)[i] = "none"
  BY <1>1 DEF fetch_decode, decode_events
<1>5. queue_events(c, fetch_decode(c))[i] = "none" <=> fetch_decode(c)[i] = "none"
  BY <1>1 DEF queue_events
<1>6. queue_rename(c)[i] = "none" <=> queue_events(c, fetch_decode(c))[i] = "none"
  BY <1>1 DEF queue_rename, rename_events
<1>7. read_events(c, queue_rename(c))[i] = "none" <=> queue_rename(c)[i] = "none"
  BY <1>1 DEF read_events
<1>8. execute_events(c, read_events(c, queue_rename(c)))[i] = "none"
        <=> read_events(c, queue_rename(c))[i] = "none"
  BY <1>1 DEF execute_events
<1>9. events(c)[i] = "none" <=> execute_events(c, read_events(c, queue_rename(c)))[i] = "none"
  BY <1>1 DEF events, writeback_events
<1>10. quiet(c) => introduced(c) = {}
  BY DEF quiet, introduced, When
<1>11. seen' = IF quiet(c) THEN seen ELSE events(c)
  BY DEF ClockEdge, konata_dump
<1> QED BY <1>2, <1>3, <1>4, <1>5, <1>6, <1>7, <1>8, <1>9, <1>10, <1>11

LEMMA NextIntroduction ==
  ASSUME IInv, NEW c \in Inputs, ClockEdge(c), PipelineInv'
  PROVE  IntroductionInv'
<1>1. /\ last_if1_id' = if1
      /\ held' = held \cup IF if1 # None /\ if1_stall(c) THEN {if1} ELSE {}
  BY DEF ClockEdge, konata_dump, Remember, When
<1>2. PICK new \in {None, fetched + 1} :
        /\ fetched' = IF new = None THEN fetched ELSE new
        /\ if1' = IF if1_stall(c) /\ ~if_flush(c) THEN if1 ELSE new
  BY PipelineStep DEF IInv
<1>3. fetched \in Nat /\ if1 \in 0 .. fetched /\ fetched <= MaxInst /\ MaxInst \in Nat
  BY KonataAssumption DEF IInv, PipelineInv, PipelineType
<1>4. held' \subseteq Insts
  BY <1>1, <1>3 DEF IInv, ViewInv, IntroductionInv, Insts, None
<1>5. ASSUME NEW i \in Insts PROVE Introduction(i)'
  <2>1. seen'[i] = "none" <=> seen[i] = "none" /\ i \notin introduced(c)
    BY Introduces
  <2>2. Introduction(i) /\ i \in Nat /\ i # None
    BY DEF IInv, ViewInv, IntroductionInv, Insts, None
  <2>3. i \in introduced(c)
          <=> i = if1 /\ i # last_if1_id /\ ~if1_stall(c) /\ ~if_flush(c)
    BY <2>2 DEF introduced, When
  <2>4. fetched' \in Nat /\ fetched <= fetched'
    BY <1>2, <1>3 DEF None
  <2>5. i > fetched' => seen'[i] = "none"
    BY <1>3, <2>1, <2>2, <2>3, <2>4 DEF Introduction
  <2>6. i \in held' => i <= fetched' /\ seen'[i] = "none"
    BY <1>1, <1>3, <2>1, <2>2, <2>3, <2>4 DEF Introduction
  <2>7. i = if1' => (i = if1 /\ if1_stall(c)) \/ i > fetched
    BY <1>2, <1>3, <2>2
  <2>8. i = if1' /\ i = if1 => i \in held'
    BY <1>1, <1>3, <2>2, <2>7
  <2>9. i = if1' /\ i # if1 => i \notin held' /\ seen'[i] = "none"
    BY <1>1, <1>3, <2>1, <2>2, <2>3, <2>7 DEF Introduction
  <2>10. i \in {if2', id', rr', exe'} \cup ToSet(iq') \cup units' \cup retired' =>
           \/ i = if1 /\ ~if1_stall(c) /\ ~if_flush(c)
           \/ i \in {if2, id, rr, exe} \cup ToSet(iq) \cup units \cup retired
    <3>1. Possible(c) /\ PipelineInv
      BY DEF ClockEdge, IInv
    <3>2. /\ i = if2' => i = if2 \/ (i = if1 /\ ~if1_stall(c) /\ ~if_flush(c))
          /\ i = id' => i \in {id, if2}
          /\ i = rr' => i \in {rr, ir}
          /\ i = exe' => i \in {exe, rr}
          /\ i \in units' => i \in units \cup {exe}
      BY <2>2, <3>1, PipelineStep
    <3>3. i \in retired' => i \in retired \cup units
      BY <3>1, PipelineStep, StallsAndFlushes
    <3>4. /\ i \in ToSet(iq') => i \in ToSet(iq) \cup {id}
          /\ i = ir => i \in ToSet(iq)
      BY <2>2, <3>1, QueueStep
    <3> QED BY <3>2, <3>3, <3>4
  <2>11. i \in {if2', id', rr', exe'} \cup ToSet(iq') \cup units' \cup retired' =>
           i \in held' \/ seen'[i] # "none"
    BY <1>1, <2>1, <2>2, <2>3, <2>10 DEF Introduction
  <2> QED BY <1>1, <2>5, <2>6, <2>8, <2>9, <2>11 DEF Introduction
<1> QED BY <1>4, <1>5 DEF IntroductionInv, Insts

(* The queue of the log follows that of the core.                          *)
LEMMA NextQueueIsLogged ==
  ASSUME IInv, NEW c \in Inputs, ClockEdge(c), PipelineInv'
  PROVE  LoggedQueueIsReal'
<1> DEFINE sent == IF sent_to_queue THEN {last_id_id} ELSE {}
           renamed == IF ir # None /\ ~ir_stall(c) THEN {ir} ELSE {}
           decoded == IF id # None /\ ~id_stall(c) THEN {id} ELSE {}
<1>1. ToSet(iq') = IF ir_flush(c) THEN {} ELSE (ToSet(iq) \ renamed) \cup decoded
  BY QueueStep DEF IInv
<1>2. ToSet(iq) \subseteq enqueuedInsts \cup unlogged \cup sent
  BY DEF IInv, ViewInv, LoggedQueueIsReal, When
<1>3. enqueuedInsts' \subseteq ToSet(iq')
  BY DEF PipelineInv, QueueInv, LoggedIsQueued
<1>4. unlogged' = (unlogged \cup IF quiet(c) THEN sent ELSE {}) \cap ToSet(iq')
  BY DEF ClockEdge, Remember, When
<1>5. enqueuedInsts' = IF quiet(c) THEN enqueuedInsts
                       ELSE IF ir_flush(c) THEN {} ELSE (enqueuedInsts \cup sent) \ renamed
  BY DEF ClockEdge, konata_dump, enqueued_next
<1>6. ~ir_flush(c) => decoded = IF sent_to_queue' THEN {last_id_id'} ELSE {}
  BY DEF ClockEdge, konata_dump, sent_to_queue
<1> HIDE DEF sent, renamed, decoded
<1>7. ToSet(iq') \subseteq
        enqueuedInsts' \cup unlogged' \cup IF sent_to_queue' THEN {last_id_id'} ELSE {}
  BY <1>1, <1>2, <1>4, <1>5, <1>6
<1> QED BY <1>3, <1>7 DEF LoggedQueueIsReal, When

-----------------------------------------------------------------------------
LEMMA InitIInv == Init => IInv
<1> SUFFICES ASSUME Init PROVE IInv
  OBVIOUS
<1>1. PipelineInv
  BY InitPipelineInv
<1>2. seen = [i \in Insts |-> "none"] /\ retired = {} /\ fetched = 0 /\ held = {} /\ iq = <<>>
  BY DEF Init
<1>3. ASSUME NEW i \in Insts PROVE seen[i] = "none" /\ Reached(i) = "none"
  <2>1. PlaceIsReached /\ PipelineType /\ OnePlace(i) /\ i \in Nat /\ i > 0
    BY <1>1, ReachedAt, KonataAssumption DEF PipelineInv, Insts
  <2>2. i \notin {if1, if2, id, rr, exe} /\ i \notin ToSet(iq) \cup units \cup retired
    BY <1>2, <2>1 DEF PipelineType
  <2> QED BY <1>2, <2>1, <2>2 DEF PlaceIsReached
<1>4. ShownIsReached
  BY <1>3, Ranks DEF ShownIsReached
<1>5. CommittedIsShown
  BY <1>2 DEF CommittedIsShown
<1>6. LoggedQueueIsReal
  BY <1>2 DEF Init, LoggedQueueIsReal, ToSet
<1>7. IntroductionInv
  <2> SUFFICES ASSUME NEW i \in Insts PROVE Introduction(i)
    BY <1>2 DEF IntroductionInv
  <2>1. i # None /\ if1 = None /\ if2 = None /\ id = None /\ rr = None /\ exe = None
    BY DEF Init, Insts, None
  <2>2. ToSet(iq) = {} /\ units = {}
    BY DEF Init, ToSet
  <2> QED BY <1>2, <1>3, <2>1, <2>2 DEF Introduction
<1> QED BY <1>1, <1>2, <1>4, <1>5, <1>6, <1>7 DEF IInv, ViewInv, Stages

LEMMA NextIInv == IInv /\ [Next]_vars => IInv'
<1> SUFFICES ASSUME IInv, [Next]_vars PROVE IInv'
  OBVIOUS
<1>1. QueueInv'
  BY NextQueueInv DEF IInv, PipelineInv
<1>2. CASE UNCHANGED vars
  <2>1. PipelineInv'
    BY <1>2, <1>1 DEF vars, core_vars, IInv, PipelineInv, PipelineType, OnePlace
  <2>2. ViewInv'
    <3>1. ShownIsReached' /\ CommittedIsShown'
      BY <1>2 DEF vars, core_vars, log_vars, history_vars, IInv, ViewInv, ShownIsReached,
                  CommittedIsShown, Reached
    <3>2. LoggedQueueIsReal' /\ IntroductionInv'
      BY <1>2 DEF vars, core_vars, log_vars, history_vars, IInv, ViewInv, LoggedQueueIsReal,
                  sent_to_queue, IntroductionInv, Introduction
    <3> QED BY <1>2, <3>1, <3>2 DEF vars, log_vars, IInv, ViewInv
  <2> QED BY <2>1, <2>2 DEF IInv
<1>3. ASSUME NEW c \in Inputs, ClockEdge(c) PROVE IInv'
  <2>1. PipelineInv'
    BY <1>1, <1>3, NextPipelineInv DEF IInv
  <2>2. Fits(seen')
    BY <1>3, <2>1, NextFits
  <2>3. seen' \in [Insts -> Stages] /\ ShownIsReached'
    BY <2>2 DEF Fits, ShownIsReached
  <2>4. CommittedIsShown'
    <3>5. IntroductionInv' /\ IntroductionInv
      BY <1>3, <2>1, NextIntroduction DEF IInv, ViewInv
    <3>6. \A i \in held' : seen'[i] = "none"
      BY <3>5 DEF IntroductionInv, Introduction
    <3> SUFFICES ASSUME NEW i \in retired', i \notin retired_by_store', i \notin held'
                 PROVE  seen'[i] = "committed"
      BY <3>6 DEF CommittedIsShown
    <3>7. i \notin held
      BY <1>3 DEF ClockEdge, Remember
    <3>1. /\ retired' = retired \cup c.wb \cup c.store
          /\ retired_by_store' = retired_by_store \cup c.store
      BY <1>3, PipelineStep DEF IInv
    <3>2. i \in Insts
      BY <2>1, KonataAssumption DEF PipelineInv, PipelineType, Insts
    <3>3. CASE i \in c.wb
      <4>1. seen' = events(c)
        BY <1>3, <3>3 DEF ClockEdge, konata_dump, quiet, any_writeback
      <4>2. i \in units
        BY <1>3, <3>3, StallsAndFlushes DEF ClockEdge
      <4>3. seen[i] # "none"
        BY <3>2, <3>5, <3>7, <4>2 DEF IntroductionInv, Introduction
      <4>4. events(c)[i] # "none"
        BY <1>3, <3>2, <4>1, <4>3, Introduces
      <4> QED BY <3>2, <3>3, <4>1, <4>4, ShownKnows DEF events, writeback_events, Shown
    <3>4. CASE i \in retired
      <4>1. seen[i] = "committed"
        BY <3>1, <3>4, <3>7 DEF IInv, ViewInv, CommittedIsShown
      <4>2. Reached(i) = "committed"
        BY <3>2, <3>4, ReachedAt DEF PlaceIsReached, IInv, PipelineInv
      <4> QED BY <2>2, <3>2, <4>1, <4>2 DEF Fits
    <3> QED BY <3>1, <3>3, <3>4
  <2>5. LoggedQueueIsReal' /\ IntroductionInv'
    BY <1>3, <2>1, NextIntroduction, NextQueueIsLogged
  <2> QED BY <2>1, <2>3, <2>4, <2>5 DEF IInv, ViewInv
<1> QED BY <1>2, <1>3 DEF Next

LEMMA IInvAlways == Spec => []IInv
BY InitIInv, NextIInv, PTL DEF Spec

(* When a flush removes the viewer's queue, it removes instructions that   *)
(* are in the instruction queue and no others, and it leaves out none but  *)
(* those that entered it before a cycle that was not logged                *)
(* (dpi_konata.cpp, line 189).                                             *)
THEOREM LoggedQueueIsRealAlways == Spec => []LoggedQueueIsReal
<1>1. IInv => LoggedQueueIsReal
  BY DEF IInv, ViewInv
<1> QED BY IInvAlways, <1>1, PTL

(* The viewer shows no instruction ahead of where it is, nor one as gone   *)
(* that is not, although dump_file shows the way into the queue from what  *)
(* it remembers of the last cycle (dpi_konata.cpp, line 179).              *)
THEOREM ShownIsReachedAlways == Spec => []ShownIsReached
<1>1. IInv => ShownIsReached
  BY DEF IInv, ViewInv
<1> QED BY IInvAlways, <1>1, PTL

(* Every writeback that is not by the store port ends its instruction in   *)
(* the viewer, also in a cycle in which nothing else moves (dpi_konata.cpp,*)
(* line 149), unless the instruction stalled in the first stage: such a    *)
(* one is never introduced and never shown (lines 156 to 161 and 271).     *)
THEOREM CommittedIsShownAlways == Spec => []CommittedIsShown
<1>1. IInv => CommittedIsShown
  BY DEF IInv, ViewInv
<1> QED BY IInvAlways, <1>1, PTL

(* No step shows an instruction in an earlier stage, or again after it was *)
(* committed or flushed.                                                   *)
THEOREM StagesMoveForwardAlways == Spec => StagesMoveForward
<1>1. ASSUME IInv, IInv', [Next]_vars
      PROVE  [\A i \in Insts :
                IF seen[i] \in {"flushed", "committed"} THEN seen'[i] = seen[i]
                ELSE Rank(seen'[i]) >= Rank(seen[i])]_seen
  <2>1. CASE UNCHANGED vars
    BY <2>1 DEF vars, log_vars
  <2>2. ASSUME NEW c \in Inputs, ClockEdge(c), NEW i \in Insts
        PROVE  IF seen[i] \in {"flushed", "committed"} THEN seen'[i] = seen[i]
               ELSE Rank(seen'[i]) >= Rank(seen[i])
    <3>1. Fits(seen')
      BY <1>1, <2>2, NextFits DEF IInv
    <3>2. \A stage \in Stages : Rank(stage) \in 1 .. 10 /\ (Rank(stage) = 10 => stage = "committed")
      BY Ranks DEF Stages
    <3>3. Reached(i) \in Stages
      BY <1>1, <2>2, ReachedStep DEF IInv, Stages
    <3>4. /\ seen[i] \in Stages /\ seen'[i] \in Stages
          /\ seen[i] = "flushed" => Reached(i) = "flushed"
          /\ Rank(seen[i]) <= Rank(Reached(i))
      BY <1>1 DEF IInv, ViewInv, ShownIsReached
    <3>5. \/ seen'[i] = seen[i]
          \/ /\ Rank(seen'[i]) >= Rank(Reached(i))
             /\ Reached(i) \notin {"flushed", "committed"}
      BY <3>1 DEF Fits
    <3>6. seen[i] = "committed" => Reached(i) = "committed"
      BY <3>2, <3>3, <3>4, Ranks
    <3> QED BY <3>2, <3>3, <3>4, <3>5, <3>6
  <2> QED BY <1>1, <2>1, <2>2 DEF Next
<1> QED BY IInvAlways, <1>1, PTL DEF Spec, StagesMoveForward
=============================================================================

-------------------------- MODULE CheckpointProofs --------------------------
(***************************************************************************)
(* For every period, once a process has written two checkpoints the files  *)
(* hold the last two, and the last one survives an interrupted save. The   *)
(* invariant says what each file holds while only one has been written,    *)
(* and while the other is being written.                                   *)
(*                                                                         *)
(* For every memory, what is restored is what was saved: the maps of a     *)
(* stream are read back one behind the other.                              *)
(***************************************************************************)
EXTENDS Checkpoint, FiniteSetTheorems, SequenceTheorems, TLAPS

-----------------------------------------------------------------------------
(* Multiples of the period.                                                *)

LEMMA Mod == ASSUME NEW k \in Nat PROVE (Period * k) % Period = 0
BY CheckpointAssumption, SMT

LEMMA Div ==
  ASSUME NEW k \in Nat, NEW r \in 0 .. Period - 1
  PROVE  (Period * k + r) \div Period = k
BY CheckpointAssumption, SMT

LEMMA Multiple ==
  ASSUME NEW c \in Nat, c % Period = 0
  PROVE  c = Period * (c \div Period) /\ c \div Period \in Nat
BY CheckpointAssumption, SMT

LEMMA NextMultiple ==
  ASSUME NEW c \in Nat, c % Period = 0
  PROVE  (c + Period) % Period = 0
<1> DEFINE k == c \div Period
<1>1. c = Period * k /\ k \in Nat
  BY Multiple
<1> HIDE DEF k
<1>2. c + Period = Period * (k + 1)
  BY <1>1, CheckpointAssumption
<1>3. (Period * (k + 1)) % Period = 0
  BY Mod, <1>1
<1> QED
  BY <1>2, <1>3

(* There is no multiple between two multiples a period apart.              *)
LEMMA Consecutive ==
  ASSUME NEW c \in Nat, NEW d \in Nat, c % Period = 0, d % Period = 0,
         d < c, c <= d + Period
  PROVE  c = d + Period
<1> DEFINE k == c \div Period
           l == d \div Period
<1>1. c = Period * k /\ k \in Nat
  BY Multiple
<1>2. d = Period * l /\ l \in Nat
  BY Multiple
<1> HIDE DEF k, l
<1>3. CASE k <= l
  <2>1. Period * k <= Period * l
    BY <1>1, <1>2, <1>3, CheckpointAssumption
  <2> QED
    BY <2>1, <1>1, <1>2
<1>4. CASE k >= l + 2
  <2>1. Period * k >= Period * (l + 2)
    BY <1>1, <1>2, <1>4, CheckpointAssumption
  <2>2. Period * (l + 2) = Period * l + Period + Period
    BY <1>2, CheckpointAssumption
  <2> QED
    BY <2>1, <2>2, <1>1, <1>2, CheckpointAssumption
<1>5. CASE k = l + 1
  BY <1>1, <1>2, <1>5, CheckpointAssumption
<1> QED
  BY <1>1, <1>2, <1>3, <1>4, <1>5

-----------------------------------------------------------------------------
(* The file that the flag does not choose.                                 *)
other == IF checkpointFile1 THEN 2 ELSE 1

(* d is the last multiple of the period before the cycle c.                *)
LastBefore(d, c) == d % Period = 0 /\ d < c /\ c <= d + Period

TypeInv ==
  /\ process \in {"stopped", "running", "saving"}
  /\ cycles \in Nat
  /\ checkpointFile1 \in BOOLEAN
  /\ saves \in 0 .. 2
  /\ disk \in [Files -> Images \cup {None, Torn}]

OneSaved ==
  saves >= 1 =>
    disk[other] \in Images /\ LastBefore(disk[other].cycles, cycles)

TwoSaved ==
  process = "running" /\ saves = 2 =>
    disk[file] \in Images /\ disk[other].cycles = disk[file].cycles + Period

SavingIsDue == process = "saving" => due /\ cycles < MaxCycles

IInv == TypeInv /\ OneSaved /\ TwoSaved /\ SavingIsDue

LEMMA InitIInv == Init => IInv
BY DEF Init, IInv, TypeInv, OneSaved, TwoSaved, SavingIsDue, Files

LEMMA NextIInv == IInv /\ [Next]_vars => IInv'
<1> SUFFICES ASSUME IInv, [Next]_vars PROVE IInv'
  OBVIOUS
<1> USE DEF IInv, TypeInv
<1>1. CASE \E program \in Programs : Start(program)
  BY <1>1 DEF Start, OneSaved, TwoSaved, SavingIsDue
<1>2. CASE \E f \in Files, program \in Programs : Restore(f, program)
  <2>1. PICK f \in Files, program \in Programs : Restore(f, program)
    BY <1>2
  <2>2. disk[f].cycles \in Nat /\ disk[f].checkpointFile1 \in BOOLEAN
    BY <2>1 DEF Restore, Images
  <2> QED
    BY <2>1, <2>2 DEF Restore, OneSaved, TwoSaved, SavingIsDue
<1>3. CASE \E written \in {<<>>} \cup Stores : ClockEdge(written)
  <2>1. /\ process = "running" /\ ~due /\ cycles' = cycles + 1
        /\ UNCHANGED <<process, checkpointFile1, disk, saves>>
    BY <1>3 DEF ClockEdge
  <2>2. TypeInv'
    BY <2>1
  <2>3. OneSaved'
    <3>1. SUFFICES ASSUME saves >= 1 PROVE LastBefore(disk[other].cycles, cycles + 1)
      BY <2>1 DEF OneSaved, other
    <3> DEFINE d == disk[other].cycles
    <3>2. d \in Nat /\ LastBefore(d, cycles)
      BY <2>1, <3>1 DEF OneSaved, Images
    <3>3. (d + Period) % Period = 0
      BY <3>2, NextMultiple DEF LastBefore
    <3>4. cycles # d + Period
      BY <2>1, <3>2, <3>3, CheckpointAssumption DEF due
    <3> QED
      BY <3>2, <3>4, CheckpointAssumption DEF LastBefore
  <2>4. TwoSaved' /\ SavingIsDue'
    BY <2>1 DEF TwoSaved, SavingIsDue, file, other
  <2> QED
    BY <2>2, <2>3, <2>4
<1>4. CASE SaveOpens
  <2>1. file \in Files /\ other # file
    BY DEF file, other, Files
  <2>2. disk' = [disk EXCEPT ![file] = Torn] /\ disk'[other] = disk[other]
    BY <1>4, <2>1 DEF SaveOpens, other, Files
  <2>3. TypeInv'
    BY <1>4, <2>1, <2>2 DEF SaveOpens
  <2>4. OneSaved'
    <3>1. other' = other
      BY <1>4 DEF SaveOpens, other
    <3> QED
      BY <1>4, <2>2, <3>1 DEF SaveOpens, OneSaved, LastBefore
  <2>5. TwoSaved' /\ SavingIsDue'
    BY <1>4 DEF SaveOpens, TwoSaved, SavingIsDue, due
  <2> QED
    BY <2>3, <2>4, <2>5
<1>5. CASE SaveCloses
  <2> DEFINE image == [cycles |-> cycles, checkpointFile1 |-> checkpointFile1]
  <2>1. due /\ cycles < MaxCycles /\ cycles \in Nat /\ MaxCycles \in Nat
    BY <1>5, CheckpointAssumption DEF SaveCloses, SavingIsDue
  <2>2. image \in Images
    BY <2>1 DEF Images
  <2>3. file \in Files /\ other \in Files /\ other # file /\ file' = other /\ other' = file
    <3>1. checkpointFile1' = ~checkpointFile1
      BY <1>5 DEF SaveCloses, other_file_next
    <3>2. CASE checkpointFile1
      <4>1. file = 1 /\ other = 2
        BY <3>2 DEF file, other
      <4>2. file' = 2 /\ other' = 1
        BY <3>1, <3>2, Zenon DEF file, other
      <4> QED
        BY <4>1, <4>2 DEF Files
    <3>3. CASE ~checkpointFile1
      <4>1. file = 2 /\ other = 1
        BY <3>3 DEF file, other
      <4>2. file' = 1 /\ other' = 2
        BY <3>1, <3>3, Zenon DEF file, other
      <4> QED
        BY <4>1, <4>2 DEF Files
    <3> QED
      BY <3>2, <3>3
  <2>4. disk' = [disk EXCEPT ![file] = image]
    BY <1>5 DEF SaveCloses
  <2>5. disk'[other'] = image /\ disk'[file'] = disk[other]
    BY <2>3, <2>4
  <2>6. TypeInv'
    BY <1>5, <2>2, <2>3, <2>4 DEF SaveCloses, other_file_next
  <2>7. OneSaved'
    <3>1. LastBefore(image.cycles, cycles + 1)
      BY <2>1, CheckpointAssumption DEF LastBefore, due
    <3> QED
      BY <1>5, <2>2, <2>5, <3>1 DEF SaveCloses, OneSaved, LastBefore
  <2>8. TwoSaved'
    <3>1. SUFFICES ASSUME saves >= 1
                   PROVE  disk[other] \in Images /\ cycles = disk[other].cycles + Period
      BY <1>5, <2>5 DEF SaveCloses, TwoSaved
    <3> DEFINE d == disk[other].cycles
    <3>2. disk[other] \in Images /\ LastBefore(d, cycles)
      BY <1>5, <3>1 DEF SaveCloses, OneSaved
    <3>3. d \in Nat
      BY <3>2 DEF Images
    <3> QED
      BY <2>1, <3>2, <3>3, Consecutive DEF LastBefore, due
  <2>9. SavingIsDue'
    BY <1>5 DEF SaveCloses, SavingIsDue
  <2> QED
    BY <2>6, <2>7, <2>8, <2>9
<1>6. CASE Stop
  BY <1>6 DEF Stop, OneSaved, TwoSaved, SavingIsDue, other, LastBefore
<1>7. CASE UNCHANGED vars
  BY <1>7 DEF vars, OneSaved, TwoSaved, SavingIsDue, due, file, other, LastBefore
<1> QED
  BY <1>1, <1>2, <1>3, <1>4, <1>5, <1>6, <1>7 DEF Next

LEMMA IInvImplies == IInv => LastTwoSaved
<1> SUFFICES ASSUME IInv, saves >= 1 PROVE LastTwoSaved
  BY DEF LastTwoSaved
<1> DEFINE d == disk[other].cycles
           k == d \div Period
           r == cycles - 1 - d
<1>1. disk[other] \in Images /\ LastBefore(d, cycles)
  BY DEF IInv, OneSaved
<1>2. process = "running" /\ saves = 2 => disk[file] \in Images /\ disk[file].cycles = d - Period
  <2> SUFFICES ASSUME process = "running", saves = 2
               PROVE  disk[file] \in Images /\ disk[file].cycles = d - Period
    OBVIOUS
  <2> QED BY <1>1, CheckpointAssumption DEF IInv, TwoSaved, Images
<1>3. Files = {file, other}
  BY DEF Files, file, other, IInv, TypeInv
<1>4. d \in Nat /\ d % Period = 0
  BY <1>1 DEF Images, LastBefore
<1>5. d = Period * k /\ k \in Nat
  BY <1>4, Multiple
<1>6. r \in 0 .. Period - 1 /\ cycles - 1 = d + r
  BY <1>1, <1>4, CheckpointAssumption DEF LastBefore, IInv, TypeInv
<1> HIDE DEF k, r
<1>7. (cycles - 1) \div Period = k
  BY <1>5, <1>6, Div
<1>8. ((cycles - 1) \div Period) * Period = d
  BY <1>5, <1>7, CheckpointAssumption
<1>9. process = "running" /\ saves = 2 => {disk[f].cycles : f \in Files} = {d, d - Period}
  BY <1>2, <1>3
<1> HIDE DEF d
<1>10. \E f \in Files : disk[f] \in Images /\ disk[f].cycles = d
  BY <1>1, <1>3 DEF d
<1> QED
  BY <1>1, <1>2, <1>3, <1>8, <1>9, <1>10 DEF LastTwoSaved

(* The last two checkpoints are in the files, for every period and however *)
(* the simulation was stopped and resumed before, and the last one is also *)
(* there after a save that was interrupted.                                *)
THEOREM LastTwoSavedAlways == Spec => []LastTwoSaved
<1>1. Init => IInv
  BY InitIInv
<1>2. IInv /\ [Next]_vars => IInv'
  BY NextIInv
<1>3. IInv => LastTwoSaved
  BY IInvImplies
<1> QED
  BY <1>1, <1>2, <1>3, PTL DEF Spec

-----------------------------------------------------------------------------
(* What is written of a map is read back as that map, whatever was in the  *)
(* map before and whatever follows in the stream.                          *)

(* The keys are written once each.                                         *)
LEMMA KeysOnce ==
  ASSUME NEW D \in SUBSET Nat, IsFiniteSet(D)
  PROVE  /\ Cardinality(D) \in Nat
         /\ SetToSeq(D) \in [1 .. Cardinality(D) -> D]
         /\ \A i, j \in 1 .. Cardinality(D) : SetToSeq(D)[i] = SetToSeq(D)[j] => i = j
         /\ \A k \in D : \E i \in 1 .. Cardinality(D) : SetToSeq(D)[i] = k
<1> DEFINE n == Cardinality(D)
           f == SetToSeq(D)
<1>1. n \in Nat /\ ExistsBijection(1 .. n, D)
  BY FS_CardinalityType
<1>2. PICK g \in [1 .. n -> D] : IsInjective(g)
  BY <1>1 DEF ExistsBijection, Bijection, Injection
<1>3. f \in [1 .. n -> D] /\ IsInjective(f)
  BY <1>2 DEF SetToSeq
<1> HIDE DEF f
<1>4. f \in Injection(1 .. n, D)
  BY <1>3 DEF Injection
<1>5. IsFiniteSet(1 .. n) /\ Cardinality(1 .. n) = n
  BY <1>1, FS_Interval
<1>6. f \in Surjection(1 .. n, D)
  BY <1>4, <1>5, FS_Injection
<1>7. \A k \in D : \E i \in 1 .. n : f[i] = k
  BY <1>6 DEF Surjection
<1>8. \A i, j \in 1 .. n : f[i] = f[j] => i = j
  BY <1>3 DEF IsInjective
<1> QED
  BY <1>1, <1>3, <1>7, <1>8 DEF f

(* The places of the pairs in the stream.                                  *)
LEMMA Places ==
  ASSUME NEW n \in Nat, NEW i \in 1 .. n
  PROVE  /\ 2 * i \in 1 .. 2 * n + 1 /\ 2 * i # 1
         /\ (2 * i) % 2 = 0 /\ (2 * i) \div 2 = i
         /\ 2 * i + 1 \in 1 .. 2 * n + 1 /\ 2 * i + 1 # 1
         /\ (2 * i + 1) % 2 # 0 /\ (2 * i + 1) \div 2 = i
<1>1. /\ 2 * i \in 1 .. 2 * n + 1 /\ 2 * i # 1
      /\ 2 * i + 1 \in 1 .. 2 * n + 1 /\ 2 * i + 1 # 1
  OBVIOUS
<1>2. (2 * i) % 2 = 0 /\ (2 * i) \div 2 = i
  OBVIOUS
<1>3. (2 * i + 1) % 2 # 0
  OBVIOUS
<1>4. (2 * i + 1) \div 2 = i
  OBVIOUS
<1> QED BY <1>1, <1>2, <1>3, <1>4

(* The numbers that are written of a map: how many pairs, and the pairs.   *)
LEMMA Layout ==
  ASSUME NEW m, IsMap(m)
  PROVE  LET n == Cardinality(DOMAIN m)
             os == written_map(m)
             keys == SetToSeq(DOMAIN m)
         IN  /\ n \in Nat /\ os \in Seq(Nat) /\ Len(os) = 2 * n + 1 /\ os[1] = n
             /\ \A i \in 1 .. n : os[2 * i] = keys[i] /\ os[2 * i + 1] = m[keys[i]]
<1> DEFINE n == Cardinality(DOMAIN m)
           keys == SetToSeq(DOMAIN m)
           at(j) == IF j = 1 THEN n
                    ELSE IF j % 2 = 0 THEN keys[j \div 2] ELSE m[keys[j \div 2]]
           os == written_map(m)
<1>1. /\ n \in Nat /\ keys \in [1 .. n -> DOMAIN m]
      /\ DOMAIN m \subseteq Nat /\ m \in [DOMAIN m -> Nat]
  BY KeysOnce DEF IsMap
<1>2. os = [j \in 1 .. 2 * n + 1 |-> at(j)]
  BY DEF written_map
<1> HIDE DEF n, keys, os
<1>3. ASSUME NEW j \in 1 .. 2 * n + 1 PROVE at(j) \in Nat
  <2>1. CASE j = 1
    BY <1>1, <2>1
  <2>2. CASE j # 1
    <3>1. j \div 2 \in 1 .. n
      BY <1>1, <2>2
    <3>2. keys[j \div 2] \in DOMAIN m
      BY <1>1, <3>1
    <3> QED BY <1>1, <2>2, <3>2
  <2> QED BY <2>1, <2>2
<1>4. os \in [1 .. 2 * n + 1 -> Nat]
  BY <1>2, <1>3
<1>5. 2 * n + 1 \in Nat
  BY <1>1
<1>6. os \in Seq(Nat) /\ Len(os) = 2 * n + 1
  BY <1>4, <1>5
<1>7. os[1] = n
  BY <1>1, <1>2
<1>8. ASSUME NEW i \in 1 .. n
      PROVE  os[2 * i] = keys[i] /\ os[2 * i + 1] = m[keys[i]]
  <2>1. /\ 2 * i \in 1 .. 2 * n + 1 /\ 2 * i # 1
        /\ (2 * i) % 2 = 0 /\ (2 * i) \div 2 = i
        /\ 2 * i + 1 \in 1 .. 2 * n + 1 /\ 2 * i + 1 # 1
        /\ (2 * i + 1) % 2 # 0 /\ (2 * i + 1) \div 2 = i
    BY <1>1, Places
  <2> QED BY <1>2, <2>1
<1> QED
  BY <1>1, <1>6, <1>7, <1>8 DEF n, keys, os

LEMMA MapReadBack ==
  ASSUME NEW m, IsMap(m), NEW old, NEW rest \in Seq(Nat)
  PROVE  LET os == written_map(m) \o rest
         IN  read_map(os, old) = m /\ behind_map(os) = rest
<1> DEFINE w == written_map(m)
           n == Cardinality(DOMAIN m)
           keys == SetToSeq(DOMAIN m)
           os == w \o rest
<1>1. /\ n \in Nat /\ w \in Seq(Nat) /\ Len(w) = 2 * n + 1 /\ w[1] = n
      /\ \A i \in 1 .. n : w[2 * i] = keys[i] /\ w[2 * i + 1] = m[keys[i]]
  BY Layout
<1>2. /\ keys \in [1 .. n -> DOMAIN m]
      /\ \A i, j \in 1 .. n : keys[i] = keys[j] => i = j
      /\ \A k \in DOMAIN m : \E i \in 1 .. n : keys[i] = k
  BY KeysOnce DEF IsMap
<1> HIDE DEF w, n, keys
<1>3. /\ os \in Seq(Nat) /\ Len(os) = 2 * n + 1 + Len(rest) /\ Len(rest) \in Nat
      /\ \A i \in 1 .. 2 * n + 1 + Len(rest) :
           os[i] = IF i <= 2 * n + 1 THEN w[i] ELSE rest[i - (2 * n + 1)]
  <2>1. /\ os \in Seq(Nat) /\ Len(os) = Len(w) + Len(rest)
        /\ \A i \in 1 .. Len(w) + Len(rest) :
             os[i] = IF i <= Len(w) THEN w[i] ELSE rest[i - Len(w)]
    BY <1>1, ConcatProperties
  <2>2. Len(rest) \in Nat
    BY LenProperties
  <2> HIDE DEF os
  <2> QED BY <1>1, <2>1, <2>2
<1> HIDE DEF os
<1>4. os[1] = n /\ \A i \in 1 .. n : os[2 * i] = keys[i] /\ os[2 * i + 1] = m[keys[i]]
  <2>1. os[1] = n
    BY <1>1, <1>3
  <2>2. ASSUME NEW i \in 1 .. n
        PROVE  os[2 * i] = keys[i] /\ os[2 * i + 1] = m[keys[i]]
    <3>1. /\ 2 * i \in 1 .. 2 * n + 1 + Len(rest) /\ 2 * i <= 2 * n + 1
          /\ 2 * i + 1 \in 1 .. 2 * n + 1 + Len(rest) /\ 2 * i + 1 <= 2 * n + 1
      <4>1. n \in Nat /\ Len(rest) \in Nat
        BY <1>1, <1>3
      <4> QED BY <4>1
    <3> QED BY <1>1, <1>3, <3>1
  <2> QED BY <2>1, <2>2
<1>5. read_map(os, old) = m
  <2> DEFINE pairs(k) == {i \in 1 .. os[1] : os[2 * i] = k}
             last(k) == CHOOSE i \in pairs(k) : \A j \in pairs(k) : j <= i
             read == [k \in {os[2 * i] : i \in 1 .. os[1]} |-> os[2 * last(k) + 1]]
  <2>1. {os[2 * i] : i \in 1 .. os[1]} = DOMAIN m
    <3>1. {os[2 * i] : i \in 1 .. os[1]} = {keys[i] : i \in 1 .. n}
      <4>1. os[1] = n /\ \A i \in 1 .. n : os[2 * i] = keys[i]
        BY <1>4
      <4>2. {os[2 * i] : i \in 1 .. n} = {keys[i] : i \in 1 .. n}
        BY <4>1, Zenon
      <4> QED BY <4>1, <4>2, Zenon
    <3>2. \A i \in 1 .. n : keys[i] \in DOMAIN m
      BY <1>2
    <3>3. \A k \in DOMAIN m : \E i \in 1 .. n : keys[i] = k
      BY <1>2
    <3>4. {keys[i] : i \in 1 .. n} = DOMAIN m
      BY <3>2, <3>3, Zenon
    <3> QED BY <3>1, <3>4
  <2>2. ASSUME NEW k \in DOMAIN m PROVE os[2 * last(k) + 1] = m[k]
    <3>1. PICK i \in 1 .. n : keys[i] = k
      BY <1>2
    <3>2. pairs(k) = {i}
      BY <1>2, <1>4, <3>1
    <3> HIDE DEF pairs
    <3>3. i \in pairs(k) /\ \A j \in pairs(k) : j <= i
      BY <3>2, <1>1
    <3>4. last(k) = i
      BY <3>2, <3>3
    <3> QED BY <1>4, <3>1, <3>4
  <2>3. read = [k \in DOMAIN m |-> m[k]]
    <3> HIDE DEF last
    <3> QED BY <2>1, <2>2
  <2>4. m = [k \in DOMAIN m |-> m[k]]
    BY DEF IsMap
  <2>5. with(read, <<>>) = read
    <3>1. DOMAIN read = DOMAIN m /\ read = [k \in DOMAIN m |-> read[k]]
      BY <2>3
    <3>2. DOMAIN <<>> = {}
      OBVIOUS
    <3> HIDE DEF read
    <3>3. with(read, <<>>) = [k \in DOMAIN m |-> read[k]]
      BY <3>1, <3>2 DEF with
    <3> QED BY <3>1, <3>3
  <2>6. read_map(os, old) = with(read, <<>>)
    BY DEF read_map, read_pairs
  <2> HIDE DEF read
  <2> QED BY <2>3, <2>4, <2>5, <2>6
<1>6. behind_map(os) = rest
  <2> DEFINE tail == SubSeq(os, 2 * n + 2, Len(os))
  <2>1. ASSUME NEW i \in 2 * n + 2 .. Len(os) PROVE os[i] \in Nat
    <3>1. i \in 1 .. Len(os)
      BY <1>1, <1>3
    <3> QED BY <1>3, <3>1, ElementOfSeq
  <2>2. 2 * n + 2 \in Int /\ Len(os) \in Int
    BY <1>1, <1>3
  <2>3. /\ tail \in Seq(Nat)
        /\ Len(tail) = IF 2 * n + 2 <= Len(os) THEN Len(os) - (2 * n + 2) + 1 ELSE 0
        /\ \A i \in 1 .. Len(os) - (2 * n + 2) + 1 : tail[i] = os[(2 * n + 2) + i - 1]
    BY <2>1, <2>2, SubSeqProperties
  <2> HIDE DEF tail
  <2>4. Len(tail) = Len(rest)
    BY <1>1, <1>3, <2>3
  <2>5. ASSUME NEW i \in 1 .. Len(rest) PROVE tail[i] = rest[i]
    <3> DEFINE at == 2 * n + 1 + i
    <3>1. /\ i \in 1 .. Len(os) - (2 * n + 2) + 1 /\ (2 * n + 2) + i - 1 = at
          /\ at \in 1 .. 2 * n + 1 + Len(rest)
          /\ ~(at <= 2 * n + 1) /\ at - (2 * n + 1) = i
      BY <1>1, <1>3
    <3> HIDE DEF at
    <3>2. tail[i] = os[at]
      BY <2>3, <3>1
    <3>3. os[at] = rest[i]
      BY <1>3, <3>1
    <3> QED BY <3>2, <3>3
  <2>6. tail = rest
    BY <2>3, <2>4, <2>5, SeqEqual
  <2> QED BY <1>4, <2>6 DEF behind_map, tail
<1> QED
  BY <1>5, <1>6 DEF os, w

(* The same of the whole stream: words, addr_max and symbols.              *)
LEMMA MemoryReadBack ==
  ASSUME NEW m, IsMemory(m), NEW old
  PROVE  read_memory(written_memory(m), old) = m
<1> DEFINE words == written_map(m.words)
           symbols == written_map(m.symbols)
           rest == <<0>> \o symbols
           os == written_memory(m)
<1>1. words \in Seq(Nat) /\ symbols \in Seq(Nat)
  BY Layout DEF IsMemory
<1>2. symbols = symbols \o <<>> /\ <<>> \in Seq(Nat)
  BY <1>1, ConcatEmptySeq, EmptySeq
<1> HIDE DEF words, symbols
<1>3. rest \in Seq(Nat) /\ rest # <<>> /\ Tail(rest) = symbols
  <2>1. <<0>> \in Seq(Nat) /\ Len(<<0>>) = 1
    OBVIOUS
  <2>2. /\ rest \in Seq(Nat) /\ Len(rest) = 1 + Len(symbols) /\ Len(symbols) \in Nat
        /\ \A i \in 1 .. 1 + Len(symbols) :
             rest[i] = IF i <= 1 THEN <<0>>[i] ELSE symbols[i - 1]
    BY <1>1, <2>1, ConcatProperties, LenProperties
  <2> HIDE DEF rest
  <2>3. rest # <<>>
    BY <2>2, EmptySeq
  <2>4. /\ Tail(rest) \in Seq(Nat) /\ Len(Tail(rest)) = Len(symbols)
        /\ \A i \in 1 .. Len(symbols) : Tail(rest)[i] = rest[i + 1]
    BY <2>2, <2>3, HeadTailProperties
  <2>5. \A i \in 1 .. Len(symbols) : Tail(rest)[i] = symbols[i]
    BY <2>2, <2>4
  <2> QED BY <1>1, <2>2, <2>3, <2>4, <2>5, SeqEqual
<1>4. os = words \o rest
  <2>1. <<0>> \in Seq(Nat)
    OBVIOUS
  <2>2. (words \o <<0>>) \o symbols = words \o (<<0>> \o symbols)
    BY <1>1, <2>1, ConcatAssociative
  <2> QED BY <2>2 DEF written_memory, words, symbols
<1>5. read_map(os, old.words) = m.words /\ behind_map(os) = rest
  BY <1>3, <1>4, MapReadBack DEF IsMemory, words
<1>6. read_map(symbols, old.symbols) = m.symbols
  BY <1>2, MapReadBack DEF IsMemory, symbols
<1> QED
  BY <1>3, <1>5, <1>6 DEF read_memory, IsMemory

(* A stream is a sequence of numbers.                                     *)
LEMMA WrittenIsNumbers ==
  ASSUME NEW m, IsMemory(m)
  PROVE  written_memory(m) \in Seq(Nat)
<1>1. written_map(m.words) \in Seq(Nat) /\ written_map(m.symbols) \in Seq(Nat)
  BY Layout DEF IsMemory
<1>2. <<0>> \in Seq(Nat)
  OBVIOUS
<1>3. written_map(m.words) \o <<0>> \in Seq(Nat)
  BY <1>1, <1>2, ConcatProperties
<1> QED
  BY <1>1, <1>3, ConcatProperties DEF written_memory

-----------------------------------------------------------------------------
(* A file that is intact holds the memory of the moment it was written.    *)
StreamsInv ==
  /\ IsMemory(memoryContents)
  /\ stream \in [Files -> Seq(Nat)] /\ DOMAIN at_save = Files
  /\ \A f \in Files : disk[f] \in Images =>
       IsMemory(at_save[f]) /\ stream[f] = written_memory(at_save[f])

(* A store adds its words to those of the memory.                          *)
LEMMA StoreKeepsMap ==
  ASSUME NEW a, NEW b, IsMap(a), IsMap(b)
  PROVE  IsMap(with(a, b))
<1> DEFINE both == with(a, b)
<1>1. both = [k \in DOMAIN a \cup DOMAIN b |-> IF k \in DOMAIN a THEN a[k] ELSE b[k]]
  BY DEF with
<1>2. IsFiniteSet(DOMAIN a \cup DOMAIN b)
  BY FS_Union DEF IsMap
<1>3. DOMAIN both = DOMAIN a \cup DOMAIN b
  BY <1>1
<1>4. \A k \in DOMAIN both : both[k] \in Nat
  BY <1>1 DEF IsMap
<1>5. both \in [DOMAIN both -> Nat]
  BY <1>1, <1>3, <1>4
<1> QED
  BY <1>2, <1>3, <1>5 DEF IsMap

LEMMA InitStreams == Init => StreamsInv
<1> SUFFICES ASSUME Init PROVE StreamsInv
  OBVIOUS
<1>1. IsMap(<<>>)
  <2>1. DOMAIN <<>> = {} /\ <<>> \in [{} -> Nat]
    OBVIOUS
  <2> QED BY <2>1, FS_EmptySet DEF IsMap
<1>2. IsMemory(memoryContents)
  BY <1>1 DEF Init, IsMemory
<1>3. \A f \in Files : disk[f] \notin Images
  BY CheckpointAssumption DEF Init
<1>4. stream \in [Files -> Seq(Nat)] /\ DOMAIN at_save = Files
  BY DEF Init
<1> QED
  BY <1>2, <1>3, <1>4 DEF StreamsInv

LEMMA NextStreams == IInv /\ StreamsInv /\ [Next]_vars => StreamsInv'
<1> SUFFICES ASSUME IInv, StreamsInv, [Next]_vars PROVE StreamsInv'
  OBVIOUS
<1> USE DEF StreamsInv
<1>1. ASSUME NEW program \in Programs, Start(program) PROVE StreamsInv'
  BY <1>1, CheckpointAssumption DEF Start
<1>2. ASSUME NEW f \in Files, NEW program \in Programs, Restore(f, program)
      PROVE  StreamsInv'
  <2>1. memoryContents' = at_save[f] /\ IsMemory(at_save[f])
    BY <1>2, MemoryReadBack DEF Restore
  <2> QED BY <1>2, <2>1 DEF Restore
<1>3. ASSUME NEW written \in {<<>>} \cup Stores, ClockEdge(written) PROVE StreamsInv'
  <2>1. IsMap(written)
    <3>1. IsMap(<<>>)
      <4>1. DOMAIN <<>> = {} /\ <<>> \in [{} -> Nat]
        OBVIOUS
      <4> QED BY <4>1, FS_EmptySet DEF IsMap
    <3> QED BY <3>1, CheckpointAssumption
  <2>2. IsMap(words_next(written))
    BY <2>1, StoreKeepsMap DEF words_next, IsMemory
  <2>3. /\ memoryContents' = [words |-> words_next(written), symbols |-> memoryContents.symbols]
    BY <1>3 DEF ClockEdge, IsMemory
  <2>4. IsMemory(memoryContents')
    BY <2>2, <2>3 DEF IsMemory
  <2> QED BY <1>3, <2>4 DEF ClockEdge
<1>4. CASE SaveOpens
  <2>1. disk' = [disk EXCEPT ![file] = Torn] /\ Torn \notin Images
    BY <1>4, CheckpointAssumption DEF SaveOpens
  <2>2. \A f \in Files : disk'[f] \in Images => disk[f] \in Images
    BY <2>1 DEF IInv, TypeInv
  <2> QED BY <1>4, <2>2 DEF SaveOpens, memory_vars
<1>5. CASE SaveCloses
  <2>1. /\ file \in Files /\ memoryContents' = memoryContents
        /\ stream' = [stream EXCEPT ![file] = written_memory(memoryContents)]
        /\ at_save' = [at_save EXCEPT ![file] = memoryContents]
        /\ \A f \in Files \ {file} : disk'[f] = disk[f]
    BY <1>5 DEF SaveCloses, file, Files, IInv, TypeInv
  <2>2. written_memory(memoryContents) \in Seq(Nat)
    BY WrittenIsNumbers
  <2> QED BY <2>1, <2>2
<1>6. CASE Stop
  BY <1>6 DEF Stop, memory_vars
<1>7. CASE UNCHANGED vars
  BY <1>7 DEF vars, memory_vars
<1> QED
  BY <1>1, <1>2, <1>3, <1>4, <1>5, <1>6, <1>7 DEF Next

(* A simulation that is restored goes on with the memory that was saved,   *)
(* whatever program was loaded before and whatever the memory holds        *)
(* (dpi_checkpoint.h, the operators << and >>).                            *)
THEOREM RestoredAsSavedAlways == Spec => RestoredAsSaved
<1>1. Init => IInv /\ StreamsInv
  BY InitIInv, InitStreams
<1>2. IInv /\ StreamsInv /\ [Next]_vars => IInv' /\ StreamsInv'
  BY NextIInv, NextStreams
<1>3. StreamsInv =>
        [\A f \in Files, program \in Programs :
           Restore(f, program) => memoryContents' = at_save[f]]_vars
  <2> SUFFICES ASSUME StreamsInv, NEW f \in Files, NEW program \in Programs,
                      Restore(f, program)
               PROVE  memoryContents' = at_save[f]
    OBVIOUS
  <2>1. disk[f] \in Images /\ memoryContents' = read_memory(stream[f], program)
    BY DEF Restore
  <2>2. IsMemory(at_save[f]) /\ stream[f] = written_memory(at_save[f])
    BY <2>1 DEF StreamsInv
  <2> QED BY <2>1, <2>2, MemoryReadBack
<1> QED
  BY <1>1, <1>2, <1>3, PTL DEF Spec, RestoredAsSaved
=============================================================================

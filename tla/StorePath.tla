----------------------------- MODULE StorePath -----------------------------
(***************************************************************************)
(* The way of data from a register of the core to the simulated memory:    *)
(* the alignment of data and byte enables in                               *)
(* rtl/interface_dcache/rtl/dcache_interface.sv and the memory functions   *)
(* of simulator/models/cxx/dpi_perfect_memory.cpp (PerfectMemory, and      *)
(* memory_amo here). The HPDcache between them is outside the repository:  *)
(* it hands the line, the byte enables and the address of each operation   *)
(* on, in order. The host of dpi_host.cpp reads the same memory.           *)
(*                                                                         *)
(* bytes is what software believes: an array of bytes, on which a store of *)
(* 2^size bytes replaces these bytes and nothing else.                     *)
(***************************************************************************)
EXTENDS PerfectMemory

CONSTANTS
  VlenBytes,  \* VLEN / 8, bytes of data_rs2
  MemSizes,   \* the values of mem_size of the core: 0..3, vectors 8
  Addrs,      \* addresses of stores
  Words,      \* addresses of atomic operations
  Registers,  \* contents of data_rs2: functions from 0..VlenBytes-1
  AtomicOps,  \* hpdcache_mem_atomic_e
  ByteAnd, ByteOr, ByteXor, \* bitwise operations on two bytes
  Buffers,    \* texts for the host: [addr, len]
  Segments,   \* segments of the ELF file: [paddr, filesz, memsz]
  Top,        \* the addresses of the program are below it, a number of lines
  MaxOps      \* operations of one behaviour

ASSUME StorePathAssumption ==
  /\ VlenBytes \in Nat /\ VlenBytes >= 8
  /\ \A size \in 0 .. 7 : 2^size <= VlenBytes => LineBytes % 2^size = 0
  /\ MemSizes \subseteq 0 .. 15
  /\ Registers \subseteq [0 .. VlenBytes - 1 -> Byte]
  /\ AtomicOps \subseteq {"ADD", "CLR", "SET", "EOR", "SMAX", "SMIN", "UMAX",
                          "UMIN", "SWAP", "LDEX", "STEX"}
  /\ {ByteAnd, ByteOr, ByteXor} \subseteq [Byte \X Byte -> Byte]
  /\ Top \in Nat /\ Top % LineBytes = 0
  /\ Addrs \cup Words \subseteq 0 .. Top - 1
  /\ \A b \in Buffers : b.addr \in Nat /\ b.len \in Nat /\ b.addr + b.len <= Top
  /\ \A s \in Segments : /\ s.paddr \in Nat /\ s.filesz \in Nat /\ s.memsz \in Nat
                         /\ s.filesz <= s.memsz /\ s.paddr + s.memsz <= Top

VARIABLES
  mem,       \* memoryContents
  running,   \* memory_init has returned
  result,    \* result_ptr of the last atomic operation: a line
  bytes,     \* the memory as software sees it
  old_line,  \* what software expects in result
  text,      \* what the host has written last
  expected_text,
  ops        \* operations so far

shown_vars == <<result, old_line, text, expected_text>>
store_vars == <<mem, running, bytes, ops, shown_vars>>

-----------------------------------------------------------------------------
(* Mutated forms of the definitions below, used to show that the           *)
(* properties can fail.                                                    *)

zero_extended(v) == v
text_of_first_word(m, addr, len) == [i \in 0 .. len - 1 |-> Read(m, addr)[i % 4]]
result_at_address(m, addr) == [j \in Lanes |-> ByteAt(m, addr + j)]

-----------------------------------------------------------------------------
(* dcache_interface.                                                       *)

(* {mem_size[3], mem_size[1:0]}                                            *)
req_size(mem_size) == (4 * (mem_size \div 8)) + (mem_size % 4)

(* The lanes that data of 2^size bytes for addr is shifted to: the bits of *)
(* addr below size are ignored.                                            *)
first_lane(size, addr) == ((addr % LineBytes) \div 2^size) * 2^size
data_lanes(size, addr) == first_lane(size, addr) .. first_lane(size, addr) + 2^size - 1

(* A size above VLEN gets the dummy 32'hbadcab1e, here ones, in all lanes. *)
aligned_data(size, addr, data_rs2) ==
  [j \in Lanes |->
     IF 2^size > VlenBytes THEN BASE - 1
     ELSE IF j \in data_lanes(size, addr) THEN data_rs2[j - first_lane(size, addr)]
     ELSE 0]

aligned_be(size, addr) == IF 2^size > VlenBytes THEN Lanes ELSE data_lanes(size, addr)

-----------------------------------------------------------------------------
(* memory_amo, on values of 64 bits: two words, each the function of its   *)
(* bytes.                                                                  *)
WORD == BASE * BASE * BASE * BASE
DOUBLE == WORD * WORD

word_value(b) == b[0] + (BASE * (b[1] + (BASE * (b[2] + (BASE * b[3])))))
word_bytes(v) ==
  LET v1 == v \div BASE
      v2 == v1 \div BASE
  IN  [i \in 0 .. 3 |-> CASE i = 0 -> v % BASE [] i = 1 -> v1 % BASE
                          [] i = 2 -> v2 % BASE [] i = 3 -> (v2 \div BASE) % BASE]

(* Four of the bytes of a line or of a value.                              *)
word_at(b, i) == [j \in 0 .. 3 |-> b[i + j]]

double_value(lo, hi) == word_value(lo) + (WORD * word_value(hi))
double_bytes(v) ==
  [i \in 0 .. 7 |-> IF i < 4 THEN word_bytes(v % WORD)[i] ELSE word_bytes(v \div WORD)[i - 4]]

(* (int32_t) extends the sign to 64 bits.                                  *)
sign_extended(v) == IF 2 * v >= WORD THEN (v + DOUBLE) - WORD ELSE v

as_signed(v) == IF 2 * v >= DOUBLE THEN v - DOUBLE ELSE v

operand(lo, hi, is_double) ==
  IF is_double THEN double_value(lo, hi) ELSE sign_extended(word_value(lo))

bitwise(Op, m, c) ==
  LET b == [i \in 0 .. 7 |-> Op[<<double_bytes(m)[i], double_bytes(c)[i]>>]]
  IN  double_value(b, word_at(b, 4))

amo_value(op, m, c) ==
  CASE op = "ADD"  -> (m + c) % DOUBLE
    [] op = "CLR"  -> bitwise(ByteAnd, m, (DOUBLE - 1) - c)
    [] op = "SET"  -> bitwise(ByteOr, m, c)
    [] op = "EOR"  -> bitwise(ByteXor, m, c)
    [] op = "SMAX" -> IF as_signed(m) > as_signed(c) THEN m ELSE c
    [] op = "SMIN" -> IF as_signed(m) < as_signed(c) THEN m ELSE c
    [] op = "UMAX" -> IF m > c THEN m ELSE c
    [] op = "UMIN" -> IF m < c THEN m ELSE c
    [] op \in {"SWAP", "STEX"} -> c
    [] op = "LDEX" -> m

(* The result is the whole line as it was before the operation.            *)
amo_result(m, addr) == memory_read(m, addr)

memory_amo(m, addr, is_double, op, data) ==
  LET offset   == addr % LineBytes
      mem_val  == operand(Read(m, addr), Read(m, addr + 4), is_double)
      core_val == operand(word_at(data, offset), word_at(data, offset + 4), is_double)
      value    == double_bytes(amo_value(op, mem_val, core_val))
      size     == IF is_double THEN 8 ELSE 4
  IN  WriteBytes(m, addr .. addr + size - 1, [a \in addr .. addr + 7 |-> value[a - addr]])

-----------------------------------------------------------------------------
(* buf of tohost(): memory_dpi_read_contents(addr + (i & ~0b11)) shifted    *)
(* right by i % 4 bytes.                                                   *)
host_text(m, addr, len) ==
  [i \in 0 .. len - 1 |-> Read(m, addr + (i - (i % 4)))[i % 4]]

-----------------------------------------------------------------------------
(* What software expects, on bytes and on values of the operand's width.   *)
Replaced(addr, size, data) ==
  [a \in DOMAIN bytes |->
     IF a \in addr .. addr + size - 1 THEN data[a - addr] ELSE bytes[a]]

Modulus(size) == IF size = 4 THEN WORD ELSE DOUBLE

Value(data, size) ==
  IF size = 4 THEN word_value(data) ELSE double_value(data, word_at(data, 4))

Less(x, y, size, signed) ==
  LET negative(v) == signed /\ 2 * v >= Modulus(size)
  IN  IF negative(x) # negative(y) THEN negative(x) ELSE x < y

Expected(op, size, m, c) ==
  LET mv == Value(m, size)
      cv == Value(c, size)
      chosen(if_memory) == [i \in 0 .. size - 1 |-> IF if_memory THEN m[i] ELSE c[i]]
      on_bytes(Op) == [i \in 0 .. size - 1 |-> Op[<<m[i], c[i]>>]]
  IN  CASE op = "ADD"  -> [i \in 0 .. size - 1 |-> double_bytes((mv + cv) % Modulus(size))[i]]
        [] op = "CLR"  -> [i \in 0 .. size - 1 |-> ByteAnd[<<m[i], (BASE - 1) - c[i]>>]]
        [] op = "SET"  -> on_bytes(ByteOr)
        [] op = "EOR"  -> on_bytes(ByteXor)
        [] op = "SMAX" -> chosen(Less(cv, mv, size, TRUE))
        [] op = "SMIN" -> chosen(Less(mv, cv, size, TRUE))
        [] op = "UMAX" -> chosen(Less(cv, mv, size, FALSE))
        [] op = "UMIN" -> chosen(Less(mv, cv, size, FALSE))
        [] op = "LDEX" -> chosen(TRUE)
        [] op \in {"SWAP", "STEX"} -> chosen(FALSE)

-----------------------------------------------------------------------------
(* The bytes of the file differ from those around the segment.             *)
File(s) == [a \in WordOf(s.paddr) .. s.paddr + s.memsz + 3 |-> 1 + (a % (BASE - 1))]

StoreInit ==
  /\ mem = [w \in {} |-> <<>>]
  /\ running = FALSE
  /\ bytes = [a \in 0 .. Top - 1 |-> 0]
  /\ result = [j \in Lanes |-> 0] /\ old_line = result
  /\ text = <<>> /\ expected_text = text
  /\ ops = 0

(* memory_init loads the segments of the ELF file in their order.          *)
LoadSegment(s) ==
  /\ ~running /\ ops < MaxOps
  /\ mem' = load_segment(mem, s, File(s))
  /\ bytes' = [a \in DOMAIN bytes |->
                 CASE a \in s.paddr .. (s.paddr + s.filesz) - 1 -> File(s)[a]
                   [] a \in s.paddr + s.filesz .. (s.paddr + s.memsz) - 1 -> 0
                   [] OTHER -> bytes[a]]
  /\ ops' = ops + 1
  /\ UNCHANGED <<running, shown_vars>>

Start == ~running /\ running' = TRUE /\ UNCHANGED <<mem, bytes, ops, shown_vars>>

(* A store to an address that is a multiple of its size, as the core traps *)
(* the others.                                                             *)
Store(mem_size, addr, data_rs2) ==
  LET size == req_size(mem_size)
  IN  /\ running /\ ops < MaxOps
      /\ 2^size <= VlenBytes /\ addr % 2^size = 0
      /\ mem' = memory_write(mem, addr, aligned_be(size, addr),
                             aligned_data(size, addr, data_rs2))
      /\ bytes' = Replaced(addr, 2^size, data_rs2)
      /\ ops' = ops + 1
      /\ UNCHANGED <<running, shown_vars>>

(* CBO_ZERO: a whole line of zeros, its address aligned.                   *)
CboZero(addr) ==
  /\ running /\ ops < MaxOps
  /\ mem' = memory_write(mem, LineOf(addr), Lanes, [j \in Lanes |-> 0])
  /\ bytes' = Replaced(LineOf(addr), LineBytes, [j \in Lanes |-> 0])
  /\ ops' = ops + 1
  /\ UNCHANGED <<running, shown_vars>>

(* An atomic operation on a word (size 2) or a double word (size 3).       *)
Atomic(op, size, addr, data_rs2) ==
  /\ running /\ ops < MaxOps
  /\ addr % 2^size = 0
  /\ mem' = memory_amo(mem, addr, size = 3, op, aligned_data(size, addr, data_rs2))
  /\ result' = amo_result(mem, addr)
  /\ old_line' = [j \in Lanes |-> bytes[LineOf(addr) + j]]
  /\ bytes' = LET m == [i \in 0 .. 2^size - 1 |-> bytes[addr + i]]
              IN  Replaced(addr, 2^size, Expected(op, 2^size, m, data_rs2))
  /\ ops' = ops + 1
  /\ UNCHANGED <<running, text, expected_text>>

(* The system call write: the host copies a text out of the memory, one    *)
(* word read per byte. The buffer is aligned to a word: the assertion of   *)
(* Memory32::read stops the simulation at any other.                       *)
HostWrite(addr, len) ==
  /\ running /\ ops < MaxOps
  /\ addr % 4 = 0
  /\ text' = host_text(mem, addr, len)
  /\ expected_text' = [i \in 0 .. len - 1 |-> bytes[addr + i]]
  /\ ops' = ops + 1
  /\ UNCHANGED <<mem, running, bytes, result, old_line>>

StoreNext ==
  \/ \E s \in Segments : LoadSegment(s)
  \/ Start
  \/ \E mem_size \in MemSizes, addr \in Addrs, data_rs2 \in Registers :
       Store(mem_size, addr, data_rs2)
  \/ \E addr \in Addrs : CboZero(addr)
  \/ \E op \in AtomicOps, size \in {2, 3}, addr \in Words, data_rs2 \in Registers :
       Atomic(op, size, addr, data_rs2)
  \/ \E b \in Buffers : HostWrite(b.addr, b.len)

StoreSpec == StoreInit /\ [][StoreNext]_store_vars
-----------------------------------------------------------------------------
(* Loads see what software stored: after any sequence of segments, stores  *)
(* of every size and lane, line clears and atomic operations, each line of *)
(* the memory holds the bytes it should, and no neighbour was disturbed.   *)
MemoryHoldsBytes ==
  \A a \in {l \in DOMAIN bytes : l % LineBytes = 0} :
    memory_read(mem, a) = [j \in Lanes |-> bytes[a + j]]

(* An atomic operation returns the line as it was before it, in place.     *)
AtomicReturnsOldLine == result = old_line

(* The host prints the bytes that software put into the buffer, also where *)
(* no byte of the word was ever written, and across words and lines.       *)
HostWritesString == text = expected_text
=============================================================================

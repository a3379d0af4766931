--------------------------- MODULE PerfectMemory ---------------------------
(***************************************************************************)
(* simulator/models/cxx/dpi_perfect_memory.cpp without its atomic          *)
(* operations: the memory of the simulation, a sparse map (mem) from the   *)
(* addresses of 32-bit words to their contents, which is read and written  *)
(* in lines with a byte enable, and filled with the blocks of an ELF file. *)
(*                                                                         *)
(* A word is a function from its lanes 0..3 to bytes. What several calls   *)
(* of Memory32::write do to different words is one operator, WriteBytes.   *)
(***************************************************************************)
EXTENDS Integers

CONSTANTS
  BASE,       \* 2^8, the values of a byte
  LineBytes   \* BUS_WIDTH / 8 = 64

ASSUME MemoryAssumption ==
  /\ BASE \in Nat \ {0, 1}
  /\ LineBytes \in Nat \ {0} /\ LineBytes % 4 = 0

Byte == 0 .. BASE - 1
Lanes == 0 .. LineBytes - 1

WordOf(a) == a - (a % 4)
LineOf(a) == a - (a % LineBytes)

-----------------------------------------------------------------------------
(* Memory32::read: a word that was never written reads as zero.            *)
Read(mem, w) == IF w \in DOMAIN mem THEN mem[w] ELSE [i \in 0 .. 3 |-> 0]

ByteAt(mem, a) == Read(mem, WordOf(a))[a % 4]

(* Memory32::write for each word with a byte in enabled: the mask selects  *)
(* the bytes that data, a function from addresses, replaces.               *)
WriteBytes(mem, enabled, data) ==
  [w \in DOMAIN mem \cup {WordOf(a) : a \in enabled} |->
     [i \in 0 .. 3 |-> IF w + i \in enabled THEN data[w + i] ELSE Read(mem, w)[i]]]

memory_read(mem, addr) == [j \in Lanes |-> ByteAt(mem, LineOf(addr) + j)]

(* The line is at the masked address, whatever the low bits of addr.       *)
memory_write(mem, addr, be, data) ==
  LET base == LineOf(addr)
  IN  WriteBytes(mem, {base + j : j \in be},
                 [a \in base .. base + LineBytes - 1 |-> data[a - base]])

(* The bytes that write_block writes. The prologue writes the word of an   *)
(* unaligned address with the mask                                         *)
(*     (0b1111 >> (m_size > size ? m_size - size : 0)) << offset,          *)
(* the loop and the epilogue write what is left from the next word on.     *)
prologue_bytes(addr, size) ==
  LET offset == addr % 4
      m_size == 4 - offset
      ones   == IF m_size > size THEN 4 - (m_size - size) ELSE 4
  IN  IF offset = 0 THEN {}
      ELSE {WordOf(addr) + i : i \in (offset .. offset + ones - 1) \cap (0 .. 3)}

block_bytes(addr, size) ==
  LET next == IF addr % 4 = 0 THEN addr ELSE WordOf(addr) + 4
  IN  prologue_bytes(addr, size) \cup (next .. addr + size - 1)

(* buf is a function from the addresses the bytes are meant for, and goes  *)
(* on after the block.                                                     *)
write_block(mem, addr, size, buf) == WriteBytes(mem, block_bytes(addr, size), buf)

(* elfLoader: the part of a segment that is in the file, then zeros. What  *)
(* follows the zeros in the heap may be anything; here it is ones.         *)
load_segment(mem, s, file) ==
  LET loaded == IF s.filesz > 0 THEN write_block(mem, s.paddr, s.filesz, file) ELSE mem
      start  == s.paddr + s.filesz
      rest   == s.memsz - s.filesz
      zeros  == [a \in WordOf(start) .. start + rest + 3 |->
                   IF a < start + rest THEN 0 ELSE BASE - 1]
  IN  IF rest > 0 THEN write_block(loaded, start, rest, zeros) ELSE loaded
=============================================================================

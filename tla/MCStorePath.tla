---------------------------- MODULE MCStorePath ----------------------------
(***************************************************************************)
(* StorePath on two lines of 32 bytes, with vectors of 16 bytes and bytes  *)
(* of two bits, so that a double word has 16 bits. Stores of all five      *)
(* sizes go to the lanes around the boundaries of words, double words,     *)
(* vectors and lines, and the texts for the host cross them; registers     *)
(* hold all lanes distinct from their neighbours, the largest negative and *)
(* the smallest positive numbers.                                          *)
(*                                                                         *)
(* Segments begin and end at every offset of a word; those of MCSegments   *)
(* reach the end of the word they begin in, with each of their parts, or   *)
(* begin at a word, and MCShortSegments is the other kind.                 *)
(***************************************************************************)
EXTENDS StorePath, Bitwise

MCMemSizes == {0, 1, 2, 3, 8}
MCAddrs == {0, 1, 2, 4, 7, 8, 16, 28, 31, 32}
MCWords == {0, 4, 24, 28, 40}
MCRegisters ==
  {[i \in 0 .. 15 |-> 1 + (i % 3)],
   [i \in 0 .. 15 |-> IF i \in {3, 7} THEN 2 ELSE 0]}
MCAnd == [p \in Byte \X Byte |-> p[1] & p[2]]
MCOr == [p \in Byte \X Byte |-> p[1] | p[2]]
MCXor == [p \in Byte \X Byte |-> p[1] ^^ p[2]]
MCAtomicOps == {"ADD", "CLR", "SET", "EOR", "SMAX", "SMIN", "UMAX", "UMIN",
                "SWAP", "LDEX", "STEX"}
MCBuffers == {[addr |-> 0, len |-> 11], [addr |-> 28, len |-> 6]}
MCSegments ==
  {[paddr |-> 0, filesz |-> 36, memsz |-> 43], [paddr |-> 3, filesz |-> 6, memsz |-> 12],
   [paddr |-> 26, filesz |-> 9, memsz |-> 9], [paddr |-> 5, filesz |-> 0, memsz |-> 30]}
MCShortSegments ==
  {[paddr |-> p, filesz |-> f, memsz |-> f] : p \in {8, 13, 17, 18}, f \in 1 .. 3}
=============================================================================

---------------------------- MODULE SymbolTable ----------------------------
(***************************************************************************)
(* The symbols of the program: the end of elfLoader::operator() in         *)
(* simulator/models/cxx/loadelf.cpp, which reads them from the ELF file,   *)
(* and the two maps of dpi_perfect_memory.cpp. Names are numbers in the    *)
(* order of strings; the empty name is the first.                          *)
(***************************************************************************)
EXTENDS Integers, Sequences, FiniteSetsExt

CONSTANT symtab   \* the entries of .symtab, in order: [name, value]

NoName == 0

ASSUME SymbolTableAssumption ==
  symtab \in Seq([name : Nat, value : Nat])

(* The last of several entries with a name is the one that counts.         *)
symbols ==
  [n \in {symtab[i].name : i \in DOMAIN symtab} |->
     symtab[Max({i \in DOMAIN symtab : symtab[i].name = n})].value]

(* memory_init: of the names of an address the last one is kept.           *)
reverseSymbols ==
  [a \in {symbols[n] : n \in DOMAIN symbols} |->
     Max({n \in DOMAIN symbols : symbols[n] = a})]

memory_symbol_from_addr(addr) ==
  IF addr \in DOMAIN reverseSymbols THEN reverseSymbols[addr] ELSE NoName
=============================================================================

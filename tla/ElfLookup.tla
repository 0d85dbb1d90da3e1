------------------------------- MODULE ElfLookup -------------------------------
(***************************************************************************)
(* elf_sym.cpp: a symbol's address, found by walking the objects that      *)
(* dl_iterate_phdr lists and the dynamic section of one of them.           *)
(*                                                                         *)
(* An object has a path (a sequence of names, empty for the executable),   *)
(* a load base, the three dynamic tables as far as it has them, each with  *)
(* its address relative to the base, and a symbol table.  `dynamic`: does  *)
(* it have a dynamic section; `absolute`: did the linker write absolute    *)
(* addresses into it?  Whatever is read at a wrong address is not a table. *)
(***************************************************************************)
EXTENDS Naturals, Sequences, FiniteSetsExt

CONSTANT None   \* nullptr

DynamicTables == {"strtab", "symtab", "hash"}

(* Mutant: an absolute address is shifted as well. *)
AlwaysShift(value, base) == base + value

fix_addr(value, base) == IF value < base THEN base + value ELSE value

(* What stands in the dynamic section for a table that begins at `vaddr`. *)
Written(object, vaddr) == IF object.absolute THEN object.base + vaddr ELSE vaddr

TableFound(object, table) ==
    /\ object.dynamic
    /\ table \in DOMAIN object.tables
    /\ LET vaddr == object.tables[table]
       IN  fix_addr(Written(object, vaddr), object.base) = object.base + vaddr

(* Mutant: an import of the library counts as its own symbol. *)
NamedEntry(symbol, name) ==
    symbol.name = name /\ name # "" /\ symbol.value # 0

Matches(symbol, name) ==
    /\ symbol.name # "" /\ symbol.value # 0
    /\ symbol.defined
    /\ symbol.name = name

(* The first match of a scan over all entries of .dynsym, whose number is
   read from the SysV hash table. *)
lookup(object, name) ==
    LET hits == {k \in DOMAIN object.symbols : Matches(object.symbols[k], name)}
    IN  IF (\E table \in DynamicTables : ~TableFound(object, table)) \/ hits = {}
        THEN None
        ELSE object.base + object.symbols[Min(hits)].value

name_matches(path, soname) == path # <<>> /\ path[Len(path)] = soname

(* dl_iterate_phdr stops at the first object whose file name matches. *)
find(objects, soname) ==
    LET hits == {k \in DOMAIN objects : name_matches(objects[k].path, soname)}
    IN  IF hits = {} THEN None ELSE objects[Min(hits)]

find_symbol(objects, soname, name) ==
    IF find(objects, soname) = None THEN None
    ELSE lookup(find(objects, soname), name)

-----------------------------------------------------------------------------
(* What the answers should be, without tables and scans.                   *)

(* The addresses at which an object defines a symbol of its own. *)
Definitions(object, name) ==
    {object.base + s.value :
        s \in {t \in {object.symbols[k] : k \in DOMAIN object.symbols} :
                  t.name = name /\ t.defined /\ t.value # 0}}

(* An object that can be searched: it has a dynamic section and, next to the
   names and symbols, the SysV hash table that newer linkers leave out. *)
Searchable(object) == object.dynamic /\ DynamicTables = DOMAIN object.tables
=============================================================================

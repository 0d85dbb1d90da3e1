------------------------------ MODULE MCPhaseZero ------------------------------
(* Model checking of PhaseZero: two entries, one other object, and images
   in which one symbol, one table or the kind of addresses differs. *)
EXTENDS PhaseZero

Path(file) == <<"data", "app", "lib", file>>
Anywhere == [strtab |-> 1, symtab |-> 2, hash |-> 3]

Symbols == [name : {domain_get, thread_detach, ""}, value : {0, 1}, defined : BOOLEAN]
Good(name) == [name |-> name, value |-> 1, defined |-> TRUE]
Exported == <<Good(domain_get), Good(thread_attach), Good(thread_detach)>>
SymbolTables ==
    {Exported}
    \cup {[Exported EXCEPT ![k] = s] : k \in 1..3, s \in Symbols}
    \cup {<<s>> \o Exported : s \in Symbols}

Image(symbols, tables, absolute, dynamic) ==
    [path |-> Path(kSo), base |-> 8, dynamic |-> dynamic, tables |-> tables,
     absolute |-> absolute, symbols |-> symbols]

Subtables == {[t \in T |-> Anywhere[t]] : T \in SUBSET DynamicTables}

MCImages ==
    {Image(s, Anywhere, FALSE, TRUE) : s \in SymbolTables}
    \cup {Image(Exported, t, a, d) : t \in Subtables, a \in BOOLEAN, d \in BOOLEAN}

(* The executable has no name; another library exports the same symbols. *)
MCPreloaded ==
    <<[Image(Exported, Anywhere, FALSE, TRUE) EXCEPT !.path = <<>>],
      [Image(Exported, Anywhere, FALSE, TRUE) EXCEPT !.path = Path("libunity.so")]>>

MCEntryOrder == <<"ConnectionControl.ConnectToPhoton", "GameConnect.ConnectToPhotonSquad">>
=============================================================================

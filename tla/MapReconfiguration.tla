-------------------------- MODULE MapReconfiguration --------------------------
(***************************************************************************)
(* The state an element keeps for its programs while programs are          *)
(* exchanged: configure() reads the object file into a buffer, the loader  *)
(* relocates the program's symbols one after the other, may still refuse   *)
(* the program, and frees the buffer; in between packets run the program,  *)
(* which looks up, updates and deletes entries of its maps.                *)
(***************************************************************************)
EXTENDS BpfHelpers, Sequences

CONSTANTS
  Programs,     \* programs that may be loaded
  Symbols,      \* Symbols[p]: the symbols p refers to, in relocation order:
                \* [name, def] of a map, or RODATA
  RODATA,       \* the section symbol of the read-only data, of size 0
  Offset,       \* Offset[p]: where that section lies in the object file
  Names,        \* map names
  Keys, Values, \* keys and values programs use
  Buffers       \* addresses malloc() may return for the file buffer

IsMap(s) == s # RODATA
SymbolsOf(p) == {Symbols[p][i] : i \in DOMAIN Symbols[p]}

ASSUME MapAssumption ==
  /\ \A p \in Programs : Symbols[p] \in Seq(SymbolsOf(p))
  /\ \A p \in Programs : \A s, t \in SymbolsOf(p) : IsMap(s) =>
       s.name \in Names /\ (IsMap(t) /\ t.name = s.name => t = s)
  /\ NULL \notin Programs /\ NULL \notin Names

VARIABLES
  map_by_name, global_data,   \* struct bpf_map_ctx
  loading,     \* program being relocated, or NULL
  pos,         \* next symbol to relocate
  buffer,      \* address of its file buffer
  prog,        \* program in force, or NULL
  addr         \* addr[n]: what relocation put into the program for map n

vars == <<map_by_name, global_data, loading, pos, buffer, prog, addr>>

DefOf(p, n) ==
  (CHOOSE s \in SymbolsOf(p) : IsMap(s) /\ s.name = n).def

Init ==
  /\ map_by_name = << >> /\ global_data = << >>
  /\ loading = NULL /\ pos = 1 /\ buffer = NULL
  /\ prog = NULL /\ addr = [n \in Names |-> NULL]

(* configure() has the file in a buffer and unloads the old program.       *)
BeginLoad(p, a) ==
  /\ loading = NULL
  /\ loading' = p /\ pos' = 1 /\ buffer' = a
  /\ prog' = NULL /\ addr' = [n \in Names |-> NULL]
  /\ UNCHANGED <<map_by_name, global_data>>

(* do_map_relocation() for the next symbol.  When it returns 0 for a map   *)
(* the loader patches the 0 into the program and goes on.                  *)
Relocate(s) ==
  /\ IF IsMap(s)
       THEN /\ map_by_name' = map_after(map_by_name, s.name, s.def)
            /\ addr' = [addr EXCEPT ![s.name] = address_of(map_by_name, s.name, s.def)]
            /\ UNCHANGED global_data
       ELSE /\ global_data' = data_after(global_data, buffer + Offset[loading], loading)
            /\ UNCHANGED <<map_by_name, addr>>
  /\ pos' = pos + 1
  /\ UNCHANGED <<loading, buffer, prog>>

RelocateNext ==
  loading # NULL /\ pos <= Len(Symbols[loading]) /\ Relocate(Symbols[loading][pos])

(* All symbols are relocated and the program passes validate().            *)
FinishLoad ==
  /\ loading # NULL /\ pos > Len(Symbols[loading])
  /\ prog' = loading /\ loading' = NULL
  /\ UNCHANGED <<map_by_name, global_data, pos, buffer, addr>>

(* The loader or validate() refuses the program, after any number of       *)
(* symbols: what was relocated before stays in the context.                *)
FailLoad ==
  /\ loading # NULL
  /\ loading' = NULL
  /\ addr' = [n \in Names |-> NULL]
  /\ UNCHANGED <<map_by_name, global_data, pos, buffer, prog>>

(* A packet: the program updates or deletes an entry of one of its maps,   *)
(* through the helpers or, for an entry it has looked up, in place.        *)
Store(n, m) ==
  /\ prog # NULL /\ addr[n] # NULL
  /\ map_by_name' = [map_by_name EXCEPT ![addr[n]] = m]
  /\ UNCHANGED <<global_data, loading, pos, buffer, prog, addr>>

(* Array indexes are those of the declaration, as in the programs of       *)
(* ebpf/src, which only use index 0.                                       *)
KeysOf(n) == IF DefOf(prog, n).type = "ARRAY" THEN 0 .. DefOf(prog, n).max_entries - 1
             ELSE Keys

Next ==
  \/ \E p \in Programs, a \in Buffers : BeginLoad(p, a)
  \/ RelocateNext \/ FinishLoad \/ FailLoad
  \/ \E n \in Names : prog # NULL /\ addr[n] # NULL /\ \E k \in KeysOf(n) :
       \/ \E v \in Values : Store(n, bpf_map_update_elem(map_by_name[addr[n]], k, v))
       \/ Store(n, bpf_map_delete_elem(map_by_name[addr[n]], k))

Spec == Init /\ [][Next]_vars

-----------------------------------------------------------------------------
(* State retention: exchanging programs, with or without success, neither  *)
(* drops nor clears a map; only the program's own stores change one.       *)
StateRetained ==
  [][prog = NULL \/ prog' # prog =>
       \A n \in DOMAIN map_by_name :
         n \in DOMAIN map_by_name' /\ map_by_name'[n] = map_by_name[n]]_vars

(* A map the program in force reaches has the definition the program was   *)
(* compiled for, although an earlier program may have created it: the keys *)
(* and values the helpers copy have the sizes the program allots.          *)
MapsAsDeclared ==
  prog # NULL => \A n \in Names : addr[n] # NULL =>
    /\ addr[n] \in DOMAIN map_by_name
    /\ SameDef(map_by_name[addr[n]].def, DefOf(prog, n))

(* "hack to support .rodata section" (bpf_helpers.cc): the data a program  *)
(* refers to is that of its own object file, not of a program loaded       *)
(* before it.  A section stands for the program it belongs to.             *)
OwnRodata ==
  prog # NULL /\ RODATA \in SymbolsOf(prog) =>
    /\ buffer + Offset[prog] \in DOMAIN global_data
    /\ global_data[buffer + Offset[prog]] = prog
=============================================================================

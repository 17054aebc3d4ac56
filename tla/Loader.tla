------------------------------- MODULE Loader --------------------------------
(* ubpf_load_elf_ex() (vm/ubpf_loader.c): the functions of an object file  *)
(* are copied one after the other into one program, main first, and the    *)
(* calls and loads that relocations name are rewritten for the places      *)
(* where the functions landed.                                             *)
(*                                                                         *)
(* Offsets, sizes and indexes into code count instructions (8 bytes).      *)
(* Symbols, relocations and sections are numbered from 0 as in the file.   *)
EXTENDS Integers, Sequences, SequencesExt, FiniteSetsExt

CONSTANTS
  Objects,       \* object files: [header, sections]
  MainNames,     \* what a client passes as main_function_name, or NoName
  Registered,    \* ext_func_names: a function from indexes to names
  HasDataRelocation,   \* a data relocation function has been registered
  MAX_SECTIONS,
  BadName,       \* an st_name that lies outside the string table
  NoName

VARIABLES obj, main_function_name,
  stage,                  \* "idle", "header", "symbols", "relocate", "linked" or "refused"
  relocated_functions,    \* function from 0 .. n, where 0 is main
  total_functions, linked_program_size, linked_program,
  symbol, sec, rel        \* places in the symbol table and the relocation sections

layoutVars == <<relocated_functions, total_functions, linked_program_size>>
loaderVars == <<obj, main_function_name, stage, layoutVars, linked_program, symbol, sec, rel>>

section_count == Len(obj.sections)
section(k) == obj.sections[k + 1]
OfType(t) == {k \in 0 .. section_count - 1 : section(k).type = t}
Executable(s) == s.type = "PROGBITS" /\ s.flags = "AX"
symbols == section(Min(OfType("SYMTAB"))).data

(* What the loader takes for granted: an index one past the last section,  *)
(* which it lets through, does not occur, and functions lie in their       *)
(* section.                                                                *)
ASSUME LoaderAssumption ==
  HasDataRelocation \in BOOLEAN /\
  \A o \in Objects : \A k, l \in DOMAIN o.sections : \A i \in DOMAIN o.sections[k].data :
    o.sections[k].type = "SYMTAB" =>
      LET s == o.sections[k].data[i]
      IN  /\ s.shndx # Len(o.sections)
          /\ s.type = "FUNC" /\ l = s.shndx + 1 => s.value + s.size <= Len(o.sections[l].data)

LoaderInit ==
  /\ obj = NoName /\ main_function_name = NoName
  /\ stage = "idle"
  /\ relocated_functions = << >> /\ total_functions = 0 /\ linked_program_size = 0
  /\ linked_program = << >> /\ symbol = 0 /\ sec = 0 /\ rel = 0

(* ubpf_load_elf_ex() is called with a file and the name of main;          *)
(* ubpf_load_elf() gives no name.                                          *)
ubpf_load_elf_ex(o, name) ==
  /\ stage = "idle"
  /\ obj' = o /\ main_function_name' = name /\ stage' = "header"
  /\ UNCHANGED <<layoutVars, linked_program, symbol, sec, rel>>

(* `goto error': nothing of what was linked is handed to ubpf_load().      *)
refuse ==
  /\ stage' = "refused" /\ linked_program' = << >>
  /\ UNCHANGED <<obj, main_function_name, layoutVars, symbol, sec, rel>>

(* The ELF header, the section headers (obj.header says that they and the  *)
(* extents of the sections are sound) and the search for both tables.      *)
read_header ==
  /\ stage = "header"
  /\ IF obj.header /\ section_count <= MAX_SECTIONS /\ OfType("STRTAB") # {} /\ OfType("SYMTAB") # {}
       THEN /\ stage' = "symbols" /\ total_functions' = 1
            /\ UNCHANGED <<obj, main_function_name, relocated_functions, linked_program_size,
                           linked_program, symbol, sec, rel>>
       ELSE refuse

-----------------------------------------------------------------------------
(* One turn of the loop over the symbols.                                  *)
IsMain(sym) ==
  IF main_function_name # NoName
    THEN sym.name = main_function_name
    ELSE section(sym.shndx).name = ".text" /\ sym.value = 0

add_function(i, sym) ==
  /\ relocated_functions' =
       [j \in DOMAIN relocated_functions \cup {i} |->
          IF j = i THEN [name |-> sym.name, shdr |-> sym.shndx, native_section_start |-> sym.value,
                         size |-> sym.size, landed |-> NoName]
                   ELSE relocated_functions[j]]
  /\ total_functions' = IF i = 0 THEN total_functions ELSE total_functions + 1
  /\ linked_program_size' = linked_program_size + sym.size

scan_symbol ==
  /\ stage = "symbols" /\ symbol < Len(symbols)
  /\ LET sym == symbols[symbol + 1]
         bad == sym.name = BadName \/ sym.shndx > section_count \/ ~Executable(section(sym.shndx))
     IN  IF sym.type = "FUNC" /\ bad
           THEN refuse
           ELSE /\ IF sym.type = "FUNC"
                     THEN add_function(IF IsMain(sym) THEN 0 ELSE total_functions, sym)
                     ELSE UNCHANGED layoutVars
                /\ symbol' = symbol + 1
                /\ UNCHANGED <<obj, main_function_name, stage, linked_program, sec, rel>>

-----------------------------------------------------------------------------
Blank == [op |-> "ZERO", src |-> 0, imm |-> 0, ref |-> NoName]
native(f) ==
  SubSeq(section(f.shdr).data, f.native_section_start + 1, f.native_section_start + f.size)

(* The functions are copied in the order of the array.                     *)
landing_spot(i) == MapThenSumSet(LAMBDA j : relocated_functions[j].size, 0 .. i - 1)

(* The program has room for every function symbol, also for one that a     *)
(* later main replaced; what is left over is zero.                         *)
layout ==
  /\ stage = "symbols" /\ symbol = Len(symbols)
  /\ IF 0 \notin DOMAIN relocated_functions
       THEN refuse
       ELSE LET copied == FlattenSeq([i \in 1 .. total_functions |-> native(relocated_functions[i - 1])])
            IN  /\ relocated_functions' =
                     [i \in DOMAIN relocated_functions |->
                        [relocated_functions[i] EXCEPT !.landed = landing_spot(i)]]
                /\ linked_program' =
                     copied \o [k \in 1 .. linked_program_size - Len(copied) |-> Blank]
                /\ stage' = "relocate"
                /\ UNCHANGED <<obj, main_function_name, total_functions, linked_program_size, symbol, sec, rel>>

-----------------------------------------------------------------------------
(* The first function that a relocation lies in.  One at the very first    *)
(* instruction of a function does not lie in it.                           *)
source_functions(s, offset) ==
  {i \in 0 .. total_functions - 1 :
     /\ relocated_functions[i].shdr = s
     /\ offset > relocated_functions[i].native_section_start
     /\ offset < relocated_functions[i].native_section_start + relocated_functions[i].size}

target_functions(s, offset) ==
  {i \in 0 .. total_functions - 1 :
     relocated_functions[i].shdr = s /\ relocated_functions[i].native_section_start = offset}

(* R_BPF_64_64: what the data relocation function returns is told by the   *)
(* section, the symbol and the immediate it is called with.                *)
data_relocation(inst, sym) == <<sym.shndx, sym.name, sym.value, inst.imm>>
data_section_refused(map) == map.type # "PROGBITS" /\ map.flags \notin {"WA", "A", "AS"}
data_refused(inst, sym, offset, code) ==
  \/ offset + 1 > Len(code) \/ sym.shndx > section_count
  \/ data_section_refused(section(sym.shndx))
  \/ sym.size + sym.value > Len(section(sym.shndx).data)
  \/ inst.op # "LDDW" \/ offset + 2 > Len(code)
  \/ ~HasDataRelocation

(* R_BPF_64_32: a local call, found by section and offset, or a helper,    *)
(* found by name.                                                          *)
call_distance_bug(f, at) == f.landed - at
call_distance(f, at) == f.landed - (at + 1)
helper_indexes(name) == {i \in DOMAIN Registered : Registered[i] = name}

patch(at, inst) ==
  /\ linked_program' = [linked_program EXCEPT ![at + 1] = inst]
  /\ rel' = rel + 1
  /\ UNCHANGED <<obj, main_function_name, stage, layoutVars, symbol, sec>>

apply(r, sym, at, code) ==
  LET inst == linked_program[at + 1]
      targets == target_functions(sym.shndx, inst.imm + 1)
  IN  CASE r.type = "R_BPF_64_64" ->
             IF data_refused(inst, sym, r.offset, code)
               THEN refuse
               ELSE patch(at, [inst EXCEPT !.ref = data_relocation(inst, sym)])
        [] r.type = "R_BPF_64_32" /\ inst.src = 1 ->
             IF targets = {}
               THEN refuse
               ELSE patch(at, [inst EXCEPT !.imm = call_distance(relocated_functions[Min(targets)], at)])
        [] r.type = "R_BPF_64_32" /\ inst.src # 1 ->
             IF helper_indexes(sym.name) = {}
               THEN refuse
               ELSE patch(at, [inst EXCEPT !.imm = Min(helper_indexes(sym.name))])
        [] OTHER -> patch(at, inst)

Handled(k) == section(k).type = "REL" /\ Executable(section(section(k).info))

next_section ==
  /\ stage = "relocate" /\ sec < section_count
  /\ ~Handled(sec) \/ (section(sec).link < section_count /\ rel = Len(section(sec).data))
  /\ sec' = sec + 1 /\ rel' = 0
  /\ UNCHANGED <<obj, main_function_name, stage, layoutVars, linked_program, symbol>>

bad_symbol_table ==
  /\ stage = "relocate" /\ sec < section_count
  /\ Handled(sec) /\ section(sec).link >= section_count
  /\ refuse

relocate ==
  /\ stage = "relocate" /\ sec < section_count
  /\ Handled(sec) /\ section(sec).link < section_count /\ rel < Len(section(sec).data)
  /\ LET r == section(sec).data[rel + 1]
         relo_syms == section(section(sec).link).data
         sources == source_functions(section(sec).info, r.offset)
         f == relocated_functions[Min(sources)]
     IN  IF r.sym >= Len(relo_syms) \/ relo_syms[r.sym + 1].name = BadName \/ sources = {}
           THEN refuse
           ELSE apply(r, relo_syms[r.sym + 1], f.landed + r.offset - f.native_section_start,
                      section(section(sec).info).data)

(* The program goes to ubpf_load().                                        *)
finish_link ==
  /\ stage = "relocate" /\ sec = section_count
  /\ stage' = "linked"
  /\ UNCHANGED <<obj, main_function_name, layoutVars, linked_program, symbol, sec, rel>>

LoaderNext ==
  \/ \E o \in Objects, name \in MainNames : ubpf_load_elf_ex(o, name)
  \/ read_header \/ scan_symbol \/ layout
  \/ next_section \/ bad_symbol_table \/ relocate \/ finish_link

-----------------------------------------------------------------------------
(* What the object file means, without a layout.  An instruction is told   *)
(* by its section and offset.                                              *)
Copies == {relocated_functions[i] : i \in DOMAIN relocated_functions}
Covers(f, s, offset) ==
  f.shdr = s /\ f.native_section_start <= offset /\ offset < f.native_section_start + f.size
Places == UNION {{f.landed + k : k \in 0 .. f.size - 1} : f \in Copies}
OriginOf(place) ==
  LET f == CHOOSE g \in Copies : g.landed <= place /\ place < g.landed + g.size
  IN  <<f.shdr, f.native_section_start + place - f.landed>>
RelocationsAt(origin) ==
  UNION {{<<section(section(k).link).data[section(k).data[j].sym + 1], section(k).data[j].type>> :
            j \in {i \in DOMAIN section(k).data : section(k).data[i].offset = origin[2]}} :
         k \in {l \in OfType("REL") : section(l).info = origin[1]}}
NativeAt(origin) == section(origin[1]).data[origin[2] + 1]

(* An alias is a second symbol for code: the code is copied twice, and     *)
(* relocations reach the first copy only.                                  *)
Aliased(origin) == \E f, g \in Copies : f # g /\ Covers(f, origin[1], origin[2]) /\ Covers(g, origin[1], origin[2])

(* A call that stands at a place leads to an instruction of the file.  A   *)
(* relocated call means the symbol's value plus imm + 1; one without a     *)
(* relocation means imm + 1 from where it stands.                          *)
LeadsTo(place, s, offset) ==
  LET target == place + 1 + linked_program[place + 1].imm
  IN  target \in Places /\ OriginOf(target) = <<s, offset>>

InstructionExact(place) ==
  LET inst == linked_program[place + 1]
      origin == OriginOf(place)
      was == NativeAt(origin)
      here == {f \in Copies : Covers(f, origin[1], origin[2])}
  IN  /\ RelocationsAt(origin) = {} => inst = was
      /\ RelocationsAt(origin) = {} /\ was.op = "CALL" /\ was.src = 1 =>
           \A f \in here : Covers(f, origin[1], origin[2] + 1 + was.imm) =>
             LeadsTo(place, origin[1], origin[2] + 1 + was.imm)
      /\ \A sr \in RelocationsAt(origin) :
           LET sym == sr[1] IN
           /\ sr[2] = "R_BPF_64_64" => inst.ref = data_relocation(was, sym)
           /\ sr[2] = "R_BPF_64_32" /\ was.src = 1 /\ sym.value = 0 =>
                LeadsTo(place, sym.shndx, sym.value + was.imm + 1)
           /\ sr[2] = "R_BPF_64_32" /\ was.src # 1 =>
                inst.imm \in DOMAIN Registered /\ Registered[inst.imm] = sym.name

(* Linking keeps what the object file means, wherever the functions land:  *)
(* control enters at main, every relocated call leads to the function it   *)
(* named, a call that is not relocated still leads to its place if that is *)
(* in its own function, every helper call carries the index registered     *)
(* under its name, every load the address of its data, and nothing else is *)
(* changed.  Excepted are aliased code and calls through a symbol with a   *)
(* value: the loader looks for imm + 1 in the symbol's section and leaves  *)
(* the value out.                                                          *)
LinkExact ==
  stage = "linked" =>
    /\ LET origin == OriginOf(0)
       IN  \E i \in DOMAIN symbols :
             /\ symbols[i].type = "FUNC" /\ IsMain(symbols[i])
             /\ origin = <<symbols[i].shndx, symbols[i].value>>
    /\ \A place \in Places : ~Aliased(OriginOf(place)) => InstructionExact(place)
=============================================================================

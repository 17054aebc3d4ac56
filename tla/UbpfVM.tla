------------------------------- MODULE UbpfVM -------------------------------
(***************************************************************************)
(* The uBPF virtual machine as a value, and what each API function of      *)
(* libs/ubpf/vm does to it.  The operators map a VM to the VM the call     *)
(* leaves behind; UbpfApi makes the calls in any order, BPFElement in the  *)
(* order of its configure().                                               *)
(*                                                                         *)
(* Abstracted: a program is a model value, and what the checks on its      *)
(* bytes decide is given by the sets Loadable and Compilable.  Native code *)
(* is the program it was translated from, with the JIT mode, the table of  *)
(* addresses behind it and the offset of that table.  Running out of       *)
(* memory is left out.                                                     *)
(***************************************************************************)
EXTENDS Integers

CONSTANTS
  Programs,       \* the contents an eBPF object file may have
  Loadable,       \* those that pass the ELF checks, relocation and validate()
  Compilable,     \* those whose translation fits the JIT buffer
  CallsOf,        \* CallsOf[p]: indexes of the helpers program p calls
  TableAt,        \* TableAt[p][mode][unwinds]: where the table of helpers lies in
                  \* the translation of p, unwinds: one of its calls may unwind
  MAX_EXT_FUNCS,  \* number of helper indexes
  Functions,      \* helper and dispatcher functions that may be registered
  NULL

(* The addresses behind the native code: the word of the external          *)
(* dispatcher and, right after it, the table of the helpers.               *)
DISPATCHER == -1
Slots == DISPATCHER .. MAX_EXT_FUNCS - 1

JitModes == {"Basic", "Extended"}
Addresses == [Slots -> Functions \cup {NULL}]
NativeCode == [prog: Programs, mode: JitModes, table: Nat, slots: Addresses,
               damaged: BOOLEAN,      \* written to where no address of a function is
               executable: BOOLEAN]   \* or left writable

(* struct ubpf_vm: the loaded instructions, the mapped native code, the    *)
(* outcome of the last translation (jitted_result), the registered         *)
(* functions and the index of the helper that may unwind.                  *)
VMs == [insts: Programs \cup {NULL},
        jitted: NativeCode \cup {NULL},
        compile_result: {"SUCCESS", "FAILURE"},
        jit_mode: JitModes,
        external_helper_offset: Nat,
        ext_funcs: Addresses,
        unwind_index: Int]

(* NULL is no program, no function, no code and no VM.                     *)
ASSUME UbpfAssumption ==
  /\ Loadable \subseteq Programs
  /\ Compilable \subseteq Programs
  /\ MAX_EXT_FUNCS \in Nat \ {0}
  /\ CallsOf \in [Programs -> SUBSET (0 .. MAX_EXT_FUNCS - 1)]
  /\ TableAt \in [Programs -> [JitModes -> [BOOLEAN -> Nat]]]
  /\ NULL \notin Programs \cup Functions
  /\ NULL \notin NativeCode
  /\ NULL \notin VMs

ubpf_create ==
  [insts |-> NULL, jitted |-> NULL, compile_result |-> "FAILURE",
   jit_mode |-> "Basic", external_helper_offset |-> 0,
   ext_funcs |-> [i \in Slots |-> NULL], unwind_index |-> -1]

(* What a CALL of helper i runs, in the interpreter and in native code.    *)
Callee(slots, i) == IF slots[DISPATCHER] # NULL THEN slots[DISPATCHER] ELSE slots[i]

CanLoad_bug(v, p) == v.insts = NULL

(* ubpf_load_elf_ex() followed by ubpf_load(): refused when code is loaded *)
(* already, when linking fails or when validate() does; validate() wants a *)
(* function behind every call.                                             *)
CanLoad(v, p) ==
  /\ v.insts = NULL /\ p \in Loadable
  /\ \A i \in CallsOf[p] : Callee(v.ext_funcs, i) # NULL

ubpf_load(v, p) == IF CanLoad(v, p) THEN [v EXCEPT !.insts = p] ELSE v

ubpf_unload_code_bug(v) == [v EXCEPT !.insts = NULL]

(* Frees the native code and the instructions; jitted_result stays.        *)
ubpf_unload_code(v) == [v EXCEPT !.jitted = NULL, !.insts = NULL]

HelperTable(v, mode) == TableAt[v.insts][mode][v.unwind_index \in CallsOf[v.insts]]

(* ubpf_translate_ex() records its outcome in the VM whoever asked for it  *)
(* and wherever the code goes: the whole of jitted_result, the offset too. *)
(* It leaves the mapped code alone.                                        *)
ubpf_translate(v, mode, ok) ==
  [v EXCEPT !.compile_result = IF ok THEN "SUCCESS" ELSE "FAILURE",
            !.jit_mode = mode,
            !.external_helper_offset = IF ok THEN HelperTable(v, mode) ELSE 0]

(* The early return of ubpf_compile_ex(): code is mapped and the last      *)
(* translation succeeded in the mode asked for.                            *)
ReusesJitted(v, mode) ==
  v.jitted # NULL /\ v.compile_result = "SUCCESS" /\ v.jit_mode = mode

Translation(v, mode) ==
  [prog |-> v.insts, mode |-> mode, table |-> HelperTable(v, mode), slots |-> v.ext_funcs,
   damaged |-> FALSE, executable |-> TRUE]

(* ubpf_compile_ex(); mapped says whether the page table accepted the      *)
(* mapping and its protection.                                             *)
ubpf_compile(v, mode, mapped) ==
  LET w  == [v EXCEPT !.jitted = NULL]
      ok == w.insts \in Compilable
      x  == ubpf_translate(w, mode, ok)
  IN  IF ReusesJitted(v, mode) THEN v
      ELSE IF w.insts = NULL THEN w
      ELSE IF ok /\ mapped THEN [x EXCEPT !.jitted = Translation(w, mode)]
      ELSE x

(* jit_update_helper() and jit_update_dispatcher() write the word of slot i *)
(* behind the given offset.  They refuse one that ends at the end of the    *)
(* code or behind it, so the last helper cannot be updated.                 *)
Word(offset, i) == offset + 8 * i
InBounds(code, offset, i) == Word(offset, i) + 8 < Word(code.table, MAX_EXT_FUNCS)

jit_update(code, offset, i, f) ==
  CASE ~InBounds(code, offset, i) -> code
    [] InBounds(code, offset, i) /\ offset = code.table -> [code EXCEPT !.slots[i] = f]
    [] InBounds(code, offset, i) /\ offset # code.table -> [code EXCEPT !.damaged = TRUE]

NeedsPatch(v) == v.compile_result = "SUCCESS"

(* The outcomes of the two calls of mprotect(): both succeed, the code does *)
(* not become writable, it does not become executable again.                *)
Mprotects == {"done", "not_writable", "not_executable"}

ubpf_register_bug(v, i, f, mprotect) == [v EXCEPT !.ext_funcs[i] = f]

(* ubpf_register() and ubpf_register_external_dispatcher(): the function   *)
(* is stored and, if the last translation succeeded, patched into the      *)
(* mapped code at the offset of the last translation, whichever it was.    *)
(* rc is what they return.                                                 *)
ubpf_register(v, i, f, mprotect) ==
  LET w == [v EXCEPT !.ext_funcs[i] = f]
      code == [jit_update(v.jitted, v.external_helper_offset, i, f)
                 EXCEPT !.executable = (mprotect = "done")]
  IN  IF NeedsPatch(v) /\ v.jitted # NULL /\ mprotect # "not_writable"
        THEN [w EXCEPT !.jitted = code] ELSE w

register_rc(v, i, mprotect) ==
  IF /\ NeedsPatch(v)
     /\ v.jitted = NULL \/ mprotect # "done" \/ ~InBounds(v.jitted, v.external_helper_offset, i)
  THEN -1 ELSE 0

(* The unwind index is set once.                                           *)
ubpf_set_unwind_function_index(v, i) ==
  IF v.unwind_index = -1 THEN [v EXCEPT !.unwind_index = i] ELSE v
=============================================================================

------------------------------- MODULE UbpfApi -------------------------------
(***************************************************************************)
(* A client of the uBPF library: any sequence of API calls on one VM, the  *)
(* order of the calls being the client's business.                         *)
(***************************************************************************)
EXTENDS UbpfVM

CONSTANTS
  UnwindIndexes       \* indexes the client may ask to unwind

ASSUME ApiAssumption == UnwindIndexes \subseteq 0 .. MAX_EXT_FUNCS - 1

VARIABLES
  vm,
  refused,    \* slots whose last registration was answered with -1
  asked,      \* the mode ubpf_compile_ex() was last asked for; NULL once the
              \* client has translated something itself
  strayed     \* has the client registered something while jitted_result was
              \* that of a translation other than the mapped code?

vars == <<vm, refused, asked, strayed>>

Init == vm = ubpf_create /\ refused = {} /\ asked = NULL /\ strayed = FALSE

Load(p) ==
  /\ vm' = ubpf_load(vm, p)
  /\ UNCHANGED <<refused, asked, strayed>>

Unload ==
  /\ vm' = ubpf_unload_code(vm)
  /\ UNCHANGED <<refused, asked, strayed>>

Compile(mode, mapped) ==
  LET reuses == ReusesJitted(vm, mode) IN
  /\ vm' = ubpf_compile(vm, mode, mapped)
  /\ refused' = IF reuses THEN refused ELSE {}
  /\ strayed' = (reuses /\ strayed)
  /\ asked' = IF reuses /\ asked = NULL THEN NULL ELSE mode

(* Translated to a buffer of the client's, which may be too small.         *)
Translate(mode, ok) ==
  /\ vm.insts # NULL
  /\ vm' = ubpf_translate(vm, mode, ok)
  /\ asked' = NULL
  /\ UNCHANGED <<refused, strayed>>

(* Does jitted_result describe the code that is mapped?                    *)
DescribesJitted ==
  /\ vm.compile_result = "SUCCESS"
  /\ vm.external_helper_offset = vm.jitted.table

Register(i, f, mprotect) ==
  /\ vm' = ubpf_register(vm, i, f, mprotect)
  /\ refused' = IF register_rc(vm, i, mprotect) = 0
                  THEN refused \ {i} ELSE refused \cup {i}
  /\ strayed' = (strayed \/ (vm.jitted # NULL /\ ~DescribesJitted))
  /\ UNCHANGED asked

SetUnwind(i) ==
  /\ vm' = ubpf_set_unwind_function_index(vm, i)
  /\ UNCHANGED <<refused, asked, strayed>>

Next ==
  \/ \E p \in Programs : Load(p)
  \/ Unload
  \/ \E mode \in JitModes, b \in BOOLEAN : Compile(mode, b) \/ Translate(mode, b)
  \/ \E i \in Slots, f \in Functions, mprotect \in Mprotects : Register(i, f, mprotect)
  \/ \E i \in UnwindIndexes : SetUnwind(i)

Spec == Init /\ [][Next]_vars

-----------------------------------------------------------------------------
(* The VM stays a VM.                                                      *)
TypeOK ==
  /\ vm \in VMs
  /\ refused \subseteq Slots
  /\ asked \in JitModes \cup {NULL}
  /\ strayed \in BOOLEAN

(* Native code that is mapped is the translation of the program that is    *)
(* loaded: neither unloading nor the early return of ubpf_compile_ex()     *)
(* leaves the code of an earlier program behind.                           *)
JittedIsLoaded == vm.jitted # NULL => vm.jitted.prog = vm.insts

(* It is code of the mode ubpf_compile_ex() was asked for last, unless the *)
(* client has translated since: then the early return may find the mode of *)
(* that translation and answer with the code of the other.                 *)
ModeAsked == vm.jitted # NULL /\ asked # NULL => vm.jitted.mode = asked

(* Every call of a loaded program has a function behind it, in the         *)
(* interpreter and in the mapped native code: what validate() checked at   *)
(* load time still holds after any later registration and compilation.     *)
(* Native code that a registration has written to at the offset of another *)
(* translation is excepted.                                                *)
CallsResolve ==
  vm.insts # NULL => \A i \in CallsOf[vm.insts] :
    /\ Callee(vm.ext_funcs, i) # NULL
    /\ vm.jitted # NULL /\ ~vm.jitted.damaged => Callee(vm.jitted.slots, i) # NULL

(* Registrations put the protection of the code back, or say that they did *)
(* not.  A registration after a translation that failed does neither.      *)
StaysExecutable == vm.jitted # NULL /\ refused = {} /\ ~strayed => vm.jitted.executable

(* The four together: whoever runs the program, by ubpf_exec() or by       *)
(* calling the code, runs what was loaded, and finds all its functions.    *)
CodeSound == JittedIsLoaded /\ ModeAsked /\ CallsResolve /\ StaysExecutable

(* "This API associates a function with an index" (ubpf.h): a registration *)
(* that was answered with 0 reaches the native code, so the interpreter    *)
(* and the compiled program call the same function.  This is so unless the *)
(* client made a registration while jitted_result was that of a            *)
(* translation of its own, which failed or has its table elsewhere.        *)
HelpersAgree ==
  vm.jitted # NULL /\ ~strayed =>
    \A i \in Slots \ refused : vm.jitted.slots[i] = vm.ext_funcs[i]

(* The inductive invariant behind them: as long as ubpf_compile_ex() made  *)
(* the last translation, jitted_result describes the mapped code, and code *)
(* is damaged by registrations that stray only.                            *)
IInv ==
  /\ TypeOK /\ JittedIsLoaded /\ CallsResolve /\ StaysExecutable /\ HelpersAgree
  /\ vm.jitted # NULL /\ asked # NULL =>
       DescribesJitted /\ vm.jit_mode = asked /\ vm.jitted.mode = asked
  /\ vm.jitted # NULL /\ vm.jitted.damaged => strayed
=============================================================================

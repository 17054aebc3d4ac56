------------------------------ MODULE Ubpf_proofs ------------------------------
(***************************************************************************)
(* The uBPF library, for any programs, functions, stack and call depth:    *)
(* what a client of its API may rely on, and what the undefined-behaviour  *)
(* check of ubpf_exec_ex() finds.                                          *)
(***************************************************************************)
EXTENDS UbpfApi, ShadowState, UbpfVM_proofs, SequenceTheorems, TLAPS

-----------------------------------------------------------------------------
(* The API: any sequence of calls on one VM.                               *)

LEMMA InitIInv == Init => IInv
<1> SUFFICES ASSUME Init PROVE IInv OBVIOUS
<1>1. [i \in Slots |-> NULL] \in Addresses BY DEF Addresses
<1>2. vm \in VMs /\ vm.jitted = NULL /\ vm.insts = NULL
  BY <1>1 DEF Init, ubpf_create, VMs, JitModes
<1>3. TypeOK BY Zenon, <1>2 DEF Init, TypeOK
<1> QED BY <1>2, <1>3
        DEF IInv, JittedIsLoaded, CallsResolve, StaysExecutable, HelpersAgree

(* A step that leaves the VM's program, code, functions and last           *)
(* translation alone.                                                      *)
LEMMA SameCode ==
  ASSUME IInv, TypeOK', UNCHANGED <<refused, asked, strayed>>,
         vm'.insts = vm.insts, vm'.jitted = vm.jitted, vm'.ext_funcs = vm.ext_funcs,
         vm'.compile_result = vm.compile_result, vm'.jit_mode = vm.jit_mode,
         vm'.external_helper_offset = vm.external_helper_offset
  PROVE  IInv'
BY DEF IInv, JittedIsLoaded, CallsResolve, StaysExecutable, HelpersAgree, DescribesJitted

LEMMA LoadInv == ASSUME IInv, NEW p \in Programs, Load(p) PROVE IInv'
<1>0. vm \in VMs BY DEF IInv, TypeOK
<1>1. CASE CanLoad(vm, p)
  <2>1. vm.jitted = NULL BY <1>0, <1>1, UbpfAssumption DEF CanLoad, IInv, JittedIsLoaded, VMs, NativeCode
  <2>2. /\ vm' \in VMs /\ vm'.insts = p /\ vm'.jitted = NULL
        /\ vm'.ext_funcs = vm.ext_funcs
    BY <1>0, <1>1, <2>1, LoadType DEF Load
  <2>3. TypeOK' BY <2>2 DEF Load, IInv, TypeOK
  <2> QED BY <1>1, <2>2, <2>3
          DEF IInv, JittedIsLoaded, CallsResolve, StaysExecutable, HelpersAgree, CanLoad
<1>2. CASE ~CanLoad(vm, p)
  <2>1. vm' = vm BY <1>2 DEF Load, ubpf_load
  <2>2. TypeOK' BY <2>1 DEF Load, IInv, TypeOK
  <2> QED BY <2>1, <2>2, SameCode DEF Load
<1> QED BY <1>1, <1>2

LEMMA UnloadInv == ASSUME IInv, Unload PROVE IInv'
<1>1. vm \in VMs BY DEF IInv, TypeOK
<1>2. vm' \in VMs /\ vm'.jitted = NULL /\ vm'.insts = NULL
  BY Zenon, <1>1, UnloadType DEF Unload, ubpf_unload_code, VMs
<1>3. TypeOK' BY <1>2 DEF Unload, IInv, TypeOK
<1> QED BY <1>2, <1>3 DEF IInv, JittedIsLoaded, CallsResolve, StaysExecutable, HelpersAgree

(* Code that is not reused is fresh: it holds what is registered.          *)
LEMMA CompileInv ==
  ASSUME IInv, NEW mode \in JitModes, NEW b \in BOOLEAN, Compile(mode, b)
  PROVE  IInv'
<1>0. vm \in VMs BY DEF IInv, TypeOK
<1>1. /\ vm' \in VMs /\ vm'.insts = vm.insts /\ vm'.ext_funcs = vm.ext_funcs
      /\ ReusesJitted(vm, mode) => vm' = vm
      /\ vm'.jitted # NULL /\ ~ReusesJitted(vm, mode) =>
           /\ vm'.jitted = Translation(vm, mode)
           /\ vm'.compile_result = "SUCCESS" /\ vm'.jit_mode = mode
           /\ vm'.external_helper_offset = HelperTable(vm, mode)
  BY <1>0, CompileSteps DEF Compile
<1>2. CASE ReusesJitted(vm, mode)
  <2>1. /\ vm' = vm /\ refused' = refused /\ strayed' = (TRUE /\ strayed)
        /\ asked' = IF asked = NULL THEN NULL ELSE mode
    BY <1>1, <1>2 DEF Compile
  <2>2. strayed' = strayed BY <2>1 DEF IInv, TypeOK
  <2>3. TypeOK' BY <2>1, <2>2 DEF IInv, TypeOK
  <2>4. asked' # NULL => asked # NULL /\ asked' = mode BY <2>1
  <2>5. vm.jitted # NULL /\ asked # NULL => asked = mode BY <1>2 DEF ReusesJitted, IInv
  <2> QED BY <2>1, <2>2, <2>3, <2>4, <2>5
          DEF IInv, JittedIsLoaded, CallsResolve, StaysExecutable, HelpersAgree, DescribesJitted
<1>3. CASE ~ReusesJitted(vm, mode)
  <2>1. refused' = {} /\ strayed' = FALSE /\ asked' = mode BY Zenon, <1>3 DEF Compile
  <2>2. TypeOK' BY Zenon, <1>1, <2>1 DEF TypeOK
  <2>3. /\ Translation(vm, mode).prog = vm.insts /\ Translation(vm, mode).mode = mode
        /\ Translation(vm, mode).table = HelperTable(vm, mode)
        /\ Translation(vm, mode).slots = vm.ext_funcs
        /\ Translation(vm, mode).damaged = FALSE /\ Translation(vm, mode).executable = TRUE
    BY DEF Translation
  <2>4. vm'.jitted # NULL => DescribesJitted' BY <1>1, <1>3, <2>3 DEF DescribesJitted
  <2> QED BY <1>1, <1>3, <2>1, <2>2, <2>3, <2>4
          DEF IInv, JittedIsLoaded, CallsResolve, StaysExecutable, HelpersAgree
<1> QED BY <1>2, <1>3

LEMMA TranslateInv ==
  ASSUME IInv, NEW mode \in JitModes, NEW b \in BOOLEAN, Translate(mode, b)
  PROVE  IInv'
<1>0. vm \in VMs /\ vm.insts \in Programs BY DEF IInv, TypeOK, VMs, Translate
<1>1. /\ vm' \in VMs /\ vm'.insts = vm.insts /\ vm'.ext_funcs = vm.ext_funcs
      /\ vm'.jitted = vm.jitted
  BY <1>0, TranslateType DEF Translate
<1>2. TypeOK' BY <1>1 DEF Translate, IInv, TypeOK
<1> QED BY <1>1, <1>2
        DEF Translate, IInv, JittedIsLoaded, CallsResolve, StaysExecutable, HelpersAgree

(* A registration strays or reaches the code, or is answered with -1.      *)
LEMMA RegisterInv ==
  ASSUME IInv, NEW i \in Slots, NEW f \in Functions, NEW u \in Mprotects, Register(i, f, u)
  PROVE  IInv'
<1>0. /\ vm \in VMs /\ vm.ext_funcs \in Addresses
      /\ vm.jitted # NULL => vm.jitted.slots \in Addresses
  BY DEF IInv, TypeOK, VMs, NativeCode
<1>1. /\ vm' \in VMs /\ vm'.insts = vm.insts
      /\ vm'.ext_funcs = [vm.ext_funcs EXCEPT ![i] = f]
      /\ vm'.compile_result = vm.compile_result /\ vm'.jit_mode = vm.jit_mode
      /\ vm'.external_helper_offset = vm.external_helper_offset
      /\ (vm'.jitted = NULL) <=> (vm.jitted = NULL)
      /\ vm.jitted # NULL =>
           /\ vm'.jitted.prog = vm.jitted.prog /\ vm'.jitted.mode = vm.jitted.mode
           /\ vm'.jitted.table = vm.jitted.table
           /\ vm'.jitted.slots \in {vm.jitted.slots, [vm.jitted.slots EXCEPT ![i] = f]}
           /\ vm'.jitted.damaged =>
                vm.jitted.damaged \/ vm.external_helper_offset # vm.jitted.table
           /\ register_rc(vm, i, u) = 0 /\ NeedsPatch(vm)
              /\ vm.external_helper_offset = vm.jitted.table =>
                /\ vm'.jitted.slots = [vm.jitted.slots EXCEPT ![i] = f]
                /\ vm'.jitted.executable
  BY <1>0, RegisterType DEF Register
<1>2. /\ refused' = IF register_rc(vm, i, u) = 0 THEN refused \ {i} ELSE refused \cup {i}
      /\ strayed' = (strayed \/ (vm.jitted # NULL /\ ~DescribesJitted)) /\ asked' = asked
  BY DEF Register
<1>3. TypeOK' BY <1>1, <1>2 DEF IInv, TypeOK
<1>4. f # NULL /\ DISPATCHER \in Slots /\ 0 .. MAX_EXT_FUNCS - 1 \subseteq Slots
  BY UbpfAssumption DEF DISPATCHER, Slots
<1>5. ASSUME NEW a \in Addresses, NEW k \in Slots, Callee(a, k) # NULL
      PROVE  Callee([a EXCEPT ![i] = f], k) # NULL
  BY <1>4, <1>5 DEF Callee, Addresses
<1>6. vm.jitted # NULL /\ vm'.jitted.damaged => strayed'
  BY Zenon, <1>1, <1>2 DEF IInv, DescribesJitted
<1>7. CallsResolve'
  <2> SUFFICES ASSUME vm.insts # NULL, NEW k \in CallsOf[vm.insts]
               PROVE  /\ Callee(vm'.ext_funcs, k) # NULL
                      /\ vm'.jitted # NULL /\ ~vm'.jitted.damaged =>
                           Callee(vm'.jitted.slots, k) # NULL
    BY <1>1 DEF CallsResolve
  <2>1. k \in Slots BY <1>0, <1>4, UbpfAssumption DEF VMs
  <2>2. vm.jitted # NULL /\ ~vm'.jitted.damaged => ~vm.jitted.damaged
    <3> SUFFICES ASSUME vm.jitted # NULL, vm.jitted.damaged PROVE vm'.jitted.damaged OBVIOUS
    <3> QED BY <1>0, StaysDamaged DEF Register, VMs
  <2> QED BY <1>0, <1>1, <1>5, <2>1, <2>2 DEF IInv, CallsResolve
<1>8. vm'.jitted # NULL /\ ~strayed' =>
        vm.jitted # NULL /\ ~strayed /\ DescribesJitted /\ NeedsPatch(vm)
        /\ vm.external_helper_offset = vm.jitted.table
  BY Zenon, <1>1, <1>2 DEF DescribesJitted, NeedsPatch
<1>9. HelpersAgree'
  <2> SUFFICES ASSUME vm'.jitted # NULL, ~strayed', NEW k \in Slots \ refused'
               PROVE  vm'.jitted.slots[k] = vm'.ext_funcs[k]
    BY DEF HelpersAgree
  <2>1. CASE k = i BY <1>0, <1>1, <1>2, <1>8, <2>1 DEF Addresses
  <2>2. CASE k # i
    <3>1. vm.jitted.slots[k] = vm.ext_funcs[k] BY <1>2, <1>8, <2>2 DEF IInv, HelpersAgree
    <3> QED BY <1>0, <1>1, <1>8, <2>2, <3>1 DEF Addresses
  <2> QED BY <2>1, <2>2
<1>10. StaysExecutable' BY <1>1, <1>2, <1>8 DEF StaysExecutable
<1>11. vm'.jitted # NULL /\ asked' # NULL =>
         DescribesJitted' /\ vm'.jit_mode = asked' /\ vm'.jitted.mode = asked'
  BY <1>1, <1>2 DEF IInv, DescribesJitted
<1> QED BY <1>1, <1>3, <1>6, <1>7, <1>9, <1>10, <1>11 DEF IInv, JittedIsLoaded

LEMMA NextIInv == IInv /\ [Next]_vars => IInv'
<1> SUFFICES ASSUME IInv, [Next]_vars PROVE IInv' OBVIOUS
<1>1. ASSUME NEW i \in UnwindIndexes, SetUnwind(i) PROVE IInv'
  <2>1. i \in Int BY ApiAssumption, UbpfAssumption
  <2>2. /\ vm' \in VMs /\ vm'.insts = vm.insts /\ vm'.ext_funcs = vm.ext_funcs
        /\ vm'.jitted = vm.jitted /\ vm'.compile_result = vm.compile_result
        /\ vm'.jit_mode = vm.jit_mode
        /\ vm'.external_helper_offset = vm.external_helper_offset
    BY <1>1, <2>1 DEF SetUnwind, ubpf_set_unwind_function_index, VMs, IInv, TypeOK
  <2>3. TypeOK' BY <1>1, <2>2 DEF SetUnwind, IInv, TypeOK
  <2> QED BY <1>1, <2>2, <2>3, SameCode DEF SetUnwind
<1>2. CASE UNCHANGED vars
  <2>1. TypeOK' BY <1>2 DEF vars, IInv, TypeOK
  <2> QED BY <1>2, <2>1, SameCode DEF vars
<1> QED BY <1>1, <1>2, LoadInv, UnloadInv, CompileInv, TranslateInv, RegisterInv DEF Next

LEMMA Invariance == Spec => []IInv
BY InitIInv, NextIInv, PTL DEF Spec

(* After any sequence of API calls the mapped native code is a translation *)
(* of the loaded program, in the mode ubpf_compile_ex() was asked for last *)
(* unless the client translated since, and all calls in both have a        *)
(* function behind them unless a registration damaged the code.            *)
THEOREM CodeIsSound == Spec => []CodeSound
<1>1. IInv => CodeSound BY DEF IInv, CodeSound, ModeAsked
<1> QED BY <1>1, Invariance, PTL

(* Every registration that is answered with 0 reaches the native code, as  *)
(* long as none is made while jitted_result is that of a translation whose *)
(* code is not mapped.                                                     *)
THEOREM RegistrationReachesCode == Spec => []HelpersAgree
<1>1. IInv => HelpersAgree BY DEF IInv
<1> QED BY <1>1, Invariance, PTL

-----------------------------------------------------------------------------
(* The undefined-behaviour check of ubpf_exec_ex() is exact, and functions *)
(* move the frame pointer by their own stack usage, for every validated    *)
(* program.                                                                *)

CallType == [return : Nat, usage : Nat, kept : SUBSET CalleeSaved]
LocalCall(i) == i.op = "CALL" /\ i.src = 1

Types ==
  /\ code \in Codes \cup {<< >>}
  /\ at \in Nat /\ usage \in Nat
  /\ previous_inst \in Instructions \cup {Empty}
  /\ calls \in Seq(CallType)
  /\ phase = "run" => code \in Codes

(* The shadow registers are those with a value and those only a callee has *)
(* set, the shadow stack is what was stored to.  What a caller had is      *)
(* still marked when it gets it back.                                      *)
Shadows ==
  /\ shadow_registers = defined \cup leaked
  /\ leaked \subseteq CalleeSaved
  /\ shadow_stack = written
  /\ \A d \in 1 .. Len(calls) : calls[d].kept \subseteq shadow_registers

(* The instruction about to be executed.                                   *)
LEMMA InstType ==
  ASSUME Types, phase = "run", at < Len(code)
  PROVE  /\ code \in Codes /\ code \in Seq(Instructions) /\ Validated(code)
         /\ at + 1 \in 1 .. Len(code) /\ code[at + 1] \in Instructions
<1>1. code \in Codes /\ code \in Seq(Instructions) /\ Validated(code)
  BY ShadowAssumption DEF Types
<1>2. at + 1 \in 1 .. Len(code) BY <1>1 DEF Types
<1> QED BY <1>1, <1>2

LEMMA NextUsageType ==
  ASSUME Types, phase = "run", at < Len(code)
  PROVE  NextUsage \in Nat
<1>1. code \in Codes /\ at \in 0 .. Len(code) - 1 BY InstType DEF Types
<1> QED BY <1>1, ShadowAssumption DEF Types, NextUsage

(* No instruction is like the value previous_inst starts with.             *)
LEMMA EmptyIsNone == Empty \notin Instructions
BY DEF Empty, Instructions

LEMMA Popped ==
  ASSUME NEW S, NEW s \in Seq(S), Len(s) # 0
  PROVE  LET q == SubSeq(s, 1, Len(s) - 1)
         IN  q \in Seq(S) /\ Len(q) = Len(s) - 1 /\ \A d \in 1 .. Len(s) - 1 : q[d] = s[d]
<1> DEFINE n == Len(s) - 1
           q == SubSeq(s, 1, n)
<1>1. Len(s) \in Nat /\ n \in Nat /\ \A i \in 1 .. n : s[i] \in S OBVIOUS
<1> HIDE DEF n
<1>2. /\ q \in Seq(S) /\ Len(q) = IF 1 <= n THEN n - 1 + 1 ELSE 0
      /\ \A i \in 1 .. n - 1 + 1 : q[i] = s[1 + i - 1]
  BY <1>1, SubSeqProperties
<1> HIDE DEF q
<1>3. q \in Seq(S) /\ Len(q) = n /\ \A i \in 1 .. n : q[i] = s[i] BY <1>1, <1>2
<1> QED BY <1>3 DEF n, q

(* What the check marks, by the kind of the instruction.                   *)
LEMMA Marks ==
  ASSUME NEW i \in Instructions
  PROVE  /\ i.cls \in {"LD", "LDX", "ALU"} => MarkedRegisters(i) = shadow_registers \cup {i.dst}
         /\ i.op = "CALL" /\ i.src = 0 => MarkedRegisters(i) = (shadow_registers \cup {0}) \ Scratch
         /\ i.op = "EXIT" => MarkedRegisters(i) = shadow_registers \ Scratch
         /\ i.cls \in {"ST", "STX"} \/ i.op \in {"JA", "JEQ"} \/ LocalCall(i)
              => MarkedRegisters(i) = shadow_registers
BY DEF Instructions, Jumps, MarkedRegisters, dst_register_initialized, LocalCall

(* The registers the check asks for are those the instruction uses, but    *)
(* for the source of a byte swap.                                          *)
LEMMA Required ==
  ASSUME NEW i \in Instructions, Shadows
  PROVE  /\ ubpf_validate_shadow_register(i) => UsedRegisters(i) \subseteq shadow_registers
         /\ ~ubpf_validate_shadow_register(i) /\ i.op # "BE" =>
              \E r \in UsedRegisters(i) : r \notin shadow_registers
<1>1. ubpf_validate_shadow_register(i) => UsedRegisters(i) \subseteq shadow_registers
  BY DEF Instructions, Jumps, ubpf_validate_shadow_register, UsedRegisters,
         src_register_required, dst_register_required
<1>2. ASSUME ~ubpf_validate_shadow_register(i), i.op # "BE"
      PROVE  \E r \in UsedRegisters(i) : r \notin shadow_registers
  <2>1. CASE src_register_required(i) /\ i.src \notin shadow_registers
    <3>1. i.src \in UsedRegisters(i)
      BY <1>2, <2>1 DEF Instructions, Jumps, UsedRegisters, src_register_required
    <3> QED BY <3>1, <2>1
  <2>2. CASE dst_register_required(i) /\ i.dst \notin shadow_registers
    <3>1. i.dst \in UsedRegisters(i)
      BY <2>2 DEF Instructions, Jumps, UsedRegisters, dst_register_required
    <3> QED BY <3>1, <2>2
  <2>3. CASE i.op = "EXIT" /\ 0 \notin shadow_registers
    <3>1. 0 \in UsedRegisters(i) BY <2>3 DEF UsedRegisters
    <3> QED BY <3>1, <2>3
  <2> QED BY <1>2, <2>1, <2>2, <2>3 DEF ubpf_validate_shadow_register
<1> QED BY <1>1, <1>2

-----------------------------------------------------------------------------
LEMMA InitInv == ShadowInit => Types /\ Shadows
BY DEF ShadowInit, Types, Shadows

LEMMA StopInv ==
  ASSUME Types, Shadows, NEW how, how # "run", Stop(how)
  PROVE  Types' /\ Shadows'
<1>1. Types' BY DEF Types, Stop
<1>2. Shadows' BY DEF Shadows, Stop, shadowed, meaning
<1> QED BY <1>1, <1>2

LEMMA AdvanceTypes ==
  ASSUME Types, phase = "run", at < Len(code), NEW pc \in Nat, Advance(code[at + 1], pc),
         calls' \in Seq(CallType)
  PROVE  Types'
BY InstType, NextUsageType DEF Types, Advance

LEMMA PerformInv ==
  ASSUME Types, Shadows, phase = "run", at < Len(code), Perform(code[at + 1])
  PROVE  Types' /\ Shadows'
<1> DEFINE i == code[at + 1]
           n == Len(calls)
<1>1. i \in Instructions /\ code \in Codes /\ at + 1 \in 1 .. Len(code) /\ Validated(code)
  BY InstType
<1>2. calls \in Seq(CallType) /\ n \in Nat /\ at \in Nat BY DEF Types
<1>3. \A d \in 1 .. n : calls[d] \in CallType /\ calls[d].kept \subseteq CalleeSaved
  <2>1. \A d \in 1 .. n : calls[d] \in CallType BY <1>2
  <2>2. \A c \in CallType : c.kept \subseteq CalleeSaved BY DEF CallType
  <2> QED BY <2>1, <2>2
<1> HIDE DEF i
<1>4. CASE UnknownOpcode(i) BY Zenon, <1>4, StopInv DEF UnknownOpcode
<1>5. CASE Compute(i)
  <2>1. Types' BY <1>1, <1>2, <1>5, AdvanceTypes DEF Compute, i
  <2>2. shadow_registers' = shadow_registers \cup {i.dst} BY <1>1, <1>5, Marks DEF Compute, Advance
  <2>3. Shadows' BY <2>2, <1>5 DEF Shadows, Compute, Defines
  <2> QED BY <2>1, <2>3
<1>6. CASE LoadRegister(i)
  <2>1. CASE Advance(i, at + 1) /\ Defines(i.dst) /\ UNCHANGED <<calls, shadow_stack, written>>
             /\ i.cls = "LDX"
    <3>1. Types' BY <1>1, <1>2, <2>1, AdvanceTypes DEF i
    <3>2. shadow_registers' = shadow_registers \cup {i.dst} BY <1>1, <2>1, Marks DEF Advance
    <3>3. Shadows' BY <3>2, <2>1 DEF Shadows, Defines
    <3> QED BY <3>1, <3>3
  <2> QED BY Zenon, <1>6, <2>1, StopInv DEF LoadRegister
<1>7. CASE Store(i)
  <2>1. CASE /\ OnStack(i.dst) => InStack(fp + i.off, i.size)
             /\ shadow_stack' = IF OnStack(i.dst) THEN ubpf_mark_shadow_stack(fp + i.off, i.size) ELSE shadow_stack
             /\ written' = IF OnStack(i.dst) THEN written \cup Bytes(fp + i.off, i.size) ELSE written
             /\ Advance(i, at + 1) /\ UNCHANGED <<calls, defined, leaked>>
             /\ i.cls \in {"ST", "STX"}
    <3>1. Types' BY <1>1, <1>2, <2>1, AdvanceTypes DEF i
    <3>2. shadow_registers' = shadow_registers BY <1>1, <2>1, Marks DEF Advance
    <3>3. shadow_stack' = written' BY <2>1 DEF Shadows, ubpf_mark_shadow_stack
    <3>4. Shadows' BY <3>2, <3>3, <2>1 DEF Shadows
    <3> QED BY <3>1, <3>4
  <2> QED BY Zenon, <1>7, <2>1, StopInv DEF Store
<1>8. CASE Branch(i)
  <2>1. PICK to \in {at + 1, at + 1 + i.off} : Advance(i, to) BY <1>8, <1>1 DEF Branch, Instructions
  <2>2. at + 1 + i.off \in Nat BY <1>1, <1>8 DEF Validated, Branch, i
  <2>3. Types' BY <1>2, <1>8, <2>1, <2>2, AdvanceTypes DEF Branch, i
  <2>4. shadow_registers' = shadow_registers BY <1>1, <1>8, <2>1, Marks DEF Branch, Advance
  <2>5. Shadows' BY <2>4, <1>8 DEF Shadows, Branch, meaning
  <2> QED BY <2>3, <2>5
<1>9. CASE CallHelper(i)
  <2>1. CASE /\ defined' = (defined \cup {0}) \ Scratch
             /\ Advance(i, at + 1) /\ UNCHANGED <<calls, shadow_stack, written, leaked>>
    <3>1. Types' BY <1>1, <1>2, <2>1, AdvanceTypes DEF i
    <3>2. shadow_registers' = (shadow_registers \cup {0}) \ Scratch
      BY <1>1, <1>9, <2>1, Marks DEF CallHelper, Advance
    <3>3. leaked \cap Scratch = {} BY DEF Shadows, CalleeSaved, Scratch
    <3>4. shadow_registers' = defined' \cup leaked' BY <2>1, <3>2, <3>3 DEF Shadows
    <3>5. \A d \in 1 .. n : calls[d].kept \subseteq shadow_registers'
      BY <1>3, <3>2 DEF Shadows, CalleeSaved, Scratch
    <3>6. Shadows' BY <2>1, <3>4, <3>5 DEF Shadows
    <3> QED BY <3>1, <3>6
  <2> QED BY <1>9, <2>1, StopInv DEF CallHelper
<1>10. CASE CallLocal(i)
  <2> DEFINE c == [return |-> at + 1, usage |-> NextUsage, kept |-> defined \cap CalleeSaved]
  <2>1. CASE calls' = Append(calls, c) /\ Advance(i, at + 1 + i.imm)
             /\ UNCHANGED <<shadow_stack, meaning>> /\ i.op = "CALL" /\ i.src = 1
    <3>1. c \in CallType BY <1>2, NextUsageType DEF CallType
    <3>2. c.kept \subseteq defined OBVIOUS
    <3> HIDE DEF c
    <3>3. calls' \in Seq(CallType) /\ Len(calls') = n + 1 /\ calls'[n + 1] = c
          /\ \A d \in 1 .. n : calls'[d] = calls[d]
      BY <1>2, <2>1, <3>1
    <3>4. at + 1 + i.imm \in Nat BY <1>1, <2>1 DEF Validated, i
    <3>5. Types' BY <2>1, <3>3, <3>4, AdvanceTypes DEF i
    <3>6. shadow_registers' = shadow_registers
      BY <1>1, <2>1, Marks DEF LocalCall, Advance
    <3>7. ASSUME NEW d \in 1 .. n + 1 PROVE calls'[d].kept \subseteq shadow_registers
      <4>1. CASE d = n + 1 BY <4>1, <3>2, <3>3 DEF Shadows
      <4>2. CASE d # n + 1
        <5>1. d \in 1 .. n BY <4>2, <1>2
        <5> QED BY <5>1, <3>3 DEF Shadows
      <4> QED BY <4>1, <4>2
    <3>8. Shadows' BY <2>1, <3>3, <3>6, <3>7 DEF Shadows, meaning
    <3> QED BY <3>5, <3>8
  <2> QED BY Zenon, <1>10, <2>1, StopInv DEF CallLocal
<1>11. CASE ReturnLocal(i)
  <2> DEFINE f == calls[n]
  <2>1. n # 0 /\ n \in 1 .. n BY <1>2, <1>11 DEF ReturnLocal
  <2>2. f \in CallType /\ f.return \in Nat /\ f.usage \in Nat /\ f.kept \subseteq CalleeSaved
        /\ f.kept \subseteq shadow_registers
    <3>1. f \in CallType BY <1>3, <2>1
    <3>2. f.kept \subseteq shadow_registers BY <2>1 DEF Shadows
    <3> HIDE DEF f
    <3> QED BY <3>1, <3>2 DEF CallType
  <2>3. /\ calls' = SubSeq(calls, 1, n - 1) /\ at' = f.return /\ usage' = f.usage
        /\ previous_inst' = i /\ shadow_registers' = MarkedRegisters(i)
        /\ defined' = (defined \ (Scratch \cup CalleeSaved)) \cup f.kept
        /\ leaked' = ((defined \cup leaked) \cap CalleeSaved) \ f.kept
        /\ UNCHANGED <<code, phase, shadow_stack, written>> /\ i.op = "EXIT"
    BY <1>11 DEF ReturnLocal
  <2> HIDE DEF f
  <2>4. calls' \in Seq(CallType) /\ Len(calls') = n - 1 /\ \A d \in 1 .. n - 1 : calls'[d] = calls[d]
    BY <1>2, <2>1, <2>3, Popped
  <2>5. Types' BY <1>1, <2>2, <2>3, <2>4 DEF Types
  <2>6. shadow_registers' = shadow_registers \ Scratch BY <1>1, <2>3, Marks
  <2>7. Scratch \cap CalleeSaved = {} BY DEF Scratch, CalleeSaved
  <2>8. shadow_registers' = defined' \cup leaked'
    <3>1. shadow_registers = defined \cup leaked /\ leaked \subseteq CalleeSaved BY DEF Shadows
    <3> HIDE DEF Scratch, CalleeSaved
    <3> QED BY <3>1, <2>2, <2>3, <2>6, <2>7
  <2>9. ASSUME NEW d \in 1 .. n - 1 PROVE calls'[d].kept \subseteq shadow_registers'
    <3>1. d \in 1 .. n /\ calls'[d] = calls[d] BY <1>2, <2>4
    <3> QED BY <3>1, <1>3, <2>6, <2>7 DEF Shadows
  <2>10. Shadows' BY <2>3, <2>4, <2>8, <2>9 DEF Shadows
  <2> QED BY <2>5, <2>10
<1>12. CASE ExitProgram(i) BY <1>12, StopInv DEF ExitProgram
<1> QED BY <1>4, <1>5, <1>6, <1>7, <1>8, <1>9, <1>10, <1>11, <1>12 DEF Perform, i

-----------------------------------------------------------------------------
(* What an instruction that is not stopped for it uses has a value; one    *)
(* that is stopped for it uses something that has none.                    *)
LEMMA PerformExact ==
  ASSUME Types, Shadows, phase = "run", at < Len(code),
         ubpf_validate_shadow_register(code[at + 1]), Perform(code[at + 1]),
         undefined' = UndefinedOf(code[at + 1])
  PROVE  UndefinedExact'
<1> DEFINE i == code[at + 1]
           a == fp + i.off
<1>1. i \in Instructions BY InstType
<1>2. {<<"register", r>> : r \in UsedRegisters(i) \ (defined \cup leaked)} = {}
  <2>1. UsedRegisters(i) \subseteq defined \cup leaked BY <1>1, Required DEF Shadows
  <2> QED BY <2>1
<1>3. undefined' = IF i.cls = "LDX" /\ OnStack(i.src) /\ InStack(a, i.size)
                     THEN {<<"byte", b>> : b \in Bytes(a, i.size) \ written} ELSE {}
  <2> DEFINE R == {<<"register", r>> : r \in UsedRegisters(i) \ (defined \cup leaked)}
             B == IF i.cls = "LDX" /\ OnStack(i.src) /\ InStack(a, i.size)
                    THEN {<<"byte", b>> : b \in Bytes(a, i.size) \ written} ELSE {}
  <2>1. undefined' = R \cup B BY DEF UndefinedOf
  <2>2. R = {} BY <1>2
  <2> HIDE DEF R, B
  <2>3. undefined' = B BY <2>1, <2>2
  <2> QED BY <2>3 DEF B
<1>4. shadow_stack = written BY DEF Shadows
<1> HIDE DEF i, a
<1>5. CASE LoadRegister(i) /\ OnStack(i.src) /\ ~ubpf_check_shadow_stack(a, i.size)
  <2>1. phase' = "undefined" /\ i.cls = "LDX" BY Zenon, <1>5 DEF LoadRegister, Stop, a
  <2>2. InStack(a, i.size) /\ \E b \in Bytes(a, i.size) : b \notin written
    BY <1>4, <1>5 DEF ubpf_check_shadow_stack
  <2>3. undefined' # {} BY <1>3, <1>5, <2>1, <2>2, Zenon
  <2> QED BY <2>1, <2>3 DEF UndefinedExact, UsesDefined, NoFalseAlarm
<1>6. CASE LoadRegister(i) /\ (OnStack(i.src) => ubpf_check_shadow_stack(a, i.size))
  <2>1. phase' # "undefined" BY Zenon, <1>6 DEF LoadRegister, Stop, Advance, a
  <2>2. undefined' = {}
    <3>1. CASE i.cls = "LDX" /\ OnStack(i.src) /\ InStack(a, i.size)
      <4>1. Bytes(a, i.size) \ written = {} BY <1>4, <1>6, <3>1 DEF ubpf_check_shadow_stack
      <4> QED BY <1>3, <3>1, <4>1
    <3> QED BY <1>3, <3>1
  <2> QED BY <2>1, <2>2 DEF UndefinedExact, UsesDefined, NoFalseAlarm
<1>7. CASE ~LoadRegister(i)
  <2>1. Perform(i) BY SMTT(30) DEF i
  <2>2. phase' # "undefined"
    BY ZenonT(60), <1>7, <2>1 DEF Perform, UnknownOpcode, Compute, Store, Branch, CallHelper, CallLocal, ReturnLocal,
                      ExitProgram, Stop, Advance
  <2>3. i.cls # "LDX"
    BY Zenon, <1>1, <1>7, <2>1 DEF Perform, UnknownOpcode, Compute, Store, Branch, CallHelper, CallLocal,
                      ReturnLocal, ExitProgram, Instructions, Jumps
  <2>4. undefined' = {} BY <1>3, <2>3
  <2> QED BY <2>2, <2>4 DEF UndefinedExact, UsesDefined, NoFalseAlarm
<1> QED BY <1>5, <1>6, <1>7

LEMMA TurnExact ==
  ASSUME Types, Shadows, UndefinedExact, shadow_turn
  PROVE  Types' /\ Shadows' /\ UndefinedExact'
<1>1. ASSUME NEW how \in {"off the end", "fell through"}, Stop(how), UNCHANGED undefined
      PROVE  Types' /\ Shadows' /\ UndefinedExact'
  <2>1. phase = "run" BY Zenon DEF shadow_turn
  <2> QED BY Zenon, <1>1, <2>1, StopInv DEF UndefinedExact, UsesDefined, NoFalseAlarm, Stop
<1>2. CASE /\ at < Len(code) /\ undefined' = UndefinedOf(code[at + 1])
           /\ ~ubpf_validate_shadow_register(code[at + 1]) /\ Stop("undefined")
  <2> DEFINE i == code[at + 1]
  <2>1. phase = "run" /\ phase' = "undefined" /\ at' = at /\ code' = code BY <1>2 DEF shadow_turn, Stop
  <2>2. i \in Instructions BY <1>2, <2>1, InstType
  <2>3. ASSUME i.op # "BE" PROVE undefined' # {}
    <3>1. PICK r \in UsedRegisters(i) : r \notin shadow_registers BY <1>2, <2>2, <2>3, Required
    <3>2. <<"register", r>> \in UndefinedOf(i) BY <3>1 DEF UndefinedOf, Shadows
    <3> QED BY <1>2, <3>2
  <2>4. UndefinedExact' BY <2>1, <2>3 DEF UndefinedExact, UsesDefined, NoFalseAlarm
  <2> QED BY <1>2, <2>4, StopInv
<1>3. CASE /\ at < Len(code) /\ undefined' = UndefinedOf(code[at + 1])
           /\ ubpf_validate_shadow_register(code[at + 1]) /\ Perform(code[at + 1])
  <2>1. phase = "run" BY Zenon DEF shadow_turn
  <2> QED BY <1>3, <2>1, PerformInv, PerformExact
<1> QED BY Zenon, <1>1, <1>2, <1>3 DEF shadow_turn

LEMMA NextExact ==
  ASSUME Types, Shadows, UndefinedExact, [ShadowNext]_shadowVars
  PROVE  Types' /\ Shadows' /\ UndefinedExact'
<1>1. ASSUME phase = "start", NEW p \in Codes, shadow_exec(p)
      PROVE  Types' /\ Shadows' /\ UndefinedExact'
  BY <1>1 DEF shadow_exec, Types, Shadows, shadowed, meaning, UndefinedExact, UsesDefined, NoFalseAlarm
<1>2. CASE UNCHANGED shadowVars
  BY <1>2 DEF shadowVars, Types, Shadows, shadowed, meaning, UndefinedExact, UsesDefined, NoFalseAlarm
<1> QED BY <1>1, <1>2, TurnExact DEF ShadowNext

(* UndefinedExact for every validated program: ubpf_exec() stops a run     *)
(* before the first use of what has no value, and no other run.            *)
THEOREM ShadowIsExact == ShadowSpec => []UndefinedExact
<1>1. ShadowInit => UndefinedExact BY DEF ShadowInit, UndefinedExact, UsesDefined, NoFalseAlarm
<1>2. Types /\ Shadows /\ UndefinedExact /\ [ShadowNext]_shadowVars => Types' /\ Shadows' /\ UndefinedExact'
  BY NextExact
<1> QED BY <1>1, <1>2, InitInv, PTL DEF ShadowSpec

-----------------------------------------------------------------------------
(* As long as a call can be made, the current usage is that of the         *)
(* function that is running, or control has just come to its beginning.    *)
JustEntered == previous_inst = Empty \/ LocalCall(previous_inst)
Current == Entry(Len(calls) + 1)

Usages ==
  /\ phase = "start" => calls = << >> /\ at = 0 /\ previous_inst = Empty
  /\ phase = "run" /\ Len(calls) < CallDepth =>
       /\ JustEntered => at = Current /\ StartsFunction(at)
       /\ ~JustEntered => usage = UsageOf(Current)
  /\ FrameUsage

LEMMA OwnUsage ==
  ASSUME Usages, phase = "run", ~FellThrough, Len(calls) < CallDepth
  PROVE  NextUsage = UsageOf(Current)
BY DEF Usages, JustEntered, LocalCall, FellThrough, NextUsage

LEMMA StopUsages ==
  ASSUME Usages, NEW how, how # "run", how # "start", Stop(how)
  PROVE  Usages'
BY DEF Usages, Stop, FrameUsage, Entry

(* Within a function.                                                      *)
LEMMA AdvanceUsages ==
  ASSUME Types, Usages, phase = "run", ~FellThrough, at < Len(code), NEW pc,
         Advance(code[at + 1], pc), ~LocalCall(code[at + 1]), UNCHANGED calls
  PROVE  Usages'
<1>1. code[at + 1] # Empty BY InstType, EmptyIsNone
<1>2. ~JustEntered' BY <1>1 DEF JustEntered, Advance, LocalCall
<1>3. Len(calls) < CallDepth => usage' = UsageOf(Current) BY OwnUsage DEF Advance
<1>4. Current' = Current /\ FrameUsage' BY DEF Current, Entry, Usages, FrameUsage, Advance
<1>5. phase' = "run" BY DEF Advance
<1> QED BY <1>2, <1>3, <1>4, <1>5 DEF Usages

LEMMA CallUsages ==
  ASSUME Types, Usages, phase = "run", ~FellThrough, at < Len(code), Len(calls) < CallDepth,
         LocalCall(code[at + 1]), Advance(code[at + 1], at + 1 + code[at + 1].imm),
         calls' = Append(calls, [return |-> at + 1, usage |-> NextUsage, kept |-> defined \cap CalleeSaved])
  PROVE  Usages'
<1> DEFINE n == Len(calls)
           c == [return |-> at + 1, usage |-> NextUsage, kept |-> defined \cap CalleeSaved]
           i == code[at + 1]
<1>1. c \in CallType /\ c.return = at + 1 /\ c.usage = NextUsage
  BY SMTT(30), NextUsageType DEF CallType, Types
<1>2. calls \in Seq(CallType) /\ n \in Nat /\ calls' = Append(calls, c) BY DEF Types
<1>3. NextUsage = UsageOf(Current) BY OwnUsage
<1> HIDE DEF c
<1>4. Len(calls') = n + 1 /\ calls'[n + 1] = c /\ (\A d \in 1 .. n : calls'[d] = calls[d])
      /\ DOMAIN calls' = 1 .. n + 1
  BY <1>1, <1>2
<1>5. code' = code /\ phase' = "run" /\ previous_inst' = i /\ at' = at + 1 + i.imm BY DEF Advance
<1>6. \A d \in 1 .. n + 1 : Entry(d)' = Entry(d)
  <2> TAKE d \in 1 .. n + 1
  <2>1. CASE d = 1 BY <2>1 DEF Entry
  <2>2. CASE d # 1
    <3>1. d - 1 \in 1 .. n BY <2>2, <1>2
    <3> QED BY <2>2, <3>1, <1>4, <1>5 DEF Entry
  <2> QED BY <2>1, <2>2
<1>7. FrameUsage'
  <2> SUFFICES ASSUME NEW d \in 1 .. n + 1 PROVE calls'[d].usage = UsageOf(Entry(d))
    BY <1>4, <1>6 DEF FrameUsage
  <2>1. CASE d = n + 1 BY <2>1, <1>1, <1>3, <1>4 DEF Current
  <2>2. CASE d # n + 1
    <3>1. d \in 1 .. n /\ d \in DOMAIN calls BY <2>2, <1>2
    <3> QED BY <3>1, <1>4 DEF Usages, FrameUsage
  <2> QED BY <2>1, <2>2
<1>8. JustEntered' BY <1>5 DEF JustEntered, LocalCall
<1>9. at' = Current'
  <2>1. Len(calls') + 1 = n + 2 /\ n + 2 # 1 /\ n + 2 - 1 = n + 1 BY <1>2, <1>4
  <2>2. Current' = c.return + code[c.return].imm BY SMTT(30), <2>1, <1>4, <1>5 DEF Current, Entry
  <2> QED BY <2>2, <1>1, <1>5
<1>10. StartsFunction(at)'
  <2>1. at + 1 \in DOMAIN code BY SMTT(30), InstType
  <2>2. i.op = "CALL" /\ i.src = 1 BY DEF LocalCall
  <2> QED BY SMTT(30), <2>1, <2>2, <1>5 DEF StartsFunction, int_funcs
<1> QED BY <1>5, <1>7, <1>8, <1>9, <1>10 DEF Usages

LEMMA ReturnUsages ==
  ASSUME Types, Usages, phase = "run", at < Len(code), ReturnLocal(code[at + 1])
  PROVE  Usages'
<1> DEFINE n == Len(calls)
           i == code[at + 1]
<1>1. calls \in Seq(CallType) /\ n \in Nat /\ n # 0 /\ n \in DOMAIN calls
  BY DEF Types, ReturnLocal
<1>2. calls' = SubSeq(calls, 1, n - 1) /\ usage' = calls[n].usage /\ previous_inst' = i
      /\ code' = code /\ phase' = "run" /\ i.op = "EXIT"
  BY DEF ReturnLocal
<1>3. calls' \in Seq(CallType) /\ Len(calls') = n - 1 /\ \A d \in 1 .. n - 1 : calls'[d] = calls[d]
  BY <1>1, <1>2, Popped
<1>4. \A d \in 1 .. n : Entry(d)' = Entry(d)
  <2> TAKE d \in 1 .. n
  <2>1. CASE d = 1 BY <2>1 DEF Entry
  <2>2. CASE d # 1
    <3>1. d - 1 \in 1 .. n - 1 BY <2>2, <1>1
    <3> QED BY <2>2, <3>1, <1>2, <1>3 DEF Entry
  <2> QED BY <2>1, <2>2
<1>5. FrameUsage'
  <2> SUFFICES ASSUME NEW d \in 1 .. n - 1 PROVE calls'[d].usage = UsageOf(Entry(d)')
    BY <1>3 DEF FrameUsage
  <2>1. d \in 1 .. n /\ d \in DOMAIN calls BY <1>1
  <2> QED BY <2>1, <1>3, <1>4 DEF Usages, FrameUsage
<1>6. usage' = UsageOf(Current')
  <2>1. Len(calls') + 1 = n /\ n \in 1 .. n BY <1>1, <1>3
  <2>2. Current' = Entry(n)
    <3>1. CASE n = 1 BY <2>1, <3>1 DEF Current, Entry
    <3>2. CASE n # 1
      <4>1. n - 1 \in 1 .. n - 1
        <5>1. n \in Nat /\ n # 0 BY <1>1
        <5> HIDE DEF n
        <5> QED BY <5>1, <3>2
      <4> QED BY <2>1, <3>2, <4>1, <1>2, <1>3 DEF Current, Entry
    <3> QED BY <3>1, <3>2
  <2>3. usage' = UsageOf(Entry(n)) BY <1>1, <1>2 DEF Usages, FrameUsage
  <2> QED BY <2>2, <2>3
<1>7. ~JustEntered'
  <2>1. i # Empty BY InstType, EmptyIsNone
  <2> QED BY <2>1, <1>2 DEF JustEntered, LocalCall
<1> QED BY <1>2, <1>5, <1>6, <1>7 DEF Usages

LEMMA PerformUsages ==
  ASSUME Types, Usages, phase = "run", ~FellThrough, at < Len(code), Perform(code[at + 1])
  PROVE  Usages'
<1> DEFINE i == code[at + 1]
<1>1. i \in Instructions BY InstType
<1>2. i.cls # "JMP" => ~LocalCall(i) BY <1>1 DEF Instructions, Jumps, LocalCall
<1>3. ASSUME NEW pc, Advance(i, pc), ~LocalCall(i), UNCHANGED calls PROVE Usages'
  BY <1>3, AdvanceUsages
<1> HIDE DEF i
<1>4. CASE UnknownOpcode(i) BY Zenon, <1>4, StopUsages DEF UnknownOpcode
<1>5. CASE Compute(i) BY <1>2, <1>3, <1>5 DEF Compute
<1>6. CASE LoadRegister(i) BY Zenon, <1>2, <1>3, <1>6, StopUsages DEF LoadRegister
<1>7. CASE Store(i) BY Zenon, <1>2, <1>3, <1>7, StopUsages DEF Store
<1>8. CASE Branch(i) BY <1>3, <1>8 DEF Branch, LocalCall
<1>9. CASE CallHelper(i) BY SMTT(30), <1>3, <1>9, StopUsages DEF CallHelper, LocalCall
<1>10. CASE CallLocal(i) BY Zenon, <1>10, CallUsages, StopUsages DEF CallLocal, LocalCall, i
<1>11. CASE ReturnLocal(i) BY <1>11, ReturnUsages DEF i
<1>12. CASE ExitProgram(i) BY <1>12, StopUsages DEF ExitProgram
<1> QED BY <1>4, <1>5, <1>6, <1>7, <1>8, <1>9, <1>10, <1>11, <1>12 DEF Perform, i

LEMMA NextUsages ==
  ASSUME Types, Usages, [ShadowNext]_shadowVars
  PROVE  Usages'
<1>1. ASSUME phase = "start", NEW p \in Codes, shadow_exec(p) PROVE Usages'
  <2>1. calls' = << >> /\ at' = 0 /\ previous_inst' = Empty /\ phase' = "run"
    BY <1>1 DEF shadow_exec, Usages
  <2>2. JustEntered' BY <2>1 DEF JustEntered
  <2>3. at' = Current' /\ StartsFunction(at)' BY <2>1 DEF Current, Entry, StartsFunction
  <2>4. FrameUsage' BY <2>1 DEF FrameUsage
  <2> QED BY <2>1, <2>2, <2>3, <2>4 DEF Usages
<1>2. CASE shadow_turn
  BY Zenon, <1>2, StopUsages, PerformUsages DEF shadow_turn
<1>3. CASE UNCHANGED shadowVars
  BY <1>3 DEF shadowVars, Usages, FrameUsage, Entry, Current, JustEntered, LocalCall, StartsFunction, int_funcs
<1> QED BY <1>1, <1>2, <1>3 DEF ShadowNext

(* FrameUsage for every program: because a run that falls into a function  *)
(* is stopped, a call moves the frame pointer by what its function uses.   *)
THEOREM FramesApart == ShadowSpec => []FrameUsage
<1>1. ShadowInit => Usages BY DEF ShadowInit, Usages, FrameUsage
<1>2. Types /\ Shadows /\ UndefinedExact /\ [ShadowNext]_shadowVars => Types' /\ Shadows' /\ UndefinedExact'
  BY NextExact
<1>3. ShadowInit => UndefinedExact BY DEF ShadowInit, UndefinedExact, UsesDefined, NoFalseAlarm
<1>4. Types /\ Usages /\ [ShadowNext]_shadowVars => Usages' BY NextUsages
<1>5. Usages => FrameUsage BY DEF Usages
<1> QED BY <1>1, <1>2, <1>3, <1>4, <1>5, InitInv, PTL DEF ShadowSpec
=============================================================================

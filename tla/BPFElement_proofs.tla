-------------------------- MODULE BPFElement_proofs --------------------------
(***************************************************************************)
(* Proofs about BPFElement, for any threads, files, programs, requests and *)
(* host writes.                                                            *)
(***************************************************************************)
EXTENDS BPFElement, UbpfVM_proofs, TLAPS

(* init_ubpf_vm() makes a VM without code.                                  *)
LEMMA CreateType == init_ubpf_vm \in VMs /\ init_ubpf_vm # NULL
  /\ init_ubpf_vm.jitted = NULL
<1> DEFINE v == [ubpf_create EXCEPT !.ext_funcs = RegisteredHelpers]
<1>1. v \in VMs /\ v.jitted = NULL /\ v.unwind_index = -1
  BY ElementAssumption DEF ubpf_create, VMs, JitModes
<1>2. init_ubpf_vm = [v EXCEPT !.unwind_index = UnwindIndex]
  BY <1>1 DEF init_ubpf_vm, ubpf_set_unwind_function_index
<1>3. UnwindIndex \in Int BY ElementAssumption, UbpfAssumption
<1> HIDE DEF v
<1>4. init_ubpf_vm \in VMs /\ init_ubpf_vm.jitted = NULL
  BY <1>1, <1>2, <1>3 DEF VMs
<1> QED BY <1>4, UbpfAssumption

-----------------------------------------------------------------------------
(* The inductive invariant holds initially.                                *)
LEMMA InitIInv == Init => IInv
BY Zenon, ElementAssumption, UbpfAssumption
   DEF Init, IInv, TypeOK, LockInv, PhaseInv, JittedIsLoaded, ReadyInv, Ready,
       VerifiedInv, ExecStable, Contents, Locked

(* Steps of a packet thread leave the element alone, so only what relates  *)
(* threads to the lock and to their program is at stake.                   *)
LEMMA PacketStep ==
  ASSUME IInv, NEW t \in PacketThreads, push(t) \/ rlock(t) \/ runlock(t)
  PROVE  IInv'
<1> USE DEF IInv
<1>1. CASE push(t)
  BY <1>1 DEF push, TypeOK, LockInv, PhaseInv, JittedIsLoaded, ReadyInv, Ready,
              VerifiedInv, ExecStable, fieldVars, lockVars, ctlVars
<1>2. CASE rlock(t)
  <2> USE <1>2 DEF rlock, fieldVars, ctlVars
  <2>1. router = "running" /\ vm \in VMs /\ vm # NULL /\ Ready
    BY DEF PhaseInv, ReadyInv, TypeOK
  <2>2. /\ exec \in [prog: Programs \cup {"fault", "error"}, native: BOOLEAN]
        /\ exec.prog = vm.insts /\ exec.prog \in Programs
        /\ exec.native => vm.jitted # NULL /\ vm.jitted.prog = vm.insts
    BY <2>1 DEF exec, Ready, JittedIsLoaded, VMs, TypeOK
  <2>3. TypeOK' BY <2>2 DEF TypeOK
  <2>4. LockInv' BY DEF LockInv, TypeOK
  <2>5. ExecStable'
    <3> HIDE DEF rlock
    <3> SUFFICES ASSUME NEW u \in PacketThreads, ppc'[u] = "exec"
                 PROVE  /\ vm' # NULL /\ run'[u].prog = vm'.insts
                        /\ run'[u].prog \in Programs
                        /\ run'[u].native => vm'.jitted # NULL
                                             /\ vm'.jitted.prog = vm'.insts
      BY DEF ExecStable
    <3>1. CASE u = t BY <3>1, <2>1, <2>2 DEF TypeOK, rlock
    <3>2. CASE u # t BY <3>2 DEF TypeOK, ExecStable, rlock
    <3> QED BY <3>1, <3>2
  <2> QED BY <2>1, <2>3, <2>4, <2>5
          DEF PhaseInv, JittedIsLoaded, ReadyInv, Ready, VerifiedInv, TypeOK
<1>3. CASE runlock(t)
  BY <1>3 DEF runlock, TypeOK, LockInv, PhaseInv, JittedIsLoaded, ReadyInv, Ready,
              VerifiedInv, ExecStable, fieldVars, ctlVars
<1> QED BY <1>1, <1>2, <1>3

(* Args changes the fields exec() reads, yet not _jit: the control request *)
(* has no JIT key.                                                         *)
LEMMA ConfigureStep ==
  ASSUME IInv, NEW r \in BootRequests \cup Requests, configure(r)
  PROVE  IInv'
<1> USE DEF IInv, configure
<1>1. r \in Configurations BY ElementAssumption
<1>2. /\ ReadBool(r.jit, jit) \in BOOLEAN /\ ReadBool(r.dump, dump_jit) \in BOOLEAN
      /\ r.file \in Files /\ r.sig \in Files
  BY Zenon, <1>1 DEF ReadBool, Configurations, TypeOK
<1>3. router = "running" => jit' = jit
  BY ControlAssumption DEF ReadBool
<1>4. TypeOK' BY <1>2 DEF TypeOK, lockVars, pktVars
<1>5. LockInv' BY DEF LockInv, lockVars, pktVars, Locked
<1>6. PhaseInv' BY Zenon, <1>2 DEF PhaseInv, pktVars, Locked, TypeOK
<1>7. ReadyInv' BY <1>3 DEF ReadyInv, Ready, lockVars
<1>8. VerifiedInv' BY DEF VerifiedInv, lockVars
<1> QED BY <1>4, <1>5, <1>6, <1>7, <1>8 DEF JittedIsLoaded, ExecStable, pktVars

(* Before the lock: reading the program file, creating the VM, waiting.    *)
LEMMA UnlockedStep ==
  ASSUME IInv, configure_refused \/ read_file_fails \/ read_file \/ wlock
  PROVE  IInv'
<1> USE DEF IInv
<1>1. CASE read_file_fails
  BY <1>1 DEF read_file_fails, Return, Contents, TypeOK, LockInv, PhaseInv, JittedIsLoaded, ReadyInv, Ready,
         VerifiedInv, ExecStable, fieldVars, pktVars, lockVars, ctlVars, Locked
<1>2. CASE read_file
  BY <1>2, CreateType DEF read_file, Contents, TypeOK, LockInv, PhaseInv, JittedIsLoaded, ReadyInv, Ready,
         VerifiedInv, ExecStable, fieldVars, pktVars, lockVars, ctlVars, Locked
<1>3. CASE wlock
  BY <1>3 DEF wlock, TypeOK, LockInv, PhaseInv, JittedIsLoaded, ReadyInv, Ready,
         VerifiedInv, ExecStable, fieldVars, pktVars, lockVars, ctlVars, Locked
<1>4. CASE configure_refused
  BY <1>4 DEF configure_refused, Return, Contents, TypeOK, LockInv, PhaseInv, JittedIsLoaded, ReadyInv, Ready,
         VerifiedInv, ExecStable, fieldVars, pktVars, lockVars, ctlVars, Locked
<1> QED BY <1>1, <1>2, <1>3, <1>4

(* Under the lock no packet is inside exec(), and none can enter.          *)
LEMMA NoPacket ==
  ASSUME IInv, writer
  PROVE  \A t \in PacketThreads : ppc[t] # "exec"
BY DEF IInv, LockInv

(* So whatever is done to the VM under the lock, no running packet notices. *)
LEMMA UnderLock ==
  ASSUME IInv, writer, UNCHANGED pktVars
  PROVE  ExecStable'
<1>1. ppc' = ppc BY DEF pktVars
<1>2. \A t \in PacketThreads : ppc[t] # "exec" BY NoPacket
<1> QED BY <1>1, <1>2 DEF ExecStable

LEMMA LoadStep ==
  ASSUME IInv, load_elf \/ load_elf_fails
  PROVE  IInv'
<1> USE DEF IInv
<1>1. cpc = "locked" /\ writer /\ vm \in VMs /\ vm # NULL /\ bpf_file \in Files
  BY DEF load_elf, load_elf_fails, LockInv, PhaseInv, Locked, TypeOK
<1>2. Unloaded \in VMs /\ (Unloaded.jitted # NULL => Unloaded.jitted.prog = Unloaded.insts)
  BY <1>1, UnloadType DEF Unloaded, JittedIsLoaded
<1>3. CASE load_elf
  <2>1. /\ vm' \in VMs /\ vm'.insts = buffer /\ buffer \in Programs
        /\ vm'.jitted = NULL
    <3>1. /\ vm' \in VMs /\ vm'.insts = buffer /\ buffer \in Programs
          /\ vm'.jitted = Unloaded.jitted
      BY <1>2, <1>3, LoadType DEF load_elf
    <3>2. Unloaded.jitted = NULL
      BY <1>2, <1>3, UbpfAssumption DEF load_elf, CanLoad, VMs, NativeCode
    <3> QED BY <3>1, <3>2
  <2>t. TypeOK' BY <1>1, <1>3, <2>1, NoPacket, UbpfAssumption DEF load_elf, TypeOK, fieldVars, pktVars, lockVars, ctlVars
  <2>l. LockInv' BY <1>1, <1>3, <2>1, NoPacket, UbpfAssumption DEF load_elf, LockInv, Locked, fieldVars, pktVars, lockVars, ctlVars
  <2>p. PhaseInv' BY <1>1, <1>3, <2>1, NoPacket, UbpfAssumption DEF load_elf, PhaseInv, Locked, TypeOK, fieldVars, pktVars, lockVars, ctlVars
  <2>r. ReadyInv' BY <1>1, <1>3, <2>1, NoPacket, UbpfAssumption DEF load_elf, ReadyInv, Ready, Locked, LockInv, fieldVars, pktVars, lockVars, ctlVars
  <2>v. VerifiedInv' BY <1>1, <1>3, <2>1, NoPacket, UbpfAssumption DEF load_elf, VerifiedInv, ReadyInv, PhaseInv, LockInv, Locked, TypeOK, fieldVars, pktVars, lockVars, ctlVars
  <2>j. JittedIsLoaded' BY <1>1, <1>3, <2>1 DEF load_elf, JittedIsLoaded
  <2>e. ExecStable' BY <1>1, <1>3, <2>1, UnderLock DEF load_elf
  <2> QED BY <2>t, <2>l, <2>p, <2>r, <2>v, <2>j, <2>e
<1>4. CASE load_elf_fails
  <2>t. TypeOK' BY <1>1, <1>2, <1>4, NoPacket, UbpfAssumption DEF load_elf_fails, Return, Contents, TypeOK, fieldVars, pktVars, lockVars, ctlVars
  <2>l. LockInv' BY <1>1, <1>2, <1>4, NoPacket, UbpfAssumption DEF load_elf_fails, Return, Contents, LockInv, Locked, fieldVars, pktVars, lockVars, ctlVars
  <2>p. PhaseInv' BY <1>1, <1>2, <1>4, NoPacket, UbpfAssumption DEF load_elf_fails, Return, Contents, PhaseInv, Locked, TypeOK, fieldVars, pktVars, lockVars, ctlVars
  <2>r. ReadyInv' BY <1>1, <1>2, <1>4, NoPacket, UbpfAssumption DEF load_elf_fails, Return, Contents, ReadyInv, Ready, Locked, LockInv, fieldVars, pktVars, lockVars, ctlVars
  <2>v. VerifiedInv' BY SMTT(30), <1>1, <1>2, <1>4, NoPacket, UbpfAssumption DEF load_elf_fails, Return, Contents, VerifiedInv, ReadyInv, PhaseInv, LockInv, Locked, TypeOK, fieldVars, pktVars, lockVars, ctlVars
  <2>j. JittedIsLoaded' BY <1>1, <1>2, <1>4 DEF load_elf_fails, JittedIsLoaded
  <2>e. ExecStable' BY <1>1, <1>2, <1>4, UnderLock DEF load_elf_fails, Return
  <2> QED BY <2>t, <2>l, <2>p, <2>r, <2>v, <2>j, <2>e
<1> QED BY <1>3, <1>4

(* The signature check decides whether the loaded program is verified: it  *)
(* reads the file again, and finds what was loaded if the host waited.     *)
LEMMA SignatureStep ==
  ASSUME IInv, check_signature \/ check_signature_fails
  PROVE  IInv'
<1> USE DEF IInv
<1>1. cpc = "loaded" /\ writer
  BY DEF check_signature, check_signature_fails, LockInv, Locked
<1>2. CASE check_signature
  <2>1. HostWaits => vm.insts \in Verified
    <3>1. SignedBy[fs[signature_file]] = fs[bpf_file] /\ fs[signature_file] \in Signatures
      BY <1>2 DEF check_signature, SignatureOK
    <3>2. HostWaits => vm.insts = fs[bpf_file] BY <1>1 DEF VerifiedInv, ReadyInv
    <3>3. fs[bpf_file] \in Programs BY <3>1, ElementAssumption
    <3> QED BY SMTT(30), <3>1, <3>2, <3>3 DEF Verified
  <2>t. TypeOK' BY <1>1, <1>2, <2>1 DEF check_signature, TypeOK, fieldVars, pktVars, lockVars, ctlVars
  <2>l. LockInv' BY <1>1, <1>2, <2>1 DEF check_signature, LockInv, Locked, fieldVars, pktVars, lockVars, ctlVars
  <2>p. PhaseInv' BY <1>1, <1>2, <2>1 DEF check_signature, PhaseInv, Locked, TypeOK, fieldVars, pktVars, lockVars, ctlVars
  <2>r. ReadyInv' BY <1>1, <1>2, <2>1 DEF check_signature, ReadyInv, Ready, Locked, LockInv, fieldVars, pktVars, lockVars, ctlVars
  <2>v. VerifiedInv' BY <1>1, <1>2, <2>1 DEF check_signature, VerifiedInv, ReadyInv, PhaseInv, LockInv, Locked, TypeOK, fieldVars, pktVars, lockVars, ctlVars
  <2>j. JittedIsLoaded' BY <1>1, <1>2, <2>1 DEF check_signature, JittedIsLoaded, fieldVars, lockVars
  <2>e. ExecStable' BY <1>1, <1>2, <2>1 DEF check_signature, ExecStable, fieldVars, pktVars, lockVars, ctlVars
  <2> QED BY <2>t, <2>l, <2>p, <2>r, <2>v, <2>j, <2>e
<1>3. CASE check_signature_fails
  <2> USE <1>3 DEF check_signature_fails, Return
  <2>t. TypeOK' BY DEF TypeOK, Contents, fieldVars, pktVars, lockVars
  <2>l. LockInv' BY <1>1 DEF LockInv, Locked, pktVars, lockVars
  <2>p. PhaseInv' BY <1>1 DEF PhaseInv, Locked, TypeOK, fieldVars, pktVars, lockVars
  <2>r. ReadyInv' BY <1>1 DEF ReadyInv, Ready, fieldVars, lockVars
  <2>v. VerifiedInv' BY <1>1 DEF VerifiedInv, fieldVars, lockVars
  <2>j. JittedIsLoaded' BY DEF JittedIsLoaded
  <2>e. ExecStable' BY <1>1, UnderLock
  <2> QED BY <2>t, <2>l, <2>p, <2>r, <2>v, <2>j, <2>e
<1> QED BY <1>2, <1>3

LEMMA CompileStep ==
  ASSUME IInv, NEW mapped \in BOOLEAN,
         skip_compile \/ compile(mapped) \/ compile_fails(mapped)
  PROVE  IInv'
<1> USE DEF IInv
<1>1. cpc = "checked" /\ writer /\ vm \in VMs /\ vm # NULL
  BY DEF skip_compile, compile, compile_fails, LockInv, PhaseInv, Locked, TypeOK
<1>2. /\ Compiled(mapped) \in VMs /\ Compiled(mapped).insts = vm.insts
      /\ Compiled(mapped).jitted # NULL => Compiled(mapped).jitted.prog = vm.insts
  BY <1>1, CompileType DEF Compiled, JittedIsLoaded, JitModes
<1>3. CASE skip_compile
  <2>t. TypeOK' BY <1>1, <1>3 DEF skip_compile, TypeOK, fieldVars, pktVars, lockVars, ctlVars
  <2>l. LockInv' BY <1>1, <1>3 DEF skip_compile, LockInv, Locked, fieldVars, pktVars, lockVars, ctlVars
  <2>p. PhaseInv' BY <1>1, <1>3 DEF skip_compile, PhaseInv, Locked, TypeOK, fieldVars, pktVars, lockVars, ctlVars
  <2>r. ReadyInv' BY <1>1, <1>3 DEF skip_compile, ReadyInv, Ready, Locked, LockInv, fieldVars, pktVars, lockVars, ctlVars
  <2>v. VerifiedInv' BY <1>1, <1>3 DEF skip_compile, VerifiedInv, ReadyInv, PhaseInv, LockInv, Locked, TypeOK, fieldVars, pktVars, lockVars, ctlVars
  <2>j. JittedIsLoaded' BY <1>1, <1>3 DEF skip_compile, JittedIsLoaded, fieldVars, lockVars
  <2>e. ExecStable' BY <1>1, <1>3 DEF skip_compile, ExecStable, fieldVars, pktVars, lockVars, ctlVars
  <2> QED BY <2>t, <2>l, <2>p, <2>r, <2>v, <2>j, <2>e
<1>4. CASE compile(mapped)
  <2>t. TypeOK' BY <1>1, <1>2, <1>4, NoPacket, UbpfAssumption DEF compile, TypeOK, fieldVars, pktVars, lockVars, ctlVars
  <2>l. LockInv' BY <1>1, <1>2, <1>4, NoPacket, UbpfAssumption DEF compile, LockInv, Locked, fieldVars, pktVars, lockVars, ctlVars
  <2>p. PhaseInv' BY <1>1, <1>2, <1>4, NoPacket, UbpfAssumption DEF compile, PhaseInv, Locked, TypeOK, fieldVars, pktVars, lockVars, ctlVars
  <2>r. ReadyInv' BY <1>1, <1>2, <1>4, NoPacket, UbpfAssumption DEF compile, ReadyInv, Ready, Locked, LockInv, fieldVars, pktVars, lockVars, ctlVars
  <2>v. VerifiedInv' BY <1>1, <1>2, <1>4, NoPacket, UbpfAssumption DEF compile, VerifiedInv, ReadyInv, PhaseInv, LockInv, Locked, TypeOK, fieldVars, pktVars, lockVars, ctlVars
  <2>j. JittedIsLoaded' BY <1>1, <1>2, <1>4 DEF compile, JittedIsLoaded
  <2>e. ExecStable' BY <1>1, <1>2, <1>4, UnderLock DEF compile
  <2> QED BY <2>t, <2>l, <2>p, <2>r, <2>v, <2>j, <2>e
<1>5. CASE compile_fails(mapped)
  BY <1>1, <1>2, <1>5, NoPacket, UbpfAssumption
     DEF compile_fails, Return, Contents, TypeOK, LockInv, PhaseInv, JittedIsLoaded, ReadyInv, Ready,
         VerifiedInv, ExecStable, fieldVars, pktVars, lockVars, ctlVars, Locked
<1> QED BY <1>3, <1>4, <1>5

LEMMA FinishStep ==
  ASSUME IInv, (\E ok \in BOOLEAN : handle_jit_dump(ok)) \/ wunlock
  PROVE  IInv'
<1> USE DEF IInv
<1>1. CASE \E ok \in BOOLEAN : handle_jit_dump(ok)
  <2>1. PICK ok \in BOOLEAN : handle_jit_dump(ok) BY <1>1
  <2>2. cpc = "compiled" /\ writer /\ vm \in VMs /\ vm # NULL
    BY <2>1 DEF handle_jit_dump, LockInv, PhaseInv, Locked, TypeOK
  <2>3. vm' \in VMs /\ vm'.insts = vm.insts /\ vm'.jitted = vm.jitted
    <3>1. vm.insts \in Programs BY <2>2 DEF ReadyInv, VMs
    <3> QED BY <2>1, <2>2, <3>1, TranslateType DEF handle_jit_dump, JitModes
  <2>t. TypeOK' BY <2>1, <2>2, <2>3, NoPacket, UbpfAssumption DEF handle_jit_dump, TypeOK, fieldVars, pktVars, lockVars, ctlVars
  <2>l. LockInv' BY <2>1, <2>2, <2>3, NoPacket, UbpfAssumption DEF handle_jit_dump, LockInv, Locked, fieldVars, pktVars, lockVars, ctlVars
  <2>p. PhaseInv' BY <2>1, <2>2, <2>3, NoPacket, UbpfAssumption DEF handle_jit_dump, PhaseInv, Locked, TypeOK, fieldVars, pktVars, lockVars, ctlVars
  <2>r. ReadyInv' BY <2>1, <2>2, <2>3, NoPacket, UbpfAssumption DEF handle_jit_dump, ReadyInv, Ready, Locked, LockInv, fieldVars, pktVars, lockVars, ctlVars
  <2>v. VerifiedInv' BY <2>1, <2>2, <2>3, NoPacket, UbpfAssumption DEF handle_jit_dump, VerifiedInv, ReadyInv, PhaseInv, LockInv, Locked, TypeOK, fieldVars, pktVars, lockVars, ctlVars
  <2>j. JittedIsLoaded' BY <2>1, <2>2, <2>3 DEF handle_jit_dump, JittedIsLoaded
  <2>e. ExecStable' BY <2>1, <2>2, <2>3, UnderLock DEF handle_jit_dump
  <2> QED BY <2>t, <2>l, <2>p, <2>r, <2>v, <2>j, <2>e
<1>2. CASE wunlock
  <2> USE <1>2 DEF wunlock, Return
  <2>1. cpc \in {"compiled", "dumped"} /\ vm # NULL /\ Ready
    BY DEF PhaseInv, Locked, ReadyInv
  <2>2. router' # "configuring" /\ (router = "running" => router' = "running")
    BY DEF TypeOK
  <2>3. TypeOK' BY Zenon DEF TypeOK, Contents, fieldVars, pktVars
  <2>4. LockInv' BY DEF LockInv, Locked, pktVars
  <2>5. PhaseInv' BY <2>1, <2>2 DEF PhaseInv, Locked, pktVars
  <2>6. ReadyInv' BY <2>1 DEF ReadyInv, Ready, fieldVars
  <2>7. VerifiedInv' BY <2>1 DEF VerifiedInv
  <2>8. JittedIsLoaded' BY DEF JittedIsLoaded
  <2>9. ExecStable' BY DEF ExecStable, pktVars
  <2> QED BY <2>3, <2>4, <2>5, <2>6, <2>7, <2>8, <2>9
<1> QED BY <1>1, <1>2

LEMMA HostStep ==
  ASSUME IInv, NEW w \in HostWrites, host_write(w)
  PROVE  IInv'
<1> USE DEF IInv
<1>1. w.file \in Files /\ w.content \in Contents BY ElementAssumption
<1>2. VerifiedInv'
  BY SMTT(30), <1>1 DEF host_write, VerifiedInv, TypeOK, fieldVars, ctlVars, lockVars, PhaseInv
<1> QED BY <1>1, <1>2 DEF host_write, TypeOK, LockInv, PhaseInv, JittedIsLoaded, ReadyInv, Ready,
         ExecStable, fieldVars, pktVars, lockVars, ctlVars, Locked

LEMMA StutterStep ==
  ASSUME IInv, UNCHANGED vars
  PROVE  IInv'
BY DEF IInv, vars, TypeOK, LockInv, PhaseInv, JittedIsLoaded, ReadyInv, Ready,
       VerifiedInv, ExecStable, fieldVars, pktVars, lockVars, ctlVars

(* Every step of the element keeps the inductive invariant.                *)
LEMMA NextIInv == IInv /\ [Next]_vars => IInv'
<1> SUFFICES ASSUME IInv, [Next]_vars PROVE IInv' OBVIOUS
<1>1. CASE \E t \in PacketThreads : push(t) \/ rlock(t) \/ runlock(t)
  BY <1>1, PacketStep
<1>2. CASE \E r \in BootRequests \cup Requests : configure(r)
  BY <1>2, ConfigureStep
<1>3. CASE configure_step
  <2>1. CASE read_file_fails \/ read_file \/ wlock BY <2>1, UnlockedStep
  <2>2. CASE load_elf \/ load_elf_fails BY <2>2, LoadStep
  <2>3. CASE check_signature \/ check_signature_fails BY <2>3, SignatureStep
  <2>4. CASE skip_compile BY Zenon, <2>4, CompileStep
  <2>5. CASE \E mapped \in {TRUE} \cup {~PageMapMayFail} :
               compile(mapped) \/ compile_fails(mapped)
    BY Zenon, <2>5, CompileStep, ElementAssumption
  <2>6. CASE (\E ok \in BOOLEAN : handle_jit_dump(ok)) \/ wunlock
    BY <2>6, FinishStep
  <2> QED BY Zenon, <1>3, <2>1, <2>2, <2>3, <2>4, <2>5, <2>6 DEF configure_step
<1>4. CASE \E w \in HostWrites : host_write(w) BY <1>4, HostStep
<1>5. CASE Halted \/ UNCHANGED vars BY <1>5, StutterStep DEF Halted
<1>6. CASE configure_refused BY <1>6, UnlockedStep
<1> QED BY <1>1, <1>2, <1>3, <1>4, <1>5, <1>6 DEF Next

LEMMA Invariance == Spec => []IInv
BY InitIInv, NextIInv, PTL DEF Spec

(* The variables of the element keep their types.                          *)
THEOREM TypeCorrect == Spec => []TypeOK
<1>1. IInv => TypeOK BY DEF IInv
<1> QED BY <1>1, Invariance, PTL

(* For any number of packet threads and any requests, configure() never    *)
(* frees, unmaps or replaces the program a packet is executing, and exec() *)
(* never calls native code that is not the translation of that program.    *)
THEOREM ExecIsStable == Spec => []ExecStable
<1>1. IInv => ExecStable BY DEF IInv
<1> QED BY <1>1, Invariance, PTL

LEMMA IInvRunsVerified == ASSUME HostWaits, IInv PROVE RunsVerified
<1> SUFFICES ASSUME NEW t \in PacketThreads, ppc[t] = "exec"
             PROVE  run[t].prog \in Verified
  BY DEF RunsVerified
<1>1. router = "running" /\ ~writer BY DEF IInv, PhaseInv, LockInv, TypeOK
<1> QED BY <1>1 DEF IInv, VerifiedInv, ExecStable

(* If the host leaves the files of a reconfiguration alone until they are  *)
(* checked, no packet is ever run by a program without a signature, after  *)
(* any sequence of successful and failed reconfigurations.                 *)
THEOREM OnlyVerifiedRuns == ASSUME HostWaits PROVE Spec => []RunsVerified
<1>1. IInv => RunsVerified BY IInvRunsVerified
<1> QED BY <1>1, Invariance, PTL

-----------------------------------------------------------------------------
(* The refinement, step by step.                                           *)
LEMMA RefinesInit == Init => LR!Init
BY DEF Init, LR!Init, LR!Idle, active, running

(* With the write lock taken, or the router not running, nothing runs and  *)
(* nothing is in force.                                                    *)
LEMMA NothingRuns ==
  ASSUME IInv, writer \/ router # "running"
  PROVE  active = NULL /\ running = LR!Idle
BY DEF IInv, LockInv, PhaseInv, active, running, LR!Idle

LEMMA InForce ==
  ASSUME IInv, HostWaits, router = "running", ~writer
  PROVE  active = vm.insts /\ active \in Verified /\ active # NULL
BY UbpfAssumption DEF IInv, VerifiedInv, active, Verified

LEMMA RefinesPacket ==
  ASSUME IInv, IInv', HostWaits,
         NEW t \in PacketThreads, push(t) \/ rlock(t) \/ runlock(t)
  PROVE  [LR!Next]_<<active, running>>
<1>1. active' = active
  BY DEF push, rlock, runlock, active, lockVars
<1>2. CASE push(t)
  BY <1>1, <1>2 DEF push, running, IInv, TypeOK
<1>3. CASE rlock(t)
  <2>1. router = "running" /\ ~writer
    BY <1>3 DEF rlock, IInv, PhaseInv
  <2>2. active # NULL /\ active = vm.insts BY <2>1, InForce
  <2>3. running[t] = NULL BY <1>3 DEF rlock, running
  <2>4. ppc'[t] = "exec" /\ run'[t].prog = active
    BY <1>3, <2>2 DEF rlock, IInv, TypeOK, ExecStable
  <2>5. running' = [running EXCEPT ![t] = active]
    BY Zenon, <1>3, <2>4 DEF rlock, running, IInv, TypeOK
  <2> QED BY Zenon, <1>1, <2>2, <2>3, <2>5 DEF LR!Next, LR!Start
<1>4. CASE runlock(t)
  <2>1. running[t] # NULL
    BY Zenon, <1>4, UbpfAssumption DEF runlock, running, IInv, ExecStable
  <2>2. running' = [running EXCEPT ![t] = NULL]
    BY Zenon, <1>4 DEF runlock, running, IInv, TypeOK
  <2> QED BY Zenon, <1>1, <2>1, <2>2 DEF LR!Next, LR!Finish
<1> QED BY <1>2, <1>3, <1>4

LEMMA RefinesConfigure ==
  ASSUME IInv, IInv', HostWaits, configure_step
  PROVE  [LR!Next]_<<active, running>>
<1>1. UNCHANGED pktVars /\ running' = running
  BY Zenon DEF configure_step, read_file, read_file_fails, wlock, load_elf, load_elf_fails,
         check_signature, check_signature_fails, skip_compile, compile, compile_fails,
         handle_jit_dump, wunlock, Return, running, pktVars
<1>2. CASE wlock
  <2>1. running = LR!Idle
    BY Zenon, <1>2 DEF wlock, IInv, LockInv, running, LR!Idle
  <2>2. active' = NULL BY <1>2 DEF wlock, active
  <2> QED BY SMTT(30), <1>1, <2>1, <2>2 DEF LR!Next, LR!Withdraw
<1>3. CASE wunlock
  <2>1. writer BY <1>3 DEF wunlock, IInv, LockInv, Locked
  <2>2. active = NULL /\ running = LR!Idle BY <2>1, NothingRuns
  <2>3. CASE router' = "running"
    <3>1. active' \in Verified
      BY <1>3, <2>3 DEF wunlock, active, IInv, VerifiedInv
    <3> QED BY <1>1, <2>2, <3>1 DEF LR!Next, LR!Install
  <2>4. CASE router' # "running" BY SMTT(30), <1>1, <2>2, <2>4 DEF active
  <2> QED BY <2>3, <2>4
<1>4. CASE read_file \/ read_file_fails
  BY <1>1, <1>4 DEF read_file, read_file_fails, Return, active, lockVars, IInv, PhaseInv, TypeOK
<1>5. CASE \/ load_elf \/ load_elf_fails \/ check_signature \/ check_signature_fails
           \/ skip_compile
           \/ \E mapped \in {TRUE} \cup {~PageMapMayFail} :
                 compile(mapped) \/ compile_fails(mapped)
           \/ \E ok \in BOOLEAN : handle_jit_dump(ok)
  <2>1. writer /\ writer'
    BY Zenon, <1>5 DEF load_elf, load_elf_fails, check_signature, check_signature_fails,
         skip_compile, compile, compile_fails, handle_jit_dump,
         lockVars, IInv, LockInv, Locked
  <2> QED BY SMTT(30), <1>1, <2>1 DEF active
<1> QED BY Zenon, <1>2, <1>3, <1>4, <1>5 DEF configure_step

(* Whatever the threads, the requests and the host do, the element does    *)
(* what LiveReconfiguration promises: one program in force at a time, no   *)
(* swap under a running packet, only verified programs in force.           *)
THEOREM Refinement == ASSUME HostWaits PROVE Spec => ImplementsLiveReconfiguration
<1>1. ASSUME IInv, IInv', [Next]_vars PROVE [LR!Next]_<<active, running>>
  <2>1. CASE \E t \in PacketThreads : push(t) \/ rlock(t) \/ runlock(t)
    BY <1>1, <2>1, RefinesPacket
  <2>2. CASE configure_step BY <1>1, <2>2, RefinesConfigure
  <2>3. CASE \E r \in BootRequests \cup Requests : configure(r)
    <3>1. UNCHANGED <<router, lockVars, vm, pktVars>> BY <2>3 DEF configure
    <3> QED BY <3>1 DEF lockVars, pktVars, active, running
  <2>4. CASE \E w \in HostWrites : host_write(w)
    <3>1. UNCHANGED <<router, lockVars, vm, pktVars>> BY <2>4 DEF host_write
    <3> QED BY <3>1 DEF lockVars, pktVars, active, running
  <2>5. CASE Halted \/ UNCHANGED vars
    <3>1. UNCHANGED <<router, lockVars, vm, pktVars>> BY <2>5 DEF Halted, vars
    <3> QED BY <3>1 DEF lockVars, pktVars, active, running
  <2>6. CASE configure_refused
    <3>1. (router = "running" <=> router' = "running") /\ UNCHANGED <<lockVars, vm, pktVars>>
      BY <2>6 DEF configure_refused, Return
    <3> QED BY <3>1 DEF lockVars, pktVars, active, running
  <2> QED BY <1>1, <2>1, <2>2, <2>3, <2>4, <2>5, <2>6 DEF Next
<1> QED BY <1>1, RefinesInit, Invariance, PTL
        DEF Spec, ImplementsLiveReconfiguration, LR!Spec
=============================================================================

----------------------------- MODULE BPFElement -----------------------------
(***************************************************************************)
(* One BPF element of the Click router (BPFilter, BPFClassifier or         *)
(* BPFRewriter).  Packet threads run the element's eBPF program under the  *)
(* read side of the element's lock; configure() replaces the program under *)
(* the write side.                                                         *)
(*                                                                         *)
(* A packet thread is a netdev dispatcher thread inside push().  Calls of  *)
(* configure() on one element never overlap: the first comes from the      *)
(* router thread before any packet flows, the others from the dispatcher   *)
(* thread of the control device, through Control::push() and the "config"  *)
(* handler.  So there is one control thread and its locals are variables.  *)
(***************************************************************************)
EXTENDS UbpfVM

CONSTANTS
  PacketThreads,
  RegisteredHelpers, UnwindIndex,   \* what init_ubpf_vm() registers
  Files,            \* names of program and signature files
  Signatures,       \* contents a signature file may have
  SignedBy,         \* SignedBy[s]: the program signature s was made for
  BootRequests,     \* configurations the click file may carry
  Requests,         \* configurations a control packet may carry
  InitialFS,        \* file systems the unikernel may boot with
  HostWrites,       \* [file, content] pairs the host may write at run time
  HostWaits,        \* TRUE: the host leaves files alone that are being checked
  PageMapMayFail,   \* TRUE: ukplat_page_map() may refuse the JIT mapping
  WriterPreference  \* TRUE: uk_rwlock admits no reader while a writer waits

Contents == Programs \cup Signatures \cup {NULL}    \* NULL: missing or empty

(* The keys of a configuration; "absent" for a key that is not given.      *)
Configurations == [file: Files, sig: Files, jit: {"absent", "true", "false"},
                   dump: {"absent", "true", "false"}]

ASSUME ElementAssumption ==
  /\ RegisteredHelpers \in Addresses
  /\ UnwindIndex \in 0 .. MAX_EXT_FUNCS - 1
  /\ Signatures \cap Programs = {}
  /\ NULL \notin Signatures
  /\ SignedBy \in [Signatures -> Programs]
  /\ BootRequests \subseteq Configurations
  /\ Requests \subseteq Configurations
  /\ InitialFS \subseteq [Files -> Contents]
  /\ HostWrites \subseteq [file: Files, content: Contents]
  /\ HostWaits \in BOOLEAN
  /\ PageMapMayFail \in BOOLEAN
  /\ WriterPreference \in BOOLEAN

(* Control writes "ID .., FILE .., SIGNATURE ..": no JIT key.              *)
ASSUME ControlAssumption == \A r \in Requests : r.jit = "absent"

Verified == {p \in Programs : \E s \in Signatures : SignedBy[s] = p}

VARIABLES
  fs,               \* the file system
  router,           \* "configuring", "running" or "failed"
  readers, writer,  \* _lock: threads on the read side, write side taken
  vm,               \* *_ubpf_vm, NULL before init_ubpf_vm()
  jit_fn,           \* _ubpf_jit_fn: "wild" (not initialised), "null", "code"
  jit, dump_jit, bpf_file, signature_file,   \* what Args stores
  ppc, run,         \* packet threads: place in push(), what exec() runs
  cpc, buffer, reconfigure   \* configure(): place and locals

fieldVars == <<jit, dump_jit, bpf_file, signature_file>>
pktVars   == <<ppc, run>>
ctlVars   == <<cpc, buffer, reconfigure>>
lockVars  == <<readers, writer>>
vars == <<fs, router, lockVars, vm, jit_fn, fieldVars, pktVars, ctlVars>>

(* exec(): what a packet meets.  A call through a pointer that does not    *)
(* lead to mapped code is a fault; ubpf_exec() without code an error.      *)
exec ==
  IF jit
    THEN IF jit_fn = "code" /\ vm.jitted # NULL
           THEN [prog |-> vm.jitted.prog, native |-> TRUE]
           ELSE [prog |-> "fault", native |-> TRUE]
    ELSE IF vm.insts # NULL
           THEN [prog |-> vm.insts, native |-> FALSE]
           ELSE [prog |-> "error", native |-> FALSE]

Init ==
  /\ fs \in InitialFS
  /\ router = "configuring"
  /\ readers = {} /\ writer = FALSE
  /\ vm = NULL /\ jit_fn = "wild"
  /\ jit \in BOOLEAN /\ dump_jit \in BOOLEAN       \* not initialised
  /\ bpf_file = NULL /\ signature_file = NULL
  /\ ppc = [t \in PacketThreads |-> "idle"]
  /\ run = [t \in PacketThreads |-> NULL]
  /\ cpc = "idle" /\ buffer = NULL /\ reconfigure = FALSE

-----------------------------------------------------------------------------
(* Packet threads: push() of the three element classes.                    *)

push(t) ==
  /\ router = "running" /\ ppc[t] = "idle"
  /\ ppc' = [ppc EXCEPT ![t] = "wait"]
  /\ UNCHANGED <<fs, router, lockVars, vm, jit_fn, fieldVars, run, ctlVars>>

rlock_bug(t) ==
  /\ ppc[t] = "wait"
  /\ readers' = readers \cup {t}
  /\ ppc' = [ppc EXCEPT ![t] = "exec"]
  /\ run' = [run EXCEPT ![t] = exec]
  /\ UNCHANGED <<fs, router, writer, vm, jit_fn, fieldVars, ctlVars>>

(* The lock is granted and exec() starts: it reads _jit and the code now.  *)
rlock(t) ==
  /\ ppc[t] = "wait" /\ ~writer
  /\ WriterPreference => cpc # "ready"
  /\ readers' = readers \cup {t}
  /\ ppc' = [ppc EXCEPT ![t] = "exec"]
  /\ run' = [run EXCEPT ![t] = exec]
  /\ UNCHANGED <<fs, router, writer, vm, jit_fn, fieldVars, ctlVars>>

(* exec() has returned; the packet goes on, or is killed, without the lock.*)
runlock(t) ==
  /\ ppc[t] = "exec"
  /\ readers' = readers \ {t}
  /\ ppc' = [ppc EXCEPT ![t] = "idle"]
  /\ run' = [run EXCEPT ![t] = NULL]
  /\ UNCHANGED <<fs, router, writer, vm, jit_fn, fieldVars, ctlVars>>

-----------------------------------------------------------------------------
(* configure(), step by step.                                              *)

ReadBool(key, old) == IF key = "absent" THEN old ELSE key = "true"

(* Args.  The fields change before the lock is taken.                      *)
configure(r) ==
  /\ cpc = "idle"
  /\ \/ router = "configuring" /\ r \in BootRequests
     \/ router = "running" /\ r \in Requests
  /\ jit' = ReadBool(r.jit, jit)
  /\ dump_jit' = ReadBool(r.dump, dump_jit)
  /\ bpf_file' = r.file /\ signature_file' = r.sig
  /\ reconfigure' = (vm # NULL)
  /\ cpc' = "args"
  /\ UNCHANGED <<fs, router, lockVars, vm, jit_fn, pktVars, buffer>>

(* The call returns.  An error of the first call makes the router fail to  *)
(* initialise; later ones only reach the error handler.                    *)
Return(rc) ==
  /\ cpc' = "idle" /\ buffer' = NULL
  /\ router' = IF router = "configuring"
                 THEN IF rc = 0 THEN "running" ELSE "failed"
                 ELSE router
  /\ UNCHANGED <<fs, fieldVars, pktVars, reconfigure>>

(* No configuration is given or Args finds fault with it: Args stores      *)
(* nothing then.                                                           *)
configure_refused ==
  /\ cpc = "idle" /\ router # "failed"
  /\ Return(-1)
  /\ UNCHANGED <<lockVars, vm, jit_fn>>

read_file_fails_bug ==
  /\ cpc = "args" /\ fs[bpf_file] = NULL
  /\ Return(-1)
  /\ writer' = TRUE
  /\ UNCHANGED <<readers, vm, jit_fn>>

read_file_fails ==
  /\ cpc = "args" /\ fs[bpf_file] = NULL
  /\ Return(-1)
  /\ UNCHANGED <<lockVars, vm, jit_fn>>

(* The helpers every element has and those of its class.                   *)
init_ubpf_vm ==
  ubpf_set_unwind_function_index(
    [ubpf_create EXCEPT !.ext_funcs = RegisteredHelpers], UnwindIndex)

(* The program file is read and, the first time, the VM created, for which *)
(* there is always enough memory.                                          *)
read_file ==
  /\ cpc = "args" /\ fs[bpf_file] # NULL
  /\ buffer' = fs[bpf_file]
  /\ vm' = IF reconfigure THEN vm ELSE init_ubpf_vm
  /\ cpc' = "ready"
  /\ UNCHANGED <<fs, router, lockVars, jit_fn, fieldVars, pktVars, reconfigure>>

wlock_bug ==
  /\ cpc = "ready"
  /\ writer' = TRUE
  /\ cpc' = "locked"
  /\ UNCHANGED <<fs, router, readers, vm, jit_fn, fieldVars, pktVars,
                 buffer, reconfigure>>

wlock ==
  /\ cpc = "ready" /\ readers = {} /\ ~writer
  /\ writer' = TRUE
  /\ cpc' = "locked"
  /\ UNCHANGED <<fs, router, readers, vm, jit_fn, fieldVars, pktVars,
                 buffer, reconfigure>>

Unloaded == IF reconfigure THEN ubpf_unload_code(vm) ELSE vm

load_elf ==
  /\ cpc = "locked" /\ CanLoad(Unloaded, buffer)
  /\ vm' = ubpf_load(Unloaded, buffer)
  /\ cpc' = "loaded"
  /\ UNCHANGED <<fs, router, lockVars, jit_fn, fieldVars, pktVars,
                 buffer, reconfigure>>

(* The old program is gone and the write lock stays taken.                 *)
load_elf_fails ==
  /\ cpc = "locked" /\ ~CanLoad(Unloaded, buffer)
  /\ vm' = Unloaded
  /\ Return(-1)
  /\ UNCHANGED <<lockVars, jit_fn>>

(* check_bpf_verification_signature() reads both files itself.             *)
SignatureOK ==
  LET p == fs[bpf_file]
      s == fs[signature_file]
  IN  s \in Signatures /\ SignedBy[s] = p

check_signature ==
  /\ cpc = "loaded" /\ SignatureOK
  /\ cpc' = "checked"
  /\ UNCHANGED <<fs, router, lockVars, vm, jit_fn, fieldVars, pktVars,
                 buffer, reconfigure>>

check_signature_fails_bug ==
  /\ cpc = "loaded" /\ ~SignatureOK
  /\ Return(-1)
  /\ writer' = FALSE
  /\ UNCHANGED <<readers, vm, jit_fn>>

(* The unverified program stays loaded and the write lock stays taken.     *)
check_signature_fails ==
  /\ cpc = "loaded" /\ ~SignatureOK
  /\ Return(-1)
  /\ UNCHANGED <<lockVars, vm, jit_fn>>

skip_compile ==
  /\ cpc = "checked" /\ ~jit
  /\ cpc' = "compiled"
  /\ UNCHANGED <<fs, router, lockVars, vm, jit_fn, fieldVars, pktVars,
                 buffer, reconfigure>>

Compiled(mapped) == ubpf_compile(vm, "Basic", mapped)

compile(mapped) ==
  /\ cpc = "checked" /\ jit /\ Compiled(mapped).jitted # NULL
  /\ vm' = Compiled(mapped) /\ jit_fn' = "code"
  /\ cpc' = "compiled"
  /\ UNCHANGED <<fs, router, lockVars, fieldVars, pktVars, buffer, reconfigure>>

(* The write lock stays taken here, too.                                   *)
compile_fails(mapped) ==
  /\ cpc = "checked" /\ jit /\ Compiled(mapped).jitted = NULL
  /\ vm' = Compiled(mapped) /\ jit_fn' = "null"
  /\ Return(-1)
  /\ UNCHANGED lockVars

(* handle_jit_dump() translates again, into a buffer whose size it never   *)
(* sets, so either outcome is possible; errors are only reported.          *)
handle_jit_dump(ok) ==
  /\ cpc = "compiled" /\ dump_jit
  /\ vm' = ubpf_translate(vm, "Basic", ok)
  /\ cpc' = "dumped"
  /\ UNCHANGED <<fs, router, lockVars, jit_fn, fieldVars, pktVars,
                 buffer, reconfigure>>

wunlock_bug ==
  /\ \/ cpc = "dumped"
     \/ cpc = "compiled" /\ ~dump_jit
  /\ Return(0)
  /\ UNCHANGED <<readers, writer, vm, jit_fn>>

wunlock ==
  /\ \/ cpc = "dumped"
     \/ cpc = "compiled" /\ ~dump_jit
  /\ writer' = FALSE
  /\ Return(0)
  /\ UNCHANGED <<readers, vm, jit_fn>>

-----------------------------------------------------------------------------
(* The host rewrites a file of the shared file system.                     *)
host_write(w) ==
  /\ HostWaits /\ cpc \in {"args", "ready", "locked", "loaded"}
       => w.file \notin {bpf_file, signature_file}
  /\ fs' = [fs EXCEPT ![w.file] = w.content]
  /\ UNCHANGED <<router, lockVars, vm, jit_fn, fieldVars, pktVars, ctlVars>>

configure_step ==
  \/ read_file \/ read_file_fails \/ wlock
  \/ load_elf \/ load_elf_fails
  \/ check_signature \/ check_signature_fails
  \/ skip_compile
  \/ \E mapped \in {TRUE} \cup {~PageMapMayFail} :
       compile(mapped) \/ compile_fails(mapped)
  \/ \E ok \in BOOLEAN : handle_jit_dump(ok)
  \/ wunlock

(* main() returns when the router fails to initialise: a final state.      *)
Halted == router = "failed" /\ UNCHANGED vars

Next ==
  \/ \E t \in PacketThreads : push(t) \/ rlock(t) \/ runlock(t)
  \/ \E r \in BootRequests \cup Requests : configure(r)
  \/ configure_refused
  \/ configure_step
  \/ \E w \in HostWrites : host_write(w)
  \/ Halted

Spec == Init /\ [][Next]_vars

(***************************************************************************)
(* Fairness.  The cooperative scheduler runs every ready thread, so a      *)
(* thread inside push() or configure() goes on; exec() returns because a   *)
(* verified program terminates; the lock grants the read side to a thread  *)
(* that finds it free again and again.  Nothing makes packets, control     *)
(* packets or host writes arrive.                                          *)
(***************************************************************************)
Fairness ==
  /\ \A t \in PacketThreads : SF_vars(rlock(t)) /\ WF_vars(runlock(t))
  /\ WF_vars(configure_step)

FairSpec == Spec /\ Fairness

-----------------------------------------------------------------------------
(* The variables keep their types, whatever the host writes and whichever  *)
(* requests arrive.                                                        *)
TypeOK ==
  /\ fs \in [Files -> Contents]
  /\ router \in {"configuring", "running", "failed"}
  /\ readers \subseteq PacketThreads
  /\ writer \in BOOLEAN
  /\ vm \in VMs \cup {NULL}
  /\ jit_fn \in {"wild", "null", "code"}
  /\ jit \in BOOLEAN /\ dump_jit \in BOOLEAN
  /\ bpf_file \in Files \cup {NULL} /\ signature_file \in Files \cup {NULL}
  /\ ppc \in [PacketThreads -> {"idle", "wait", "exec"}]
  /\ run \in [PacketThreads ->
       {NULL} \cup [prog: Programs \cup {"fault", "error"}, native: BOOLEAN]]
  /\ cpc \in {"idle", "args", "ready", "locked", "loaded", "checked",
              "compiled", "dumped"}
  /\ buffer \in Contents
  /\ reconfigure \in BOOLEAN

(* While a packet is inside exec(), the program it started with is the one *)
(* the VM holds, and native code it runs is mapped and is the translation  *)
(* of that program: configure() neither frees nor replaces what a packet   *)
(* is executing, and a packet never calls through a stale or unset         *)
(* _ubpf_jit_fn, although exec() trusts _jit alone and configure() writes  *)
(* _jit before it takes the lock.                                          *)
ExecStable ==
  \A t \in PacketThreads : ppc[t] = "exec" =>
    /\ vm # NULL /\ run[t].prog = vm.insts /\ run[t].prog \in Programs
    /\ run[t].native => vm.jitted # NULL /\ vm.jitted.prog = vm.insts

(* A packet is only ever run by a program some signature was made for: a   *)
(* program that configure() loaded before it found the signature wanting   *)
(* is never executed, because that error path keeps the write lock.        *)
RunsVerified ==
  \A t \in PacketThreads : ppc[t] = "exec" => run[t].prog \in Verified

-----------------------------------------------------------------------------
(* The inductive invariant behind the two, in named parts.                 *)

Locked == {"locked", "loaded", "checked", "compiled", "dumped"}

(* The read side is held by the packets inside exec(), never together with *)
(* the write side; configure() holds the latter from wlock on.             *)
LockInv ==
  /\ readers = {t \in PacketThreads : ppc[t] = "exec"}
  /\ writer => readers = {}
  /\ cpc \in Locked => writer

(* No packet before the first configure() returns 0; the VM exists from    *)
(* then on, and the files are named while configure() is at work.          *)
PhaseInv ==
  /\ router # "running" => \A t \in PacketThreads : ppc[t] = "idle"
  /\ cpc # "idle" => bpf_file \in Files /\ signature_file \in Files
  /\ router = "running" \/ cpc \in Locked \cup {"ready"} => vm # NULL
  /\ cpc = "args" => (reconfigure <=> vm # NULL)
  /\ router = "configuring" /\ cpc \in {"idle", "args"} => vm = NULL

(* Mapped native code is always the translation of the loaded program.     *)
JittedIsLoaded ==
  vm # NULL => (vm.jitted # NULL => vm.jitted.prog = vm.insts)

(* A program in force, or about to be, is loaded and ready to run in the   *)
(* mode _jit asks for.                                                     *)
Ready == /\ vm.insts # NULL
         /\ jit => jit_fn = "code" /\ vm.jitted # NULL
ReadyInv ==
  /\ cpc \in {"loaded", "checked", "compiled", "dumped"} =>
       vm.insts = buffer /\ vm.insts # NULL
  /\ cpc \in {"compiled", "dumped"} => Ready
  /\ router = "running" /\ ~writer => Ready

(* What is checked is what was loaded, if the host leaves it alone.        *)
VerifiedInv ==
  HostWaits =>
    /\ cpc \in {"ready", "locked", "loaded"} => buffer = fs[bpf_file]
    /\ cpc \in {"checked", "compiled", "dumped"} => vm.insts \in Verified
    /\ router = "running" /\ ~writer => vm.insts \in Verified

(* The invariant that carries the proofs: what each place of configure()   *)
(* and each state of the lock say of the VM, besides ExecStable.           *)
IInv == /\ TypeOK /\ LockInv /\ PhaseInv /\ JittedIsLoaded
        /\ ReadyInv /\ VerifiedInv /\ ExecStable

-----------------------------------------------------------------------------
(* A packet that waits for the read lock is decided, and a configure()     *)
(* call that has begun returns: swapping programs never stalls traffic for *)
(* good, and traffic never stalls the swap.                                *)
PacketsDecided ==
  \A t \in PacketThreads : ppc[t] = "wait" ~> ppc[t] = "idle"
ConfigureReturns == cpc # "idle" ~> cpc = "idle"

(***************************************************************************)
(* The element implements LiveReconfiguration.  A program is in force when *)
(* the router runs and nobody holds the write lock.                        *)
(***************************************************************************)
active == IF router = "running" /\ ~writer THEN vm.insts ELSE NULL
running == [t \in PacketThreads |-> IF ppc[t] = "exec" THEN run[t].prog ELSE NULL]

LR == INSTANCE LiveReconfiguration WITH active <- active, running <- running

(* Every behaviour of the element is one of LiveReconfiguration: packets   *)
(* run under the lock see one program each, a swap waits for them, and     *)
(* only verified programs come into force, on the error paths of           *)
(* configure() too.                                                        *)
ImplementsLiveReconfiguration == LR!Spec
=============================================================================

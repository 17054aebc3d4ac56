------------------------------- MODULE JitRun ------------------------------
(* A program is translated for one of the two processors, helpers are         *)
(* registered and replaced in the native code, and the native code runs. The  *)
(* processor is external: it does what the kinds of native instructions say,  *)
(* and faults when the host stack does not hold what an instruction takes.    *)
(* A step of a run is the native code from one eBPF instruction to the next.  *)
EXTENDS Integers, Sequences, FiniteSets, SequencesExt, FiniteSetsExt

CONSTANTS
  NIL, UBPF_MAX_INSTS, N_EXT_FUNCS, BasicJitMode,
  Archs,           \* of "x86", "arm64"
  JitPrograms,     \* programs that validate accepts
  Markers,         \* may a target be a special value of target_pc?
  Sizes,           \* sizes of the buffer
  Values, Usage, UnwindIndex,
  HelperAddresses, \* addresses of helpers
  RegisteredHelpers,  \* the helpers registered before the translation, by index
  MaxDepth,        \* bound on the nesting of calls in a run
  MaxUpdates       \* bound on registrations

X == INSTANCE JitX86 WITH NULL <- NIL, MAX_EXT_FUNCS <- N_EXT_FUNCS, StopsAtError <- TRUE
A == INSTANCE JitArm64 WITH NULL <- NIL, MAX_EXT_FUNCS <- N_EXT_FUNCS, StopsAtError <- FALSE

VARIABLES
  arch, program,   \* last translated
  dispatcher, ext_funcs,   \* what the VM has registered
  updates,
  js, pc,          \* state of the translator, and its place in the program
  native,          \* result of the translation
  m                \* the processor during a run

jitVars == <<arch, program, dispatcher, ext_funcs, updates, js, pc, native, m>>

NoNative == [status |-> "none", code |-> << >>, patches |-> {}, pc_locs |-> << >>, size |-> 0,
             dispatcher_loc |-> 0, helper_table_loc |-> 0]

Off == [at |-> "idle", rip |-> 0, stack |-> <<>>, r6 |-> 0, base |-> 0, ctx |-> NIL, fn |-> NIL,
        sixth |-> NIL, seventh |-> NIL, lea |-> 0, keepsp |-> 0, lr |-> 0, temp |-> 0,
        call |-> NIL]   \* the last call of a helper

Indexes == 0 .. N_EXT_FUNCS - 1

JitInit ==
  /\ arch \in Archs /\ program = <<>>
  /\ dispatcher \in HelperAddresses \cup {NIL} /\ ext_funcs = RegisteredHelpers
  /\ updates = 0 /\ js = NIL /\ pc = 0 /\ native = NoNative /\ m = Off

---------------------------------------------------------------------------
(* ubpf_translate_x86_64 and ubpf_translate_arm64, an instruction at a time.  *)

\* The targets of jumps and local calls.
TargetsOf(p) ==
  {X!JumpTarget(i, X!Inst(p, i)) : i \in {j \in 0 .. Len(p) - 1 :
      X!Inst(p, j).cls \in {"JMP", "JMP32"} /\ X!Inst(p, j).op \notin {"CALL", "EXIT"}}}
  \cup X!int_funcs(p)

\* The numbers of instructions that are also special values of target_pc.
Marker == IF arch = "x86" THEN X!TARGET_PC_RETPOLINE ELSE X!TARGET_PC_ENTER

translate_begins(p, size) ==
  LET s == X!initialize_jit_state_result(size) IN
  /\ native.status = "none"
  /\ Marker \in TargetsOf(p) => Markers
  /\ program' = p /\ pc' = 0
  /\ js' = IF arch = "x86" THEN X!emit_prologue(s) ELSE A!emit_prologue(s)
  /\ native' = [native EXCEPT !.status = "translating"]
  /\ UNCHANGED <<arch, dispatcher, ext_funcs, updates, m>>

translate_one ==
  /\ native.status = "translating" /\ pc < Len(program)
  /\ pc' = pc + 1
  /\ js' = IF arch = "x86" THEN X!translate_instruction(js, program, pc, Usage, UnwindIndex)
                           ELSE A!translate_instruction(js, program, pc, Usage, UnwindIndex)
  /\ UNCHANGED <<arch, program, dispatcher, ext_funcs, updates, native, m>>

\* The rest: what follows the program, and the patches. A buffer too small only
\* for what follows the program is not noticed: such code is "truncated" here.
Translated(s) ==
  LET patched == arch = "x86" => X!resolve_patchable_relatives(s)
  IN [status |-> CASE ~patched -> "failed"
                   [] patched /\ s.jit_status = "NoError" -> "complete"
                   [] OTHER -> "truncated",
      code |-> s.code, patches |-> IF arch = "x86" THEN X!Patches(s) ELSE A!Patches(s),
      pc_locs |-> s.pc_locs, size |-> s.offset,
      dispatcher_loc |-> s.dispatcher_loc, helper_table_loc |-> s.helper_table_loc]

translate_ends ==
  /\ native.status = "translating" /\ pc = Len(program)
  /\ native' = CASE js.jit_status # "NoError" -> [NoNative EXCEPT !.status = "failed"]
                 [] js.jit_status = "NoError" /\ arch = "x86" ->
                      Translated(X!emit_epilogue(js, dispatcher, ext_funcs))
                 [] OTHER -> Translated(A!emit_epilogue(js, dispatcher, ext_funcs))
  /\ pc' = 0 /\ js' = NIL
  /\ UNCHANGED <<arch, program, dispatcher, ext_funcs, updates, m>>

\* ubpf_jit_update_dispatcher_*, ubpf_jit_update_helper_*: the entry is
\* overwritten if it lies before the end. An entry that ends there does not.
WithPointer(n, loc, f) ==
  IF loc + 8 < n.size THEN [n EXCEPT !.code[loc].arg = f] ELSE n

\* Bounds: registrations are counted, and tried for programs that call helpers.
CallsHelper(p) == \E i \in DOMAIN p : p[i].op = "CALL" /\ p[i].src = 0

Updatable ==
  /\ native.status = "complete" /\ CallsHelper(program)
  /\ updates < MaxUpdates /\ updates' = updates + 1

ubpf_jit_update_dispatcher(f) ==
  /\ Updatable /\ dispatcher' = f
  /\ native' = WithPointer(native, native.dispatcher_loc, f)
  /\ UNCHANGED <<arch, program, ext_funcs, js, pc, m>>

ubpf_jit_update_helper(i, f) ==
  LET n == WithPointer(native, native.helper_table_loc + 8 * i, f) IN
  /\ Updatable /\ n # native
  /\ native' = n /\ ext_funcs' = [ext_funcs EXCEPT ![i] = f]
  /\ UNCHANGED <<arch, program, dispatcher, js, pc, m>>

---------------------------------------------------------------------------
(* The processor. Items on the stack are told apart by what put them there.   *)

Item(t, v) == [t |-> t, v |-> v]

Push(x, t, v) == [x EXCEPT !.stack = <<Item(t, v)>> \o @]

Top(x) == Head(x.stack)

Pop(x) == [x EXCEPT !.stack = Tail(@)]

Needs == [subbase |-> "usage", addbase |-> "usage", drop |-> "usage", restore |-> "saved", ret |-> "ret",
          setret |-> "ret", popctx |-> "ctx", poplr |-> "lr", loadframe |-> "frame"]

Faults(x, op) ==
  op.kind \in DOMAIN Needs /\ (x.stack = <<>> \/ Top(x).t # Needs[op.kind])

Fault(x) == [x EXCEPT !.at = "fault"]

Goes(x, where) == [x EXCEPT !.rip = where]

\* A helper is called and returns. Its seventh argument is the top of the stack
\* (x86) or in a register (Arm). The register of the context survives on Arm only.
Called(x) ==
  CASE x.fn = NIL \/ (arch = "x86" /\ (x.stack = <<>> \/ Top(x).t # "ctx")) -> Fault(x)
    [] OTHER -> [x EXCEPT !.ctx = IF arch = "x86" THEN NIL ELSE @,
                          !.call = [fn |-> x.fn, sixth |-> x.sixth,
                                    seventh |-> IF arch = "x86" THEN Top(x).v ELSE x.seventh]]

\* One native instruction. v is the value computed, taken how a condition goes.
Exec(x, v, taken) ==
  LET op == native.code[x.rip]
      next == x.rip + op.len
      to == IF arch = "x86" THEN X!Destination(x.rip, op, native.patches) ELSE A!Destination(x.rip, op, native.patches)
      y == Goes(x, next)
  IN CASE Faults(x, op) -> Fault(x)
       [] ~Faults(x, op) ->
          CASE op.kind = "plain" -> y
            [] op.kind = "set" -> [y EXCEPT !.r6 = v]
            [] op.kind = "setctx" -> [y EXCEPT !.ctx = "context"]
            [] op.kind = "clobberctx" -> [y EXCEPT !.ctx = "offset"]
            [] op.kind = "keepsp" -> [y EXCEPT !.keepsp = Len(x.stack)]
            [] op.kind = "restoresp" -> [y EXCEPT !.stack = SubSeq(@, Len(@) - x.keepsp + 1, Len(@))]
            [] op.kind = "setbase" -> [y EXCEPT !.base = 0]
            [] op.kind = "leave" -> IF x.stack = <<>> THEN [Off EXCEPT !.call = x.call] ELSE Fault(x)
            [] op.kind = "pushusage" -> Push(y, "usage", op.arg)
            [] op.kind = "drop" -> Pop(y)
            [] op.kind = "subbase" -> [y EXCEPT !.base = @ - Top(x).v, !.temp = Top(x).v]
            [] op.kind = "addbase" -> [y EXCEPT !.base = @ + Top(x).v]
            [] op.kind = "addtemp" -> [y EXCEPT !.base = @ + x.temp]
            [] op.kind = "save" -> Push(y, "saved", x.r6)
            [] op.kind = "restore" -> [Pop(y) EXCEPT !.r6 = Top(x).v]
            [] op.kind = "saveframe" -> Push(y, "frame", [lr |-> x.lr, temp |-> x.temp, r6 |-> x.r6])
            [] op.kind = "loadframe" -> [Pop(y) EXCEPT !.lr = Top(x).v.lr, !.temp = Top(x).v.temp, !.r6 = Top(x).v.r6]
            [] op.kind = "jmp" -> Goes(x, to)
            [] op.kind = "jcc" -> Goes(x, IF taken THEN to ELSE next)
            [] op.kind = "jnz" -> Goes(x, IF x.fn # NIL THEN to ELSE next)
            [] op.kind = "jmprel" -> Goes(x, next + op.arg)
            [] op.kind = "call" -> Goes(Push(x, "ret", next), to)
            [] op.kind = "callrel" -> Goes(Push(x, "ret", next), next + op.arg)
            [] op.kind = "bl" -> [x EXCEPT !.rip = to, !.lr = next]
            [] op.kind = "blr" -> Called([y EXCEPT !.lr = next])
            [] op.kind = "callrax" -> Called(y)
            [] op.kind = "ret" -> Goes(Pop(x), Top(x).v)
            [] op.kind = "retlr" -> Goes(x, x.lr)
            [] op.kind = "setret" -> [y EXCEPT !.stack[1].v = x.fn]
            [] op.kind = "pushctx" -> Push(y, "ctx", x.ctx)
            [] op.kind = "popctx" -> [Pop(y) EXCEPT !.ctx = Top(x).v]
            [] op.kind = "pushlr" -> Push(y, "lr", x.lr)
            [] op.kind = "poplr" -> [Pop(y) EXCEPT !.lr = Top(x).v]
            [] op.kind = "loadfn" -> [y EXCEPT !.fn = native.code[to].arg]
            [] op.kind = "lea" -> [y EXCEPT !.lea = to]
            [] op.kind = "loadentry" -> [y EXCEPT !.fn = native.code[x.lea + 8 * op.arg].arg]
            [] op.kind = "sixth_ctx" -> [y EXCEPT !.sixth = Item("ctx", x.ctx)]
            [] op.kind = "sixth_idx" -> [y EXCEPT !.sixth = Item("idx", op.arg)]
            [] op.kind = "seventh_ctx" -> [y EXCEPT !.seventh = x.ctx]
            [] op.kind = "data" -> Fault(x)

Locations == {native.pc_locs[i] : i \in DOMAIN native.pc_locs}

\* The native code up to the next eBPF instruction or the end.
RECURSIVE RunOn(_, _, _, _)
RunOn(x, v, taken, fuel) ==
  LET y == IF x.rip \in DOMAIN native.code THEN Exec(x, v, taken) ELSE Fault(x)
  IN CASE fuel = 0 -> Fault(x)
       [] fuel > 0 /\ (y.at # "running" \/ y.rip \in Locations) -> y
       [] OTHER -> RunOn(y, v, taken, fuel - 1)

Fuel == 100   \* more than the native instructions of an eBPF instruction

Depth(x) == Cardinality({i \in DOMAIN x.stack : x.stack[i].t \in {"saved", "frame"}})

---------------------------------------------------------------------------
PcAt(loc) == CHOOSE i \in DOMAIN native.pc_locs : native.pc_locs[i] = loc

InstAt(x) == X!Inst(program, PcAt(x.rip))

enter(v) ==
  /\ m.at = "idle" /\ native.status = "complete"
  /\ m' = RunOn([Off EXCEPT !.at = "running", !.r6 = v], v, FALSE, Fuel)
  /\ UNCHANGED <<arch, program, dispatcher, ext_funcs, updates, js, pc, native>>

step(v, taken) ==
  /\ m.at = "running"
  /\ InstAt(m).op = "CALL" /\ InstAt(m).src = 1 => Depth(m) < MaxDepth
  /\ m' = RunOn(m, v, taken, Fuel)
  /\ UNCHANGED <<arch, program, dispatcher, ext_funcs, updates, js, pc, native>>

JitNext ==
  \/ \E p \in JitPrograms, size \in Sizes : translate_begins(p, size)
  \/ translate_one
  \/ translate_ends
  \/ \E f \in HelperAddresses \cup {NIL} : ubpf_jit_update_dispatcher(f)
  \/ \E i \in Indexes, f \in HelperAddresses : ubpf_jit_update_helper(i, f)
  \/ \E v \in Values : enter(v)
  \/ \E v \in Values, taken \in BOOLEAN : step(v, taken)

JitSpec == JitInit /\ [][JitNext]_jitVars

---------------------------------------------------------------------------
(* The eBPF state that a state of the processor stands for.                   *)

\* A return address lies behind the code of a call: control returns to the
\* instruction after it.
ReturnPc(loc) == Max({i \in DOMAIN native.pc_locs : native.pc_locs[i] < loc}) + 1

\* x86: usage, return address and saved registers of each call from the top.
\* Arm: usage and frame; the return address of the topmost is in lr.
CallersX86 ==
  [k \in 1 .. (Len(m.stack) - 2) \div 3 |->
     [pc |-> ReturnPc(m.stack[3 * k - 1].v), r6 |-> m.stack[3 * k].v, usage |-> m.stack[3 * k + 1].v]]

CallersArm64 ==
  [k \in 1 .. (Len(m.stack) - 1) \div 2 |->
     [pc |-> ReturnPc(IF k = 1 THEN m.lr ELSE m.stack[2 * k - 2].v.lr),
      r6 |-> m.stack[2 * k].v.r6, usage |-> m.stack[2 * k + 1].v]]

Running == m.at = "running"

EC == INSTANCE EbpfControl WITH Programs <- JitPrograms,
  program <- IF Running THEN program ELSE <<>>,
  at <- m.at,
  pc <- IF Running THEN PcAt(m.rip) ELSE 0,
  r6 <- m.r6, base <- m.base,
  usage <- IF Running THEN Top(m).v ELSE 0,
  callers <- IF ~Running THEN <<>> ELSE IF arch = "x86" THEN CallersX86 ELSE CallersArm64

\* Native code does what the program says: each stretch of it between two eBPF
\* instructions goes where the instruction leads, calls and returns keep r6 to
\* r9, the stack's base moves by the caller's usage, and the top of the host
\* stack holds the usage of the function that executes (the invariant stated
\* above translate).
NativeRefines == EC!Spec

\* Arm keeps the context in the register that offsets outside -256 .. 255 go
\* through.
KeepsContext(p) ==
  arch = "arm64" => \A i \in DOMAIN p : p[i].cls \in {"LDX", "ST", "STX"} => A!Near(p[i].off)

\* A helper call reaches the dispatcher registered last with the index, or, when
\* there is none, the function registered last for the index. The dispatcher
\* gets the context of the run; the exception is native code for Arm of a
\* program that loads or stores at an offset outside -256 .. 255, for which the
\* property says nothing of the context.
HelperCall ==
  [][Running /\ m' # m /\ InstAt(m).op = "CALL" /\ InstAt(m).src = 0
     => IF dispatcher # NIL
        THEN /\ m'.call.fn = dispatcher /\ m'.call.sixth = Item("idx", InstAt(m).imm)
             /\ KeepsContext(program) => m'.call.seventh = "context"
        ELSE m'.call.fn = ext_funcs[InstAt(m).imm]]_jitVars

\* A translation that reports success has translated all of the program: every
\* instruction has a place, and places are in the order of the program.
AllTranslated ==
  native.status \in {"complete", "truncated"} =>
    /\ DOMAIN native.pc_locs = {i \in 0 .. Len(program) - 1 : i = 0 \/ X!Inst(program, i - 1).op # "LDDW"}
    /\ \A i, j \in DOMAIN native.pc_locs : i < j => native.pc_locs[i] < native.pc_locs[j]
=============================================================================

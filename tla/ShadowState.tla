----------------------------- MODULE ShadowState -----------------------------
(***************************************************************************)
(* ubpf_exec_ex() with the undefined-behaviour check and the bounds check  *)
(* on: the shadow registers, the shadow stack and the check that functions *)
(* are entered by calls.                                                   *)
(*                                                                         *)
(* An instruction is its class, its operation, whether the SRC_REG bit is  *)
(* set, its registers, offset, immediate and size.  Values are left out,   *)
(* but for the frame pointer: an access through r10 has an address in the  *)
(* stack, any other may or may not pass the bounds check.  The instruction *)
(* limit and the 16 bits of the program counter are Interpreter's.         *)
(***************************************************************************)
EXTENDS Integers, Sequences

CONSTANTS
  Codes,       \* validated programs
  StackLen,    \* stack_length
  UsageOf(_),  \* ubpf_stack_usage_for_local_func() of the function at a pc
  CallDepth,   \* UBPF_MAX_CALL_DEPTH
  UnwindAt     \* unwind_stack_extension_index

VARIABLES
  code, phase,           \* phase: "start", "run", or how the run ended
  at, previous_inst, fp, usage, calls,
  shadow_registers, shadow_stack,
  defined, written,      \* registers with a meaningful value, stack bytes stored to
  leaked,                \* callee-saved registers that only a callee has set
  undefined              \* what else the last instruction used undefined

shadowed == <<shadow_registers, shadow_stack>>
meaning == <<defined, written, leaked>>
shadowVars == <<code, phase, at, previous_inst, fp, usage, calls, shadowed, meaning, undefined>>

Scratch == 1 .. 5
CalleeSaved == 6 .. 9
Jumps == {"JA", "JEQ", "CALL", "EXIT"}

(* What validate() sees to: opcodes, registers and the targets of jumps    *)
(* and local calls.  Only programs that move something into r10, which it  *)
(* lets through, are left out.                                             *)
Instructions ==
  {i \in [cls : {"LD", "LDX", "ST", "STX", "ALU", "JMP"}, op : STRING, reg : BOOLEAN,
          dst : 0 .. 10, src : 0 .. 10, off : Int, imm : Int, size : Nat] :
     /\ i.cls = "JMP" <=> i.op \in Jumps
     /\ i.cls = "LD" <=> i.op \in {"LDDW", "ZERO"}
     /\ i.op \in Jumps \ {"JEQ"} => ~i.reg
     /\ i.op = "CALL" => i.src \in {0, 1}
     /\ i.cls \in {"LD", "LDX", "ALU"} => i.dst # 10}

Validated(p) ==
  \A j \in DOMAIN p :
    /\ p[j].op \in {"JA", "JEQ"} => p[j].off # -1 /\ j + p[j].off \in 0 .. Len(p) - 1
    /\ p[j].op = "CALL" /\ p[j].src = 1 => j + p[j].imm \in 0 .. Len(p) - 1

ASSUME ShadowAssumption ==
  /\ Codes \subseteq {p \in Seq(Instructions) : Validated(p)}
  /\ \A p \in Codes : \A pc \in 0 .. Len(p) - 1 : UsageOf(pc) \in Nat
  /\ CallDepth \in Nat

Empty == [cls |-> "none", op |-> "none", reg |-> FALSE, dst |-> 0, src |-> 0, off |-> 0, imm |-> 0, size |-> 0]

-----------------------------------------------------------------------------
(* ubpf_validate_shadow_register()                                         *)

src_register_required_bug(i) ==
  \/ i.cls = "LDX"
  \/ i.cls = "ALU" /\ i.reg
  \/ i.cls = "JMP" /\ i.reg /\ i.op \notin {"JA", "CALL", "EXIT"}

src_register_required(i) ==
  \/ i.cls \in {"LDX", "STX"}
  \/ i.cls = "ALU" /\ i.reg
  \/ i.cls = "JMP" /\ i.reg /\ i.op \notin {"JA", "CALL", "EXIT"}

dst_register_required(i) ==
  \/ i.cls \in {"ST", "STX"}
  \/ i.cls = "ALU" /\ i.op # "MOV"
  \/ i.cls = "JMP" /\ i.op \notin {"JA", "CALL", "EXIT"}

dst_register_initialized(i) == i.cls \in {"LD", "LDX", "ALU"}

ubpf_validate_shadow_register(i) ==
  /\ src_register_required(i) => i.src \in shadow_registers
  /\ dst_register_required(i) => i.dst \in shadow_registers
  /\ i.op = "EXIT" => 0 \in shadow_registers

MarkedRegisters(i) ==
  CASE dst_register_initialized(i) -> shadow_registers \cup {i.dst}
    [] i.op = "CALL" /\ i.src = 0  -> (shadow_registers \cup {0}) \ Scratch
    [] i.op = "EXIT"               -> shadow_registers \ Scratch
    [] OTHER                       -> shadow_registers

-----------------------------------------------------------------------------
(* The stack: its bytes are numbered from 0.                               *)

OnStack(r) == r = 10
Bytes(a, n) == a .. a + n - 1
InStack(a, n) == a >= 0 /\ a + n <= StackLen

ubpf_mark_shadow_stack(a, n) ==
  IF InStack(a, n) THEN shadow_stack \cup Bytes(a, n) ELSE shadow_stack

ubpf_check_shadow_stack(a, n) == InStack(a, n) => Bytes(a, n) \subseteq shadow_stack

-----------------------------------------------------------------------------
(* What the instruction means, whatever is checked.                        *)

UsedRegisters(i) ==
  (IF i.cls \in {"LDX", "STX"} \/ (i.cls \in {"ALU", "JMP"} /\ i.reg /\ i.op \notin {"BE", "CALL"})
     THEN {i.src} ELSE {}) \cup
  (IF i.cls \in {"ST", "STX"} \/ (i.cls = "ALU" /\ i.op # "MOV") \/ i.op = "JEQ"
     THEN {i.dst} ELSE {}) \cup
  (IF i.op = "EXIT" THEN {0} ELSE {})

UndefinedOf(i) ==
  {<<"register", r>> : r \in UsedRegisters(i) \ (defined \cup leaked)} \cup
  (IF i.cls = "LDX" /\ OnStack(i.src) /\ InStack(fp + i.off, i.size)
     THEN {<<"byte", b>> : b \in Bytes(fp + i.off, i.size) \ written} ELSE {})

-----------------------------------------------------------------------------
ShadowInit ==
  /\ code = << >> /\ phase = "start" /\ at = 0 /\ previous_inst = Empty
  /\ fp = StackLen /\ usage = 0 /\ calls = << >>
  /\ shadow_registers = {1, 2, 10} /\ shadow_stack = {}
  /\ defined = {1, 2, 10} /\ written = {} /\ leaked = {} /\ undefined = {}

(* The head of ubpf_exec_ex(), on the stack of a fresh run.                *)
shadow_exec(p) ==
  /\ code' = p /\ phase' = "run"
  /\ UNCHANGED <<at, previous_inst, fp, usage, calls, shadowed, meaning, undefined>>

int_funcs(pc) == \E j \in DOMAIN code :
  code[j].op = "CALL" /\ code[j].src = 1 /\ j + code[j].imm = pc
StartsFunction(pc) == pc = 0 \/ int_funcs(pc)
NextUsage == IF StartsFunction(at) /\ Len(calls) < CallDepth THEN UsageOf(at) ELSE usage

FellThrough_bug == FALSE

FellThrough ==
  /\ StartsFunction(at) /\ Len(calls) < CallDepth
  /\ previous_inst # Empty /\ ~(previous_inst.op = "CALL" /\ previous_inst.src = 1)

Stop(how) ==
  /\ phase' = how
  /\ UNCHANGED <<code, at, previous_inst, fp, usage, calls, shadowed, meaning>>

Defines(r) == defined' = defined \cup {r} /\ leaked' = leaked \ {r}

Advance(i, pc) ==
  /\ at' = pc /\ previous_inst' = i /\ usage' = NextUsage /\ shadow_registers' = MarkedRegisters(i)
  /\ UNCHANGED <<code, phase>>

(* A call may lead to the second slot of an LDDW.                          *)
UnknownOpcode(i) == i.op = "ZERO" /\ Stop("unknown opcode")

Compute(i) ==
  /\ i.cls \in {"LD", "ALU"} /\ i.op # "ZERO" /\ Defines(i.dst)
  /\ Advance(i, at + IF i.cls = "LD" THEN 2 ELSE 1) /\ UNCHANGED <<fp, calls, shadow_stack, written>>

(* BOUNDS_CHECK_LOAD, then the load.                                       *)
LoadRegister(i) ==
  LET a == fp + i.off IN
  /\ i.cls = "LDX"
  /\ \/ OnStack(i.src) /\ ~ubpf_check_shadow_stack(a, i.size) /\ Stop("undefined")
     \/ /\ OnStack(i.src) => ubpf_check_shadow_stack(a, i.size)
        /\ OnStack(i.src) => ~InStack(a, i.size)
        /\ Stop("out of bounds")
     \/ /\ OnStack(i.src) => ubpf_check_shadow_stack(a, i.size) /\ InStack(a, i.size)
        /\ Defines(i.dst) /\ Advance(i, at + 1) /\ UNCHANGED <<fp, calls, shadow_stack, written>>

(* BOUNDS_CHECK_STORE, then the store.                                     *)
Store(i) ==
  LET a == fp + i.off IN
  /\ i.cls \in {"ST", "STX"}
  /\ \/ (OnStack(i.dst) => ~InStack(a, i.size)) /\ Stop("out of bounds")
     \/ /\ OnStack(i.dst) => InStack(a, i.size)
        /\ shadow_stack' = IF OnStack(i.dst) THEN ubpf_mark_shadow_stack(a, i.size) ELSE shadow_stack
        /\ written' = IF OnStack(i.dst) THEN written \cup Bytes(a, i.size) ELSE written
        /\ Advance(i, at + 1) /\ UNCHANGED <<fp, calls, defined, leaked>>

Branch(i) ==
  /\ i.op \in {"JA", "JEQ"}
  /\ \E taken \in IF i.op = "JA" THEN {TRUE} ELSE BOOLEAN :
       Advance(i, at + 1 + IF taken THEN i.off ELSE 0)
  /\ UNCHANGED <<fp, calls, shadow_stack, meaning>>

(* The helper that unwinds ends the program when it returns 0.             *)
CallHelper(i) ==
  /\ i.op = "CALL" /\ i.src = 0
  /\ \/ i.imm = UnwindAt /\ Stop("done")
     \/ /\ defined' = (defined \cup {0}) \ Scratch
        /\ Advance(i, at + 1) /\ UNCHANGED <<fp, calls, shadow_stack, written, leaked>>

CallLocal(i) ==
  /\ i.op = "CALL" /\ i.src = 1
  /\ \/ Len(calls) >= CallDepth /\ Stop("too deep")
     \/ /\ Len(calls) < CallDepth
        /\ calls' = Append(calls, [return |-> at + 1, usage |-> NextUsage, kept |-> defined \cap CalleeSaved])
        /\ fp' = fp - NextUsage
        /\ Advance(i, at + 1 + i.imm) /\ UNCHANGED <<shadow_stack, meaning>>

(* The frame below gets its own stack usage back: it is in the array.      *)
ReturnLocal(i) ==
  LET f == calls[Len(calls)] IN
  /\ i.op = "EXIT" /\ calls # << >>
  /\ calls' = SubSeq(calls, 1, Len(calls) - 1) /\ fp' = fp + f.usage
  /\ at' = f.return /\ previous_inst' = i /\ usage' = f.usage
  /\ defined' = (defined \ (Scratch \cup CalleeSaved)) \cup f.kept
  /\ leaked' = ((defined \cup leaked) \cap CalleeSaved) \ f.kept
  /\ shadow_registers' = MarkedRegisters(i)
  /\ UNCHANGED <<code, phase, shadow_stack, written>>

ExitProgram(i) == i.op = "EXIT" /\ calls = << >> /\ Stop("done")

Perform(i) ==
  \/ UnknownOpcode(i) \/ Compute(i) \/ LoadRegister(i) \/ Store(i) \/ Branch(i)
  \/ CallHelper(i) \/ CallLocal(i) \/ ReturnLocal(i) \/ ExitProgram(i)

(* One turn of the loop.                                                   *)
shadow_turn ==
  /\ phase = "run"
  /\ \/ at >= Len(code) /\ Stop("off the end") /\ UNCHANGED undefined
     \/ at < Len(code) /\ FellThrough /\ Stop("fell through") /\ UNCHANGED undefined
     \/ /\ at < Len(code) /\ ~FellThrough
        /\ undefined' = UndefinedOf(code[at + 1])
        /\ \/ ~ubpf_validate_shadow_register(code[at + 1]) /\ Stop("undefined")
           \/ ubpf_validate_shadow_register(code[at + 1]) /\ Perform(code[at + 1])

ShadowNext == (phase = "start" /\ \E p \in Codes : shadow_exec(p)) \/ shadow_turn

ShadowSpec == ShadowInit /\ [][ShadowNext]_shadowVars

-----------------------------------------------------------------------------
(* "Undefined behavior includes reading from uninitialized memory or using *)
(* uninitialized registers": while the check lets a program run, no        *)
(* instruction uses a register without a value, nor a stack byte this run  *)
(* has not stored.  Left out are callee-saved registers that the caller    *)
(* never set and a function it called did: EXIT brings the caller's back   *)
(* and the shadow stays marked.                                            *)
UsesDefined ==
  phase # "undefined" => undefined = {}

(* A run is stopped for undefined behaviour only by an instruction that    *)
(* has it, but for a byte swap with the SRC_REG bit (BE), whose source     *)
(* register is asked for although it is not used.                          *)
NoFalseAlarm ==
  phase = "undefined" => undefined # {} \/ code[at + 1].op = "BE"

(* Together: ubpf_exec() stops a run before the first use of what has no   *)
(* value, and no other run.                                                *)
UndefinedExact == UsesDefined /\ NoFalseAlarm

(* "If this is neither the first instruction nor a local function call,    *)
(* then the behavior is undefined": because functions are entered by calls *)
(* only, the stack usage by which a call moves the frame pointer is that   *)
(* of the function that makes the call.                                    *)
Entry(d) == IF d = 1 THEN 0 ELSE calls[d - 1].return + code[calls[d - 1].return].imm
FrameUsage == \A d \in DOMAIN calls : calls[d].usage = UsageOf(Entry(d))
=============================================================================

------------------------------- MODULE JitAlu ------------------------------
(* What instructions compute: as the interpreter computes it, as the code     *)
(* that the translator for x86-64 emits, and as the code of the one for Arm.  *)
(* Registers have 2 * H bits, and H stands for the 32 bits of the ALU and     *)
(* JMP32 classes. The processors' instructions are external.                  *)
EXTENDS Integers, Sequences, FiniteSets, Bits, JitOperands

CONSTANTS
  H,          \* half the width of a register, a power of two
  Jobs,       \* instructions
  RegisterValues(_),   \* the values of eBPF registers to try an instruction with
  Stale       \* what registers hold that no eBPF register is mapped to

AluOps == {"ADD", "SUB", "MUL", "DIV", "MOD", "OR", "AND", "XOR", "LSH", "RSH", "ARSH", "NEG", "MOV"}
JumpOps == {"JEQ", "JNE", "JGT", "JGE", "JLT", "JLE", "JSET", "JSGT", "JSGE", "JSLT", "JSLE"}

ASSUME WidthAssumption == /\ H \in Nat /\ \E k \in 0 .. H : H = Pow2[k]
                          /\ Stale \in 0 .. Pow2[2 * H] - 1

\* Instructions that validate() accepts, and values of the registers they name;
\* an immediate of 64 bits is four blocks of 16.
ASSUME JobAssumption ==
  \A j \in Jobs :
    \/ /\ j.cls = "IMM" /\ j.op \in {"32", "64"} /\ j.imm \in [1 .. 4 -> 0 .. ONES]
    \/ /\ \/ j.cls \in {"ALU", "ALU64"} /\ j.op \in AluOps
          \/ j.cls \in {"JMP", "JMP32"} /\ j.op \in JumpOps
       /\ j.x \in {"REG", "IMM"} /\ j.dst \in 0 .. 10 /\ j.src \in 0 .. 10 /\ j.imm \in Int
       /\ \A values \in RegisterValues(j) :
            /\ j.dst \in DOMAIN values /\ (j.x = "REG" => j.src \in DOMAIN values)
            /\ DOMAIN values \subseteq 0 .. 10
            /\ values \in [DOMAIN values -> 0 .. Pow2[2 * H] - 1]

VARIABLES
  job,        \* an instruction
  reg,        \* the eBPF registers before it
  result      \* what became of it in the three ways

FULL == Pow2[2 * H]
HALF == Pow2[H]
Words == 0 .. FULL - 1

Width(w) == IF w THEN FULL ELSE HALF

u(w, x) == x % Width(w)

Signed(w, x) == IF u(w, x) < Width(w) \div 2 THEN u(w, x) ELSE u(w, x) - Width(w)

a & b == Combined("AND", a, b, 2 * H)
a | b == Combined("OR", a, b, 2 * H)
a ^^ b == Combined("XOR", a, b, 2 * H)

\* SHIFT_MASK_32_BIT and SHIFT_MASK_64_BIT; processors mask the count likewise.
ShiftMask(w, x) == x % (IF w THEN 2 * H ELSE H)

---------------------------------------------------------------------------
(* ubpf_exec_ex. b is the other operand: a register, or imm sign-extended.    *)

\* The result before it is masked. Division, remainder and shifts of the ALU
\* class work on the lower half.
ALU_result(w, op, a, b) ==
  CASE op = "ADD" -> a + b
    [] op = "SUB" -> a - b
    [] op = "MUL" -> a * b
    [] op = "DIV" -> IF u(w, b) # 0 THEN u(w, a) \div u(w, b) ELSE 0
    [] op = "MOD" -> IF u(w, b) # 0 THEN u(w, a) % u(w, b) ELSE u(w, a)
    [] op = "OR" -> a | b
    [] op = "AND" -> a & b
    [] op = "XOR" -> a ^^ b
    [] op = "LSH" -> u(w, a) * Pow2[ShiftMask(w, b)]
    [] op = "RSH" -> u(w, a) \div Pow2[ShiftMask(w, b)]
    [] op = "ARSH" -> Signed(w, a) \div Pow2[ShiftMask(w, b)]
    [] op = "NEG" -> -a
    [] op = "MOV" -> b

exec_alu(w, op, a, b) == u(w, ALU_result(w, op, a, b))

exec_condition(w, op, a, b) ==
  LET x == u(w, a)   y == u(w, b)
      sx == Signed(w, a)   sy == Signed(w, b)
  IN CASE op = "JEQ" -> x = y
       [] op = "JNE" -> x # y
       [] op = "JGT" -> x > y
       [] op = "JGE" -> x >= y
       [] op = "JLT" -> x < y
       [] op = "JLE" -> x <= y
       [] op = "JSET" -> (x & y) # 0
       [] op = "JSGT" -> sx > sy
       [] op = "JSGE" -> sx >= sy
       [] op = "JSLT" -> sx < sy
       [] op = "JSLE" -> sx <= sy

---------------------------------------------------------------------------
(* x86-64: instructions of a width, a register or immediate, and a register.  *)

RAX == 0
RCX == 1
RDX == 2

\* Marks an immediate operand.
IMM == -1

Op(op, w, src, dst) == [op |-> op, w |-> w, src |-> src, imm |-> 0, dst |-> dst]

OpImm(op, w, imm, dst) == [op |-> op, w |-> w, src |-> IMM, imm |-> imm, dst |-> dst]

When(c, code) == IF c THEN code ELSE <<>>

\* emit_mov and emit_load_imm
mov(src, dst) == <<Op("MOV", TRUE, src, dst)>>

load_imm(dst, imm) == <<OpImm("MOV", TRUE, imm, dst)>>

push(r) == <<Op("PUSH", TRUE, r, r)>>

pop(r) == <<Op("POP", TRUE, r, r)>>

\* Mutant: the result of the test is not saved across the division.
muldivmod_bug(op, w, isreg, src, dst, imm) ==
  IF ~isreg /\ imm = 0
  THEN IF op = "MOD" THEN mov(dst, dst) ELSE <<Op("XOR", FALSE, dst, dst)>>
  ELSE When(dst # RAX, push(RAX)) \o When(dst # RDX, push(RDX))
       \o (IF isreg THEN mov(src, RCX) ELSE load_imm(RCX, imm))
       \o mov(dst, RAX)
       \o When(op # "MUL", <<Op("TEST", w, RCX, RCX)>> \o When(op = "MOD", push(RAX)) \o load_imm(RDX, 1)
                           \o <<Op("CMOVE", TRUE, RDX, RCX), Op("XOR", FALSE, RDX, RDX)>>)
       \o <<Op(IF op = "MUL" THEN "MULT" ELSE "DIVIDE", w, RCX, RAX)>>
       \o When(op # "MUL", (IF op = "DIV" THEN load_imm(RCX, 0) \o <<Op("CMOVE", TRUE, RCX, RAX)>>
                                             ELSE pop(RCX) \o <<Op("CMOVE", TRUE, RCX, RDX)>>))
       \o When(dst # RDX, When(op = "MOD", mov(RDX, dst)) \o pop(RDX))
       \o When(dst # RAX, When(op # "MOD", mov(RAX, dst)) \o pop(RAX))

muldivmod(op, w, isreg, src, dst, imm) ==
  IF ~isreg /\ imm = 0
  THEN IF op = "MOD" THEN mov(dst, dst) ELSE <<Op("XOR", FALSE, dst, dst)>>
  ELSE When(dst # RAX, push(RAX)) \o When(dst # RDX, push(RDX))
       \o (IF isreg THEN mov(src, RCX) ELSE load_imm(RCX, imm))
       \o mov(dst, RAX)
       \o When(op # "MUL", <<Op("TEST", w, RCX, RCX)>> \o When(op = "MOD", push(RAX))
                           \o <<Op("PUSHF", TRUE, RAX, RAX)>> \o load_imm(RDX, 1)
                           \o <<Op("CMOVE", TRUE, RDX, RCX), Op("XOR", FALSE, RDX, RDX)>>)
       \o <<Op(IF op = "MUL" THEN "MULT" ELSE "DIVIDE", w, RCX, RAX)>>
       \o When(op # "MUL", <<Op("POPF", TRUE, RAX, RAX)>>
                           \o (IF op = "DIV" THEN load_imm(RCX, 0) \o <<Op("CMOVE", TRUE, RCX, RAX)>>
                                             ELSE pop(RCX) \o <<Op("CMOVE", TRUE, RCX, RDX)>>))
       \o When(dst # RDX, When(op = "MOD", mov(RDX, dst)) \o pop(RDX))
       \o When(dst # RAX, When(op # "MOD", mov(RAX, dst)) \o pop(RAX))

\* The switch of translate, and the truncation behind it.
x86_code(j) ==
  LET w == j.cls = "ALU64"
      isreg == j.x = "REG"
      src == map_register(j.src)
      dst == map_register(j.dst)
      operand == IF isreg THEN Op(j.op, w, src, dst) ELSE OpImm(j.op, w, j.imm, dst)
  IN (CASE j.op \in {"MUL", "DIV", "MOD"} -> muldivmod(j.op, w, isreg, src, dst, j.imm)
        [] j.op \in {"LSH", "RSH", "ARSH"} /\ isreg -> mov(src, RCX) \o <<Op(j.op, w, RCX, dst)>>
        [] j.op = "MOV" /\ isreg -> mov(src, dst)
        [] j.op = "NEG" -> <<Op("NEG", w, dst, dst)>>
        [] OTHER -> <<operand>>)
     \o When(~w, <<OpImm("AND", FALSE, HALF - 1, dst)>>)

\* The processor: registers, a stack and the zero flag.
x86_step(s, op) ==
  LET b == IF op.src = IMM THEN u(TRUE, op.imm) ELSE s.regs[op.src]
      a == s.regs[op.dst]
      dividend == u(op.w, s.regs[RDX]) * Width(op.w) + u(op.w, s.regs[RAX])
  IN CASE op.op = "PUSH" -> [s EXCEPT !.stack = <<a>> \o @]
       [] op.op = "POP" -> [s EXCEPT !.regs[op.dst] = Head(s.stack), !.stack = Tail(@)]
       [] op.op = "PUSHF" -> [s EXCEPT !.stack = <<s.zero>> \o @]
       [] op.op = "POPF" -> [s EXCEPT !.zero = Head(s.stack), !.stack = Tail(@)]
       [] op.op = "TEST" -> [s EXCEPT !.zero = IF u(op.w, a & b) = 0 THEN 1 ELSE 0]
       [] op.op = "CMOVE" -> IF s.zero = 1 THEN [s EXCEPT !.regs[op.dst] = b] ELSE s
       [] op.op = "MULT" ->
            LET product == u(op.w, s.regs[RAX]) * u(op.w, b)
            IN [s EXCEPT !.regs[RAX] = u(op.w, product), !.regs[RDX] = product \div Width(op.w), !.zero = 0]
       [] op.op = "DIVIDE" ->
            [s EXCEPT !.regs[RAX] = dividend \div u(op.w, b), !.regs[RDX] = dividend % u(op.w, b), !.zero = 0]
       [] op.op = "MOV" -> [s EXCEPT !.regs[op.dst] = u(op.w, b)]
       [] OTHER ->
            LET r == u(op.w, ALU_result(op.w, op.op, a, b))
            IN [s EXCEPT !.regs[op.dst] = r, !.zero = IF r = 0 THEN 1 ELSE 0]

\* The registers of a processor when eBPF registers have values.
Native(map, values, registers) ==
  [n \in registers |-> IF \E r \in DOMAIN values : map[r + 1] = n
                      THEN values[CHOOSE r \in DOMAIN values : map[r + 1] = n] ELSE Stale]

\* Flags of cmp dst, src and of test, and the condition of a jump.
x86_flags(w, op, a, b) ==
  IF op = "JSET"
  THEN [zf |-> (u(w, a) & u(w, b)) = 0, cf |-> FALSE, less |-> FALSE]
  ELSE [zf |-> u(w, a) = u(w, b), cf |-> u(w, a) < u(w, b), less |-> Signed(w, a) < Signed(w, b)]

jcc == [JEQ |-> "84", JGT |-> "87", JGE |-> "83", JLT |-> "82", JLE |-> "86", JSET |-> "85", JNE |-> "85",
        JSGT |-> "8f", JSGE |-> "8d", JSLT |-> "8c", JSLE |-> "8e"]

x86_condition(f, code) ==
  CASE code = "84" -> f.zf
    [] code = "85" -> ~f.zf
    [] code = "82" -> f.cf
    [] code = "83" -> ~f.cf
    [] code = "86" -> f.cf \/ f.zf
    [] code = "87" -> ~f.cf /\ ~f.zf
    [] code = "8c" -> f.less
    [] code = "8d" -> ~f.less
    [] code = "8e" -> f.less \/ f.zf
    [] code = "8f" -> ~f.less /\ ~f.zf

---------------------------------------------------------------------------
(* Arm: op, rd, rn, rm. An immediate that is not simple is moved to           *)
(* temp_register first, and the instruction with a register operand used.     *)

arm_register_map == <<5, 0, 1, 2, 3, 4, 19, 20, 21, 22, 23>>

temp_register == 24
temp_div_register == 25
RZ == 31

Ins(op, w, rd, rn, rm) == [op |-> op, w |-> w, rd |-> rd, rn |-> rn, rm |-> rm, imm |-> 0]

\* to_addsub_opcode, to_logical_opcode and to_dp2_opcode
to_opcode == [ADD |-> "ADD", SUB |-> "SUB", OR |-> "OR", AND |-> "AND", XOR |-> "XOR",
              LSH |-> "LSH", RSH |-> "RSH", ARSH |-> "ARSH", DIV |-> "DIV"]

divmod(op, w, rd, rn, rm) ==
  IF op = "MOD" THEN <<Ins("DIV", w, temp_div_register, rn, rm), [Ins("MSUB", w, rd, rm, temp_div_register) EXCEPT !.imm = rn]>>
                ELSE <<Ins("DIV", w, rd, rn, rm)>>

arm_code(j) ==
  LET w == is_alu64_op(j)
      moved == is_imm_op(j) /\ ~is_simple_imm(j)
      src == IF moved THEN temp_register ELSE arm_register_map[j.src + 1]
      dst == arm_register_map[j.dst + 1]
  IN When(moved, <<[Ins("MOVI", w, temp_register, temp_register, temp_register) EXCEPT !.imm = j.imm]>>)
     \o (CASE j.op = "MOV" /\ j.x = "IMM" -> <<[Ins("MOVI", w, dst, dst, dst) EXCEPT !.imm = j.imm]>>
           [] j.op = "MOV" /\ j.x = "REG" -> <<Ins("OR", w, dst, RZ, src)>>
           [] j.op = "NEG" -> <<Ins("SUB", w, dst, RZ, src)>>
           [] j.op = "MUL" -> <<Ins("MUL", w, dst, dst, src)>>
           [] j.op \in {"DIV", "MOD"} -> divmod(j.op, w, dst, dst, src)
           [] j.op \in {"ADD", "SUB"} /\ j.x = "IMM" /\ ~moved ->
                <<[Ins(to_opcode[j.op], w, dst, dst, IMM) EXCEPT !.imm = j.imm]>>
           [] OTHER -> <<Ins(to_opcode[j.op], w, dst, dst, src)>>)

arm_step(regs, i) ==
  LET b == IF i.rm = IMM THEN i.imm ELSE regs[i.rm]
      r == CASE i.op = "MOVI" -> i.imm
             [] i.op = "MSUB" -> regs[i.imm] - regs[i.rn] * b
             [] OTHER -> ALU_result(i.w, i.op, regs[i.rn], b)
  IN [regs EXCEPT ![i.rd] = u(i.w, r)]

to_condition == [JEQ |-> "EQ", JGT |-> "HI", JGE |-> "HS", JLT |-> "LO", JLE |-> "LS", JSET |-> "NE", JNE |-> "NE",
                 JSGT |-> "GT", JSGE |-> "GE", JSLT |-> "LT", JSLE |-> "LE"]

\* Of the flags after SUBS and ANDS: Z, C (no borrow) and N # V.
arm_condition(f, cond) ==
  CASE cond = "EQ" -> f.zf
    [] cond = "NE" -> ~f.zf
    [] cond = "HS" -> ~f.cf
    [] cond = "LO" -> f.cf
    [] cond = "HI" -> ~f.cf /\ ~f.zf
    [] cond = "LS" -> f.cf \/ f.zf
    [] cond = "GE" -> ~f.less
    [] cond = "LT" -> f.less
    [] cond = "GT" -> ~f.less /\ ~f.zf
    [] cond = "LE" -> f.less \/ f.zf

\* What the moves of emit_movewide_immediate leave in a register.
MoveWide(blocks, move) ==
  [i \in DOMAIN blocks |->
     CASE i = move.block -> IF move.op = "MOVN" THEN ONES - move.imm16 ELSE move.imm16
       [] i # move.block -> CASE move.op = "MOVN" -> ONES
                              [] move.op = "MOVZ" -> 0
                              [] move.op = "MOVK" -> blocks[i]]

---------------------------------------------------------------------------
(* The run of code: what its instructions make of a state, one by one.        *)

Step(processor, s, i) ==
  CASE processor = "x86" -> x86_step(s, i)
    [] processor = "arm" -> arm_step(s, i)
    [] processor = "blocks" -> MoveWide(s, i)

Run(processor, s, code) ==
  LET after[n \in 0 .. Len(code)] == IF n = 0 THEN s ELSE Step(processor, after[n - 1], code[n])
  IN after[Len(code)]

x86_run(j, values) ==
  LET s == Run("x86", [regs |-> Native(register_map, values, 0 .. 15), stack |-> <<>>, zero |-> 0], x86_code(j))
  IN [reg |-> [r \in DOMAIN values |-> s.regs[map_register(r)]], stack |-> s.stack]

arm_run(j, values) ==
  LET s == Run("arm", [Native(arm_register_map, values, 0 .. 31) EXCEPT ![RZ] = 0], arm_code(j))
  IN [r \in DOMAIN values |-> s[arm_register_map[r + 1]]]

movewide(sixty_four, imm) ==
  Run("blocks", IF sixty_four THEN [i \in 1 .. 4 |-> Stale] ELSE <<Stale, Stale>>,
      emit_movewide_immediate(sixty_four, imm))

---------------------------------------------------------------------------
AluInit == job = << >> /\ reg = << >> /\ result = << >>

Operand(j, values) == IF j.x = "REG" THEN values[j.src] ELSE u(TRUE, j.imm)

\* An arithmetic instruction, a condition, and an immediate of sixteen-bit
\* blocks, which are compared in the same way.
arithmetic(j, values) ==
  /\ j.cls \in {"ALU", "ALU64"}
  /\ result' = [exec |-> [values EXCEPT ![j.dst] = exec_alu(j.cls = "ALU64", j.op, @, Operand(j, values))],
                x86 |-> x86_run(j, values), arm |-> arm_run(j, values)]

condition(j, values) ==
  LET w == j.cls = "JMP"
      f == x86_flags(w, j.op, values[j.dst], Operand(j, values))
  IN /\ j.cls \in {"JMP", "JMP32"}
     /\ result' = [exec |-> exec_condition(w, j.op, values[j.dst], Operand(j, values)),
                   x86 |-> x86_condition(f, jcc[j.op]), arm |-> arm_condition(f, to_condition[j.op])]

move_wide(j) ==
  /\ j.cls = "IMM"
  /\ result' = movewide(j.op = "64", j.imm)

AluNext ==
  /\ job = << >>
  /\ \E j \in Jobs : \E values \in RegisterValues(j) :
       /\ job' = j /\ reg' = values
       /\ arithmetic(j, values) \/ condition(j, values) \/ move_wide(j)

AluSpec == AluInit /\ [][AluNext]_<<job, reg, result>>

IsJob(classes) == job # << >> /\ job.cls \in classes

\* x86-64 code leaves in the destination what the interpreter leaves there, keeps
\* every other eBPF register although mul and div use rax, rdx and rcx, and
\* takes from the stack what it put there.
X86Arithmetic ==
  IsJob({"ALU", "ALU64"}) => result.x86 = [reg |-> result.exec, stack |-> <<>>]

\* So does Arm code, which loads some immediates into a register first; NEG is
\* right where its source register is its destination (it reads the source).
Arm64Arithmetic ==
  IsJob({"ALU", "ALU64"}) /\ (job.op = "NEG" => job.src = job.dst) => result.arm = result.exec

\* Conditional jumps of both translators are taken when the interpreter's are.
BranchesAgree ==
  IsJob({"JMP", "JMP32"}) => result.x86 = result.exec /\ result.arm = result.exec

\* The moves of emit_movewide_immediate leave the immediate in the register,
\* whichever blocks they leave out.
MoveWideExact ==
  IsJob({"IMM"}) => result = IF job.op = "64" THEN job.imm ELSE SubSeq(job.imm, 1, 2)

\* What the interpreter, x86-64 code and Arm code compute is the same.
NativeComputes == X86Arithmetic /\ Arm64Arithmetic /\ BranchesAgree /\ MoveWideExact
=============================================================================

------------------------------- MODULE MCJit -------------------------------
(* The library's clients and its translators: calls of the API in any order,  *)
(* programs of every kind of instruction translated for both processors, and  *)
(* what single instructions compute. A behaviour is about one of the three.   *)
EXTENDS JitRun, JitAlu, UbpfApi, TLC

CONSTANTS
  f0, f1, f2, f3,
  p1,              \* a program that loads and compiles,
  huge,            \* one without a translation that fits the buffer
  broken           \* and one that does not load

MCCallsOf == (p1 :> {0}) @@ (huge :> {1}) @@ (broken :> {})

\* The prologue of the extended mode is four bytes shorter on x86-64; a call that
\* may unwind has 13 bytes more.
MCTableAt ==
  [p \in {p1, huge, broken} |-> [mode \in JitModes |-> [unwinds \in BOOLEAN |->
     100 + (IF mode = "Basic" THEN 4 ELSE 0) + (IF unwinds THEN 13 ELSE 0)]]]

I(cls, op, x, dst, src, off, imm) ==
  [cls |-> cls, op |-> op, x |-> x, dst |-> dst, src |-> src, off |-> off, imm |-> imm]

SET == I("ALU64", "MOV", "REG", 6, 1, 0, 0)
ADD == I("ALU", "ADD", "IMM", 9, 0, 0, 5000)
LDW == I("LDX", "W", "REG", 3, 10, -8, 0)
FAR(off) == I("LDX", "W", "REG", 3, 10, off, 0)
LDDW == I("LD", "LDDW", "IMM", 2, 0, 0, 7)
ZERO(hi) == I("LD", "ZERO", "IMM", 0, 0, 0, hi)
EXIT == I("JMP", "EXIT", "IMM", 0, 0, 0, 0)
JA(off) == I("JMP", "JA", "IMM", 0, 0, off, 0)
JEQ(off) == I("JMP", "JEQ", "IMM", 7, 0, off, 3)
JSET(off) == I("JMP32", "JSET", "REG", 7, 8, off, 0)
CALL(k) == I("JMP", "CALL", "IMM", 0, 1, 0, k)
HELPER(i) == I("JMP", "CALL", "IMM", 0, 0, 0, i)

\* Everything up to three instructions and an EXIT, and functions of their own.
InstSet == {SET, JEQ(1), JA(-2), JEQ(-3), CALL(0), CALL(1), CALL(-2), HELPER(0), EXIT}

Targets(p, i) ==
  LET inst == p[i] IN
  CASE inst.op = "CALL" -> IF inst.src = 1 THEN {i + inst.imm} ELSE {}
    [] inst.cls \in {"JMP", "JMP32"} /\ inst.op \notin {"CALL", "EXIT"} -> {i + inst.off}
    [] OTHER -> {}

\* Jumps and calls lead into the program.
Accepted(p) == \A i \in DOMAIN p : Targets(p, i) \subseteq 0 .. Len(p) - 1

Short == {p \in {q \o <<EXIT>> : q \in UNION {[1 .. n -> InstSet] : n \in 1 .. 3}} : Accepted(p)}

Arith == {I(cls, op, x, d, 4, 0, imm) :
            cls \in {"ALU", "ALU64"}, x \in {"IMM", "REG"}, d \in {0, 3, 8}, imm \in {0, 70000},
            op \in {"ADD", "LSH", "NEG", "MOV", "MUL", "DIV", "MOD"}}
         \cup {I("ALU", op, "IMM", d, 0, 0, imm) : op \in {"LE", "BE"}, d \in {1, 9}, imm \in {16, 32}}
Memory == {I(cls, size, "REG", d, s, off, 1) : cls \in {"LDX", "ST", "STX"}, size \in {"B", "H", "W", "DW"},
             d \in {1, 9}, s \in {10}, off \in {0, 16, -300}}
Jumps == {I(cls, op, x, 7, 2, off, imm) : cls \in {"JMP", "JMP32"}, op \in {"JGT", "JSET"}, x \in {"IMM", "REG"},
            off \in {1}, imm \in {3, 5000}}
\* Each instruction between a function that is called over it and its caller.
Around(inst) == <<SET, CALL(2), inst, EXIT, SET, EXIT>>
Kinds == {Around(inst) : inst \in Arith \cup Memory \cup Jumps}

Long == {<<LDDW, ZERO(0), JEQ(2), LDDW, ZERO(9), HELPER(1), CALL(-5), EXIT>>,
         <<JEQ(3), HELPER(0), HELPER(1), EXIT, CALL(1), EXIT, SET, JSET(1), CALL(-3), EXIT>>,
         <<LDW, HELPER(2), ADD, CALL(1), EXIT, HELPER(2), EXIT>>,
         <<CALL(2), HELPER(1), EXIT, SET, CALL(1), EXIT, ADD, SET, JEQ(-3), EXIT>>}

\* Accesses within the reach of Arm's loads and outside it, before calls of helpers.
Contexts == {<<FAR(off), HELPER(1), EXIT>> : off \in {-300, -256, 255, 256}}
            \cup {<<JEQ(1), FAR(off), CALL(2), HELPER(2), EXIT, HELPER(0), EXIT>> : off \in {-300, 8}}

TranslatedPrograms == Short \cup Kinds \cup Long \cup Contexts
\* A jump over 256 instructions, to the instruction 257.
Far == {<<JA(256)>> \o [i \in 1 .. 256 |-> SET] \o <<EXIT>>}

MCUsage == [i \in 0 .. 300 |-> 16 * ((i % 3) + 1)]
MCHelpers == {f0}
MCRegistered == [i \in 0 .. 3 |-> <<f0, f1, f2, f3>>[i + 1]]

---------------------------------------------------------------------------
\* eBPF registers that x86-64 code keeps in rax, rsi and rdx.
JobRegs == {0, 2, 3}
Other == 6

\* Values of the registers of an instruction; the others have one value.
ValuesFor(j) ==
  IF j.cls = "IMM" THEN {<<0>>}
  ELSE {[r \in JobRegs |-> CASE r = j.dst -> a [] r = j.src /\ r # j.dst -> b [] OTHER -> Other] :
          a \in 0 .. 2^(2 * H) - 1,
          b \in IF j.x = "REG" /\ j.src # j.dst THEN 0 .. 2^(2 * H) - 1 ELSE {Other}}

Job(cls, op, x, dst, src, imm) ==
  [cls |-> cls, op |-> op, x |-> x, dst |-> dst, src |-> src, imm |-> imm]

Imms == -2^(H - 1) .. 2^(H - 1) - 1

OfClass(classes, ops) ==
  {Job(cls, op, "REG", dst, src, 0) : cls \in classes, op \in ops \ {"NEG"}, dst \in JobRegs, src \in JobRegs}
  \cup {Job(cls, op, "IMM", dst, 0, imm) : cls \in classes, op \in ops \ {"NEG"}, dst \in JobRegs, imm \in Imms}

Negations == {Job(cls, "NEG", "IMM", dst, src, 0) : cls \in {"ALU", "ALU64"}, dst \in JobRegs, src \in {0, 2}}

Wide == {[cls |-> "IMM", op |-> op, imm |-> b, x |-> "IMM"] :
           op \in {"32", "64"}, b \in [1 .. 4 -> {0, 1, 65534, 65535}]}

MCJobs ==
  OfClass({"ALU", "ALU64"}, {"ADD", "SUB", "MUL", "DIV", "MOD", "OR", "AND", "XOR", "LSH", "RSH", "ARSH", "MOV", "NEG"})
  \cup Negations \cup Wide
  \cup OfClass({"JMP", "JMP32"}, DOMAIN jcc)
NoJobs == {}

VARIABLE part

Parts == {"api", "translator", "arithmetic"}

MCInit ==
  /\ part \in Parts /\ Init /\ JitInit /\ AluInit
  /\ part # "translator" => arch = "x86" /\ dispatcher = NIL

MCNext ==
  /\ UNCHANGED part
  /\ \/ part = "api" /\ Next /\ UNCHANGED <<jitVars, job, reg, result>>
     \/ part = "translator" /\ JitNext /\ UNCHANGED <<vars, job, reg, result>>
     \/ part = "arithmetic" /\ AluNext /\ UNCHANGED <<vars, jitVars>>

MCSpec == MCInit /\ [][MCNext]_<<part, vars, jitVars, job, reg, result>>
=============================================================================

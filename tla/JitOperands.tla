----------------------------- MODULE JitOperands ---------------------------
(* What the translators do with operands: the registers of x86-64 that eBPF   *)
(* registers are kept in (ubpf_jit_x86_64.c), and the immediates that the one *)
(* for Arm moves to a register (ubpf_jit_arm64.c).                            *)
EXTENDS Integers, Sequences, FiniteSets

register_map == <<0, 7, 6, 2, 10, 8, 3, 12, 13, 14, 15>>

map_register(r) == register_map[(r % 11) + 1]

---------------------------------------------------------------------------
(* Arm                                                                        *)

\* The instructions with an immediate operand that is moved to a register first.
is_imm_op(inst) ==
  \/ inst.x = "IMM" /\ inst.op \notin {"LE", "BE", "NEG", "JA", "CALL", "EXIT"}
     /\ inst.cls \in {"ALU", "ALU64", "JMP", "JMP32"}
  \/ inst.cls = "ST"

is_alu64_op(inst) == inst.cls \in {"ALU64", "JMP"}

\* What ADD and SUB hold in the instruction.
Imm12 == 0 .. 4095

is_simple_imm(inst) ==
  \/ inst.op = "MOV"
  \/ /\ inst.op \notin {"MUL", "DIV", "MOD", "OR", "AND", "XOR", "LSH", "RSH", "ARSH", "JSET"} /\ inst.cls # "ST"
     /\ inst.imm \in Imm12

---------------------------------------------------------------------------
(* emit_movewide_immediate: blocks of 16 bits, lowest first.                  *)

ONES == 65535

CountBlocks(blocks, b) == Cardinality({i \in DOMAIN blocks : blocks[i] = b})

\* The moves: which instruction, which block, which value.
emit_movewide_immediate(sixty_four, imm) ==
  LET blocks == IF sixty_four THEN imm ELSE SubSeq(imm, 1, 2)
      invert == CountBlocks(blocks, 0) + (IF sixty_four THEN 0 ELSE 2) < CountBlocks(blocks, ONES)
      skip_pattern == IF invert THEN ONES ELSE 0
      wide == IF invert THEN "MOVN" ELSE "MOVZ"
      first(i) == \A k \in 1 .. i - 1 : blocks[k] = skip_pattern
      move(i) == IF blocks[i] = skip_pattern
                 THEN <<>>
                 ELSE <<[op |-> IF first(i) THEN wide ELSE "MOVK", block |-> i,
                         imm16 |-> IF first(i) /\ invert THEN ONES - blocks[i] ELSE blocks[i]]>>
      moves == move(1) \o move(2) \o (IF sixty_four THEN move(3) \o move(4) ELSE <<>>)
  IN IF moves = <<>> THEN <<[op |-> wide, block |-> 1, imm16 |-> 0]>> ELSE moves
=============================================================================

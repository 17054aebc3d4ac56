------------------------------ MODULE JitArm64 -----------------------------
(* The translator for 64-bit Arm (ubpf_jit_arm64.c). Every native instruction *)
(* has four bytes, and the field that is patched is in the instruction whose  *)
(* place is noted. Several native instructions that do one thing together are *)
(* one here, with the length of all of them.                                  *)
EXTENDS JitState, JitOperands

CONSTANTS BasicJitMode

emit(s, natives) == FoldLeft(emit_noted, s, natives)

---------------------------------------------------------------------------
(* Lengths of moves of immediates.                                            *)

\* The blocks of an int, sign-extended, and those of the two slots of LDDW.
LowBlocks(imm) == <<imm % (ONES + 1), (imm \div (ONES + 1)) % (ONES + 1)>>

Blocks(imm) == LowBlocks(imm) \o (IF imm < 0 THEN <<ONES, ONES>> ELSE <<0, 0>>)

LenMoveWide(sixty_four, blocks) == 4 * Len(emit_movewide_immediate(sixty_four, blocks))

---------------------------------------------------------------------------
(* Code that moves control. A branch with link is noted with the local calls, *)
(* unless it goes to where the program is entered.                            *)

emit_unconditionalbranch_immediate(op, target_pc) ==
  Patchable(IF op = "BL" THEN "bl" ELSE "jmp", 4, 0,
            IF op = "BL" /\ target_pc # TARGET_PC_ENTER THEN "local_calls" ELSE "jumps", target_pc)

emit_conditionalbranch_immediate(kind, target_pc) == Patchable(kind, 4, 0, "jumps", target_pc)

\* Both paths set the sixth argument to the index and the seventh to the
\* context.
emit_dispatched_external_helper_call(s, idx) ==
  LET index == LenMoveWide(TRUE, Blocks(idx))
      a == emit(s, <<Native("pushlr", 8, 0), Patchable("loadfn", 4, 0, "loads", TARGET_PC_EXTERNAL_DISPATCHER), Plain(4)>>)
      jump_source == a.offset
      b == emit(a, <<emit_conditionalbranch_immediate("jnz", 0), Plain(index), Plain(4), Plain(4), Plain(4),
                     Patchable("lea", 4, 0, "leas", TARGET_LOAD_HELPER_TABLE), Plain(4), Native("loadentry", 4, idx)>>)
  IN emit(emit_jump_target(b, jump_source),
          <<Native("sixth_idx", index, idx), Native("seventh_ctx", 4, 0), Native("blr", 4, 0), Plain(4),
            Native("poplr", 8, 0)>>)

\* Keeps the link register, the stack usage of the caller and r6 to r9.
emit_local_call(s, target_pc) ==
  emit(s, <<Native("subbase", 8, 0), Native("saveframe", 20, 0),
            emit_unconditionalbranch_immediate("BL", target_pc),
            Native("loadframe", 20, 0), Native("addtemp", 4, 0)>>)

---------------------------------------------------------------------------
(* Operands.                                                                  *)

LenOperand(inst) ==
  IF is_imm_op(inst) /\ ~is_simple_imm(inst) THEN LenMoveWide(is_alu64_op(inst), Blocks(inst.imm)) ELSE 0

\* divmod needs a second instruction for the remainder.
LenArithmetic(inst) ==
  CASE inst.op = "MOD" -> 8
    [] inst.op = "MOV" /\ inst.x = "IMM" -> LenMoveWide(is_alu64_op(inst), Blocks(inst.imm))
    [] inst.op = "LE" -> IF inst.imm \in {16, 32} THEN 4 ELSE 0
    [] inst.op = "BE" -> IF inst.imm = 16 THEN 8 ELSE 4
    [] OTHER -> 4

Near(off) == off \in -256 .. 255

\* Other offsets go through offset_register, which is the register that holds
\* the context.
emit_loadstore(inst) ==
  IF Near(inst.off) THEN <<Plain(4)>> ELSE <<Native("clobberctx", LenMoveWide(TRUE, Blocks(inst.off)), 0), Plain(4)>>

---------------------------------------------------------------------------
(* translate                                                                  *)

emit_prologue(s) ==
  LET a == emit(s, <<Plain(8), Plain(20), Native("keepsp", 4, 0), Native("setbase", 4, 0), Plain(4), Native("setctx", 4, 0),
                     emit_unconditionalbranch_immediate("BL", TARGET_PC_ENTER),
                     emit_unconditionalbranch_immediate("B", TARGET_PC_EXIT)>>)
  IN [a EXCEPT !.entry_loc = a.offset]

emit_jit_epilogue(s) ==
  emit([s EXCEPT !.exit_loc = s.offset],
       <<Plain(4), Native("restoresp", 4, 0), Plain(20), Plain(8), Native("leave", 4, 0)>>)

emit_function_start(s, p, i, usage) ==
  LET jumps == i # 0 /\ i \in int_funcs(p) /\ ubpf_instruction_has_fallthrough(Inst(p, i - 1))
      a == IF jumps THEN emit(s, <<emit_unconditionalbranch_immediate("B", 0)>>) ELSE s
      b == IF i = 0 \/ i \in int_funcs(p)
           THEN emit(a, <<Native("pushusage", LenMoveWide(TRUE, Blocks(usage[i])) + 8, usage[i])>>) ELSE a
      c == IF b.bpf_function_prolog_size = 0 THEN [b EXCEPT !.bpf_function_prolog_size = b.offset - a.offset] ELSE b
  IN IF jumps THEN fixup_jump_target(c, s.offset, c.offset) ELSE c

emit_ebpf_instruction(s, p, i, unwind) ==
  LET inst == Inst(p, i) IN
  CASE inst.cls \in {"ALU", "ALU64"} ->
         emit(s, <<Native(IF inst.dst = 6 THEN "set" ELSE "plain", LenOperand(inst) + LenArithmetic(inst), 0)>>)
    [] inst.cls \in {"LDX", "ST", "STX"} -> emit(s, <<Plain(LenOperand(inst))>> \o emit_loadstore(inst))
    [] inst.op = "JA" -> emit(s, <<emit_unconditionalbranch_immediate("B", JumpTarget(i, inst))>>)
    [] inst.cls \in {"JMP", "JMP32"} /\ inst.op \notin {"JA", "CALL", "EXIT"} ->
         emit(s, <<Plain(LenOperand(inst) + 4), emit_conditionalbranch_immediate("jcc", JumpTarget(i, inst))>>)
    [] inst.op = "CALL" /\ inst.src = 0 ->
         LET a == emit_dispatched_external_helper_call(s, inst.imm)
         IN IF inst.imm = unwind
            THEN emit(a, <<Plain(4), emit_conditionalbranch_immediate("jcc", TARGET_PC_EXIT)>>)
            ELSE a
    [] inst.op = "CALL" /\ inst.src = 1 -> emit_local_call(s, LocalCallTarget(i, inst))
    [] inst.op = "CALL" /\ inst.src \notin {0, 1} ->
         emit(s, <<emit_unconditionalbranch_immediate("B", TARGET_PC_EXIT)>>)
    [] inst.op = "EXIT" -> emit(s, <<Native("drop", 4, 0), Native("retlr", 4, 0)>>)
    [] inst.op = "LDDW" ->
         emit(s, <<Plain(LenMoveWide(TRUE, LowBlocks(inst.imm) \o LowBlocks(Inst(p, i + 1).imm)))>>)
    [] OTHER -> [s EXCEPT !.jit_status = "UnknownInstruction"]

translate_instruction(s, p, i, usage, unwind) ==
  IF s.jit_status # "NoError" \/ (i > 0 /\ Inst(p, i - 1).op = "LDDW")
  THEN s
  ELSE LET a == emit_function_start(s, p, i, usage)
       IN emit_ebpf_instruction([a EXCEPT !.pc_locs = (i :> a.offset) @@ @], p, i, unwind)

\* Nothing looks at jit_status after this.
emit_epilogue(s, dispatcher, ext_funcs) ==
  emit_helper_table(emit_dispatched_external_helper_address(emit_jit_epilogue(s), dispatcher), ext_funcs)

---------------------------------------------------------------------------
(* Distances from the start of an instruction, in units of four bytes.        *)

TargetLoc(s, jump) ==
  CASE jump.target_offset # 0 -> jump.target_offset
    [] jump.target_offset = 0 /\ jump.target_pc = TARGET_PC_EXIT -> s.exit_loc
    [] jump.target_offset = 0 /\ jump.target_pc = TARGET_PC_ENTER -> s.entry_loc
    [] OTHER -> PcLoc(s, jump.target_pc)

Patch(place, target_loc) == [at |-> place.offset_loc, rel |-> (target_loc - place.offset_loc) \div 4]

\* resolve_jumps, resolve_loads, resolve_leas and resolve_local_calls: with the
\* places the translator notes none of them fails.
Patches(s) ==
  {Patch(j, TargetLoc(s, j)) : j \in ToSet(s.jumps)}
  \cup {Patch(l, s.dispatcher_loc) : l \in ToSet(s.loads)}
  \cup {Patch(l, s.helper_table_loc) : l \in ToSet(s.leas)}
  \cup {Patch(c, PcLoc(s, c.target_pc) - s.bpf_function_prolog_size) : c \in ToSet(s.local_calls)}

Destination(at, native, patches) == at + 4 * (CHOOSE x \in patches : x.at = at).rel
=============================================================================

------------------------------- MODULE JitX86 ------------------------------
(* The translator for x86-64 (ubpf_jit_x86_64.{c,h}), as the System V build   *)
(* has it. UBPF_DISABLE_RETPOLINES is defined (ubpf_config.h), so a helper is *)
(* called directly; the retpoline is emitted all the same. Lengths are those  *)
(* of the encodings, because jumps are relative: a length that is wrong is a  *)
(* jump that lands elsewhere.                                                 *)
EXTENDS JitState, JitOperands

CONSTANTS BasicJitMode   \* or the caller provides the stack

RAX == 0
RBP == 5
R9 == 9

---------------------------------------------------------------------------
(* Lengths of encodings. A register from r8 on needs a prefix.                *)

Rex(w, src, dst) == IF w \/ src >= 8 \/ dst >= 8 THEN 1 ELSE 0

LenPush(r) == Rex(FALSE, 0, r) + 1

LenAlu(w, src, dst) == Rex(w, src, dst) + 2

LenMov == LenAlu(TRUE, 0, 0)

LenModrmAndDisplacement(m, d) ==
  CASE d = 0 /\ m % 8 # RBP -> 1
    [] d \in -128 .. 127 /\ ~(d = 0 /\ m % 8 # RBP) -> 2
    [] OTHER -> 5

LenLoadImm(dst, fits) == IF fits THEN LenAlu(TRUE, 0, dst) + 4 ELSE 10

LenLoad(size, src, dst, d) ==
  Rex(size = 8, dst, src) + (IF size \in {1, 2} THEN 2 ELSE 1) + LenModrmAndDisplacement(src, d)

Override(size) == IF size = 2 THEN 1 ELSE 0

LenStore(size, src, dst, d) ==
  Override(size) + Rex(size \in {1, 8}, src, dst) + 1 + LenModrmAndDisplacement(dst, d)

LenStoreImm32(size, dst, d) ==
  Override(size) + Rex(size = 8, 0, dst) + 1 + LenModrmAndDisplacement(dst, d) + (IF size = 8 THEN 4 ELSE size)

\* The code of muldivmod: what is pushed, loaded, tested and moved.
LenMulDivMod(inst, w, dst) ==
  LET mul == inst.op = "MUL"
      mod == inst.op = "MOD"
      pushes == (IF dst # 0 THEN 1 ELSE 0) + (IF dst # 2 THEN 1 ELSE 0)
      test == LenAlu(w, 0, 0) + (IF mod THEN 1 ELSE 0) + 1 + LenLoadImm(2, TRUE) + 4 + 2
      after == 1 + (IF mod THEN 1 ELSE LenLoadImm(1, TRUE)) + 4
      result == IF dst = (IF mod THEN 2 ELSE 0) THEN 0 ELSE LenMov
  IN IF inst.x = "IMM" /\ inst.imm = 0
     THEN IF mod THEN LenMov ELSE LenAlu(FALSE, dst, dst)
     ELSE 2 * pushes + (IF inst.x = "IMM" THEN LenLoadImm(1, TRUE) ELSE LenMov) + LenMov
          + (IF mul THEN 0 ELSE test) + (IF w THEN 1 ELSE 0) + LenAlu(FALSE, 0, 1)
          + (IF mul THEN 0 ELSE after) + result

LenEndian(inst, dst) ==
  CASE inst.op = "LE" -> IF inst.imm \in {16, 32} THEN LenAlu(FALSE, 4, dst) + 4 ELSE 0
    [] inst.op = "BE" /\ inst.imm = 16 -> 1 + LenAlu(FALSE, 0, dst) + 1 + LenAlu(FALSE, 4, dst) + 4
    [] inst.op = "BE" /\ inst.imm \in {32, 64} -> Rex(inst.imm = 64, 0, dst) + 2
    [] OTHER -> 0

\* An instruction of class ALU or ALU64. The result of an ALU instruction is
\* truncated, except after LE and BE.
LenArithmetic(inst) ==
  LET w == inst.cls = "ALU64"
      dst == map_register(inst.dst)
      src == map_register(inst.src)
      imm == inst.x = "IMM"
      len == CASE inst.op \in {"ADD", "SUB", "OR", "AND", "XOR"} ->
                    IF imm THEN LenAlu(w, 0, dst) + 4 ELSE LenAlu(w, src, dst)
               [] inst.op \in {"LSH", "RSH", "ARSH"} ->
                    IF imm THEN LenAlu(w, 0, dst) + 1 ELSE LenMov + LenAlu(w, 0, dst)
               [] inst.op = "NEG" -> LenAlu(w, 0, dst)
               [] inst.op = "MOV" -> IF imm THEN LenAlu(w, 0, dst) + 4 ELSE LenMov
               [] inst.op \in {"MUL", "DIV", "MOD"} -> LenMulDivMod(inst, w, dst)
               [] inst.op \in {"LE", "BE"} -> LenEndian(inst, dst)
  IN len + (IF w \/ inst.op \in {"LE", "BE"} THEN 0 ELSE LenAlu(FALSE, 4, dst) + 4)

SizeOf == [B |-> 1, H |-> 2, W |-> 4, DW |-> 8]

LenMemory(inst) ==
  LET size == SizeOf[inst.op]
      dst == map_register(inst.dst)
      src == map_register(inst.src)
  IN CASE inst.cls = "LDX" -> LenLoad(size, src, dst, inst.off)
       [] inst.cls = "ST" -> LenStoreImm32(size, dst, inst.off)
       [] inst.cls = "STX" -> LenStore(size, src, dst, inst.off)

LenCompare(inst) ==
  LET w == inst.cls = "JMP"
      dst == map_register(inst.dst)
  IN IF inst.x = "IMM" THEN LenAlu(w, 0, dst) + 4 ELSE LenAlu(w, map_register(inst.src), dst)

---------------------------------------------------------------------------
TooMany == [jumps |-> "TooManyJumps", local_calls |-> "TooManyLocalCalls",
            loads |-> "TooManyLoads", leas |-> "TooManyLeas"]

\* emit_jump_address_reloc and its like look at the size of the table first.
emit1(s, native) ==
  IF native.table # NULL /\ Len(s[native.table]) = UBPF_MAX_INSTS
  THEN [s EXCEPT !.jit_status = TooMany[native.table]]
  ELSE emit_noted(s, native)

emit(s, natives) == FoldLeft(emit1, s, natives)

---------------------------------------------------------------------------
(* Code that moves control.                                                   *)

emit_jcc(kind, target_pc) == Patchable(kind, 6, 2, "jumps", target_pc)

emit_jmp(target_pc) == Patchable("jmp", 5, 1, "jumps", target_pc)

emit_near_jmp(target_pc) ==
  [Patchable("jmp", 2, 1, "jumps", target_pc) EXCEPT !.near = TRUE]

emit_call(target_pc) == Patchable("call", 5, 1, "jumps", target_pc)

\* Top of the host stack: the stack usage of the function. The base of its
\* stack moves by that around a call, which also keeps r6 to r9.
emit_local_call(s, target_pc) ==
  emit(s, <<Native("subbase", 4, 0), Native("save", 7, 0),
            Patchable("call", 5, 1, "local_calls", target_pc),
            Native("restore", 7, 0), Native("addbase", 4, 0)>>)

\* The jump to call_label is emitted without an entry in a table: its distance
\* stays zero, and it goes to the instruction behind it.
emit_dispatched_external_helper_call(s, idx) ==
  LET a == emit(s, <<Native("pushctx", 2, 0), Native("pushctx", 2, 0),
                     Patchable("loadfn", 7, 3, "loads", TARGET_PC_EXTERNAL_DISPATCHER),
                     Plain(LenAlu(TRUE, 7, RAX) + 4)>>)
      skip_default_dispatcher_source == a.offset + 2
      b == emit(a, <<emit_jcc("jnz", 0),
                     Plain(LenAlu(FALSE, 0, RAX) + 4), Plain(LenAlu(TRUE, 4, RAX) + 1),
                     Patchable("lea", 7, 3, "leas", TARGET_LOAD_HELPER_TABLE),
                     Plain(LenAlu(TRUE, 10, RAX)), Native("loadentry", LenLoad(8, RAX, RAX, 0), idx),
                     Native("sixth_ctx", LenMov, 0), Native("jmprel", 5, 0)>>)
      skip_external_dispatcher_source == b.offset - 4
      c == emit(emit_jump_target(b, skip_default_dispatcher_source),
                <<Native("sixth_idx", LenLoadImm(R9, TRUE), idx)>>)
  IN emit(emit_jump_target(c, skip_external_dispatcher_source),
          <<Native("callrax", 2, 0), Native("popctx", 2, 0), Native("popctx", 2, 0)>>)

emit_retpoline(s) ==
  LET a == emit(s, <<emit_call(0)>>)
      b == emit(a, <<Plain(2), emit_jmp(a.offset)>>)
      c == emit(b, <<Native("setret", 4, 0), Native("ret", 1, 0)>>)
  IN [fixup_jump_target(c, s.offset + 1, b.offset) EXCEPT !.retpoline_loc = s.offset]

---------------------------------------------------------------------------
(* translate                                                                  *)

\* Keeps the caller's registers, the context and the stack pointer, sets up the
\* stack and calls the program as a function, over the jump that ends it.
emit_prologue(s) ==
  emit(s, <<Plain(LenPush(5) + LenPush(3) + 4 * LenPush(12)), Native("setctx", LenMov, 0),
            Plain(LenAlu(TRUE, 5, 4) + 4), Native("keepsp", LenMov, 0)>>
          \o (IF BasicJitMode THEN <<Native("setbase", LenMov, 0), Plain(LenAlu(TRUE, 5, 4) + 4)>>
                              ELSE <<Native("setbase", LenMov, 0), Plain(LenAlu(TRUE, 0, 0))>>)
          \o <<Native("callrel", 5, 5), emit_jmp(TARGET_PC_EXIT)>>)

\* Mutant: no jump around the prolog of a function.
emit_function_start_bug(s, p, i, usage) ==
  LET b == IF i = 0 \/ i \in int_funcs(p) THEN emit(s, <<Native("pushusage", 15, usage[i])>>) ELSE s
  IN IF b.bpf_function_prolog_size = 0 THEN [b EXCEPT !.bpf_function_prolog_size = b.offset - s.offset] ELSE b

\* What precedes the code of an instruction that starts a function.
emit_function_start(s, p, i, usage) ==
  LET jumps == i # 0 /\ i \in int_funcs(p) /\ ubpf_instruction_has_fallthrough(Inst(p, i - 1))
      a == IF jumps THEN emit(s, <<emit_near_jmp(0)>>) ELSE s
      b == IF i = 0 \/ i \in int_funcs(p) THEN emit(a, <<Native("pushusage", 15, usage[i])>>) ELSE a
      c == IF b.bpf_function_prolog_size = 0 THEN [b EXCEPT !.bpf_function_prolog_size = b.offset - a.offset] ELSE b
  IN IF jumps THEN fixup_jump_target(c, s.offset + 1, c.offset) ELSE c

\* Two slots hold the 64 bits of LDDW; is their value one of 32 bits with a sign?
Fits(inst, inst2) == inst2.imm = (IF inst.imm < 0 THEN -1 ELSE 0)

emit_instruction(s, p, i, unwind) ==
  LET inst == Inst(p, i) IN
  CASE inst.cls \in {"ALU", "ALU64"} ->
         emit(s, <<Native(IF inst.dst = 6 THEN "set" ELSE "plain", LenArithmetic(inst), 0)>>)
    [] inst.cls \in {"LDX", "ST", "STX"} -> emit(s, <<Plain(LenMemory(inst))>>)
    [] inst.op = "JA" -> emit(s, <<emit_jmp(JumpTarget(i, inst))>>)
    [] inst.cls \in {"JMP", "JMP32"} /\ inst.op \notin {"JA", "CALL", "EXIT"} ->
         emit(s, <<Plain(LenCompare(inst)), emit_jcc("jcc", JumpTarget(i, inst))>>)
    [] inst.op = "CALL" /\ inst.src = 0 ->
         LET a == emit_dispatched_external_helper_call(emit(s, <<Plain(LenMov)>>), inst.imm)
         IN IF inst.imm = unwind
            THEN emit(a, <<Plain(LenAlu(TRUE, 7, RAX) + 4), emit_jcc("jcc", TARGET_PC_EXIT)>>)
            ELSE a
    [] inst.op = "CALL" /\ inst.src = 1 -> emit_local_call(s, LocalCallTarget(i, inst))
    [] inst.op = "CALL" /\ inst.src \notin {0, 1} -> s
    [] inst.op = "EXIT" -> emit(s, <<Native("drop", LenAlu(TRUE, 0, 4) + 4, 0), Native("ret", 1, 0)>>)
    [] inst.op = "LDDW" -> emit(s, <<Plain(LenLoadImm(map_register(inst.dst), Fits(inst, Inst(p, i + 1))))>>)
    [] OTHER -> [s EXCEPT !.jit_status = "UnknownInstruction"]

\* One turn of the loop. The second slot of LDDW has been consumed with it.
translate_instruction(s, p, i, usage, unwind) ==
  IF s.jit_status # "NoError" \/ (i > 0 /\ Inst(p, i - 1).op = "LDDW")
  THEN s
  ELSE LET a == emit_function_start(s, p, i, usage)
       IN emit_instruction([a EXCEPT !.pc_locs = (i :> a.offset) @@ @], p, i, unwind)

\* Nothing looks at jit_status after this.
emit_epilogue(s, dispatcher, ext_funcs) ==
  LET a == emit([s EXCEPT !.exit_loc = s.offset],
                <<Native("restoresp", LenMov, 0), Plain(LenAlu(TRUE, 0, 4) + 4),
                  Plain(LenPush(5) + LenPush(3) + 4 * LenPush(12)), Native("leave", 1, 0)>>)
  IN emit_helper_table(emit_dispatched_external_helper_address(emit_retpoline(a), dispatcher), ext_funcs)

---------------------------------------------------------------------------
(* resolve_patchable_relatives: distances from the end of an instruction.     *)

TargetLoc(s, jump) ==
  CASE jump.target_offset # 0 -> jump.target_offset
    [] jump.target_offset = 0 /\ jump.target_pc = TARGET_PC_EXIT -> s.exit_loc
    [] jump.target_offset = 0 /\ jump.target_pc = TARGET_PC_RETPOLINE -> s.retpoline_loc
    [] OTHER -> PcLoc(s, jump.target_pc)

\* A place of a table and the distance written to it.
Patch(place, width, target_loc) == [at |-> place.offset_loc, rel |-> target_loc - (place.offset_loc + width)]

Width(jump) == IF jump.near THEN 1 ELSE 4

Patches(s) ==
  {Patch(j, Width(j), TargetLoc(s, j)) : j \in ToSet(s.jumps)}
  \cup {Patch(c, 4, PcLoc(s, c.target_pc) - s.bpf_function_prolog_size) : c \in ToSet(s.local_calls)}
  \cup {Patch(l, 4, s.dispatcher_loc) : l \in ToSet(s.loads)}
  \cup {Patch(l, 4, s.helper_table_loc) : l \in ToSet(s.leas)}

\* A near jump that is too long is the only way to fail.
resolve_patchable_relatives(s) ==
  \A j \in ToSet(s.jumps) : j.near => Patch(j, 1, TargetLoc(s, j)).rel \in -128 .. 127

\* Where a patched instruction leads to.
Destination(at, native, patches) ==
  LET patch == CHOOSE x \in patches : x.at = at + native.field
  IN at + native.len + patch.rel
=============================================================================

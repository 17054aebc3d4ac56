------------------------------ MODULE JitState -----------------------------
(* What the two translators share (ubpf_jit_support.{c,h}): the code buffer,  *)
(* and the tables of places in it that are patched once all is emitted.       *)
(*                                                                            *)
(* Native code is a function from offsets to native instructions, told apart  *)
(* by what they do to control, stack and the registers the properties are     *)
(* about; the others have kind "plain". An instruction that is patched has    *)
(* the offset of its field, which is what the tables hold.                    *)
EXTENDS Integers, Sequences, FiniteSets, SequencesExt

CONSTANTS
  NULL,
  UBPF_MAX_INSTS,      \* size of the tables
  MAX_EXT_FUNCS,       \* size of the table of helpers
  StopsAtError         \* does emit_bytes look at jit_status?

\* Special values for target_pc.
TARGET_PC_EXIT == -1                     \* ~0, which no instruction has
TARGET_PC_ENTER == 1                     \* ~0 & 0x01
TARGET_PC_RETPOLINE == 257               \* ~0 & 0x0101
TARGET_PC_EXTERNAL_DISPATCHER == 65793   \* ~0 & 0x010101
TARGET_LOAD_HELPER_TABLE == 16843009     \* ~0 & 0x01010101

initialize_jit_state_result(size) ==
  [offset |-> 0, size |-> size, code |-> << >>, pc_locs |-> << >>,
   jit_status |-> "NoError", bpf_function_prolog_size |-> 0,
   entry_loc |-> 0, exit_loc |-> 0, retpoline_loc |-> 0, dispatcher_loc |-> 0, helper_table_loc |-> 0,
   jumps |-> <<>>, local_calls |-> <<>>, loads |-> <<>>, leas |-> <<>>]

\* A native instruction: its length, an argument, and for one that is patched
\* the table, the offset of the field in it and whether the field is one byte.
Native(kind, len, arg) ==
  [kind |-> kind, len |-> len, arg |-> arg, table |-> NULL, target_pc |-> 0, field |-> 0, near |-> FALSE]

Plain(len) == Native("plain", len, 0)

Patchable(kind, len, field, table, target_pc) ==
  [Native(kind, len, 0) EXCEPT !.table = table, !.field = field, !.target_pc = target_pc]

\* emit_patchable_relative_ex, note_load and note_lea.
emit_patchable_relative_ex(s, native) ==
  [s EXCEPT ![native.table] =
     Append(@, [offset_loc |-> s.offset + native.field, target_pc |-> native.target_pc,
                target_offset |-> 0, near |-> native.near])]

\* Mutant: what does not fit is left out without an error.
emit_bytes_bug(s, native) ==
  IF s.offset + native.len > s.size THEN s
  ELSE [s EXCEPT !.code = (s.offset :> native) @@ @, !.offset = @ + native.len]

\* emit_bytes, for a native instruction as a whole. The one for x86-64 emits
\* nothing after an error, the one for Arm whatever fits.
emit_bytes(s, native) ==
  CASE StopsAtError /\ s.jit_status # "NoError" -> s
    [] s.offset + native.len > s.size -> [s EXCEPT !.jit_status = "NotEnoughSpace"]
    [] OTHER ->
         [s EXCEPT !.code = (s.offset :> native) @@ @, !.offset = @ + native.len]

\* The place is noted before it is emitted.
emit_noted(s, native) ==
  emit_bytes(IF native.table = NULL THEN s ELSE emit_patchable_relative_ex(s, native), native)

\* The entries at a place are given a target in the native code.
fixup_jump_target(s, src_offset, dest_offset) ==
  [s EXCEPT !.jumps = [i \in DOMAIN @ |->
     IF @[i].offset_loc = src_offset THEN [@[i] EXCEPT !.target_offset = dest_offset] ELSE @[i]]]

emit_jump_target(s, jump_src) == fixup_jump_target(s, jump_src, s.offset)

\* A prolog is emitted where a function starts, and a jump around it where the
\* instruction before can fall through into it: "the only instruction that does
\* not have a fallthrough is the EXIT".
ubpf_instruction_has_fallthrough(inst) == inst.op # "EXIT"

Inst(p, i) == p[i + 1]

LocalCallTarget(i, inst) == i + 1 + inst.imm

JumpTarget(i, inst) == i + 1 + inst.off

int_funcs(p) ==
  {LocalCallTarget(i, Inst(p, i)) : i \in
     {j \in 0 .. Len(p) - 1 : Inst(p, j).op = "CALL" /\ Inst(p, j).src = 1}}

\* The data behind the code: the dispatcher's address, then the helpers'.
Pointer(v) == Native("data", 8, v)

emit_dispatched_external_helper_address(s, dispatcher) ==
  [emit_bytes(s, Pointer(dispatcher)) EXCEPT !.dispatcher_loc = s.offset]

\* Mutant: the place of the table is taken after its first entry.
emit_helper_table_bug(s, ext_funcs) ==
  [FoldLeft(emit_bytes, s, [i \in 1 .. MAX_EXT_FUNCS |-> Pointer(ext_funcs[i - 1])])
     EXCEPT !.helper_table_loc = s.offset + 8]

emit_helper_table(s, ext_funcs) ==
  [FoldLeft(emit_bytes, s, [i \in 1 .. MAX_EXT_FUNCS |-> Pointer(ext_funcs[i - 1])])
     EXCEPT !.helper_table_loc = s.offset]

\* Locations of instructions: the table starts out zeroed.
PcLoc(s, pc) == IF pc \in DOMAIN s.pc_locs THEN s.pc_locs[pc] ELSE 0
=============================================================================

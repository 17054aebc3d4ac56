----------------------------- MODULE Interpreter -----------------------------
(***************************************************************************)
(* ubpf_load() with validate(), and the interpreter ubpf_exec_ex().        *)
(*                                                                         *)
(* Instructions are told apart by how they affect control: SET (any that   *)
(* computes into a callee-saved register), MOV10 (a move into the frame    *)
(* pointer, which validate() lets pass), MEM (a load or store, which the   *)
(* bounds check may stop), LDDW with its second slot ZERO, JMP, CALL and   *)
(* EXIT.  A condition may turn out either way.                             *)
(***************************************************************************)
EXTENDS Integers, Sequences

CONSTANTS
  Programs,        \* sequences of instructions offered to ubpf_load()
  StackUse,        \* StackUse[p]: what the registered calculator says of p, by pc
  Calculator,      \* is a stack usage calculator registered?
  Limits,          \* instruction limits set before a run, 0 for none
  LW,              \* width of the int that holds the limit: 32
  PW,              \* width of the program counter: 16
  MAX_CALL_DEPTH, STACK_SIZE,
  Helpers, UnwindIndex,
  RegValues,       \* values of callee-saved registers
  FramePointers,   \* values moved into r10
  MaxLoads,        \* bound on the number of programs loaded
  NULL

MAX_INSTS == 2^PW
PCs == 0 .. MAX_INSTS - 1
Depths == 0 .. MAX_CALL_DEPTH - 1

ASSUME InterpreterAssumption ==
  /\ PW \in Nat /\ LW \in Nat \ {0} /\ MAX_CALL_DEPTH \in Nat \ {0} /\ STACK_SIZE \in Nat
  /\ Limits \subseteq Nat /\ Calculator \in BOOLEAN /\ NULL \notin Programs
  /\ MAX_INSTS \in Nat \ {0} /\ RegValues # {} /\ MaxLoads \in Nat
  /\ FramePointers \subseteq Int
  /\ Programs \subseteq Seq([op : STRING, src : Nat, k : Int])
  /\ \A p \in Programs : StackUse[p] \in [PCs -> Nat]

VARIABLES
  insts,    \* loaded program or NULL
  loads,
  stack_usage,   \* local_func_stack_usage: NULL until "calculated"
  state,    \* "idle", "run", or how the last run ended
  pc, r6, r10, instruction_limit,
  stack_frame_index, stack_frames,
  limit,    \* the limit of this run
  fetched,  \* instructions executed, counted up to one more than the limit
  callers   \* what each active caller had when it called: r6, r10, pc,
            \* and whether r10 was written since

machine == <<pc, r6, r10, instruction_limit, stack_frame_index, stack_frames, limit, fetched, callers>>
vars == <<insts, loads, stack_usage, state, machine>>

(* The number of instructions ubpf_load() gives to validate(), a uint32_t, *)
(* and what is kept of it in the VM's uint16_t.                            *)
num_insts(p) == Len(p)
LoadedInsts == num_insts(insts) % MAX_INSTS
Inst(p, i) == p[i + 1]

-----------------------------------------------------------------------------
(* validate()                                                              *)

(* The instructions the loop of validate() looks at: not the second slot   *)
(* of an LDDW.                                                             *)
Looked(p) ==
  LET f[i \in 0 .. num_insts(p) - 1] ==
        i = 0 \/ ~ (f[i - 1] /\ Inst(p, i - 1).op = "LDDW")
  IN  {i \in 0 .. num_insts(p) - 1 : f[i]}

Target(i, inst) == i + 1 + inst.k
InProgram(p, i) == i \in 0 .. num_insts(p) - 1

JumpOK_bug(p, i, inst) == inst.k # -1 /\ InProgram(p, Target(i, inst))

JumpOK(p, i, inst) ==
  /\ inst.k # -1 /\ InProgram(p, Target(i, inst))
  /\ Inst(p, Target(i, inst)).op # "ZERO"

(* ubpf_calculate_stack_usage_for_local_func(): the usage on record for    *)
(* the function at a pc from then on.  A usage once recorded is kept.      *)
Usage(u, p, at) ==
  IF u[at] # NULL THEN u[at] ELSE IF Calculator THEN StackUse[p][at] ELSE 0
Aligned(n) == n % 16 = 0

InstOK(p, i) ==
  LET inst == Inst(p, i) IN
  \/ inst.op \in {"SET", "MOV10", "MEM", "EXIT"}
  \/ inst.op = "LDDW" /\ InProgram(p, i + 1) /\ Inst(p, i + 1).op = "ZERO"
  \/ inst.op = "JMP" /\ JumpOK(p, i, inst)
  \/ inst.op = "CALL" /\ inst.src = 0 /\ inst.k \in Helpers
  \/ inst.op = "CALL" /\ inst.src = 1 /\ InProgram(p, Target(i, inst))

IsLocalCall(p, i) == Inst(p, i).op = "CALL" /\ Inst(p, i).src = 1

(* The loop passes instruction i.                                          *)
Passes(p, u, i) ==
  InstOK(p, i) /\ (IsLocalCall(p, i) => Aligned(Usage(u, p, Target(i, Inst(p, i)))))

Reaches(p, u, i) ==
  Aligned(Usage(u, p, 0)) /\ \A j \in Looked(p) : j < i => Passes(p, u, j)

validate(p, u) == Reaches(p, u, num_insts(p))

(* The functions whose usage validate() has put on record when it returns. *)
Recorded(p, u) ==
  {0} \cup {Target(i, Inst(p, i)) : i \in
              {j \in Looked(p) : IsLocalCall(p, j) /\ Reaches(p, u, j) /\ InstOK(p, j)}}

TooLong_bug(p) == num_insts(p) > MAX_INSTS

TooLong(p) == num_insts(p) >= MAX_INSTS

-----------------------------------------------------------------------------
NoFrame == [saved |-> NULL, return_address |-> 0, stack_usage |-> 0]

Init ==
  /\ insts = NULL /\ loads = 0 /\ stack_usage = [i \in PCs |-> NULL]
  /\ state = "idle"
  /\ pc = 0 /\ r6 = NULL /\ r10 = 0 /\ instruction_limit = 0
  /\ stack_frame_index = 0 /\ stack_frames = [d \in Depths |-> NoFrame]
  /\ limit = 0 /\ fetched = 0 /\ callers = << >>

(* ubpf_load(): what validate() recorded stays, also when it refuses.      *)
ubpf_load(p) ==
  /\ state # "run" /\ insts = NULL /\ loads < MaxLoads
  /\ loads' = loads + 1
  /\ \/ TooLong(p) /\ UNCHANGED <<insts, stack_usage>>
     \/ /\ ~TooLong(p)
        /\ stack_usage' = [at \in PCs |-> IF at \in Recorded(p, stack_usage)
                             THEN Usage(stack_usage, p, at) ELSE stack_usage[at]]
        /\ insts' = IF validate(p, stack_usage) THEN p ELSE NULL
  /\ state' = "idle"
  /\ UNCHANGED machine

ubpf_unload_code ==
  /\ state # "run" /\ insts # NULL
  /\ insts' = NULL /\ state' = "idle"
  /\ UNCHANGED <<loads, stack_usage, machine>>

(* The uint32_t given to ubpf_set_instruction_limit() becomes an int.      *)
AsInt(n) == IF n < 2^(LW - 1) THEN n ELSE n - 2^LW

(* ubpf_exec_ex() is called; registers start with what is on the stack.    *)
ubpf_exec(l) ==
  /\ state # "run" /\ insts # NULL
  /\ state' = "run" /\ pc' = 0 /\ r6' \in RegValues /\ r10' = STACK_SIZE
  /\ limit' = l /\ instruction_limit' = AsInt(l) /\ fetched' = 0
  /\ stack_frame_index' = 0 /\ stack_frames' = [d \in Depths |-> NoFrame] /\ callers' = << >>
  /\ UNCHANGED <<insts, loads, stack_usage>>

End(how) ==
  /\ state' = how
  /\ UNCHANGED <<pc, r6, r10, stack_frame_index, stack_frames, callers>>

-----------------------------------------------------------------------------
(* One turn of the loop of ubpf_exec_ex().                                 *)

IsFunction(at) == at = 0 \/ \E i \in 0 .. LoadedInsts - 1 :
                              IsLocalCall(insts, i) /\ Target(i, Inst(insts, i)) = at

ubpf_stack_usage_for_local_func(at) == IF stack_usage[at] = NULL THEN STACK_SIZE ELSE stack_usage[at]

(* The frame's stack usage is set where a function begins.                 *)
Frames ==
  IF IsFunction(pc) /\ stack_frame_index < MAX_CALL_DEPTH
    THEN [stack_frames EXCEPT ![stack_frame_index].stack_usage =
            ubpf_stack_usage_for_local_func(pc)]
    ELSE stack_frames

Wrap(i) == i % MAX_INSTS

Goto(at) == pc' = Wrap(at) /\ stack_frames' = Frames /\ UNCHANGED <<state, stack_frame_index>>
Step(at) == Goto(at) /\ UNCHANGED <<r6, r10, callers>>

Set == (\E v \in RegValues : r6' = v) /\ Goto(pc + 1) /\ UNCHANGED <<r10, callers>>

Written(c) == [c EXCEPT !.moved = TRUE]

MoveFramePointer ==
  /\ \E v \in FramePointers : r10' = v
  /\ callers' = [d \in 1 .. Len(callers) |-> Written(callers[d])]
  /\ Goto(pc + 1) /\ UNCHANGED r6

Mem == Step(pc + 1) \/ End("fault")

Jump(inst) == Step(pc + 1) \/ Step(pc + 1 + inst.k)

Helper(inst) ==
  \/ Step(pc + 1)
  \/ inst.k = UnwindIndex /\ End("done")     \* it returned 0

CallTooDeep == stack_frame_index >= MAX_CALL_DEPTH

return_address_bug == Wrap(pc)

return_address == Wrap(pc + 1)

Call(inst) ==
  \/ CallTooDeep /\ End("fault")
  \/ /\ ~CallTooDeep
     /\ LET usage == Frames[stack_frame_index].stack_usage IN
          /\ stack_frames' = [Frames EXCEPT ![stack_frame_index] =
                [saved |-> r6, return_address |-> return_address, stack_usage |-> usage]]
          /\ r10' = r10 - usage
     /\ stack_frame_index' = stack_frame_index + 1
     /\ pc' = Wrap(pc + 1 + inst.k)
     /\ callers' = Append(callers, [r6 |-> r6, r10 |-> r10, pc |-> Wrap(pc + 1), moved |-> FALSE])
     /\ UNCHANGED <<state, r6>>

Return_bug ==
  LET f == stack_frames[stack_frame_index - 1] IN
  /\ stack_frame_index' = stack_frame_index - 1
  /\ pc' = f.return_address /\ r6' = f.saved /\ r10' = r10 + Frames[stack_frame_index].stack_usage
  /\ stack_frames' = Frames
  /\ callers' = SubSeq(callers, 1, Len(callers) - 1)
  /\ UNCHANGED state

(* EXIT of a local function.                                               *)
Return ==
  LET f == stack_frames[stack_frame_index - 1] IN
  /\ stack_frame_index' = stack_frame_index - 1
  /\ pc' = f.return_address /\ r6' = f.saved /\ r10' = r10 + f.stack_usage
  /\ stack_frames' = Frames
  /\ callers' = SubSeq(callers, 1, Len(callers) - 1)
  /\ UNCHANGED state

Exit == (stack_frame_index > 0 /\ Return) \/ (stack_frame_index = 0 /\ End("done"))

Execute(inst) ==
  \/ inst.op = "SET" /\ Set
  \/ inst.op = "MOV10" /\ MoveFramePointer
  \/ inst.op = "MEM" /\ Mem
  \/ inst.op = "LDDW" /\ Step(pc + 2)
  \/ inst.op = "JMP" /\ Jump(inst)
  \/ inst.op = "CALL" /\ inst.src = 0 /\ Helper(inst)
  \/ inst.op = "CALL" /\ inst.src = 1 /\ Call(inst)
  \/ inst.op = "EXIT" /\ Exit
  \/ inst.op = "ZERO" /\ End("unknown opcode")

OffTheEnd == End("off the end") /\ UNCHANGED <<instruction_limit, fetched>>

LimitReached_bug == limit # 0 /\ instruction_limit < 0

LimitReached == limit # 0 /\ instruction_limit <= 0

Countdown_bug == instruction_limit

Countdown == IF limit # 0 THEN instruction_limit - 1 ELSE instruction_limit

Loop ==
  /\ state = "run"
  /\ UNCHANGED <<insts, loads, stack_usage, limit>>
  /\ \/ pc >= LoadedInsts /\ OffTheEnd
     \/ /\ pc < LoadedInsts
        /\ instruction_limit' = Countdown
        /\ \/ LimitReached /\ End("limit") /\ UNCHANGED fetched
           \/ /\ ~LimitReached
              /\ fetched' = IF fetched < limit + 1 /\ limit # 0 THEN fetched + 1 ELSE fetched
              /\ Execute(Inst(insts, pc))

Next ==
  \/ \E p \in Programs : ubpf_load(p)
  \/ ubpf_unload_code
  \/ \E l \in Limits : ubpf_exec(l)
  \/ Loop

Spec == Init /\ [][Next]_vars
FairSpec == Spec /\ WF_vars(Loop)

-----------------------------------------------------------------------------
(* EXIT of a local function gives its caller back the callee-saved         *)
(* registers and the place it had when it called, whatever was called and  *)
(* jumped to in between, and the frame pointer unless r10 was written:     *)
(* EXIT adds to r10 what the CALL took off, it does not restore it.        *)
ReturnRestores ==
  [][Len(callers') < Len(callers) /\ state = "run" /\ state' = "run" =>
       LET c == callers[Len(callers)] IN
         r6' = c.r6 /\ pc' = c.pc /\ (c.moved \/ r10' = c.r10)]_vars

(* There are never more active calls than frames, and each has its frame.  *)
FramesMatchCalls ==
  state = "run" =>
    /\ Len(callers) = stack_frame_index /\ stack_frame_index \in 0 .. MAX_CALL_DEPTH
    /\ \A d \in 0 .. stack_frame_index - 1 : stack_frames[d].return_address = callers[d + 1].pc

(* "This is the maximum number of instructions that a program may execute  *)
(* during a call to ubpf_exec": a run executes no more than its limit, and *)
(* is cut off only when it has executed that many.                         *)
LimitExact ==
  /\ limit # 0 => fetched <= limit
  /\ state = "limit" => fetched = limit

(* "jump to middle of lddw" is refused by validate(): a program whose      *)
(* local calls lead to instructions is never stopped by an unknown opcode. *)
CallsInstructions(p) ==
  \A i \in Looked(p) : IsLocalCall(p, i) => Inst(p, Target(i, Inst(p, i))).op # "ZERO"
NeverMidInstruction ==
  insts # NULL /\ state = "unknown opcode" => ~CallsInstructions(insts)

(* A run leaves the program only past the last instruction validate() has  *)
(* seen: no jump, call, LDDW or return leads out of it, and the 16-bit     *)
(* num_insts of the VM counts all that was validated.                      *)
EndsAtEnd == state = "off the end" => pc = num_insts(insts)

(* With a limit every run comes to an end.                                 *)
Terminates == state = "run" /\ limit # 0 ~> state # "run"

(* "If the callback returns 0 or there is no callback registered, the eBPF *)
(* interpreter/JITer assume that the local function uses the maximum stack *)
(* available".                                                             *)
DefaultStackUsage ==
  state = "run" /\ ~Calculator /\ IsFunction(pc) =>
    ubpf_stack_usage_for_local_func(pc) = STACK_SIZE
=============================================================================

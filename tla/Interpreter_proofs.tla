-------------------------- MODULE Interpreter_proofs --------------------------
(***************************************************************************)
(* The interpreter's call stack and instruction limit are right for every  *)
(* program, stack usage, depth and limit.                                  *)
(***************************************************************************)
EXTENDS Interpreter, TLAPS, WellFoundedInduction

Insts == [op : STRING, src : Nat, k : Int]
Regs == RegValues \cup {NULL}
FrameType == [saved : Regs, return_address : PCs, stack_usage : Nat]
CallerType == [r6 : Regs, r10 : Int, pc : PCs, moved : BOOLEAN]

(* Types of what the argument needs.                                       *)
Types ==
  /\ insts \in Programs \cup {NULL}
  /\ stack_usage \in [PCs -> Nat \cup {NULL}]
  /\ pc \in PCs /\ r6 \in Regs /\ r10 \in Int
  /\ stack_frame_index \in 0 .. MAX_CALL_DEPTH
  /\ stack_frames \in [Depths -> FrameType]
  /\ callers \in Seq(CallerType)
  /\ state = "run" => insts # NULL
  /\ insts # NULL => num_insts(insts) < MAX_INSTS

(* Every active call has its frame, which leads back to where the caller   *)
(* was; frame pointers are apart by what the frames say, as long as r10 is *)
(* not written, which counts for all that are active.                      *)
Stack ==
  /\ Len(callers) = stack_frame_index
  /\ \A d \in 0 .. stack_frame_index - 1 :
       /\ stack_frames[d].saved = callers[d + 1].r6
       /\ stack_frames[d].return_address = callers[d + 1].pc
       /\ ~callers[d + 1].moved =>
            IF d + 1 = stack_frame_index
              THEN callers[d + 1].r10 - stack_frames[d].stack_usage = r10
              ELSE /\ callers[d + 1].r10 - stack_frames[d].stack_usage = callers[d + 2].r10
                   /\ ~callers[d + 2].moved

IInv == Types /\ Stack

(* The program counter stays within its width.                             *)
LEMMA WrapType == \A x \in Int : Wrap(x) \in PCs
  BY InterpreterAssumption DEF Wrap, PCs

LEMMA ConstType == MAX_INSTS \in Nat /\ 0 \in PCs /\ NULL \notin Programs
  BY InterpreterAssumption DEF PCs

(* The VM's uint16_t counts all instructions of the program.               *)
LEMMA LoadedAll ==
  ASSUME Types, insts # NULL
  PROVE  LoadedInsts = num_insts(insts) /\ num_insts(insts) \in Nat
  <1> DEFINE M == MAX_INSTS
             n == num_insts(insts)
  <1>1. n \in Nat BY InterpreterAssumption DEF Types, num_insts
  <1>2. M \in Nat \ {0} /\ n \in 0 .. M - 1 BY <1>1, InterpreterAssumption DEF Types
  <1>3. LoadedInsts = n % M BY DEF LoadedInsts
  <1> HIDE DEF M, n
  <1>4. LoadedInsts = n BY <1>2, <1>3
  <1> QED BY <1>1, <1>4 DEF n

(* The instruction about to be executed is one of the program's.           *)
LEMMA InstType ==
  ASSUME Types, state = "run", pc < num_insts(insts)
  PROVE  Inst(insts, pc) \in Insts
  <1>1. insts \in Seq(Insts) BY InterpreterAssumption DEF Types, Insts
  <1>2. pc + 1 \in 1 .. Len(insts) BY <1>1, ConstType DEF Types, PCs, num_insts
  <1> QED BY <1>1, <1>2 DEF Inst

(* Entering a function sets the usage of the current frame and leaves the  *)
(* frames of the callers alone.                                            *)
LEMMA FramesType ==
  ASSUME Types
  PROVE  /\ Frames \in [Depths -> FrameType]
         /\ \A d \in 0 .. stack_frame_index - 1 : Frames[d] = stack_frames[d]
  <1>1. ubpf_stack_usage_for_local_func(pc) \in Nat
    BY InterpreterAssumption DEF Types, ubpf_stack_usage_for_local_func
  <1>2. CASE IsFunction(pc) /\ stack_frame_index < MAX_CALL_DEPTH
    <2> DEFINE u == ubpf_stack_usage_for_local_func(pc)
    <2>1. Frames = [stack_frames EXCEPT ![stack_frame_index].stack_usage = u]
      BY <1>2 DEF Frames
    <2>2. stack_frame_index \in Depths BY <1>2, InterpreterAssumption DEF Types, Depths
    <2>3. u \in Nat BY <1>1
    <2> HIDE DEF u
    <2>4. Frames \in [Depths -> FrameType] BY Zenon, <2>1, <2>2, <2>3 DEF Types, FrameType
    <2>5. \A d \in 0 .. stack_frame_index - 1 : Frames[d] = stack_frames[d]
      BY <2>1, <2>2, InterpreterAssumption DEF Types, Depths
    <2> QED BY <2>4, <2>5
  <1>3. CASE ~(IsFunction(pc) /\ stack_frame_index < MAX_CALL_DEPTH)
    BY <1>3 DEF Frames, Types
  <1> QED BY <1>2, <1>3

(* A usage put on record is a number.                                      *)
LEMMA LoadUsage ==
  ASSUME Types, NEW p \in Programs, NEW at \in PCs
  PROVE  Usage(stack_usage, p, at) \in Nat
  BY InterpreterAssumption DEF Types, Usage

-----------------------------------------------------------------------------
LEMMA InitIInv == Init => IInv
  <1> SUFFICES ASSUME Init PROVE IInv OBVIOUS
  <1>1. NoFrame \in FrameType BY ConstType DEF NoFrame, FrameType, Regs
  <1>2. Types
    BY <1>1, ConstType, InterpreterAssumption DEF Init, Types, Regs
  <1>3. Stack BY DEF Init, Stack
  <1> QED BY <1>2, <1>3 DEF IInv

LEMMA LoadStep ==
  ASSUME IInv, NEW p \in Programs, ubpf_load(p)
  PROVE  IInv'
  <1>1. stack_usage' \in [PCs -> Nat \cup {NULL}]
    BY LoadUsage DEF ubpf_load, IInv, Types
  <1>2. insts' \in Programs \cup {NULL} BY DEF ubpf_load, IInv, Types
  <1>3. insts' # NULL => num_insts(insts') < MAX_INSTS
    <2>1. insts' # NULL => insts' = p /\ ~TooLong(p) BY DEF ubpf_load
    <2>2. num_insts(p) \in Nat BY InterpreterAssumption DEF num_insts
    <2> QED BY <2>1, <2>2, ConstType DEF TooLong
  <1>5. Types' BY <1>1, <1>2, <1>3 DEF ubpf_load, IInv, Types, machine, num_insts
  <1>4. Stack' BY DEF ubpf_load, IInv, Stack, machine
  <1> QED BY <1>4, <1>5 DEF IInv

LEMMA UnloadStep ==
  ASSUME IInv, ubpf_unload_code
  PROVE  IInv'
  <1>1. Types' BY DEF ubpf_unload_code, IInv, Types, machine
  <1>2. Stack' BY DEF ubpf_unload_code, IInv, Stack, machine
  <1> QED BY <1>1, <1>2 DEF IInv

LEMMA ExecStep ==
  ASSUME IInv, NEW l \in Limits, ubpf_exec(l)
  PROVE  IInv'
  <1>1. NoFrame \in FrameType BY ConstType DEF NoFrame, FrameType, Regs
  <1>2. Types'
    BY <1>1, ConstType, InterpreterAssumption DEF ubpf_exec, IInv, Types, Regs
  <1>3. Stack' BY DEF ubpf_exec, Stack
  <1> QED BY <1>2, <1>3 DEF IInv

(* A step within a function, to wherever.                                  *)
LEMMA GotoStep ==
  ASSUME IInv, state = "run", NEW at \in Int, Goto(at), r6' \in Regs,
         UNCHANGED <<r10, callers, insts, stack_usage>>
  PROVE  IInv'
  <1>1. pc' \in PCs BY WrapType DEF Goto
  <1>2. Types' BY <1>1, FramesType DEF IInv, Types, Goto
  <1>3. Stack' BY FramesType DEF IInv, Types, Stack, Goto
  <1> QED BY <1>2, <1>3 DEF IInv

(* A move into r10 is noted with every active call.                        *)
LEMMA MoveStep ==
  ASSUME IInv, state = "run", MoveFramePointer, UNCHANGED <<insts, stack_usage>>
  PROVE  IInv' /\ Len(callers') = Len(callers)
  <1>1. pc' \in PCs BY WrapType, ConstType DEF MoveFramePointer, Goto, IInv, Types, PCs
  <1>2. r10' \in Int BY InterpreterAssumption DEF MoveFramePointer
  <1>3. Len(callers) = stack_frame_index /\ Len(callers) \in Nat /\ callers \in Seq(CallerType)
    BY DEF IInv, Types, Stack
  <1>4. ASSUME NEW d \in 1 .. Len(callers)
        PROVE  /\ Written(callers[d]) \in CallerType /\ Written(callers[d]).moved
               /\ Written(callers[d]).r6 = callers[d].r6 /\ Written(callers[d]).pc = callers[d].pc
    <2>1. callers[d] \in CallerType BY <1>3
    <2> QED BY <2>1, Zenon DEF Written, CallerType
  <1>5. callers' = [d \in 1 .. Len(callers) |-> Written(callers[d])] BY DEF MoveFramePointer
  <1>6. callers' \in Seq(CallerType) /\ Len(callers') = Len(callers) BY <1>3, <1>4, <1>5
  <1>7. Types' BY <1>1, <1>2, <1>6, FramesType DEF MoveFramePointer, Goto, IInv, Types
  <1>8. ASSUME NEW d \in 0 .. stack_frame_index - 1
        PROVE  /\ callers'[d + 1].r6 = callers[d + 1].r6 /\ callers'[d + 1].pc = callers[d + 1].pc
               /\ callers'[d + 1].moved /\ stack_frames'[d] = stack_frames[d]
    <2>1. d + 1 \in 1 .. Len(callers) BY <1>3
    <2> QED BY <2>1, <1>4, <1>5, FramesType DEF MoveFramePointer, Goto, IInv
  <1>9. Stack' BY <1>3, <1>6, <1>8 DEF MoveFramePointer, Goto, IInv, Stack
  <1> QED BY <1>6, <1>7, <1>9 DEF IInv

LEMMA EndStep ==
  ASSUME IInv, NEW how, how # "run", End(how), UNCHANGED <<insts, stack_usage>>
  PROVE  IInv'
  BY DEF IInv, Types, Stack, End

(* A call pushes what the caller has.                                      *)
LEMMA CallStep ==
  ASSUME IInv, state = "run", NEW inst \in Insts, ~CallTooDeep, Call(inst),
         UNCHANGED <<insts, stack_usage>>
  PROVE  IInv'
  <1> DEFINE n == stack_frame_index
             f == [saved |-> r6, return_address |-> Wrap(pc + 1),
                   stack_usage |-> Frames[n].stack_usage]
             c == [r6 |-> r6, r10 |-> r10, pc |-> Wrap(pc + 1), moved |-> FALSE]
  <1>1. n \in Depths /\ n \in Nat
    BY InterpreterAssumption DEF IInv, Types, CallTooDeep, Depths
  <1>2. Frames \in [Depths -> FrameType] /\ \A d \in 0 .. n - 1 : Frames[d] = stack_frames[d]
    BY FramesType DEF IInv
  <1>3. pc + 1 \in Int /\ inst.k \in Int BY ConstType DEF IInv, Types, PCs, Insts
  <1>4. Wrap(pc + 1) \in PCs /\ Wrap(pc + 1 + inst.k) \in PCs BY <1>3, WrapType
  <1>5. f \in FrameType BY <1>1, <1>2, <1>4 DEF FrameType, IInv, Types
  <1>6. c \in CallerType BY <1>4 DEF CallerType, IInv, Types
  <1>7. Frames[n].stack_usage \in Nat BY <1>1, <1>2 DEF FrameType
  <1>8. /\ stack_frames' = [Frames EXCEPT ![n] = f]
        /\ r10' = r10 - f.stack_usage
        /\ stack_frame_index' = n + 1 /\ pc' = Wrap(pc + 1 + inst.k)
        /\ callers' = Append(callers, c) /\ UNCHANGED <<state, r6>>
    BY DEF Call, CallTooDeep, return_address
  <1>9. f.saved = c.r6 /\ f.return_address = c.pc /\ c.r10 = r10 /\ f.stack_usage \in Nat
        /\ ~c.moved
    BY <1>7
  <1> HIDE DEF f, c
  <1>10. callers \in Seq(CallerType) /\ Len(callers) = n /\ r10 \in Int
    BY DEF IInv, Types, Stack
  <1>11. callers' \in Seq(CallerType) /\ Len(callers') = n + 1 /\ callers'[n + 1] = c
         /\ \A d \in 1 .. n : callers'[d] = callers[d]
    BY <1>6, <1>8, <1>10
  <1>12. stack_frames' \in [Depths -> FrameType] /\ stack_frames'[n] = f
         /\ \A d \in 0 .. n - 1 : stack_frames'[d] = stack_frames[d]
    BY <1>1, <1>2, <1>5, <1>8, InterpreterAssumption DEF Depths
  <1>13. r10' \in Int BY <1>8, <1>9, <1>10
  <1>14. stack_frame_index' \in 0 .. MAX_CALL_DEPTH
    BY <1>1, <1>8, InterpreterAssumption DEF Depths
  <1>15. Types' BY <1>4, <1>8, <1>11, <1>12, <1>13, <1>14 DEF IInv, Types
  <1>16. ASSUME NEW d \in 0 .. n
         PROVE  /\ stack_frames'[d].saved = callers'[d + 1].r6
                /\ stack_frames'[d].return_address = callers'[d + 1].pc
                /\ ~callers'[d + 1].moved =>
                     IF d + 1 = n + 1
                       THEN callers'[d + 1].r10 - stack_frames'[d].stack_usage = r10'
                       ELSE /\ callers'[d + 1].r10 - stack_frames'[d].stack_usage = callers'[d + 2].r10
                            /\ ~callers'[d + 2].moved
    <2>1. CASE d = n BY <2>1, <1>1, <1>8, <1>9, <1>11, <1>12
    <2>2. CASE d # n
      <3>1. d \in 0 .. n - 1 /\ d + 1 \in 1 .. n BY <2>2, <1>1
      <3>2. stack_frames'[d] = stack_frames[d] /\ callers'[d + 1] = callers[d + 1]
        BY <3>1, <1>11, <1>12
      <3>3. CASE d + 1 = n
        <4>1. callers'[d + 2] = c BY <3>3, <1>1, <1>11
        <4> QED BY <4>1, <3>1, <3>2, <3>3, <2>2, <1>1, <1>9 DEF IInv, Stack
      <3>4. CASE d + 1 # n
        <4>1. d + 2 \in 1 .. n BY <3>1, <3>4, <1>1
        <4>2. callers'[d + 2] = callers[d + 2] BY <4>1, <1>11
        <4> QED BY <4>2, <3>1, <3>2, <3>4, <2>2, <1>1 DEF IInv, Stack
      <3> QED BY <3>3, <3>4
    <2> QED BY <2>1, <2>2
  <1>17. Stack'
    <2>1. stack_frame_index' - 1 = n /\ Len(callers') = stack_frame_index' BY <1>1, <1>8, <1>11
    <2>2. n + 1 = stack_frame_index' BY <1>8
    <2> QED BY <2>1, <2>2, <1>16, Zenon DEF Stack
  <1> QED BY <1>15, <1>17 DEF IInv

(* A return pops it.                                                       *)
LEMMA ReturnStep ==
  ASSUME IInv, state = "run", stack_frame_index > 0, Return,
         UNCHANGED <<insts, stack_usage>>
  PROVE  IInv' /\ LET c == callers[Len(callers)] IN
                     r6' = c.r6 /\ pc' = c.pc /\ (c.moved \/ r10' = c.r10)
  <1> DEFINE n == stack_frame_index
             f == stack_frames[n - 1]
             c == callers[n]
  <1>1. n \in Nat /\ n - 1 \in Depths /\ n - 1 \in 0 .. n - 1 /\ n \in 1 .. Len(callers)
        /\ Len(callers) = n
    BY InterpreterAssumption DEF IInv, Types, Stack, Depths
  <1>2. f \in FrameType /\ c \in CallerType BY <1>1 DEF IInv, Types
  <1>3. f.saved = c.r6 /\ f.return_address = c.pc /\ (~c.moved => c.r10 - f.stack_usage = r10)
    BY <1>1 DEF IInv, Stack
  <1>4. f.stack_usage \in Nat /\ c.r10 \in Int /\ c.r6 \in Regs /\ c.pc \in PCs
    BY <1>2 DEF FrameType, CallerType
  <1>5. /\ stack_frame_index' = n - 1 /\ pc' = f.return_address /\ r6' = f.saved
        /\ r10' = r10 + f.stack_usage /\ stack_frames' = Frames
        /\ callers' = SubSeq(callers, 1, n - 1) /\ UNCHANGED state
    BY <1>1 DEF Return
  <1> HIDE DEF f, c
  <1>6. r6' = c.r6 /\ (~c.moved => r10' = c.r10) /\ pc' = c.pc /\ r10' \in Int
    BY <1>3, <1>4, <1>5 DEF IInv, Types
  <1>7. callers' \in Seq(CallerType) /\ Len(callers') = n - 1
        /\ \A d \in 1 .. n - 1 : callers'[d] = callers[d]
    BY <1>1, <1>5 DEF IInv, Types
  <1>8. Frames \in [Depths -> FrameType] /\ \A d \in 0 .. n - 1 : Frames[d] = stack_frames[d]
    BY FramesType DEF IInv
  <1>9. stack_frame_index' \in 0 .. MAX_CALL_DEPTH
    BY <1>1, <1>5, InterpreterAssumption DEF IInv, Types
  <1>10. Types' BY <1>4, <1>5, <1>6, <1>7, <1>8, <1>9 DEF IInv, Types
  <1>11. ASSUME NEW d \in 0 .. n - 2
         PROVE  /\ stack_frames'[d].saved = callers'[d + 1].r6
                /\ stack_frames'[d].return_address = callers'[d + 1].pc
                /\ ~callers'[d + 1].moved =>
                     IF d + 1 = n - 1
                       THEN callers'[d + 1].r10 - stack_frames'[d].stack_usage = r10'
                       ELSE /\ callers'[d + 1].r10 - stack_frames'[d].stack_usage = callers'[d + 2].r10
                            /\ ~callers'[d + 2].moved
    <2>1. d \in 0 .. n - 1 /\ d + 1 \in 1 .. n - 1 /\ d + 1 # n BY <1>1
    <2>2. stack_frames'[d] = stack_frames[d] /\ callers'[d + 1] = callers[d + 1]
      BY <2>1, <1>5, <1>7, <1>8
    <2>3. CASE d + 1 = n - 1
      <3>1. callers[d + 2] = c BY <2>3, <1>1 DEF c
      <3> QED BY Zenon, <3>1, <2>1, <2>2, <2>3, <1>6 DEF IInv, Stack
    <2>4. CASE d + 1 # n - 1
      <3>1. d + 2 \in 1 .. n - 1 BY <2>1, <2>4, <1>1
      <3>2. callers'[d + 2] = callers[d + 2] BY <3>1, <1>7
      <3> QED BY <3>2, <2>1, <2>2, <2>4 DEF IInv, Stack
    <2> QED BY <2>3, <2>4
  <1>12. Stack' BY <1>1, <1>5, <1>7, <1>11 DEF Stack
  <1> QED BY <1>1, <1>6, <1>10, <1>12 DEF IInv, c

-----------------------------------------------------------------------------
(* What ReturnRestores asks of a step.                                     *)
Restores ==
  Len(callers') < Len(callers) /\ state = "run" /\ state' = "run" =>
    LET c == callers[Len(callers)] IN
      r6' = c.r6 /\ pc' = c.pc /\ (c.moved \/ r10' = c.r10)

LEMMA KeepsCallers ==
  ASSUME IInv, Len(callers') = Len(callers)
  PROVE  Restores
  BY DEF IInv, Types, Restores

LEMMA ExecuteStep ==
  ASSUME IInv, state = "run", pc < num_insts(insts), UNCHANGED <<insts, stack_usage>>,
         Execute(Inst(insts, pc))
  PROVE  IInv' /\ Restores
  <1> DEFINE inst == Inst(insts, pc)
  <1>1. inst \in Insts BY InstType DEF IInv
  <1>2. /\ pc + 1 \in Int /\ pc + 2 \in Int /\ pc + 1 + inst.k \in Int
    BY <1>1, ConstType DEF IInv, Types, PCs, Insts
  <1> HIDE DEF inst
  <1>3. ASSUME NEW at \in Int, Step(at) PROVE IInv' /\ Restores
    <2>1. IInv' BY <1>3, GotoStep DEF Step, IInv, Types
    <2> QED BY <2>1, <1>3, KeepsCallers DEF Step
  <1>4. ASSUME NEW how, how # "run", End(how) PROVE IInv' /\ Restores
    BY <1>4, EndStep, KeepsCallers DEF End
  <1>5. CASE Set
    <2>1. r6' \in Regs /\ Goto(pc + 1) /\ UNCHANGED <<r10, callers>> BY <1>5 DEF Set, Regs
    <2>2. IInv' BY <2>1, <1>2, GotoStep
    <2> QED BY <2>1, <2>2, KeepsCallers
  <1>6. CASE Mem BY <1>2, <1>3, <1>4, <1>6 DEF Mem
  <1>7. CASE Step(pc + 2) BY <1>2, <1>3, <1>7
  <1>8. CASE Jump(inst) BY <1>2, <1>3, <1>8 DEF Jump
  <1>9. CASE Helper(inst) BY <1>2, <1>3, <1>4, <1>9 DEF Helper
  <1>10. CASE Call(inst)
    <2>1. CASE CallTooDeep BY <2>1, <1>4, <1>10 DEF Call
    <2>2. CASE ~CallTooDeep
      <3>1. IInv' BY <2>2, <1>1, <1>10, CallStep
      <3>2. stack_frame_index' = stack_frame_index + 1 BY <2>2, <1>10 DEF Call
      <3>3. Len(callers') > Len(callers) BY <3>1, <3>2 DEF IInv, Stack, Types
      <3>4. Len(callers) \in Nat /\ Len(callers') \in Nat BY <3>1 DEF IInv, Types
      <3> QED BY <3>1, <3>3, <3>4 DEF Restores
    <2> QED BY <2>1, <2>2
  <1>11. CASE Exit
    <2>1. CASE stack_frame_index > 0 /\ Return BY <2>1, ReturnStep DEF Restores
    <2>2. CASE stack_frame_index = 0 /\ End("done") BY <2>2, <1>4
    <2> QED BY <1>11, <2>1, <2>2 DEF Exit
  <1>12. CASE End("unknown opcode") BY Zenon, <1>4, <1>12
  <1>13. CASE MoveFramePointer BY <1>13, MoveStep, KeepsCallers
  <1> QED BY Zenon, <1>5, <1>6, <1>7, <1>8, <1>9, <1>10, <1>11, <1>12, <1>13 DEF Execute, inst

LEMMA LoopStep ==
  ASSUME IInv, Loop
  PROVE  IInv' /\ Restores
  <1>1. CASE pc >= LoadedInsts /\ OffTheEnd
    <2>1. End("off the end") /\ UNCHANGED <<insts, stack_usage>> BY Zenon, <1>1 DEF Loop, OffTheEnd
    <2>2. IInv' BY Zenon, <2>1, EndStep
    <2> QED BY Zenon, <2>1, <2>2, KeepsCallers DEF End
  <1>2. CASE pc < LoadedInsts /\ LimitReached /\ End("limit")
    <2>1. End("limit") /\ UNCHANGED <<insts, stack_usage>> BY <1>2 DEF Loop
    <2>2. IInv' BY <2>1, EndStep
    <2> QED BY <2>1, <2>2, KeepsCallers DEF End
  <1>3. CASE pc < LoadedInsts /\ Execute(Inst(insts, pc))
    BY <1>3, LoadedAll, ExecuteStep DEF Loop, IInv, Types
  <1> QED BY <1>1, <1>2, <1>3 DEF Loop

LEMMA NextStep ==
  ASSUME IInv, [Next]_vars
  PROVE  IInv' /\ Restores
  <1>1. ASSUME NEW p \in Programs, ubpf_load(p) PROVE IInv' /\ Restores
    BY <1>1, LoadStep DEF Restores, ubpf_load
  <1>2. CASE ubpf_unload_code BY <1>2, UnloadStep DEF Restores, ubpf_unload_code
  <1>3. ASSUME NEW l \in Limits, ubpf_exec(l) PROVE IInv' /\ Restores
    BY <1>3, ExecStep DEF Restores, ubpf_exec
  <1>4. CASE Loop BY <1>4, LoopStep
  <1>5. CASE UNCHANGED vars
    <2>1. Types' BY <1>5 DEF IInv, Types, vars, machine
    <2>2. Stack' BY <1>5 DEF IInv, Stack, vars, machine
    <2> QED BY <2>1, <2>2, <1>5, KeepsCallers DEF IInv, vars, machine
  <1> QED BY <1>1, <1>2, <1>3, <1>4, <1>5 DEF Next

(* Calls and frames of the interpreter stay in step: FramesMatchCalls for  *)
(* every program and every depth.                                          *)
THEOREM CallStack == Spec => []FramesMatchCalls
  <1>1. IInv => FramesMatchCalls BY DEF IInv, Types, Stack, FramesMatchCalls
  <1>2. IInv /\ [Next]_vars => IInv' BY NextStep
  <1> QED BY <1>1, <1>2, InitIInv, PTL DEF Spec

(* EXIT of a local function restores what the caller had at the CALL, for  *)
(* every program and depth; the frame pointer unless r10 was written since *)
(* (ReturnRestores).                                                       *)
THEOREM CalleeSaved == Spec => ReturnRestores
  <1>1. IInv /\ [Next]_vars => IInv' BY NextStep
  <1>2. IInv /\ [Next]_vars => [Restores]_vars BY NextStep
  <1>3. [Restores]_vars <=>
         [Len(callers') < Len(callers) /\ state = "run" /\ state' = "run" =>
            LET c == callers[Len(callers)] IN
              r6' = c.r6 /\ pc' = c.pc /\ (c.moved \/ r10' = c.r10)]_vars
    BY DEF Restores
  <1> QED BY <1>1, <1>2, <1>3, InitIInv, PTL DEF Spec, ReturnRestores

-----------------------------------------------------------------------------
(* The limit: what is left of it and what has been executed add up.        *)
LimitInv ==
  /\ limit \in Nat /\ fetched \in Nat /\ instruction_limit \in Int
  /\ limit # 0 => fetched <= limit
  /\ limit # 0 /\ state = "run" => instruction_limit = limit - fetched
  /\ state = "limit" => fetched = limit

LEMMA ExecuteState ==
  ASSUME NEW inst, state = "run", Execute(inst)
  PROVE  state' \in {"run", "done", "fault", "unknown opcode"}
  BY Zenon DEF Execute, Set, MoveFramePointer, Mem, Step, Goto, Jump, Helper, Call, Exit, Return, End

LEMMA LimitLoop ==
  ASSUME LimitInv, Loop
  PROVE  LimitInv'
  <1>1. CASE pc >= LoadedInsts /\ OffTheEnd
    BY Zenon, <1>1 DEF Loop, LimitInv, OffTheEnd, End
  <1>2. CASE LimitReached /\ End("limit") /\ UNCHANGED fetched /\ instruction_limit' = Countdown
    BY <1>2 DEF Loop, LimitInv, LimitReached, End, Countdown
  <1>3. CASE /\ ~LimitReached /\ instruction_limit' = Countdown
             /\ fetched' = IF fetched < limit + 1 /\ limit # 0 THEN fetched + 1 ELSE fetched
             /\ Execute(Inst(insts, pc))
    <2>1. state' \in {"run", "done", "fault", "unknown opcode"} BY Zenon, <1>3, ExecuteState DEF Loop
    <2>2. UNCHANGED limit /\ state = "run" BY DEF Loop
    <2>3. limit \in Nat /\ fetched \in Nat /\ instruction_limit \in Int BY DEF LimitInv
    <2>4. CASE limit = 0
      <3>1. fetched' = fetched /\ instruction_limit' = instruction_limit
        BY <1>3, <2>4 DEF Countdown
      <3> QED BY Zenon, <3>1, <2>1, <2>2, <2>3, <2>4 DEF LimitInv
    <2>5. CASE limit # 0
      <3>1. instruction_limit = limit - fetched /\ instruction_limit > 0
        BY <1>3, <2>2, <2>3, <2>5 DEF LimitInv, LimitReached
      <3>2. fetched' = fetched + 1 /\ instruction_limit' = instruction_limit - 1
        BY <1>3, <2>3, <2>5, <3>1 DEF Countdown
      <3>3. fetched' \in Nat /\ instruction_limit' \in Int /\ fetched' <= limit
            /\ instruction_limit' = limit - fetched'
        BY <3>1, <3>2, <2>3
      <3>4. state' # "limit" BY Zenon, <2>1
      <3> QED BY <3>3, <3>4, <2>2, <2>3 DEF LimitInv
    <2> QED BY <2>4, <2>5
  <1> QED BY <1>1, <1>2, <1>3 DEF Loop

(* With limits that an int can hold, ubpf_exec() honours its limit to the  *)
(* instruction: LimitExact.                                                *)
THEOREM LimitHonoured ==
  ASSUME \A l \in Limits : l < 2^(LW - 1)
  PROVE  Spec => []LimitExact
  <1>1. Init => LimitInv BY DEF Init, LimitInv
  <1>2. ASSUME LimitInv, [Next]_vars PROVE LimitInv'
    <2>1. ASSUME NEW p \in Programs, ubpf_load(p) PROVE LimitInv'
      BY <2>1, <1>2 DEF LimitInv, ubpf_load, machine
    <2>2. CASE ubpf_unload_code BY <2>2, <1>2 DEF LimitInv, ubpf_unload_code, machine
    <2>3. ASSUME NEW l \in Limits, ubpf_exec(l) PROVE LimitInv'
      <3>1. AsInt(l) = l /\ l \in Nat BY InterpreterAssumption DEF AsInt
      <3>2. state' = "run" /\ limit' = l /\ instruction_limit' = l /\ fetched' = 0
        BY <3>1, <2>3 DEF ubpf_exec
      <3> QED BY <3>1, <3>2 DEF LimitInv
    <2>4. CASE Loop BY <2>4, <1>2, LimitLoop
    <2>5. CASE UNCHANGED vars BY <2>5, <1>2 DEF LimitInv, vars, machine
    <2> QED BY <1>2, <2>1, <2>2, <2>3, <2>4, <2>5 DEF Next
  <1>3. LimitInv => LimitExact BY DEF LimitInv, LimitExact
  <1> QED BY <1>1, <1>2, <1>3, PTL DEF Spec

-----------------------------------------------------------------------------
(* Every set of numbers that has a member has a least one.                 *)
LEMMA Least ==
  ASSUME NEW T \in SUBSET Nat, T # {}
  PROVE  \E n \in T : \A m \in T : n <= m
<1> DEFINE R == OpToRel(<, Nat)
<1>1. IsWellFoundedOn(R, Nat) BY Zenon, NatLessThanWellFounded
<1>2. PICK n \in T : \A m \in T : ~(<<m, n>> \in R) BY <1>1, WFMin, Zenon
<1>3. \A m \in T : ~(m < n) BY Zenon, <1>2 DEF OpToRel
<1> QED BY <1>3

(* The step of validate()'s loop, as a property of the set of instructions *)
(* it looks at.                                                            *)
Wide(p, i) == Inst(p, i).op = "LDDW"
Skips(p, S, n) ==
  \A i \in 0 .. n - 1 : i \in S <=> (i = 0 \/ ~(i - 1 \in S /\ Wide(p, i - 1)))

LEMMA SkipsExists ==
  ASSUME NEW p
  PROVE  \A n \in Nat : \E S \in SUBSET (0 .. n - 1) : Skips(p, S, n)
<1> DEFINE T == {n \in Nat : ~ \E S \in SUBSET (0 .. n - 1) : Skips(p, S, n)}
<1> SUFFICES ASSUME T # {} PROVE FALSE BY Zenon
<1>1. PICK n \in T : \A m \in T : n <= m BY Zenon, Least
<1>2. n # 0
  <2>1. {} \in SUBSET (0 .. 0 - 1) /\ Skips(p, {}, 0) BY DEF Skips
  <2> QED BY <2>1
<1>3. n - 1 \in Nat /\ n - 1 \notin T BY <1>1, <1>2
<1>4. PICK S \in SUBSET (0 .. (n - 1) - 1) : Skips(p, S, n - 1) BY <1>3
<1> DEFINE U == IF n - 1 = 0 \/ ~(n - 2 \in S /\ Wide(p, n - 2)) THEN S \cup {n - 1} ELSE S
<1>5. U \in SUBSET (0 .. n - 1) BY <1>1, <1>2
<1>6. Skips(p, U, n)
  <2> SUFFICES ASSUME NEW i \in 0 .. n - 1
               PROVE  i \in U <=> (i = 0 \/ ~(i - 1 \in U /\ Wide(p, i - 1)))
    BY DEF Skips
  <2>1. n \in Nat /\ i - 1 # n - 1 /\ n - 1 \notin S BY <1>1, <1>2
  <2>2. CASE i = n - 1
    <3>1. i - 1 \in U <=> i - 1 \in S BY <2>1
    <3>2. i - 1 = n - 2 BY <2>1, <2>2
    <3> QED BY <3>1, <3>2, <2>1, <2>2
  <2>3. CASE i # n - 1
    <3>1. i \in 0 .. (n - 1) - 1 BY <2>1, <2>3
    <3>2. (i \in U <=> i \in S) /\ (i - 1 \in U <=> i - 1 \in S) BY <2>1, <2>3
    <3> QED BY <3>1, <3>2, <1>4 DEF Skips
  <2> QED BY <2>2, <2>3
<1>7. n \notin T BY <1>5, <1>6
<1> QED BY <1>1, <1>7

(* The recursion of Looked(), unfolded.                                    *)
LEMMA LookedUnfold ==
  ASSUME NEW p, num_insts(p) \in Nat
  PROVE  Looked(p) \in SUBSET (0 .. num_insts(p) - 1) /\ Skips(p, Looked(p), num_insts(p))
<1> DEFINE N == num_insts(p)
           F(f) == [i \in 0 .. N - 1 |-> i = 0 \/ ~ (f[i - 1] /\ Inst(p, i - 1).op = "LDDW")]
           g == CHOOSE f : f = F(f)
<1>1. PICK S \in SUBSET (0 .. N - 1) : Skips(p, S, N) BY Zenon, SkipsExists
<1> DEFINE h == [i \in 0 .. N - 1 |-> i \in S]
<1>2. h = F(h)
  <2>1. ASSUME NEW i \in 0 .. N - 1
        PROVE  h[i] = (i = 0 \/ ~ (h[i - 1] /\ Inst(p, i - 1).op = "LDDW"))
    <3>1. CASE i = 0 BY <3>1, <1>1 DEF Skips
    <3>2. CASE i # 0
      <4>1. i - 1 \in 0 .. N - 1 BY <3>2
      <4>2. h[i - 1] = (i - 1 \in S) BY <4>1
      <4>3. i \in S <=> ~(i - 1 \in S /\ Wide(p, i - 1)) BY <3>2, <1>1 DEF Skips
      <4>4. h[i] = (i \in S) OBVIOUS
      <4>5. i \in S <=> (i = 0 \/ ~ (h[i - 1] /\ Inst(p, i - 1).op = "LDDW"))
        BY Zenon, <3>2, <4>2, <4>3 DEF Wide
      <4>6. (i \in S) = (i = 0 \/ ~ (h[i - 1] /\ Inst(p, i - 1).op = "LDDW"))
        <5> HIDE DEF h
        <5> QED BY <4>5
      <4> QED BY <4>4, <4>6, Zenon
    <3> QED BY <3>1, <3>2
  <2>2. h = [i \in 0 .. N - 1 |-> h[i]] OBVIOUS
  <2> QED BY <2>1, <2>2, Zenon
<1>3. g = F(g) BY <1>2, Zenon
<1>4. Looked(p) = {i \in 0 .. N - 1 : g[i]} BY DEF Looked
<1> HIDE DEF g, h
<1>5. \A i \in 0 .. N - 1 : g[i] = (i = 0 \/ ~ (g[i - 1] /\ Inst(p, i - 1).op = "LDDW"))
  BY <1>3, Zenon
<1>6. ASSUME NEW i \in 0 .. N - 1
      PROVE  i \in Looked(p) <=> (i = 0 \/ ~(i - 1 \in Looked(p) /\ Wide(p, i - 1)))
  <2>1. i \in Looked(p) <=> g[i] BY <1>4, Zenon
  <2>2. g[i] <=> (i = 0 \/ ~ (g[i - 1] /\ Inst(p, i - 1).op = "LDDW")) BY <1>5, Zenon
  <2>3. CASE i = 0 BY <2>1, <2>2, <2>3, Zenon
  <2>4. CASE i # 0
    <3>1. i - 1 \in 0 .. N - 1 BY <2>4
    <3>2. i - 1 \in Looked(p) <=> g[i - 1] BY <1>4, <3>1, Zenon
    <3> QED BY <2>1, <2>2, <2>4, <3>2, Zenon DEF Wide
  <2> QED BY <2>3, <2>4
<1>7. Looked(p) \in SUBSET (0 .. N - 1) BY <1>4, Zenon
<1> QED BY <1>6, <1>7 DEF Skips

(* What an accepted program is like: an instruction is looked at unless it *)
(* is the second slot of one that is, and then it is ZERO.                 *)
Accepted(p) ==
  /\ p \in Programs /\ num_insts(p) \in Nat /\ num_insts(p) < MAX_INSTS
  /\ \A i \in Looked(p) : InstOK(p, i)

(* Control is at an instruction, or past the end.                          *)
AtInstruction(p, i) == i \in Looked(p) \/ i = num_insts(p)

LEMMA ValidateAccepts ==
  ASSUME NEW p \in Programs, NEW u, ~TooLong(p), validate(p, u)
  PROVE  Accepted(p)
<1>1. num_insts(p) \in Nat BY InterpreterAssumption DEF num_insts
<1>2. num_insts(p) < MAX_INSTS BY <1>1, InterpreterAssumption DEF TooLong
<1>3. Looked(p) \in SUBSET (0 .. num_insts(p) - 1) BY <1>1, LookedUnfold
<1>4. ASSUME NEW i \in Looked(p) PROVE InstOK(p, i)
  <2>1. i < num_insts(p) BY <1>1, <1>3
  <2> QED BY <2>1 DEF validate, Reaches, Passes
<1> QED BY <1>1, <1>2, <1>4 DEF Accepted

(* Where an accepted program goes on is an instruction again.              *)
LEMMA GoesOn ==
  ASSUME NEW p, Accepted(p), NEW i \in Looked(p)
  PROVE  /\ i \in 0 .. num_insts(p) - 1
         /\ ~Wide(p, i) => AtInstruction(p, i + 1)
         /\ Wide(p, i) => AtInstruction(p, i + 2)
         /\ \A j \in 0 .. num_insts(p) - 1 : Inst(p, j).op # "ZERO" => AtInstruction(p, j)
         /\ Inst(p, i).op # "ZERO"
<1> DEFINE n == num_insts(p)
<1>1. n \in Nat /\ Looked(p) \in SUBSET (0 .. n - 1) /\ Skips(p, Looked(p), n)
  BY LookedUnfold DEF Accepted
<1>2. InstOK(p, i) BY DEF Accepted
<1>3. ~Wide(p, i) => AtInstruction(p, i + 1)
  <2> HAVE ~Wide(p, i)
  <2>1. CASE i + 1 \in 0 .. n - 1
    <3>1. i + 1 - 1 = i BY <1>1
    <3> QED BY <2>1, <3>1, <1>1 DEF Skips, AtInstruction
  <2>2. CASE i + 1 \notin 0 .. n - 1 BY <2>2, <1>1 DEF AtInstruction
  <2> QED BY <2>1, <2>2
<1>4. Wide(p, i) => AtInstruction(p, i + 2)
  <2> HAVE Wide(p, i)
  <2>1. i + 1 \in 0 .. n - 1 BY <1>2 DEF InstOK, Wide, InProgram
  <2>2. i + 1 - 1 = i /\ i + 2 - 1 = i + 1 /\ i + 1 # 0 BY <1>1
  <2>3. i + 1 \notin Looked(p) BY <2>1, <2>2, <1>1 DEF Skips
  <2>4. CASE i + 2 \in 0 .. n - 1 BY <2>2, <2>3, <2>4, <1>1 DEF Skips, AtInstruction
  <2>5. CASE i + 2 \notin 0 .. n - 1 BY <2>1, <2>5, <1>1 DEF AtInstruction
  <2> QED BY <2>4, <2>5
<1>5. ASSUME NEW j \in 0 .. n - 1, Inst(p, j).op # "ZERO" PROVE AtInstruction(p, j)
  <2> SUFFICES ASSUME j \notin Looked(p) PROVE FALSE BY DEF AtInstruction
  <2>1. j # 0 /\ j - 1 \in Looked(p) /\ Wide(p, j - 1) BY <1>1 DEF Skips
  <2>2. InstOK(p, j - 1) BY <2>1 DEF Accepted
  <2>3. j - 1 + 1 = j BY <1>1
  <2> QED BY <2>1, <2>2, <2>3, <1>5 DEF InstOK, Wide
<1>6. Inst(p, i).op # "ZERO" BY <1>2 DEF InstOK
<1> QED BY <1>1, <1>3, <1>4, <1>5, <1>6

(* The program counter and all return addresses are at instructions.       *)
Mid ==
  insts # NULL =>
    /\ Accepted(insts)
    /\ CallsInstructions(insts) =>
         /\ state # "unknown opcode"
         /\ state = "run" => AtInstruction(insts, pc)
                             /\ \A d \in 1 .. Len(callers) : AtInstruction(insts, callers[d].pc)

LEMMA StartsAtInstruction ==
  ASSUME NEW p, Accepted(p)
  PROVE  AtInstruction(p, 0)
<1>1. num_insts(p) \in Nat /\ Skips(p, Looked(p), num_insts(p)) BY LookedUnfold DEF Accepted
<1>2. CASE num_insts(p) = 0 BY <1>2 DEF AtInstruction
<1>3. CASE num_insts(p) # 0
  <2>1. 0 \in 0 .. num_insts(p) - 1 BY <1>1, <1>3
  <2> QED BY <2>1, <1>1 DEF Skips, AtInstruction
<1> QED BY <1>2, <1>3

(* Within a program the counter does not wrap.                             *)
LEMMA NoWrap ==
  ASSUME NEW p, Accepted(p), NEW i \in Int, AtInstruction(p, i)
  PROVE  Wrap(i) = i
<1>1. /\ num_insts(p) \in Nat /\ num_insts(p) < MAX_INSTS
      /\ Looked(p) \in SUBSET (0 .. num_insts(p) - 1)
  BY LookedUnfold DEF Accepted
<1>2. i \in 0 .. num_insts(p) BY <1>1 DEF AtInstruction
<1> DEFINE M == MAX_INSTS
<1>3. M \in Nat \ {0} /\ i \in 0 .. M - 1 BY <1>1, <1>2, InterpreterAssumption
<1>4. Wrap(i) = i % M BY DEF Wrap
<1> HIDE DEF M
<1> QED BY <1>3, <1>4

LEMMA MidExecute ==
  ASSUME IInv, Mid, state = "run", pc < num_insts(insts), CallsInstructions(insts),
         UNCHANGED <<insts, stack_usage>>, Execute(Inst(insts, pc))
  PROVE  /\ state' # "unknown opcode"
         /\ state' = "run" => AtInstruction(insts, pc')
                              /\ \A d \in 1 .. Len(callers') : AtInstruction(insts, callers'[d].pc)
<1> DEFINE inst == Inst(insts, pc)
           Good == /\ state' # "unknown opcode"
                   /\ state' = "run" => AtInstruction(insts, pc')
                        /\ \A d \in 1 .. Len(callers') : AtInstruction(insts, callers'[d].pc)
<1> SUFFICES Good BY Zenon
<1> HIDE DEF Good
<1>0. insts # NULL /\ pc \in PCs BY DEF IInv, Types
<1>1. Accepted(insts) /\ AtInstruction(insts, pc)
      /\ \A d \in 1 .. Len(callers) : AtInstruction(insts, callers[d].pc)
  BY <1>0 DEF Mid
<1>2. num_insts(insts) \in Nat /\ pc \in Int BY <1>0, <1>1, ConstType DEF Accepted, PCs
<1>3. pc \in Looked(insts) BY <1>1, <1>2 DEF AtInstruction
<1>4. /\ pc \in 0 .. num_insts(insts) - 1 /\ inst.op # "ZERO"
      /\ ~Wide(insts, pc) => AtInstruction(insts, pc + 1)
      /\ Wide(insts, pc) => AtInstruction(insts, pc + 2)
      /\ \A j \in 0 .. num_insts(insts) - 1 : Inst(insts, j).op # "ZERO" => AtInstruction(insts, j)
  BY <1>1, <1>3, GoesOn
<1>5. inst \in Insts /\ inst.k \in Int BY InstType DEF IInv, Insts
<1>6. InstOK(insts, pc) BY <1>1, <1>3 DEF Accepted
<1>7. ASSUME NEW to \in Int, AtInstruction(insts, to), Step(to) PROVE Good
  <2>1. Wrap(to) = to BY <1>1, <1>7, NoWrap
  <2> QED BY <2>1, <1>1, <1>7 DEF Step, Goto, Good
<1>8. ASSUME NEW how, how # "run", how # "unknown opcode", End(how) PROVE Good
  BY Zenon, <1>8 DEF End, Good
<1>9. inst.op # "LDDW" => AtInstruction(insts, pc + 1) /\ Wrap(pc + 1) = pc + 1
  BY <1>1, <1>2, <1>4, NoWrap DEF Wide
<1>10. CASE inst.op = "SET" /\ Set
  BY <1>1, <1>9, <1>10 DEF Set, Goto, Good
<1>18. CASE inst.op = "MOV10" /\ MoveFramePointer
  <2>1. pc' = pc + 1 /\ callers' = [d \in 1 .. Len(callers) |-> Written(callers[d])]
    BY <1>9, <1>18 DEF MoveFramePointer, Goto
  <2>2. callers \in Seq(CallerType) /\ Len(callers') = Len(callers)
    BY <1>18, MoveStep DEF IInv, Types
  <2>3. ASSUME NEW d \in 1 .. Len(callers) PROVE callers'[d].pc = callers[d].pc
    <3>1. callers[d] \in CallerType /\ callers'[d] = Written(callers[d]) BY <2>1, <2>2
    <3> QED BY <3>1, Zenon DEF Written, CallerType
  <2>4. \A d \in 1 .. Len(callers') : AtInstruction(insts, callers'[d].pc)
    BY <2>2, <2>3, <1>1, Zenon
  <2>5. state' = "run" /\ AtInstruction(insts, pc')
    BY <2>1, <1>9, <1>18 DEF MoveFramePointer, Goto
  <2> QED BY <2>4, <2>5, Zenon DEF Good
<1>11. CASE inst.op = "MEM" /\ Mem
  <2>1. AtInstruction(insts, pc + 1) /\ pc + 1 \in Int BY <1>2, <1>9, <1>11
  <2> QED BY Zenon, <2>1, <1>7, <1>8, <1>11 DEF Mem
<1>12. CASE inst.op = "LDDW" /\ Step(pc + 2)
  BY <1>2, <1>4, <1>7, <1>12 DEF Wide
<1>13. CASE inst.op = "JMP" /\ Jump(inst)
  <2>1. JumpOK(insts, pc, inst) BY <1>6, <1>13 DEF InstOK
  <2>2. pc + 1 + inst.k \in Int /\ AtInstruction(insts, pc + 1 + inst.k)
    BY <2>1, <1>4 DEF JumpOK, InProgram, Target
  <2> QED BY <2>2, <1>2, <1>7, <1>9, <1>13 DEF Jump
<1>14. CASE inst.op = "CALL" /\ inst.src = 0 /\ Helper(inst)
  <2>1. AtInstruction(insts, pc + 1) /\ pc + 1 \in Int BY <1>2, <1>9, <1>14
  <2> QED BY Zenon, <2>1, <1>7, <1>8, <1>14 DEF Helper
<1>15. CASE inst.op = "CALL" /\ inst.src = 1 /\ Call(inst)
  <2>1. CASE CallTooDeep BY Zenon, <2>1, <1>8, <1>15 DEF Call
  <2>2. CASE ~CallTooDeep
    <3>1. IsLocalCall(insts, pc) BY <1>15 DEF IsLocalCall
    <3>2. InProgram(insts, pc + 1 + inst.k) BY <1>6, <1>15 DEF InstOK, Target
    <3>3. Inst(insts, pc + 1 + inst.k).op # "ZERO"
      BY <3>1, <1>3 DEF CallsInstructions, Target
    <3>4. AtInstruction(insts, pc + 1 + inst.k) BY <3>2, <3>3, <1>4 DEF InProgram
    <3>5. Wrap(pc + 1 + inst.k) = pc + 1 + inst.k BY <3>4, <1>1, <1>2, <1>5, NoWrap
    <3>6. AtInstruction(insts, pc + 1) /\ Wrap(pc + 1) = pc + 1 BY <1>9, <1>15
    <3>7. /\ pc' = pc + 1 + inst.k
          /\ callers' = Append(callers, [r6 |-> r6, r10 |-> r10, pc |-> pc + 1, moved |-> FALSE])
          /\ state' = "run"
      BY Zenon, <2>2, <3>5, <3>6, <1>15 DEF Call, CallTooDeep
    <3>8. callers \in Seq(CallerType) BY DEF IInv, Types
    <3>9. ASSUME NEW d \in 1 .. Len(callers') PROVE AtInstruction(insts, callers'[d].pc)
      <4>1. CASE d = Len(callers) + 1
        <5>1. callers'[d].pc = pc + 1 BY <4>1, <3>7, <3>8
        <5> QED BY <5>1, <3>6
      <4>2. CASE d # Len(callers) + 1
        <5>1. d \in 1 .. Len(callers) /\ callers'[d] = callers[d] BY <4>2, <3>7, <3>8
        <5> QED BY <5>1, <1>1
      <4> QED BY <4>1, <4>2
    <3> QED BY <3>4, <3>7, <3>9 DEF Good
  <2> QED BY <2>1, <2>2
<1>16. CASE inst.op = "EXIT" /\ Exit
  <2>1. CASE stack_frame_index = 0 /\ End("done") BY Zenon, <2>1, <1>8
  <2>2. CASE stack_frame_index > 0 /\ Return
    <3>1. callers \in Seq(CallerType) /\ Len(callers) = stack_frame_index
          /\ stack_frame_index \in Nat
      BY DEF IInv, Types, Stack
    <3>2. pc' = callers[Len(callers)].pc BY <2>2, ReturnStep, Zenon
    <3>3. callers' = SubSeq(callers, 1, Len(callers) - 1) /\ state' = "run"
      BY <2>2 DEF Return
    <3>4. Len(callers) \in 1 .. Len(callers) BY <2>2, <3>1
    <3>5. \A d \in 1 .. Len(callers') : d \in 1 .. Len(callers) /\ callers'[d] = callers[d]
      BY <3>1, <3>3, <3>4
    <3> QED BY <3>2, <3>3, <3>4, <3>5, <1>1 DEF Good
  <2> QED BY <2>1, <2>2, <1>16 DEF Exit
<1>17. CASE inst.op = "ZERO" BY <1>4, <1>17
<1> QED BY Zenon, <1>10, <1>11, <1>12, <1>13, <1>14, <1>15, <1>16, <1>17, <1>18 DEF Execute

(* validate() keeps control out of the middle of an LDDW: for every        *)
(* program whose local calls lead to instructions, NeverMidInstruction.    *)
THEOREM NeverStopped == Spec => []NeverMidInstruction
<1>1. Init => Mid BY DEF Init, Mid
<1>2. ASSUME IInv, Mid, [Next]_vars PROVE Mid'
  <2>1. ASSUME NEW p \in Programs, ubpf_load(p) PROVE Mid'
    <3>1. insts = NULL /\ state' = "idle" BY <2>1 DEF ubpf_load
    <3>2. insts' # NULL => insts' = p /\ ~TooLong(p) /\ validate(p, stack_usage)
      BY <2>1, <3>1 DEF ubpf_load
    <3>3. insts' # NULL => Accepted(insts') BY <3>2, ValidateAccepts
    <3>4. (insts' # NULL => Accepted(insts')) /\ state' \notin {"run", "unknown opcode"}
      BY <3>1, <3>3
    <3> QED BY Zenon, <3>4 DEF Mid, Accepted
  <2>2. CASE ubpf_unload_code BY <2>2 DEF ubpf_unload_code, Mid
  <2>3. ASSUME NEW l \in Limits, ubpf_exec(l) PROVE Mid'
    <3>1. insts # NULL /\ insts' = insts /\ state' = "run" /\ pc' = 0 /\ callers' = << >>
      BY <2>3 DEF ubpf_exec
    <3>2. Accepted(insts) /\ AtInstruction(insts, 0) BY Zenon, <3>1, <1>2, StartsAtInstruction DEF Mid
    <3> QED BY <3>1, <3>2 DEF Mid
  <2>4. CASE Loop
    <3>1. insts' = insts /\ UNCHANGED stack_usage /\ state = "run" /\ insts # NULL
      BY <2>4, <1>2 DEF Loop, IInv, Types
    <3>2. Accepted(insts) BY <3>1, <1>2 DEF Mid
    <3>3. ASSUME CallsInstructions(insts)
          PROVE  /\ state' # "unknown opcode"
                 /\ state' = "run" => AtInstruction(insts, pc')
                      /\ \A d \in 1 .. Len(callers') : AtInstruction(insts, callers'[d].pc)
      <4>1. CASE OffTheEnd BY Zenon, <4>1 DEF OffTheEnd, End
      <4>2. CASE LimitReached /\ End("limit") BY <4>2 DEF End
      <4>3. CASE pc < LoadedInsts /\ Execute(Inst(insts, pc))
        BY Zenon, <4>3, <3>1, <3>3, <1>2, LoadedAll, MidExecute DEF IInv
      <4> QED BY Zenon, <4>1, <4>2, <4>3, <2>4 DEF Loop
    <3> QED BY Zenon, <3>1, <3>2, <3>3 DEF Mid
  <2>5. CASE UNCHANGED vars BY Zenon, <2>5, <1>2 DEF Mid, vars, machine
  <2> QED BY <1>2, <2>1, <2>2, <2>3, <2>4, <2>5 DEF Next
<1>3. Mid => NeverMidInstruction BY Zenon DEF Mid, NeverMidInstruction
<1>4. IInv /\ [Next]_vars => IInv' BY NextStep
<1> QED BY <1>1, <1>2, <1>3, <1>4, InitIInv, PTL DEF Spec

-----------------------------------------------------------------------------
(* Control stays between the first instruction and the end, also in a      *)
(* program with calls into the middle of an LDDW.                          *)
Inside(p, i) == i \in 0 .. num_insts(p)
Within ==
  /\ insts # NULL =>
       /\ Accepted(insts)
       /\ state = "run" => Inside(insts, pc) /\ \A d \in 1 .. Len(callers) : Inside(insts, callers[d].pc)
  /\ EndsAtEnd

LEMMA InsideNoWrap ==
  ASSUME NEW p, Accepted(p), NEW i, Inside(p, i)
  PROVE  Wrap(i) = i
<1> DEFINE M == MAX_INSTS
<1>1. M \in Nat \ {0} /\ i \in 0 .. M - 1 BY InterpreterAssumption DEF Accepted, Inside
<1>2. Wrap(i) = i % M BY DEF Wrap
<1> HIDE DEF M
<1> QED BY <1>1, <1>2

LEMMA WithinExecute ==
  ASSUME IInv, Within, state = "run", pc < num_insts(insts),
         UNCHANGED <<insts, stack_usage>>, Execute(Inst(insts, pc))
  PROVE  /\ state' # "off the end"
         /\ state' = "run" => Inside(insts, pc')
                              /\ \A d \in 1 .. Len(callers') : Inside(insts, callers'[d].pc)
<1> DEFINE inst == Inst(insts, pc)
           Good == /\ state' # "off the end"
                   /\ state' = "run" => Inside(insts, pc')
                        /\ \A d \in 1 .. Len(callers') : Inside(insts, callers'[d].pc)
<1> SUFFICES Good BY Zenon
<1> HIDE DEF Good
<1>0. insts # NULL /\ pc \in PCs /\ callers \in Seq(CallerType) BY DEF IInv, Types
<1>1. Accepted(insts) /\ Inside(insts, pc)
      /\ \A d \in 1 .. Len(callers) : Inside(insts, callers[d].pc)
  BY <1>0 DEF Within
<1>2. num_insts(insts) \in Nat /\ pc \in 0 .. num_insts(insts) - 1
  BY <1>1 DEF Accepted, Inside
<1>3. inst \in Insts /\ inst.k \in Int BY InstType DEF IInv, Insts
<1>4. ASSUME NEW how, how \notin {"run", "off the end"}, End(how) PROVE Good
  BY <1>4, Zenon DEF End, Good
<1>5. CASE inst.op = "ZERO"
  <2>1. End("unknown opcode") BY <1>5, Zenon DEF Execute
  <2> QED BY <2>1, <1>4, Zenon
<1>6. CASE inst.op # "ZERO"
  <2>1. pc \in Looked(insts)
    <3>1. Skips(insts, Looked(insts), num_insts(insts)) BY <1>2, LookedUnfold
    <3>2. ASSUME pc \notin Looked(insts) PROVE FALSE
      <4>1. pc - 1 \in Looked(insts) /\ Wide(insts, pc - 1) BY <3>1, <3>2, <1>2 DEF Skips
      <4>2. InstOK(insts, pc - 1) /\ pc - 1 + 1 = pc BY <4>1, <1>1, <1>2 DEF Accepted
      <4> QED BY <4>1, <4>2, <1>6 DEF InstOK, Wide
    <3> QED BY <3>2
  <2>2. InstOK(insts, pc) BY <2>1, <1>1 DEF Accepted
  <2>3. Inside(insts, pc + 1) BY <1>2 DEF Inside
  <2>4. inst.op = "LDDW" => Inside(insts, pc + 2)
    BY <2>2, <1>2 DEF InstOK, InProgram, Inside
  <2>5. inst.op = "JMP" \/ (inst.op = "CALL" /\ inst.src = 1) => Inside(insts, pc + 1 + inst.k)
    BY <2>2, <1>2, <1>3 DEF InstOK, JumpOK, InProgram, Target, Inside
  <2>6. ASSUME NEW to, Inside(insts, to), Step(to) PROVE Good
    <3>1. Wrap(to) = to BY <1>1, <2>6, InsideNoWrap
    <3> QED BY <3>1, <1>1, <2>6, Zenon DEF Step, Goto, Good
  <2>7. Wrap(pc + 1) = pc + 1 BY <1>1, <2>3, InsideNoWrap
  <2>8. CASE Set
    BY <1>1, <2>3, <2>7, <2>8, Zenon DEF Set, Goto, Good
  <2>9. CASE MoveFramePointer
    <3>1. pc' = pc + 1 /\ callers' = [d \in 1 .. Len(callers) |-> Written(callers[d])]
      BY <2>7, <2>9 DEF MoveFramePointer, Goto
    <3>2. Len(callers') = Len(callers) BY <2>9, MoveStep
    <3>3. ASSUME NEW d \in 1 .. Len(callers) PROVE callers'[d].pc = callers[d].pc
      <4>1. callers[d] \in CallerType /\ callers'[d] = Written(callers[d]) BY <3>1, <1>0
      <4> QED BY <4>1, Zenon DEF Written, CallerType
    <3>4. \A d \in 1 .. Len(callers') : Inside(insts, callers'[d].pc)
      BY <3>2, <3>3, <1>1, Zenon
    <3>5. state' = "run" BY <2>9, Zenon DEF MoveFramePointer, Goto
    <3> QED BY <3>1, <3>4, <3>5, <2>3, Zenon DEF Good
  <2>10. CASE Mem BY <2>3, <2>6, <2>10, <1>4, Zenon DEF Mem
  <2>11. CASE inst.op = "LDDW" /\ Step(pc + 2) BY <2>4, <2>6, <2>11, Zenon
  <2>12. CASE inst.op = "JMP" /\ Jump(inst) BY <2>3, <2>5, <2>6, <2>12, Zenon DEF Jump
  <2>13. CASE Helper(inst) BY <2>3, <2>6, <2>13, <1>4, Zenon DEF Helper
  <2>14. CASE inst.op = "CALL" /\ inst.src = 1 /\ Call(inst)
    <3>1. CASE CallTooDeep BY <3>1, <1>4, <2>14, Zenon DEF Call
    <3>2. CASE ~CallTooDeep
      <4>1. Wrap(pc + 1 + inst.k) = pc + 1 + inst.k BY <2>5, <2>14, <1>1, InsideNoWrap
      <4> DEFINE c == [r6 |-> r6, r10 |-> r10, pc |-> pc + 1, moved |-> FALSE]
      <4>2. pc' = pc + 1 + inst.k /\ callers' = Append(callers, c) /\ state' = "run"
        BY Zenon, <3>2, <4>1, <2>7, <2>14 DEF Call
      <4>3. c.pc = pc + 1 OBVIOUS
      <4> HIDE DEF c
      <4>4. ASSUME NEW d \in 1 .. Len(callers') PROVE Inside(insts, callers'[d].pc)
        <5>1. callers'[d] = IF d = Len(callers) + 1 THEN c ELSE callers[d]
          BY <4>2, <1>0
        <5>2. d = Len(callers) + 1 \/ d \in 1 .. Len(callers) BY <4>2, <1>0
        <5> QED BY <5>1, <5>2, <4>3, <2>3, <1>1, Zenon
      <4> QED BY <4>2, <4>4, <2>5, <2>14, Zenon DEF Good
    <3> QED BY <3>1, <3>2
  <2>15. CASE stack_frame_index = 0 /\ End("done") BY <2>15, <1>4, Zenon
  <2>16. CASE stack_frame_index > 0 /\ Return
    <3>1. Len(callers) = stack_frame_index /\ stack_frame_index \in Nat
      BY DEF IInv, Types, Stack
    <3>2. pc' = callers[Len(callers)].pc BY <2>16, ReturnStep, Zenon
    <3>3. callers' = SubSeq(callers, 1, Len(callers) - 1) /\ state' = "run"
      BY <2>16, Zenon DEF Return
    <3>4. Len(callers) \in 1 .. Len(callers) BY <2>16, <3>1
    <3>5. \A d \in 1 .. Len(callers') : d \in 1 .. Len(callers) /\ callers'[d] = callers[d]
      BY <1>0, <3>1, <3>3, <3>4
    <3> QED BY <3>2, <3>3, <3>4, <3>5, <1>1, Zenon DEF Good
  <2> QED BY <1>6, <2>8, <2>9, <2>10, <2>11, <2>12, <2>13, <2>14, <2>15, <2>16, Zenon DEF Execute, Exit
<1> QED BY <1>5, <1>6

(* What ubpf_load() accepts is left only past its last instruction, by     *)
(* every program and width: EndsAtEnd.                                     *)
THEOREM LeavesAtEnd == Spec => []EndsAtEnd
<1>1. Init => Within BY Zenon DEF Init, Within, EndsAtEnd
<1>2. ASSUME IInv, Within, [Next]_vars PROVE Within'
  <2>1. ASSUME NEW p \in Programs, ubpf_load(p) PROVE Within'
    <3>1. insts = NULL /\ state' = "idle" BY <2>1 DEF ubpf_load
    <3>2. insts' # NULL => insts' = p /\ ~TooLong(p) /\ validate(p, stack_usage)
      BY <2>1, <3>1 DEF ubpf_load
    <3>3. insts' # NULL => Accepted(insts') BY <3>2, ValidateAccepts
    <3> QED BY <3>1, <3>3, Zenon DEF Within, Accepted, EndsAtEnd
  <2>2. CASE ubpf_unload_code BY <2>2, Zenon DEF ubpf_unload_code, Within, EndsAtEnd
  <2>3. ASSUME NEW l \in Limits, ubpf_exec(l) PROVE Within'
    <3>1. insts # NULL /\ insts' = insts /\ state' = "run" /\ pc' = 0 /\ callers' = << >>
      BY <2>3 DEF ubpf_exec
    <3>2. Accepted(insts) /\ Inside(insts, 0) BY <3>1, <1>2 DEF Within, Accepted, Inside
    <3>3. 1 .. Len(callers') = {} BY <3>1
    <3> QED BY <3>1, <3>2, <3>3, Zenon DEF Within, EndsAtEnd
  <2>4. CASE Loop
    <3>1. insts' = insts /\ UNCHANGED stack_usage /\ state = "run" /\ insts # NULL
      BY <2>4, <1>2 DEF Loop, IInv, Types
    <3>2. Accepted(insts) /\ Inside(insts, pc) BY <3>1, <1>2, Zenon DEF Within
    <3>3. LoadedInsts = num_insts(insts) /\ num_insts(insts) \in Nat BY <3>1, <1>2, LoadedAll DEF IInv
    <3>4. CASE pc >= LoadedInsts /\ OffTheEnd
      <4>1. pc = num_insts(insts) BY <3>2, <3>3, <3>4 DEF Inside
      <4>2. pc' = pc /\ state' = "off the end" BY <3>4, Zenon DEF OffTheEnd, End
      <4> QED BY <4>1, <4>2, <3>1, <3>2, Zenon DEF Within, EndsAtEnd
    <3>5. CASE End("limit") BY <3>1, <3>2, <3>5, Zenon DEF End, Within, EndsAtEnd
    <3>6. CASE pc < LoadedInsts /\ Execute(Inst(insts, pc))
      <4>1. /\ state' # "off the end"
            /\ state' = "run" => Inside(insts, pc')
                 /\ \A d \in 1 .. Len(callers') : Inside(insts, callers'[d].pc)
        BY <3>1, <3>3, <3>6, <1>2, WithinExecute, Zenon
      <4> QED BY <4>1, <3>1, <3>2, Zenon DEF Within, EndsAtEnd
    <3> QED BY <3>4, <3>5, <3>6, <2>4, Zenon DEF Loop
  <2>5. CASE UNCHANGED vars BY <2>5, <1>2, Zenon DEF Within, EndsAtEnd, vars, machine
  <2> QED BY <1>2, <2>1, <2>2, <2>3, <2>4, <2>5 DEF Next
<1>3. Within => EndsAtEnd BY Zenon DEF Within
<1>4. IInv /\ [Next]_vars => IInv' BY NextStep
<1> QED BY <1>1, <1>2, <1>3, <1>4, InitIInv, PTL DEF Spec
=============================================================================

---------------------------- MODULE EbpfControl ----------------------------
(* What a run of a loaded program does to control: the program counter, the   *)
(* callee-saved registers (r6 stands for them), the base of the stack and the *)
(* calls in progress. Whatever runs a program is to implement this. Conditions *)
(* turn out either way, and so does what a helper returns.                    *)
EXTENDS Integers, Sequences

CONSTANTS
  Programs, Values,
  Usage,           \* stack usage of the function at a pc
  UnwindIndex      \* a helper that ends the program when it returns zero

VARIABLES program, at, pc, r6, base, usage, callers

vars == <<program, at, pc, r6, base, usage, callers>>

Init == program = <<>> /\ at = "idle" /\ pc = 0 /\ r6 = 0 /\ base = 0 /\ usage = 0 /\ callers = <<>>

inst == program[pc + 1]

Rest == UNCHANGED <<program, at, r6, base, usage, callers>>

Enter ==
  /\ at # "running" /\ at' = "running"
  /\ program' \in Programs /\ r6' \in Values
  /\ pc' = 0 /\ base' = 0 /\ usage' = Usage[0] /\ callers' = <<>>

Compute ==
  /\ inst.cls \in {"ALU", "ALU64"}
  /\ pc' = pc + 1
  /\ IF inst.dst = 6 THEN r6' \in Values ELSE r6' = r6
  /\ UNCHANGED <<program, at, base, usage, callers>>

Access == inst.cls \in {"LDX", "ST", "STX"} /\ pc' = pc + 1 /\ Rest

LoadDoubleWord == inst.op = "LDDW" /\ pc' = pc + 2 /\ Rest

Jump == inst.op = "JA" /\ pc' = pc + 1 + inst.off /\ Rest

Branch ==
  /\ inst.cls \in {"JMP", "JMP32"} /\ inst.op \notin {"JA", "CALL", "EXIT"}
  /\ pc' \in {pc + 1, pc + 1 + inst.off}
  /\ Rest

Call ==
  /\ inst.op = "CALL" /\ inst.src = 1
  /\ callers' = <<[pc |-> pc + 1, r6 |-> r6, usage |-> usage]>> \o callers
  /\ base' = base - usage
  /\ pc' = pc + 1 + inst.imm /\ usage' = Usage[pc']
  /\ UNCHANGED <<program, at, r6>>

Return ==
  /\ inst.op = "EXIT" /\ callers # <<>>
  /\ pc' = Head(callers).pc /\ r6' = Head(callers).r6 /\ usage' = Head(callers).usage
  /\ base' = base + Head(callers).usage
  /\ callers' = Tail(callers)
  /\ UNCHANGED <<program, at>>

Helper == inst.op = "CALL" /\ inst.src = 0 /\ pc' = pc + 1 /\ Rest

\* The program is over: at its EXIT, or where a helper unwinds the stack.
End ==
  /\ \/ inst.op = "EXIT" /\ callers = <<>>
     \/ inst.op = "CALL" /\ inst.src = 0 /\ inst.imm = UnwindIndex
  /\ at' = "idle" /\ program' = <<>>
  /\ pc' = 0 /\ r6' = 0 /\ base' = 0 /\ usage' = 0 /\ callers' = <<>>

Step == Compute \/ Access \/ LoadDoubleWord \/ Jump \/ Branch \/ Call \/ Return \/ Helper \/ End

Next == Enter \/ (at = "running" /\ Step)

Spec == Init /\ [][Next]_vars
=============================================================================

# A TLA+ model of UniBPF

UniBPF runs eBPF programs inside a Click router that is itself a Unikraft
unikernel. Programs are checked outside (PREVAIL), signed, put on a file system
the host shares with the unikernel, and exchanged at run time by control
packets, while their maps keep what earlier programs stored. This directory
models that system in TLA+, checks the models with TLC on small instances and
proves the main results with TLAPS.

## 1. The system

| Part | Source | State | Operations | Interacts with |
|---|---|---|---|---|
| BPF elements | `libs/click/unikraft/bpf{element,ilter,classifier,rewriter}` | VM, native code pointer, lock, file names, flags, counters | `configure`, `push`, `exec`, handlers | uBPF, file system, control, packet threads |
| uBPF API | `libs/ubpf/vm/ubpf_vm.c`, `ubpf_jit.c` | loaded instructions, mapped code, outcome of the last translation, helpers | create, load, unload, compile, translate, register | element, loader, JIT |
| Validator, interpreter | `ubpf_vm.c` | pc, registers, frames, limit, stack usage | `validate`, `ubpf_exec_ex` | helpers |
| Loader | `ubpf_loader.c` | linked program | link functions, relocate | helpers, validator |
| Helpers, maps | `libs/ubpf/helper` | maps by name, copied sections | lookup, update, delete, relocation | loader, programs |
| Programs | `ebpf/src/bin` | their maps | one run per packet | helpers |
| Control | `control.cc`, `helper/` | - | parse a message, call the `config` handler | element |
| Devices, sources | `fromdevice.cc`, `todevice.cc`, `infinitesource2.cc` | queues, burst counters, limits | interrupts, tasks, push, pull | router threads |
| Router | `click.cc` | router list, threads | start, run, stop | all elements |
| Filters | `ipfilter2.cc`, `stringmatcher.cc`, Aho-Corasick | compiled filter, automaton | configure, push | packets |
| JITs | `ubpf_jit_x86_64.c`, `ubpf_jit_arm64.c` | code buffer, fix-ups | translate, resolve, update helper | API |
| Verifier | `verifier/` | keys | verify, sign | file system |

What makes it hard: several packet threads run a program while a control thread
replaces it; `configure` can fail at seven places, the last three after it has
taken the lock and unloaded the old program; files change under it; programs of
different versions share maps; 16- and 32-bit counters wrap; native code keeps
addresses that were registered when it was made, and is put together from parts
whose places are only known at the end; packets change owners several times on
their way through the elements.

## 2. Modules

| Module | Models | Its actions or operators are |
|---|---|---|
| `UbpfVM` | the VM as a value | one operator per API function: VM to VM |
| `UbpfApi` | a client of the library | one action per API call, in any order |
| `BPFElement` | one element, its packet threads, its control thread, the host | the steps of `configure`, `push` with lock and `exec`, host writes |
| `LiveReconfiguration` | what an element promises | start, finish, withdraw, install |
| `Interpreter` | `ubpf_load`, `validate`, `ubpf_exec_ex` | load, unload, exec, one turn of the loop |
| `Loader` | `ubpf_load_elf_ex`: sections, functions, linking and relocation | read the sections, link, relocate one entry, finish or fail |
| `ShadowState` | the undefined-behaviour check of `ubpf_exec_ex` | one turn of the loop for each class of instruction |
| `EbpfControl` | what eBPF instructions do to control: the specification of the translators | one action per kind of instruction |
| `JitState` | what the translators share: code buffer, tables of fix-ups, helper table | operators on the state of a translation |
| `JitOperands`, `Bits` | operands as the translators see them: register map, immediates moved in blocks; powers of two and bitwise operations | operators |
| `JitX86`, `JitArm64` | the two translators | one operator per emitter; resolution of the fix-ups |
| `JitRun` | translation, update of helpers, a run of the code | translate one instruction, finish, register, enter, the code from one eBPF instruction to the next |
| `JitAlu` | arithmetic, conditions and immediates of interpreter and translators | one job: an instruction and the values of its registers |
| `BpfHelpers` | maps and relocation | operators on maps |
| `MapReconfiguration` | maps and sections while programs are exchanged | begin, relocate one symbol, finish, fail, store |
| `StateMigration` | the two counting programs and their exchange | configure; the reads and stores of a packet's run |
| `RateLimiter` | the rate limiter | packet of a source, clock |
| `Nat`, `Checksum` | the NAT program, the checksum update of the eBPF library | packet on an input |
| `PacketPrograms` | dns-filter, target-port, firewall, udp-tcp-classifier, round-robin | one operator per program; reading and writing the shared counter |
| `Mpool`, `AcTrie`, `Multifast` | the Aho-Corasick library: memory pool, trie, its API | add, finalize, search, settext, findnext, replace, flush |
| `StringMatcher` | the element that uses it, and the eBPF program of that name | configure, packet, handler |
| `FilterWords` | how IPFilter2 compares words: masks, relations as masked tests, the search in the compiled program | one comparison or one program and packet |
| `IPFilter2` | the element: parser, checks, compilation, `configure`, `push`, `pull` | configure; the outputs a packet leaves at when pushed or pulled |
| `DevicePath` | FromDevice, a BPF element's verdict, ToDevice | interrupt, callback, the steps of `take_packets` and `push` with their failures, handlers |
| `InfiniteSource2`, `RouterMain` | the packet source with its limits; `main` and the router thread | task, pull, handlers; device set-up, configuration, driver, end |
| `ControlMessage` | the helper's message, UDP, `Control::push` | send, lose, push |
| `*_proofs` | theorems about the module of that name; `Ubpf_proofs` about `UbpfApi` and `ShadowState`, `MapReconfiguration_proofs` also about `StateMigration`, `Programs_proofs` about `RateLimiter` and `PacketPrograms`, `Nat_proofs` about `Nat` and `Checksum`, `Router_proofs` about `RouterMain` with `InfiniteSource2`, `DevicePath` and `ControlMessage` | |
| `MC*` | instances for TLC | |

`BPFElement` and `UbpfApi` use the same operators of `UbpfVM`; the program
models and `MapReconfiguration` use those of `BpfHelpers`; `JitX86` and `JitArm64`
extend `JitState` and `JitOperands`, and `JitRun` uses both; `Multifast` extends `AcTrie` and
`Mpool`, `StringMatcher` extends `Multifast`; `IPFilter2` extends
`FilterWords`; `RouterMain` extends `InfiniteSource2`.

### Correspondence

*BPFElement.* `cpc` is the place in `configure`: `args` after the arguments are
read, `ready` when the file is in the buffer and the VM exists, `locked`,
`loaded`, `checked`, `compiled`, `dumped`. Each error path is an action of its
own (`read_file_fails`, `load_elf_fails`, `check_signature_fails`,
`compile_fails`) and, like the code, the last three do not release the lock.
Signature checking is compiled in (`CONFIG_LIBCLICK_UBPF_VERIFY_SIGNATURE`), and
there is memory for the VM, so that `init_ubpf_vm` does not fail; refused
arguments are `configure_refused`. `ppc[t]` is the place of a packet thread in `push`; `rlock` also evaluates
`exec`, which reads `_jit`, `_ubpf_jit_fn` and the VM. Fields that no
constructor sets start with any value. A program is a model value; whether it
loads, compiles and is signed is given by constants.

*UbpfVM, UbpfApi.* `jitted_result` is three fields: outcome, mode and
`external_helper_offset`, which `ubpf_translate` overwrites together, whoever
called it. Mapped code has the offset of its own table (`TableAt`, one number per
program, mode and prologue); `ubpf_register` writes at the offset of the last
translation, so that it reaches the table only if the two agree and damages the code
if not, and either of its two calls of `mprotect` may fail. `refused`, `asked` and
`strayed` are history: slots whose last registration was answered with -1, the mode
asked for since the client last translated, and whether a registration was made while
`jitted_result` did not describe the mapped code.

*Interpreter.* An instruction is told by what it does to control. Callee-saved
registers are one register `r6` that `SET` gives any value, and `MOV10` is a move to
r10, which `validate` accepts. `callers` is a
history variable that the properties compare with `stack_frames`. The program
counter and `num_insts` have `PW` bits, so that the number of instructions is
converted where `ubpf_load` stores it, and the limit is an `LW`-bit int.

*MapReconfiguration.* The symbols of a program are relocated one per step and
the load may fail after any of them. Maps are a function from the names that
exist, as `map_by_name`; they are never freed, so a map's name is its address.
A symbol too short to hold a definition behaves like one of an unsupported
type: both are answered with 0 and leave the maps alone. `global_data` is keyed by
the address of the section in the file buffer, as in the code, and file buffers are
freed, so that addresses return.

*StateMigration.* A run of a program is its accesses to the maps: the test of
`VERSION`, the two stores of `handle_migration`, the load and the store of the
counter. `lost` is history: what has gone with wraps of a counter.

*Nat.* A packet is its connection and the checksum of its IP header.
`connection_to_u128` combines the fields with the shifts and the bitwise or of
the code, scaled to `P`-bit ports; keys of different connections may be equal.

*ShadowState.* An instruction is its class, registers, offset, immediate and
size. `shadow_registers` and `shadow_stack` are what the code keeps; `defined`,
`written` and `undefined` are history: what really has a value. A function of the
program that writes a callee-saved register its caller never set leaves it marked
(`leaked`), although EXIT brings back the caller's value.

*JIT.* An emitted native instruction is its kind, its length and what it is
patched with: `emit` moves the offset by the length and enters the fix-up into the
table the emitter uses. Lengths are those the code emits (REX prefix, size of
displacement and immediate), so that near jumps, `bpf_function_prolog_size` and
the limit of the buffer are as in the code. The processor is external: `Exec` says
what the kinds of instructions that move control or the host stack do, and a
processor that takes something from the stack that another instruction put there
faults. All eBPF registers that calls preserve are `r6`. A step of a run goes from
one eBPF instruction to the next, and `EC` maps a state of the processor to one of
`EbpfControl`: the pc is the instruction whose place `rip` is at, the callers are
read off the host stack.

*JitAlu.* Registers have `2*H` bits, the lower half stands for 32. The x86 and Arm
instructions a translator emits for one eBPF instruction are executed on all
values; results, flags and registers are compared with the interpreter's.

*Strings.* A text is a sequence of small numbers. `call` remembers what the
current series of calls has reported and `stream` the text since it began, so that
the properties can compare with plain search in the whole text.

*Loader.* An object file is its sections, symbols and relocations. `InstructionExact`
follows an instruction of the linked program back to the one of the file it was
copied from and compares where its call leads with what the file says.

*IPFilter2.* A configuration is a sequence of patterns, a pattern a slot and
words. A test is compiled into the set of packets it holds for, so that the
subtrees of Click's classification library, which is external, are sets. Words
are looked up in tables given as constants; what a text means is defined a second
time, without the parser's state, by a grammar and by what each test says about a
packet, and the two are compared. In `FilterWords` a word has `WIDTH` bits; a packet
has a network and a transport header, from which the length that tests are checked
against and the place a test's offset is taken from are computed as in `match`.

*DevicePath.* A packet has three places it can be in: as it was made, after
`uniqueify`, after `bpf_packet_add_space`. `misuse` records that something was
killed or sent that was not there any more; what the second kill does to memory is
not followed. `MemoryMayFail` lets `uniqueify` and ToDevice's buffers fail, and an
error of the device crashes the unikernel (`rx_error`). `Uniqueified`, `Kill` and the receive
queue belong to Click and Unikraft and are external.

*InfiniteSource2.* `_end_h` is the call made at the limit: none, STOP, the source's
own `reset` handler, or `unready`, a call that was made by a live `configure` and that
only `initialize` would have bound to its handler: it does nothing. The
handler of END_CALL is looked up when the arguments are read, so that it works; of
the handlers it may name the source's own `reset` is modelled.

*ControlMessage.* Bytes have `BASE` values, numbers `U64` bytes; a message is the
sequence of bytes the helper writes, and the parser reads lengths and fields from
it at the offsets the code computes.

## 3. What TLC checks

| Run | Shows | Bounds |
|---|---|---|
| `element` | type invariant, `ExecStable`, `RunsVerified`, refinement of `LiveReconfiguration` | 2 packet threads; requests that succeed, are unsigned, do not load, do not compile, name missing files; host writes; mapping may fail |
| `element_live` | `PacketsDecided`, `ConfigureReturns` | 2 packet threads, requests that succeed or name a missing file |
| `element_outage` | violation of `PacketsDecided` | a request whose program is refused |
| `library` | `CodeSound`, `HelpersAgree` for API calls in any order; `NativeRefines`, `HelperCall`, `AllTranslated` for both translators; `NativeComputes` | 4 programs, 2 helper indexes and the dispatcher, tables at different offsets, translations by the client, either `mprotect` may fail; all programs of up to 3 instructions out of 9 and an EXIT, every kind of instruction between a call and its function, buffers that are too small; 4-bit registers, all values |
| `jit_marker` | violation of `NativeRefines` | one jump to the instruction 257 |
| `interpreter` | `FramesMatchCalls`, `ReturnRestores`, `LimitExact`, `NeverMidInstruction`, `EndsAtEnd`, `Terminates`; `UndefinedExact`, `FrameUsage` under the undefined-behaviour check; `LinkExact` of the loader | all programs of up to 3 instructions out of 10, some of up to 8 and too long ones; 3-bit pc and number of instructions, depth 2; for the check all of 3 out of 14 and functions of 2, a stack of 8 bytes; object files of main and a function in four layouts over two sections, with calls and loads through every kind of symbol, and defective files |
| `stack_default` | violation of `DefaultStackUsage` | one program with a local call |
| `programs` | `MapsAsDeclared`, `StateRetained`; `NothingForgotten`, `NeverAhead`; `RateExact`; `TranslationSound`, `RulesStable`; `PacketVerdicts`, `TakesTurns`; `PoolSound`, `AutomatonExact`, `VerdictsSound`; `FilterExact` | 3 versions of a program, 3 map names; 2 threads and 6 packets for a limit of 3, a 2-bit counter that wraps; 2 sources, 3-bit seconds; 7 connections for 3 ports, two of one key, 3-bit words; frames cut off at 11 places; 2 patterns out of 5, texts of 4 letters in chunks of one and two, kept or begun anew; words of 8 bits, masks with gaps, packets that end at every byte of a test; configurations of tests of every kind, pairs of tests of which the second takes over qualifiers, and all short expressions of operators and parentheses |
| `rodata_reuse` | violation of `OwnRodata` | the same |
| `nat_reply` | violation of `RepliesReturn` | the same |
| `backlog` | violation of `BacklogFits` | the same |
| `router` | `PacketsOwned`, `Drained`; `LimitKept`, `KeepsGoing`, `StopEndsRouter`; `CallsExact` | 3 packets, callback and handler, shared packets, programs that return each verdict, -1 and unknown values, memory that runs out, device errors; limits -1 to 3, bursts of 1 and 2, 2 changes by handlers; 3 messages out of 5 with 4-bit bytes |

`library`, `interpreter`, `programs` and `router` put state machines side by side that share no
state: a variable says which one a behaviour is about, and the others rest.

Why these bounds are enough to be of use: two packet threads give every order of
a reader that holds the lock, one that waits and a writer; the widths of pc,
seconds, words, bytes and ports are small so that wrapping happens within the
bounds; there are more connections than ports; calls nest deeper than there are
frames; patterns are prefixes, suffixes and factors of each other and lie across
chunks; the pool's blocks hold two nodes; the buffer of a replacement overflows;
the code buffer does; filters see packets that differ in one thing a test may ask
for, fragments included; one of the messages has the length whose bytes, swapped,
are too small.

Deadlock is checked in `element_live` and `element_outage`. Elsewhere the system
may stop: in `element` after a refused reconfiguration has left the lock taken,
in the interpreter and the translators when the program has been run, in the
program models at the end of clock and text, in the router when `main` returns.

### Fairness

`element_live` assumes weak fairness of the steps of `configure` and of
leaving `exec`, because the scheduler runs ready threads and verified programs
terminate, and strong fairness of getting the read lock, because a thread that
finds the lock free again and again is woken. Nothing makes packets, requests or
host writes arrive. `WriterPreference` says whether the lock turns readers away
while a writer waits; `ConfigureReturns` needs it, or two threads that take turns
would keep the writer out. The lock belongs to Unikraft and is external: this is
an assumption about it; the safety properties are checked and proved without
it. `interpreter` assumes weak fairness of the loop: a called function goes on
running. `router` assumes weak fairness of the callback of a raised interrupt, of
every context inside `take_packets`, and of the steps of `main`, router thread and
driver: Unikraft's scheduler is cooperative and each of them yields or returns. It
assumes nothing about arrivals and handlers.

### Disagreements found

1. *Refused reconfiguration stops the element* (`element_outage`). The error
   paths of `configure` after `bpfelement.cc:219` return with the write lock
   taken.
2. *Read-only data of another program* (`rodata_reuse`). `global_data` is keyed
   by addresses of freed buffers.
3. *NAT replies* (`nat_reply`). The reply rule is built and the forward rule is
   inserted twice.
4. *Default stack usage* (`stack_default`). Without a calculator the usage is 0
   and not the documented maximum.
5. *A jump to instruction 257* (`jit_marker`). The x86-64 translator's marker for
   the retpoline is the number of an instruction.
6. *Backlog of a replacement* (`backlog`). Whole chunks are appended to a buffer
   of the size of one pattern.

Met while modelling and excluded from the passing runs by their assumptions or by
the properties, which say so:

- API: a translation of the client's, successful or not, overwrites what
  `ubpf_register` and `ubpf_compile_ex` believe of the mapped code: registrations
  then miss it or write elsewhere into it and are answered with 0 (`strayed`), and
  a compilation in the mode of that translation is answered with code of the other
  (`asked`); the bounds check of a helper update is strict, so that the last entry of
  a table at the end of the buffer is never updated.
- Interpreter: an instruction limit of 2^31 or more is negative as an int; stack
  usage is not reset when another program is loaded; `validate` lets a local call
  lead into the second slot of an LDDW; a frame's usage is changed whenever
  control passes the start of a function, in native code only by a call; a function
  that writes r10 gives its caller a frame pointer of its own, since EXIT adds the
  usage to it (`moved`).
- Undefined-behaviour check: a callee-saved register that only a called function
  wrote stays marked; a byte swap with the SRC_REG bit asks for a register it does
  not use; at the greatest call depth falling into a function is not noticed; an
  access that lies half inside the stack is not looked at.
- x86-64: without a dispatcher a helper's sixth argument is its index instead of
  the context, because the jump over the dispatcher's arguments has the wrong
  target; nothing looks at the status after the epilogue, the retpoline and the
  helper table are emitted; there is no limit on the depth of calls.
- Arm: `TARGET_PC_ENTER` is the number of instruction 1 (`Markers` excludes
  programs whose target it is); the tables of fix-ups have no bounds checks; the
  register for large offsets is the one that holds the context, so that a helper called
  after a far access is not given it (`KeepsContext`); NEG negates its
  source register; a CALL of an unknown kind jumps to the exit.
- Loader: a relocation at the first instruction of a function is refused; code
  with two symbols is copied twice, and relocations reach the first copy only; a
  relocated call is looked up by imm + 1 in the symbol's section, and the symbol's
  value is left out; a call from one function into another that has no relocation
  is off after linking.
- IPFilter2: protocol numbers from 256 on are pseudo protocols, so that
  `proto 300` holds for everything and `proto != tcpudp` compares with 1; a number
  that is tested for equality is masked too; `!=`, `<=` and `>=` negate the pair
  of source and destination, not each; a test after one that only names a protocol
  is read as its continuation, and `tcp ! udp` is refused; a port name that TCP
  and UDP read differently is refused even if the test before says which is meant;
  after a test of an Ethernet address a bare IP address is refused.
- NAT: the key of a destination with a non-empty upper half overlaps the source
  port (`nat.rs:132`): of two connections with one key the second follows the rule of
  the first (`DestinationKept`).
- Programs: dns-filter takes the UDP length, which includes the UDP header, for
  the length of what follows it, and so gives up on queries without trailing
  bytes; target-port and firewall look for ports 20 bytes into the IP header also
  when it has options; stringmatcher misses a word at the end of a packet and one
  that begins where another beginning breaks off; round-robin loses counts when
  packets overlap, and so do the counting programs; version 1's 32-bit count starts
  again at 0 when it wraps, and ten more packets pass (`lost`); version 2 does not
  take over the count again after version 1 was put back (`wentBack`); the rate
  limiter adds tokens in 32 bits, so that a source that was silent for nearly 2^32
  seconds loses them.
- Strings: `ac_trie_search` with `keep` 0 reads the place in the trie before it is
  reset, so that it also reports matches that began in the text before; `SearchExact`
  says of which text. IPFilter2's `pull` kills every packet that is not for the
  pulled port, which matters with more than one output, and looks at a packet also
  when its input has none; the model pulls when there is one.
- Elements: a shared packet whose classifier aborts, and a moved packet whose
  rewriter returns anything but success and abort, -1 of `exec` included, are killed
  by a pointer that is not valid any more, and their copy stays: `PacketsOwned` says
  that this happens exactly there (`KilledOldCopy`). ToDevice keeps a packet for which
  it finds no memory, and pulls one packet more than its burst, which it neither sends
  nor kills. A source that is reconfigured after its task ended is not scheduled
  again, and one that is given STOP then does not stop the driver (`unready`).
- Control: a message whose UDP length is a multiple of 256 below 31 * 256 is
  refused as too short, the longer ones are not (`TakenForShort`); the packet is
  killed before it is read.

## 4. What is proved

| Theorem | Statement | Assumes |
|---|---|---|
| `BPFElement_proofs!TypeCorrect` | `Spec => []TypeOK` | |
| `BPFElement_proofs!ExecIsStable` | `Spec => []ExecStable` | |
| `BPFElement_proofs!OnlyVerifiedRuns` | `Spec => []RunsVerified` | `HostWaits` |
| `BPFElement_proofs!Refinement` | `Spec => LiveReconfiguration` | `HostWaits` |
| `Ubpf_proofs!CodeIsSound` | `Spec => []CodeSound` | |
| `Ubpf_proofs!RegistrationReachesCode` | `Spec => []HelpersAgree` | |
| `Interpreter_proofs!CallStack` | `Spec => []FramesMatchCalls` | |
| `Interpreter_proofs!CalleeSaved` | `Spec => ReturnRestores` | |
| `Interpreter_proofs!LimitHonoured` | `Spec => []LimitExact` | limits below `2^(LW-1)` |
| `MapReconfiguration_proofs!DeclaredMaps` | `Spec => []MapsAsDeclared` | |
| `Interpreter_proofs!LeavesAtEnd` | `Spec => []EndsAtEnd` | |
| `Interpreter_proofs!NeverStopped` | `Spec => []NeverMidInstruction` | |
| `Ubpf_proofs!ShadowIsExact` | `ShadowSpec => []UndefinedExact` | |
| `Ubpf_proofs!FramesApart` | `ShadowSpec => []FrameUsage` | |
| `MapReconfiguration_proofs!MapsRetained` | `Spec => StateRetained` | |
| `MapReconfiguration_proofs!CountSurvives` | `MigrationSpec => []NothingForgotten` | |
| `Programs_proofs!RateIsExact` | `RateSpec => []RateExact` | |
| `Programs_proofs!Verdicts` | `ProgramSpec => []PacketVerdicts` | |
| `Programs_proofs!Turns` | `ProgramSpec => TakesTurns` | |
| `Nat_proofs!Translation` | `NatSpec => []TranslationSound` | |
| `Nat_proofs!RulesKept` | `NatSpec => RulesStable` | |
| `Router_proofs!LimitNeverPassed` | `RouterSpec => []LimitKept` | |
| `Router_proofs!OneOwner` | `PathSpec => []PacketsOwned` | |
| `Router_proofs!CallsAreExact` | `ControlSpec => []CallsExact` | |

All for any number of threads, programs, requests, files, frames, maps and widths,
under the named assumptions on constants in the modules (`UbpfAssumption`,
`ElementAssumption`, `ControlAssumption`, `ApiAssumption`,
`InterpreterAssumption`, `MapAssumption`, `MigrationAssumption`,
`RateAssumption`, `SourceAssumption`, `PathAssumption`, `ShadowAssumption`,
`TurnAssumption`, `FrameAssumption`, `WordAssumption`, `NatAssumption`,
`MessageAssumption`), which TLC evaluates in the runs like those of the other
modules. Some conjuncts only state arithmetic about powers that the provers do not
know: that `2^P` is at least 4, that `2^CounterWidth` is even.

*Induction.* Where a definition recurs, over the slots of a program
(`validate`), the bytes of a number or the ports given out, the argument is by the
least counterexample: every nonempty set of natural numbers has a least member
(`Least`, `LeastNumber`), which follows from the library's theorem on minimal
elements. A recursive function is unfolded after showing that a function that
satisfies its equation exists.

*The element.* `ExecStable` is not inductive: it does not say that the lock
keeps configure away. `IInv` adds that the readers are the packets inside
`exec` and exclude the writer (`LockInv`), that configure holds the lock between
`locked` and its end, that no packet exists before the first success
(`PhaseInv`), that mapped code is the translation of what is loaded
(`JittedIsLoaded`), that whenever the lock is free the VM is ready for the mode
`_jit` asks for (`ReadyInv`: this is where it matters that control messages
carry no JIT key), and what has been verified when (`VerifiedInv`). That the
error paths keep the lock is essential: released there, an unverified program
would run. The refinement maps the program in force to what is loaded when the
router runs and the lock is free.

*The API.* `IInv` adds that `jitted_result` describes the mapped code, in offset and
mode, as long as `ubpf_compile_ex` made the last translation, and that only
registrations that stray damage code.

*The interpreter.* The frame of an active call holds what the caller had, and
the frame pointer of a caller is that of the callee plus the frame's stack
usage. Frames below the current one are never written, although the current one
is whenever control passes the start of a function. A write to r10 marks all active
calls (`moved`): their frame pointers are not promised any more. `Within` says of pc
and return addresses that they are at most the number of instructions `validate` has
seen, which is what `num_insts` holds because `ubpf_load` refuses programs that
are longer than it can count.
For `NeverMidInstruction` the instructions `validate` looks at are characterised
first (`LookedUnfold`): a slot is passed over exactly if it is the second of an
LDDW that is not. The invariant `Mid` then says that pc and all return addresses
are at instructions `validate` has looked at or at the end, if the local calls of the
program are.

*The undefined-behaviour check.* `Shadows`: the marked registers are those with a
value and those only a callee has set, the marked bytes of the stack are those
stored to, and what a caller will get back is still marked. `Usages`: as long as
another call can be made, the usage in force is that of the running function, or
control has just come to its beginning. The second half of the proof needs that no
function is fallen into. `ShadowAssumption` asks for programs `validate` accepts
that move nothing into r10.

*The maps.* `MapsAsDeclared` speaks of finished programs; `IInv` says the same
of the one being relocated, since a load is refused or finished after any
symbol, and that every map is a definition and contents, which the helpers and
`map_after` preserve. `MapAssumption` says that a program has one symbol per map
name.

*The counting programs.* Which maps exist says which versions have been loaded,
as long as nobody goes back to version 1; then, between packets, the counter in
charge, that of version 1 until version 2 has run, holds the number of packets but for
what wraps have lost. While a packet that overlaps no other is inside, the invariant
(`Orderly`) says for each of its steps what it has read and what is still to be stored.

*The rate limiter.* `RateExact` only speaks of times of passes. The books of a
source are balanced: there is a second of the last grant, of which the bucket
keeps `W` bits, up to which all passes since any earlier one and the tokens left
are covered by seconds that went by and the capacity. The wrapped difference the
code computes is never more than the true one, and equals it unless a period of the
seconds has gone by.

*Round-robin and the filters.* `TurnInv`: as long as packets do not overlap, who has
read the counter has read its present value, and its parity is not that of the last
output. That wrapping keeps the parity needs an even number of counts.

*NAT.* `NatInv`: the rules have been given the ports from the first one on, as
many as there are rules, and the next port follows (`PortsInOrder`), so that a
port comes again only after all have been used; a rule leads where the connection
went that came first with its key (`RulesLead`). The checksum is valid because one update keeps the
sum of the header and its checksum divisible by `2^P - 1` (`StaysDivided`,
`UpdateFacts`, `RewriteKeepsValid`): the two carries the code adds are enough for
the sum of three words (`Carries`).

*The router.* What is left of a limit and what has been sent never exceed what was
promised (`SourceInv`). Of the copies of a packet exactly one is alive while an
element decides, the one that `out` names (`OnItsWay`); afterwards (`Ended`) it is
alive if and only if memory failed or the element killed by the pointer it was given
and that was not it.

*Control messages.* Reading a number back from its bytes gives the number if it fits
(`ReadBack`), every field of an encoded message lies where the parser looks for it
(`EncodedFacts`), so that decoding inverts encoding and no two requests have the
same message (`DecodesBack`, `EncInjective`). `ControlInv` says that what is under
way or has come is the message of a request that was sent, or something else, which
is refused by its prefix (`OtherRefused`).

Only model-checked: liveness, which is out of the prover's reach under fairness
(`PacketsDecided`, `ConfigureReturns`, `Terminates`, `Drained`, `KeepsGoing`,
`StopEndsRouter`); the translators (`NativeRefines`, `HelperCall`,
`AllTranslated`, `NativeComputes`), the loader (`LinkExact`), strings (`PoolSound`,
`AutomatonExact`, `VerdictsSound`), filters (`FilterExact`), and what overlapping
packets do to the counting programs (`NeverAhead`). These modules use
recursive or bitwise operators, for which there is no proof support, or compute
tables, tries and programs by folds over their input.

## 5. Not modelled

Listed with reasons in `PROJECT.json`. The bytes of packets and files, memory
exhaustion outside the packets' way, and the cryptography of the signature are abstracted. In particular:

- two control threads on one element: the provided configurations have one;
- memory that is lost or grows: `int_funcs` of earlier programs, hash maps beyond
  `max_entries`;
- an array map's index beyond `max_entries`: the programs use index 0 of arrays
  with one entry;
- the bytes of ELF headers: whether the loader's checks of a header hold is part
  of an object file;
- how IPFilter2 cuts a text into words, and how Click, outside the repository,
  optimises the program of its tests;
- what happens after a packet is killed a second time, or damaged native code runs;
- handlers other than `stop` and the source's own `reset` as END_CALL;
- Print2 and the programs that copy or pass packets;
- console support of `click.cc`, which is compiled out.

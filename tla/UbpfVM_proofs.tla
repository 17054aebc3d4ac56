---------------------------- MODULE UbpfVM_proofs ----------------------------
(***************************************************************************)
(* What the operations on a uBPF VM preserve, for any programs, functions  *)
(* and number of helper indexes.                                           *)
(***************************************************************************)
EXTENDS UbpfVM, TLAPS

(* Unloading keeps a VM a VM and leaves no native code.                    *)
LEMMA UnloadType ==
  ASSUME NEW v \in VMs
  PROVE  /\ ubpf_unload_code(v) \in VMs
         /\ ubpf_unload_code(v).jitted = NULL
BY Zenon DEF ubpf_unload_code, VMs

(* A load that succeeds sets the program and nothing else.                 *)
LEMMA LoadType ==
  ASSUME NEW v \in VMs, NEW p, CanLoad(v, p)
  PROVE  /\ ubpf_load(v, p) \in VMs
         /\ ubpf_load(v, p).insts = p
         /\ ubpf_load(v, p).jitted = v.jitted
         /\ ubpf_load(v, p).ext_funcs = v.ext_funcs
         /\ p \in Programs
BY Zenon, UbpfAssumption DEF ubpf_load, CanLoad, VMs

(* A translation has its table of helpers somewhere.                       *)
LEMMA TableType ==
  ASSUME NEW v, NEW mode \in JitModes, v.insts \in Programs
  PROVE  HelperTable(v, mode) \in Nat
<1> DEFINE unwinds == v.unwind_index \in CallsOf[v.insts]
<1>1. unwinds \in BOOLEAN OBVIOUS
<1>2. HelperTable(v, mode) = TableAt[v.insts][mode][unwinds] BY DEF HelperTable
<1> HIDE DEF unwinds
<1>3. TableAt[v.insts] \in [JitModes -> [BOOLEAN -> Nat]] BY UbpfAssumption
<1>4. TableAt[v.insts][mode] \in [BOOLEAN -> Nat] BY <1>3
<1>5. TableAt[v.insts][mode][unwinds] \in Nat BY Zenon, <1>1, <1>4
<1> QED BY <1>2, <1>5

(* A translation touches neither the program nor the mapped code; it says  *)
(* how it went, in which mode and where its table is.                      *)
LEMMA TranslateType ==
  ASSUME NEW v \in VMs, NEW mode \in JitModes, NEW ok \in BOOLEAN,
         ok => v.insts \in Programs
  PROVE  LET w == ubpf_translate(v, mode, ok)
         IN  /\ w \in VMs
             /\ w.insts = v.insts /\ w.jitted = v.jitted /\ w.ext_funcs = v.ext_funcs
             /\ w.unwind_index = v.unwind_index /\ w.jit_mode = mode
             /\ ok => /\ w.compile_result = "SUCCESS"
                      /\ w.external_helper_offset = HelperTable(v, mode)
<1>1. ok => HelperTable(v, mode) \in Nat BY TableType
<1> QED BY Zenon, <1>1 DEF ubpf_translate, VMs

(* The steps of ubpf_compile_ex(): the old code goes, the program is       *)
(* translated, the translation is mapped.                                  *)
LEMMA CompileSteps ==
  ASSUME NEW v \in VMs, NEW mode \in JitModes, NEW mapped \in BOOLEAN
  PROVE  LET w == ubpf_compile(v, mode, mapped)
         IN  /\ w \in VMs /\ w.insts = v.insts /\ w.ext_funcs = v.ext_funcs
             /\ ReusesJitted(v, mode) => w = v
             /\ w.jitted # NULL /\ ~ReusesJitted(v, mode) =>
                  /\ w.jitted = Translation(v, mode)
                  /\ w.compile_result = "SUCCESS" /\ w.jit_mode = mode
                  /\ w.external_helper_offset = HelperTable(v, mode)
<1> DEFINE w  == [v EXCEPT !.jitted = NULL]
           ok == w.insts \in Compilable
           x  == ubpf_translate(w, mode, ok)
           y  == [x EXCEPT !.jitted = Translation(w, mode)]
<1>1. w \in VMs /\ w.insts = v.insts /\ w.jitted = NULL
      /\ w.ext_funcs = v.ext_funcs /\ w.ext_funcs \in Addresses
      /\ w.unwind_index = v.unwind_index
  BY DEF VMs
<1>2. Translation(w, mode) = Translation(v, mode) /\ HelperTable(w, mode) = HelperTable(v, mode)
  BY <1>1 DEF Translation, HelperTable
<1>3. ok \in BOOLEAN /\ (ok => w.insts \in Programs) BY UbpfAssumption
<1>4. /\ x \in VMs /\ x.insts = v.insts /\ x.jitted = NULL /\ x.ext_funcs = v.ext_funcs
      /\ x.jit_mode = mode
      /\ ok => x.compile_result = "SUCCESS" /\ x.external_helper_offset = HelperTable(v, mode)
  <2> HIDE DEF w, ok
  <2> QED BY <1>1, <1>2, <1>3, TranslateType DEF x
<1>5. ASSUME ok
      PROVE  /\ y \in VMs /\ y.insts = v.insts /\ y.ext_funcs = v.ext_funcs
             /\ y.jitted = Translation(v, mode) /\ y.compile_result = "SUCCESS"
             /\ y.jit_mode = mode /\ y.external_helper_offset = HelperTable(v, mode)
  <2>1. Translation(w, mode) \in NativeCode
    <3>1. w.insts \in Programs /\ HelperTable(w, mode) \in Nat BY Zenon, <1>3, <1>5, TableType
    <3> HIDE DEF w
    <3> QED BY <1>1, <3>1 DEF Translation, NativeCode
  <2> HIDE DEF w, x, ok
  <2> QED BY <1>2, <1>4, <1>5, <2>1 DEF VMs, y
<1>6. ubpf_compile(v, mode, mapped) =
        IF ReusesJitted(v, mode) THEN v
        ELSE IF w.insts = NULL THEN w ELSE IF ok /\ mapped THEN y ELSE x
  BY DEF ubpf_compile
<1> HIDE DEF w, ok, x, y
<1> QED BY <1>1, <1>4, <1>5, <1>6

(* Compiling keeps the program; the native code, if any, is its            *)
(* translation, also when ubpf_compile_ex() reuses what is mapped.         *)
LEMMA CompileType ==
  ASSUME NEW v \in VMs, NEW mode \in JitModes, NEW mapped \in BOOLEAN,
         v.jitted # NULL => v.jitted.prog = v.insts
  PROVE  /\ ubpf_compile(v, mode, mapped) \in VMs
         /\ ubpf_compile(v, mode, mapped).insts = v.insts
         /\ ubpf_compile(v, mode, mapped).jitted # NULL =>
              ubpf_compile(v, mode, mapped).jitted.prog = v.insts
<1>1. Translation(v, mode).prog = v.insts BY DEF Translation
<1> DEFINE w == ubpf_compile(v, mode, mapped)
<1>2. /\ w \in VMs /\ w.insts = v.insts /\ (ReusesJitted(v, mode) => w = v)
      /\ w.jitted # NULL /\ ~ReusesJitted(v, mode) => w.jitted = Translation(v, mode)
  BY CompileSteps
<1> HIDE DEF w
<1>3. w.jitted # NULL => w.jitted.prog = v.insts BY <1>1, <1>2
<1> QED BY <1>2, <1>3 DEF w

(* Patching the mapped code leaves the program and the table's place.  At  *)
(* the offset of its own table it changes the one slot and nothing else;   *)
(* at another it counts as damage.                                         *)
LEMMA UpdateType ==
  ASSUME NEW c \in NativeCode, NEW o \in Nat, NEW i \in Slots, NEW f \in Functions
  PROVE  LET d == jit_update(c, o, i, f)
         IN  /\ d \in NativeCode /\ d.prog = c.prog /\ d.mode = c.mode /\ d.table = c.table
             /\ d.slots \in {c.slots, [c.slots EXCEPT ![i] = f]}
             /\ d.damaged => c.damaged \/ o # c.table
             /\ InBounds(c, o, i) /\ o = c.table => d.slots = [c.slots EXCEPT ![i] = f]
<1> DEFINE a == [c EXCEPT !.slots[i] = f]
           b == [c EXCEPT !.damaged = TRUE]
<1>1. /\ a \in NativeCode /\ a.prog = c.prog /\ a.mode = c.mode /\ a.table = c.table
      /\ a.slots = [c.slots EXCEPT ![i] = f] /\ a.damaged = c.damaged
  BY DEF NativeCode, Addresses
<1>2. /\ b \in NativeCode /\ b.prog = c.prog /\ b.mode = c.mode /\ b.table = c.table
      /\ b.slots = c.slots
  BY Zenon DEF NativeCode
<1>3. CASE ~InBounds(c, o, i)
  <2>1. jit_update(c, o, i, f) = c BY <1>3 DEF jit_update
  <2> QED BY <1>3, <2>1
<1>4. CASE InBounds(c, o, i) /\ o = c.table
  <2>1. jit_update(c, o, i, f) = a BY <1>4 DEF jit_update
  <2> HIDE DEF a
  <2> QED BY <1>1, <1>4, <2>1
<1>5. CASE InBounds(c, o, i) /\ o # c.table
  <2>1. jit_update(c, o, i, f) = b BY <1>5 DEF jit_update
  <2> HIDE DEF b
  <2> QED BY <1>2, <1>5, <2>1
<1> QED BY <1>3, <1>4, <1>5

(* A registration keeps the program loaded, and the mapped code, if any,   *)
(* remains a translation of the same program.  If jitted_result describes  *)
(* that code, an answer of 0 means that it has the function and can be     *)
(* executed.                                                               *)
LEMMA RegisterType ==
  ASSUME NEW v \in VMs, NEW i \in Slots, NEW f \in Functions, NEW m \in Mprotects
  PROVE  LET w == ubpf_register(v, i, f, m)
         IN  /\ w \in VMs /\ w.insts = v.insts
             /\ w.ext_funcs = [v.ext_funcs EXCEPT ![i] = f]
             /\ w.compile_result = v.compile_result /\ w.jit_mode = v.jit_mode
             /\ w.external_helper_offset = v.external_helper_offset
             /\ (w.jitted = NULL) <=> (v.jitted = NULL)
             /\ v.jitted # NULL =>
                  /\ w.jitted.prog = v.jitted.prog /\ w.jitted.mode = v.jitted.mode
                  /\ w.jitted.table = v.jitted.table
                  /\ w.jitted.slots \in {v.jitted.slots, [v.jitted.slots EXCEPT ![i] = f]}
                  /\ w.jitted.damaged =>
                       v.jitted.damaged \/ v.external_helper_offset # v.jitted.table
                  /\ register_rc(v, i, m) = 0 /\ NeedsPatch(v)
                     /\ v.external_helper_offset = v.jitted.table =>
                       /\ w.jitted.slots = [v.jitted.slots EXCEPT ![i] = f]
                       /\ w.jitted.executable
<1> DEFINE w == [v EXCEPT !.ext_funcs[i] = f]
           u == jit_update(v.jitted, v.external_helper_offset, i, f)
           c == [u EXCEPT !.executable = (m = "done")]
           x == [w EXCEPT !.jitted = c]
<1>1. /\ w \in VMs /\ w.insts = v.insts /\ w.jitted = v.jitted
      /\ w.ext_funcs = [v.ext_funcs EXCEPT ![i] = f]
      /\ w.compile_result = v.compile_result /\ w.jit_mode = v.jit_mode
      /\ w.external_helper_offset = v.external_helper_offset
  BY DEF VMs, Addresses
<1>2. ASSUME v.jitted # NULL
      PROVE  /\ c \in NativeCode /\ c.prog = v.jitted.prog /\ c.mode = v.jitted.mode
             /\ c.table = v.jitted.table /\ c.executable = (m = "done")
             /\ c.slots \in {v.jitted.slots, [v.jitted.slots EXCEPT ![i] = f]}
             /\ c.damaged => v.jitted.damaged \/ v.external_helper_offset # v.jitted.table
             /\ InBounds(v.jitted, v.external_helper_offset, i)
                /\ v.external_helper_offset = v.jitted.table =>
                  c.slots = [v.jitted.slots EXCEPT ![i] = f]
  <2>1. v.jitted \in NativeCode /\ v.external_helper_offset \in Nat BY <1>2 DEF VMs
  <2>2. /\ u \in NativeCode /\ u.prog = v.jitted.prog /\ u.mode = v.jitted.mode
        /\ u.table = v.jitted.table
        /\ u.slots \in {v.jitted.slots, [v.jitted.slots EXCEPT ![i] = f]}
        /\ u.damaged => v.jitted.damaged \/ v.external_helper_offset # v.jitted.table
        /\ InBounds(v.jitted, v.external_helper_offset, i)
           /\ v.external_helper_offset = v.jitted.table =>
             u.slots = [v.jitted.slots EXCEPT ![i] = f]
    BY <2>1, UpdateType
  <2> HIDE DEF u
  <2>3. /\ c \in NativeCode /\ c.prog = u.prog /\ c.mode = u.mode /\ c.table = u.table
        /\ c.slots = u.slots /\ c.damaged = u.damaged /\ c.executable = (m = "done")
    BY Zenon, <2>2 DEF NativeCode
  <2> HIDE DEF c
  <2> QED BY <2>2, <2>3
<1>3. ASSUME v.jitted # NULL
      PROVE  /\ x \in VMs /\ x.insts = v.insts /\ x.ext_funcs = w.ext_funcs
             /\ x.compile_result = v.compile_result /\ x.jit_mode = v.jit_mode
             /\ x.external_helper_offset = v.external_helper_offset
             /\ x.jitted = c /\ x.jitted # NULL
  <2>1. c \in NativeCode /\ c # NULL BY Zenon, <1>2, <1>3, UbpfAssumption
  <2> HIDE DEF w, c
  <2> QED BY <1>1, <2>1 DEF VMs, x
<1>4. ubpf_register(v, i, f, m) =
        IF NeedsPatch(v) /\ v.jitted # NULL /\ m # "not_writable" THEN x ELSE w
  BY DEF ubpf_register
<1>5. register_rc(v, i, m) = 0 /\ NeedsPatch(v) /\ v.jitted # NULL =>
        m = "done" /\ InBounds(v.jitted, v.external_helper_offset, i)
  BY DEF register_rc
<1>6. CASE NeedsPatch(v) /\ v.jitted # NULL /\ m # "not_writable"
  <2>1. ubpf_register(v, i, f, m) = x BY <1>4, <1>6
  <2>2. register_rc(v, i, m) = 0 => c.executable BY Zenon, <1>2, <1>5, <1>6
  <2> HIDE DEF w, x, c
  <2> QED BY <1>1, <1>2, <1>3, <1>5, <1>6, <2>1, <2>2
<1>7. CASE ~(NeedsPatch(v) /\ v.jitted # NULL /\ m # "not_writable")
  <2>1. ubpf_register(v, i, f, m) = w BY <1>4, <1>7
  <2>2. ~(register_rc(v, i, m) = 0 /\ NeedsPatch(v) /\ v.jitted # NULL) BY <1>5, <1>7
  <2> HIDE DEF w, x, c
  <2> QED BY <1>1, <1>7, <2>1, <2>2
<1> QED BY <1>6, <1>7

(* Damage is not repaired by a registration.                               *)
LEMMA StaysDamaged ==
  ASSUME NEW v \in VMs, NEW i, NEW f, NEW m, v.jitted \in NativeCode, v.jitted # NULL, v.jitted.damaged
  PROVE  ubpf_register(v, i, f, m).jitted.damaged
<1> DEFINE w == [v EXCEPT !.ext_funcs[i] = f]
           u == jit_update(v.jitted, v.external_helper_offset, i, f)
           c == [u EXCEPT !.executable = (m = "done")]
           x == [w EXCEPT !.jitted = c]
<1>1. w.jitted = v.jitted /\ x.jitted = c BY DEF VMs
<1>2. DOMAIN v.jitted = DOMAIN u /\ u.damaged BY DEF jit_update, NativeCode
<1>3. c.damaged BY <1>2 DEF NativeCode
<1>4. ubpf_register(v, i, f, m) =
        IF NeedsPatch(v) /\ v.jitted # NULL /\ m # "not_writable" THEN x ELSE w
  BY DEF ubpf_register
<1> HIDE DEF w, x, c
<1> QED BY <1>1, <1>3, <1>4
=============================================================================

---------------------- MODULE MapReconfiguration_proofs ----------------------
(* Programs only reach maps they declare, and no exchange loses a map.     *)
EXTENDS MapReconfiguration, StateMigration, TLAPS

IsBpfMap(m) == m = [def |-> m.def, data |-> m.data]

Types ==
  /\ loading \in Programs \cup {NULL} /\ prog \in Programs \cup {NULL}
  /\ pos \in Nat \ {0}
  /\ addr \in [Names -> Names \cup {NULL}]
  /\ \A n \in DOMAIN map_by_name : IsBpfMap(map_by_name[n])

(* Program p is the one being relocated or in force.                       *)
Current(p) == loading = p \/ (loading = NULL /\ prog = p)

Declares(p, n, def) ==
  \E s \in SymbolsOf(p) : IsMap(s) /\ s.name = n /\ SameDef(def, s.def)

(* The inductive invariant: what has been patched into a program, finished *)
(* or not, is the map of that name, which exists and is as one of the      *)
(* program's symbols says.                                                 *)
IInv ==
  /\ Types
  /\ loading # NULL => prog = NULL
  /\ \A p \in Programs : Current(p) => \A n \in Names : addr[n] # NULL =>
       addr[n] = n /\ n \in DOMAIN map_by_name /\ Declares(p, n, map_by_name[n].def)

-----------------------------------------------------------------------------
(* An update or a deletion leaves the definition of the map alone.         *)
LEMMA HelpersKeepDef ==
  ASSUME NEW map, IsBpfMap(map), NEW key, NEW value
  PROVE  /\ LET m == bpf_map_update_elem(map, key, value) IN IsBpfMap(m) /\ m.def = map.def
         /\ LET m == bpf_map_delete_elem(map, key) IN IsBpfMap(m) /\ m.def = map.def
<1>1. \A d : [map EXCEPT !.data = d] = [def |-> map.def, data |-> d] BY DEF IsBpfMap
<1>2. [map EXCEPT !.data[key] = value]
        = [def |-> map.def, data |-> [map.data EXCEPT ![key] = value]] BY DEF IsBpfMap
<1>3. \A d : IsBpfMap([def |-> map.def, data |-> d]) /\ [def |-> map.def, data |-> d].def = map.def
  BY DEF IsBpfMap
<1>4. LET m == bpf_map_update_elem(map, key, value) IN IsBpfMap(m) /\ m.def = map.def
  <2>1. CASE map.def.type = "HASH" BY Zenon, <2>1, <1>1, <1>3 DEF bpf_map_update_elem
  <2>2. CASE map.def.type = "ARRAY" BY <2>2, <1>2, <1>3 DEF bpf_map_update_elem
  <2>3. CASE map.def.type # "HASH" /\ map.def.type # "ARRAY"
    BY <2>3 DEF bpf_map_update_elem
  <2> QED BY <2>1, <2>2, <2>3
<1>5. LET m == bpf_map_delete_elem(map, key) IN IsBpfMap(m) /\ m.def = map.def
  BY Zenon, <1>1, <1>3 DEF bpf_map_delete_elem
<1> QED BY <1>4, <1>5

LEMMA FreshIsMap ==
  ASSUME NEW def PROVE IsBpfMap(Fresh(def)) /\ Fresh(def).def = def
BY DEF IsBpfMap, Fresh

(* Relocation keeps the maps there are.                                    *)
LEMMA MapAfterFacts ==
  ASSUME NEW maps, NEW name, NEW def,
         \A n \in DOMAIN maps : IsBpfMap(maps[n])
  PROVE  LET after == map_after(maps, name, def) IN
         /\ \A n \in DOMAIN maps : n \in DOMAIN after /\ after[n] = maps[n]
         /\ \A n \in DOMAIN after : IsBpfMap(after[n])
<1> DEFINE after == map_after(maps, name, def)
<1>1. CASE name \notin DOMAIN maps /\ Supported(def)
  <2>1. after = Put(maps, name, Fresh(def)) BY <1>1 DEF map_after
  <2>2. /\ DOMAIN after = DOMAIN maps \cup {name} /\ after[name] = Fresh(def)
        /\ \A x \in DOMAIN maps : x # name => after[x] = maps[x]
    <3> HIDE DEF after
    <3> DEFINE new == Fresh(def)
    <3>1. after = Put(maps, name, new) BY <2>1
    <3> HIDE DEF new
    <3>2. after[name] = new BY <3>1 DEF Put
    <3>3. /\ DOMAIN after = DOMAIN maps \cup {name}
          /\ \A x \in DOMAIN maps : x # name => after[x] = maps[x]
      BY <3>1 DEF Put
    <3> QED BY <3>2, <3>3 DEF new
  <2>3. \A n \in DOMAIN maps : n \in DOMAIN after /\ after[n] = maps[n]
    <3> HIDE DEF after
    <3> QED BY <2>2, <1>1
  <2>4. \A n \in DOMAIN after : IsBpfMap(after[n])
    <3> HIDE DEF after
    <3>1. IsBpfMap(Fresh(def)) BY FreshIsMap
    <3> QED BY <2>2, <3>1, <1>1
  <2> QED BY <2>3, <2>4
<1>2. CASE ~(name \notin DOMAIN maps /\ Supported(def)) BY <1>2 DEF map_after
<1> QED BY <1>1, <1>2

LEMMA SymbolAt ==
  ASSUME Types, loading # NULL, pos <= Len(Symbols[loading])
  PROVE  Symbols[loading][pos] \in SymbolsOf(loading)
<1>1. loading \in Programs BY DEF Types
<1>2. Symbols[loading] \in Seq(SymbolsOf(loading)) BY <1>1, MapAssumption
<1>3. pos \in 1 .. Len(Symbols[loading]) BY <1>2 DEF Types
<1> QED BY <1>2, <1>3

-----------------------------------------------------------------------------
Retained == \A n \in DOMAIN map_by_name :
              n \in DOMAIN map_by_name' /\ map_by_name'[n] = map_by_name[n]

LEMMA InitIInv == Init => IInv
<1> SUFFICES ASSUME Init PROVE IInv OBVIOUS
<1>1. Types BY DEF Init, Types
<1>2. \A n \in Names : addr[n] = NULL BY DEF Init
<1> QED BY <1>1, <1>2 DEF Init, IInv

LEMMA BeginStep ==
  ASSUME IInv, NEW p \in Programs, NEW a \in Buffers, BeginLoad(p, a)
  PROVE  IInv' /\ Retained
<1>1. Types' BY DEF BeginLoad, IInv, Types
<1>2. \A n \in Names : addr'[n] = NULL BY DEF BeginLoad
<1>3. prog' = NULL BY DEF BeginLoad
<1>4. Retained BY DEF BeginLoad, Retained
<1> QED BY <1>1, <1>2, <1>3, <1>4 DEF IInv

LEMMA RelocateStep ==
  ASSUME IInv, RelocateNext PROVE IInv' /\ Retained
<1> DEFINE s == Symbols[loading][pos]
<1>0. loading # NULL /\ pos <= Len(Symbols[loading]) /\ Relocate(s) BY DEF RelocateNext
<1>1. loading \in Programs /\ s \in SymbolsOf(loading) BY <1>0, SymbolAt DEF IInv, Types
<1>2. prog = NULL BY <1>0 DEF IInv
<1> HIDE DEF s
<1>3. /\ UNCHANGED <<loading, prog>> /\ pos' \in Nat \ {0}
  BY <1>0 DEF Relocate, IInv, Types
<1>4. CASE ~IsMap(s)
  <2>1. UNCHANGED <<map_by_name, addr>> BY <1>0, <1>4 DEF Relocate
  <2>2. Types' BY <2>1, <1>3 DEF IInv, Types
  <2> QED BY <2>1, <2>2, <1>3 DEF IInv, Retained, Current
<1>5. CASE IsMap(s)
  <2> DEFINE after == map_after(map_by_name, s.name, s.def)
             at == address_of(map_by_name, s.name, s.def)
  <2>1. map_by_name' = after /\ addr' = [addr EXCEPT ![s.name] = at]
    BY <1>0, <1>5 DEF Relocate
  <2>2. /\ \A n \in DOMAIN map_by_name : n \in DOMAIN after /\ after[n] = map_by_name[n]
        /\ \A n \in DOMAIN after : IsBpfMap(after[n])
    BY MapAfterFacts DEF IInv, Types
  <2>3. s.name \in Names BY <1>1, <1>5, MapAssumption
  <2>4. at = NULL \/ (at = s.name /\ s.name \in DOMAIN after /\ SameDef(after[s.name].def, s.def))
    BY DEF address_of
  <2> HIDE DEF after, at
  <2>5. Retained BY <2>1, <2>2 DEF Retained
  <2>6. addr' \in [Names -> Names \cup {NULL}] BY <2>1, <2>3, <2>4 DEF IInv, Types
  <2>7. Types' BY <2>1, <2>2, <2>6, <1>3 DEF IInv, Types
  <2>8. ASSUME NEW n \in Names, addr'[n] # NULL
        PROVE  /\ addr'[n] = n /\ n \in DOMAIN map_by_name'
               /\ Declares(loading, n, map_by_name'[n].def)
    <3>1. CASE n = s.name
      <4>1. addr'[n] = at BY <2>1, <2>3, <3>1 DEF IInv, Types
      <4>2. at = s.name /\ s.name \in DOMAIN after /\ SameDef(after[s.name].def, s.def)
        BY <4>1, <2>4, <2>8
      <4> QED BY <4>1, <4>2, <3>1, <2>1, <1>1, <1>5 DEF Declares
    <3>2. CASE n # s.name
      <4>1. addr'[n] = addr[n] BY <2>1, <3>2 DEF IInv, Types
      <4>2. addr[n] = n /\ n \in DOMAIN map_by_name /\ Declares(loading, n, map_by_name[n].def)
        BY <4>1, <2>8, <1>1 DEF IInv, Current
      <4> QED BY <4>1, <4>2, <2>1, <2>2
    <3> QED BY <3>1, <3>2
  <2>9. \A p \in Programs : Current(p)' => p = loading
    BY <1>0, <1>3 DEF Current
  <2> QED BY <2>5, <2>7, <2>8, <2>9, <1>2, <1>3 DEF IInv
<1> QED BY <1>4, <1>5

LEMMA EndStep ==
  ASSUME IInv, FinishLoad \/ FailLoad PROVE IInv' /\ Retained
<1>1. CASE FinishLoad
  <2>1. Types' BY <1>1 DEF FinishLoad, IInv, Types
  <2>2. \A p \in Programs : Current(p)' => Current(p)
    BY <1>1, MapAssumption DEF FinishLoad, Current
  <2>3. loading' = NULL /\ UNCHANGED <<map_by_name, addr>> BY <1>1 DEF FinishLoad
  <2>4. ASSUME NEW p \in Programs, Current(p)', NEW n \in Names, addr'[n] # NULL
        PROVE  addr'[n] = n /\ n \in DOMAIN map_by_name' /\ Declares(p, n, map_by_name'[n].def)
    BY <2>2, <2>3, <2>4 DEF IInv
  <2> QED BY <2>1, <2>3, <2>4 DEF IInv, Retained
<1>2. CASE FailLoad
  <2>1. Types' BY <1>2 DEF FailLoad, IInv, Types
  <2>2. \A n \in Names : addr'[n] = NULL BY <1>2 DEF FailLoad
  <2> QED BY <1>2, <2>1, <2>2 DEF FailLoad, IInv, Retained
<1> QED BY <1>1, <1>2

LEMMA StoreStep ==
  ASSUME IInv, NEW n \in Names, NEW m, Store(n, m),
         addr[n] \in DOMAIN map_by_name =>
           IsBpfMap(m) /\ m.def = map_by_name[addr[n]].def
  PROVE  IInv' /\ prog # NULL /\ prog' = prog
<1>1. /\ prog # NULL /\ addr[n] # NULL /\ UNCHANGED <<loading, pos, prog, addr>>
      /\ map_by_name' = [map_by_name EXCEPT ![addr[n]] = m]
  BY DEF Store
<1>2. prog \in Programs /\ Current(prog) BY <1>1 DEF IInv, Types, Current
<1>3. addr[n] \in DOMAIN map_by_name BY <1>1, <1>2 DEF IInv
<1>4. /\ DOMAIN map_by_name' = DOMAIN map_by_name
      /\ \A x \in DOMAIN map_by_name :
           map_by_name'[x].def = map_by_name[x].def /\ IsBpfMap(map_by_name'[x])
  BY <1>1, <1>3 DEF IInv, Types
<1>5. Types' BY <1>1, <1>4 DEF IInv, Types
<1>6. \A p \in Programs : Current(p)' => Current(p) BY <1>1 DEF Current
<1>7. ASSUME NEW p \in Programs, Current(p)', NEW x \in Names, addr'[x] # NULL
      PROVE  addr'[x] = x /\ x \in DOMAIN map_by_name' /\ Declares(p, x, map_by_name'[x].def)
  <2>1. addr[x] = x /\ x \in DOMAIN map_by_name /\ Declares(p, x, map_by_name[x].def)
    BY <1>1, <1>6, <1>7 DEF IInv
  <2> QED BY <2>1, <1>1, <1>4
<1> QED BY <1>1, <1>5, <1>7 DEF IInv

LEMMA PacketStep ==
  ASSUME IInv, NEW n \in Names, NEW k,
         \/ \E v \in Values : Store(n, bpf_map_update_elem(map_by_name[addr[n]], k, v))
         \/ Store(n, bpf_map_delete_elem(map_by_name[addr[n]], k))
  PROVE  IInv' /\ prog # NULL /\ prog' = prog
<1>1. ASSUME NEW v, addr[n] \in DOMAIN map_by_name
      PROVE  /\ LET m == bpf_map_update_elem(map_by_name[addr[n]], k, v)
                IN  IsBpfMap(m) /\ m.def = map_by_name[addr[n]].def
             /\ LET m == bpf_map_delete_elem(map_by_name[addr[n]], k)
                IN  IsBpfMap(m) /\ m.def = map_by_name[addr[n]].def
  BY <1>1, HelpersKeepDef DEF IInv, Types
<1> QED BY <1>1, StoreStep

LEMMA NextStep ==
  ASSUME IInv, [Next]_vars
  PROVE  IInv' /\ (Retained \/ (prog # NULL /\ prog' = prog))
<1>1. CASE \E p \in Programs, a \in Buffers : BeginLoad(p, a) BY <1>1, BeginStep
<1>2. CASE RelocateNext BY <1>2, RelocateStep
<1>3. CASE FinishLoad \/ FailLoad BY <1>3, EndStep
<1>4. CASE \E n \in Names : prog # NULL /\ addr[n] # NULL /\ \E k \in KeysOf(n) :
             \/ \E v \in Values : Store(n, bpf_map_update_elem(map_by_name[addr[n]], k, v))
             \/ Store(n, bpf_map_delete_elem(map_by_name[addr[n]], k))
  BY <1>4, PacketStep
<1>5. CASE UNCHANGED vars
  <2>1. Types' BY <1>5 DEF IInv, Types, vars
  <2>2. \A p \in Programs : Current(p)' => Current(p) BY <1>5 DEF Current, vars
  <2> QED BY <1>5, <2>1, <2>2 DEF IInv, Retained, vars
<1> QED BY <1>1, <1>2, <1>3, <1>4, <1>5 DEF Next

LEMMA Invariance == Spec => []IInv
<1>1. IInv /\ [Next]_vars => IInv' BY NextStep
<1> QED BY <1>1, InitIInv, PTL DEF Spec

(* Whatever programs were loaded, refused or run before: do_map_relocation *)
(* gives a program only maps of the definition it was compiled for.        *)
THEOREM DeclaredMaps == Spec => []MapsAsDeclared
<1>1. ASSUME IInv PROVE MapsAsDeclared
  <2> SUFFICES ASSUME prog # NULL, NEW n \in Names, addr[n] # NULL
               PROVE  /\ addr[n] \in DOMAIN map_by_name
                      /\ SameDef(map_by_name[addr[n]].def, DefOf(prog, n))
    BY DEF MapsAsDeclared
  <2>1. prog \in Programs /\ Current(prog) BY <1>1 DEF IInv, Types, Current
  <2>2. addr[n] = n /\ n \in DOMAIN map_by_name /\ Declares(prog, n, map_by_name[n].def)
    BY <1>1, <2>1 DEF IInv
  <2>3. PICK s \in SymbolsOf(prog) : IsMap(s) /\ s.name = n /\ SameDef(map_by_name[n].def, s.def)
    BY <2>2 DEF Declares
  <2>4. \A t \in SymbolsOf(prog) : IsMap(t) /\ t.name = n => t = s
    BY <2>1, <2>3, MapAssumption
  <2>5. DefOf(prog, n) = s.def BY <2>3, <2>4 DEF DefOf
  <2> QED BY <2>2, <2>3, <2>5
<1> QED BY <1>1, Invariance, PTL

(* "state retention": no exchange of programs, complete or not, drops or   *)
(* changes a map.                                                          *)
THEOREM MapsRetained == Spec => StateRetained
<1> DEFINE A == prog = NULL \/ prog' # prog =>
                  \A n \in DOMAIN map_by_name :
                    n \in DOMAIN map_by_name' /\ map_by_name'[n] = map_by_name[n]
<1>1. IInv /\ [Next]_vars => [A]_vars BY NextStep DEF Retained
<1> QED BY <1>1, Invariance, PTL DEF Spec, StateRetained

-----------------------------------------------------------------------------
(* No packet is forgotten by the exchange of the counting programs.        *)
IsCounter(m) ==
  /\ m = [def |-> m.def, data |-> m.data]
  /\ m.def.type = "ARRAY"
  /\ m.data \in [{0} -> Nat]

AllCounters(maps) == \A n \in DOMAIN maps : IsCounter(maps[n])

CounterNames == {"PACKET_CTR_V1", "PACKET_CTR_V2", "VERSION"}

Steps == {"idle", "copy", "mark", "load", "store"}

(* The packets that have been counted: all but the one inside.             *)
Counted == IF NobodyInside THEN packets ELSE packets - 1

MigrationTypes ==
  /\ packets \in Nat /\ passed \in Nat /\ lost \in Nat
  /\ step \in [Workers -> Steps] /\ read \in [Workers -> Nat]
  /\ version \in Versions \cup {NULL}
  /\ AllCounters(counters)

(* Which maps exist says which versions have been loaded, and the counters *)
(* are within their widths.                                                *)
Declared ==
  /\ version = NULL => DOMAIN counters = {} /\ packets = 0 /\ lost = 0
  /\ version = "v1" => DOMAIN counters = {"PACKET_CTR_V1"}
  /\ version = "v2" => DOMAIN counters = CounterNames
  /\ "PACKET_CTR_V1" \in DOMAIN counters => Value(counters, "PACKET_CTR_V1") < 2^W1
  /\ "PACKET_CTR_V2" \in DOMAIN counters => Value(counters, "PACKET_CTR_V2") < 2^W2

(* One packet at a time, and what is known of the maps when it is at a     *)
(* step of its program.                                                    *)
Lone == \A t, u \in Workers : step[t] # "idle" /\ step[u] # "idle" => t = u
Phase(t) ==
  /\ step[t] # "idle" => version # NULL
  /\ step[t] \in {"copy", "mark"} => version = "v2" /\ ~Migrated
  /\ step[t] = "mark" => Value(counters, "PACKET_CTR_V2") = Value(counters, "PACKET_CTR_V1")
  /\ step[t] \in {"load", "store"} => PACKET_CTR = InCharge
  /\ step[t] = "store" => read[t] = Value(counters, PACKET_CTR)

Balanced ==
  /\ version # NULL => Value(counters, InCharge) + lost = Counted
  /\ lost = 0 => passed = IF Counted > Limit THEN Limit ELSE Counted

Orderly == MigrationTypes /\ Declared /\ Lone /\ (\A t \in Workers : Phase(t)) /\ Balanced

(* The inductive invariant.                                                *)
MigrationInv == ~overlapped /\ ~wentBack => Orderly

-----------------------------------------------------------------------------
(* Looking up a counter gives what is stored at index 0.                   *)
LEMMA ValueFacts ==
  ASSUME NEW maps, NEW n, IsCounter(maps[n])
  PROVE  Value(maps, n) = maps[n].data[0] /\ Value(maps, n) \in Nat
<1>1. 0 \in DOMAIN maps[n].data /\ maps[n].data[0] \in Nat BY DEF IsCounter
<1>2. maps[n].def.type = "ARRAY" /\ "ARRAY" # "HASH" BY DEF IsCounter
<1>3. Value(maps, n) = maps[n].data[0] BY <1>1, <1>2 DEF Value, bpf_map_lookup_elem
<1> QED BY <1>1, <1>3

(* Storing a counter changes that counter and no other.                    *)
LEMMA SetFacts ==
  ASSUME NEW maps, AllCounters(maps), NEW n \in DOMAIN maps, NEW v \in Nat
  PROVE  LET s == Set(maps, n, v) IN
         /\ DOMAIN s = DOMAIN maps /\ AllCounters(s)
         /\ Value(s, n) = v
         /\ \A x \in DOMAIN maps : x # n => Value(s, x) = Value(maps, x)
<1> DEFINE m == maps[n]
           new == bpf_map_update_elem(m, 0, v)
           s == Set(maps, n, v)
<1>1. IsCounter(m) BY DEF AllCounters
<1>2. new = [m EXCEPT !.data[0] = v]
  BY <1>1 DEF IsCounter, bpf_map_update_elem
<1>3. [m EXCEPT !.data[0] = v] = [def |-> m.def, data |-> [m.data EXCEPT ![0] = v]]
  BY <1>1 DEF IsCounter
<1>4. IsCounter(new) /\ new.data[0] = v
  <2>1. new = [def |-> m.def, data |-> [m.data EXCEPT ![0] = v]] BY <1>2, <1>3
  <2>2. new.def = m.def /\ new.data = [m.data EXCEPT ![0] = v] BY <2>1
  <2>3. new.data \in [{0} -> Nat] /\ new.data[0] = v BY <2>2, <1>1 DEF IsCounter
  <2> QED BY <2>1, <2>2, <2>3, <1>1 DEF IsCounter
<1>5. s = [maps EXCEPT ![n] = new] BY DEF Set
<1> HIDE DEF m, new, s
<1>6. DOMAIN s = DOMAIN maps /\ s[n] = new BY <1>5
<1>7. \A x \in DOMAIN maps : x # n => s[x] = maps[x] BY <1>5
<1>8. AllCounters(s) BY <1>4, <1>6, <1>7 DEF AllCounters
<1>9. Value(s, n) = v BY <1>4, <1>6, ValueFacts
<1>10. \A x \in DOMAIN maps : x # n => Value(s, x) = Value(maps, x) BY <1>7 DEF Value
<1> QED BY <1>6, <1>8, <1>9, <1>10 DEF s

(* Relocating the symbol of a counter keeps the maps there are and makes   *)
(* a missing one, which starts at zero.                                    *)
LEMMA AfterFacts ==
  ASSUME NEW maps, AllCounters(maps), NEW n, NEW def \in {u32Array, u64Array}
  PROVE  LET after == map_after(maps, n, def) IN
         /\ DOMAIN after = DOMAIN maps \cup {n} /\ AllCounters(after)
         /\ \A x \in DOMAIN maps : Value(after, x) = Value(maps, x)
         /\ n \notin DOMAIN maps => Value(after, n) = 0
<1> DEFINE after == map_after(maps, n, def)
           new == Fresh(def)
<1>1. CASE n \in DOMAIN maps BY <1>1 DEF map_after
<1>2. CASE n \notin DOMAIN maps
  <2>1. Supported(def) /\ def.type = "ARRAY" /\ def.max_entries = 1
    BY DEF Supported, u32Array, u64Array, SizeOfKeyIndex
  <2>2. IsCounter(new) /\ new.data[0] = 0
    <3>1. new = [def |-> def, data |-> [i \in 0 .. def.max_entries - 1 |-> Zero]]
      BY <2>1 DEF Fresh
    <3>2. [i \in 0 .. def.max_entries - 1 |-> Zero] = [i \in {0} |-> 0] BY <2>1 DEF Zero
    <3>3. new = [def |-> def, data |-> [i \in {0} |-> 0]] BY Zenon, <3>1, <3>2
    <3> HIDE DEF new
    <3> QED BY <3>3, <2>1 DEF IsCounter
  <2>3. after = Put(maps, n, new) BY <1>2, <2>1 DEF map_after
  <2> HIDE DEF after, new
  <2>4. DOMAIN after = DOMAIN maps \cup {n} /\ after[n] = new BY <2>3 DEF Put
  <2>5. \A x \in DOMAIN maps : after[x] = maps[x] BY <2>3, <1>2 DEF Put
  <2>6. AllCounters(after) BY <2>2, <2>4, <2>5 DEF AllCounters
  <2>7. Value(after, n) = 0 BY <2>2, <2>4, ValueFacts
  <2>8. \A x \in DOMAIN maps : Value(after, x) = Value(maps, x) BY <2>5 DEF Value
  <2> QED BY <2>4, <2>6, <2>7, <2>8 DEF after
<1> QED BY <1>1, <1>2

-----------------------------------------------------------------------------
LEMMA RelocatedFacts ==
  ASSUME NEW maps, AllCounters(maps), NEW v \in Versions
  PROVE  LET after == Relocated(v, maps) IN
         /\ AllCounters(after)
         /\ v = "v1" => DOMAIN after = DOMAIN maps \cup {"PACKET_CTR_V1"}
         /\ v = "v2" => DOMAIN after = DOMAIN maps \cup CounterNames
         /\ \A x \in DOMAIN maps : Value(after, x) = Value(maps, x)
         /\ \A x \in DOMAIN after \ DOMAIN maps : Value(after, x) = 0
<1> DEFINE one == map_after(maps, "PACKET_CTR_V1", u32Array)
           two == map_after(one, "PACKET_CTR_V2", u64Array)
           three == map_after(two, "VERSION", u64Array)
<1>1. /\ DOMAIN one = DOMAIN maps \cup {"PACKET_CTR_V1"} /\ AllCounters(one)
      /\ \A x \in DOMAIN maps : Value(one, x) = Value(maps, x)
      /\ "PACKET_CTR_V1" \notin DOMAIN maps => Value(one, "PACKET_CTR_V1") = 0
  BY Zenon, AfterFacts
<1> HIDE DEF one
<1>2. /\ DOMAIN two = DOMAIN one \cup {"PACKET_CTR_V2"} /\ AllCounters(two)
      /\ \A x \in DOMAIN one : Value(two, x) = Value(one, x)
      /\ "PACKET_CTR_V2" \notin DOMAIN one => Value(two, "PACKET_CTR_V2") = 0
  BY <1>1, AfterFacts, ZenonT(60)
<1> HIDE DEF two
<1>3. /\ DOMAIN three = DOMAIN two \cup {"VERSION"} /\ AllCounters(three)
      /\ \A x \in DOMAIN two : Value(three, x) = Value(two, x)
      /\ "VERSION" \notin DOMAIN two => Value(three, "VERSION") = 0
  BY <1>2, AfterFacts, ZenonT(60)
<1>4. Relocated(v, maps) = IF v = "v1" THEN one ELSE three BY DEF Relocated, one, two
<1> HIDE DEF three
<1>5. CASE v = "v1" BY <1>1, <1>4, <1>5
<1>6. CASE v = "v2"
  <2>1. Relocated(v, maps) = three BY <1>4, <1>6
  <2>2. \A x \in DOMAIN maps : Value(three, x) = Value(maps, x) BY <1>1, <1>2, <1>3
  <2>3. DOMAIN three = DOMAIN maps \cup CounterNames BY <1>1, <1>2, <1>3 DEF CounterNames
  <2>4. \A x \in DOMAIN three \ DOMAIN maps : Value(three, x) = 0
    BY <1>1, <1>2, <1>3
  <2> QED BY <2>1, <2>2, <2>3, <2>4, <1>3, <1>6
<1> QED BY <1>5, <1>6 DEF Versions

(* What Orderly says while no packet is inside, and what of it a step in   *)
(* which nobody comes or goes has to show.                                 *)
LEMMA Inside ==
  ASSUME Orderly, NEW t \in Workers, step[t] # "idle"
  PROVE  /\ Counted = packets - 1 /\ version \in Versions /\ ~NobodyInside
         /\ \A u \in Workers \ {t} : step[u] = "idle"
         /\ "PACKET_CTR_V1" \in DOMAIN counters /\ AllCounters(counters)
         /\ Value(counters, InCharge) + lost = packets - 1
<1>1. ~NobodyInside BY DEF NobodyInside
<1>2. version # NULL BY DEF Orderly, Phase
<1>3. version \in Versions BY <1>2 DEF Orderly, MigrationTypes
<1>4. "PACKET_CTR_V1" \in DOMAIN counters BY <1>3 DEF Orderly, Declared, CounterNames, Versions
<1>5. Counted = packets - 1 BY <1>1 DEF Counted
<1> QED BY <1>1, <1>2, <1>3, <1>4, <1>5 DEF Orderly, Lone, Balanced, MigrationTypes

(* A step of the packet inside that leaves it inside.                      *)
LEMMA StaysInside ==
  ASSUME Orderly, NEW t \in Workers, step[t] # "idle", NEW s \in Steps \ {"idle"}, Goes(t, s),
         UNCHANGED <<version, packets, passed, lost>>,
         AllCounters(counters'), DOMAIN counters' = DOMAIN counters, read' \in [Workers -> Nat],
         Value(counters', "PACKET_CTR_V1") = Value(counters, "PACKET_CTR_V1"),
         "PACKET_CTR_V2" \in DOMAIN counters => Value(counters', "PACKET_CTR_V2") < 2^W2,
         Value(counters', InCharge') = Value(counters, InCharge), Phase(t)'
  PROVE  Orderly'
<1>1. /\ Counted = packets - 1 /\ version \in Versions
      /\ \A u \in Workers \ {t} : step[u] = "idle"
  BY Inside
<1>2. step' = [step EXCEPT ![t] = s] /\ step \in [Workers -> Steps]
  BY DEF Goes, Orderly, MigrationTypes
<1>3. step' \in [Workers -> Steps] /\ step'[t] = s /\ \A u \in Workers \ {t} : step'[u] = "idle"
  BY <1>1, <1>2
<1>4. ~NobodyInside' BY <1>3 DEF NobodyInside
<1>5. Counted' = packets - 1 BY <1>4 DEF Counted
<1>6. MigrationTypes' BY <1>3 DEF Orderly, MigrationTypes
<1>7. Declared' BY DEF Orderly, Declared
<1>8. Lone' BY <1>3 DEF Lone
<1>9. ASSUME NEW u \in Workers \ {t} PROVE Phase(u)' BY <1>3 DEF Phase
<1>10. Balanced' BY <1>1, <1>5 DEF Orderly, Balanced
<1> QED BY <1>6, <1>7, <1>8, <1>9, <1>10 DEF Orderly

LEMMA ConfigureStep ==
  ASSUME Orderly, NEW v \in Versions, Configure(v), ~(version = "v2" /\ v = "v1")
  PROVE  Orderly'
<1> DEFINE after == Relocated(v, counters)
<1>1. counters' = after /\ version' = v /\ NobodyInside
      /\ UNCHANGED <<step, read, packets, passed, lost>>
  BY DEF Configure
<1>2. /\ AllCounters(after)
      /\ v = "v1" => DOMAIN after = DOMAIN counters \cup {"PACKET_CTR_V1"}
      /\ v = "v2" => DOMAIN after = DOMAIN counters \cup CounterNames
      /\ \A x \in DOMAIN counters : Value(after, x) = Value(counters, x)
      /\ \A x \in DOMAIN after \ DOMAIN counters : Value(after, x) = 0
  BY Zenon, RelocatedFacts DEF Orderly, MigrationTypes
<1> HIDE DEF after
<1>3. v # NULL /\ v \in {"v1", "v2"} /\ version \in {"v1", "v2", NULL}
  BY MigrationAssumption DEF Versions, Orderly, MigrationTypes
<1>4. /\ v = "v1" => DOMAIN after = {"PACKET_CTR_V1"}
      /\ v = "v2" => DOMAIN after = CounterNames
  BY Zenon, <1>2, <1>3 DEF Orderly, Declared, CounterNames
<1>5. MigrationTypes' BY <1>1, <1>2 DEF Orderly, MigrationTypes
<1>6. Declared'
  <2>1. 0 < 2^W1 /\ 0 < 2^W2
    <3>1. 2^W1 \in Int /\ 2^W2 \in Int /\ 1 <= 2^W1 /\ 2^W1 <= 2^W2 BY MigrationAssumption
    <3> QED BY <3>1
  <2>2. "PACKET_CTR_V1" \in DOMAIN after => Value(after, "PACKET_CTR_V1") < 2^W1
    BY <1>2, <2>1 DEF Orderly, Declared
  <2>3. "PACKET_CTR_V2" \in DOMAIN after => Value(after, "PACKET_CTR_V2") < 2^W2
    BY <1>2, <2>1 DEF Orderly, Declared
  <2> QED BY <1>1, <1>3, <1>4, <2>2, <2>3 DEF Declared
<1>7. Lone' BY <1>1 DEF Orderly, Lone
<1>8. ASSUME NEW t \in Workers PROVE Phase(t)' BY <1>1 DEF Phase, NobodyInside
<1>9. Counted' = Counted BY <1>1 DEF Counted, NobodyInside
<1>10. Value(after, InCharge') + lost = Counted
  <2>1. CASE version = NULL
    <3>1. DOMAIN counters = {} /\ packets = 0 /\ lost = 0 BY <2>1 DEF Orderly, Declared
    <3>2. \A x \in DOMAIN after : Value(after, x) = 0 BY <1>2, <3>1
    <3>3. ~Migrated' BY <1>1, <3>2 DEF Migrated
    <3>4. "PACKET_CTR_V1" \in DOMAIN after BY <1>3, <1>4 DEF CounterNames
    <3>5. Counted = 0 BY <3>1, <1>1 DEF Counted
    <3> QED BY <3>1, <3>2, <3>3, <3>4, <3>5 DEF InCharge
  <2>2. CASE version = "v2"
    <3>1. DOMAIN counters = CounterNames /\ DOMAIN after = CounterNames /\ version # NULL
      BY <2>2, <1>3, <1>4, MigrationAssumption DEF Orderly, Declared
    <3>2. Migrated' <=> Migrated BY <1>1, <1>2, <3>1 DEF Migrated, CounterNames
    <3>3. InCharge' = InCharge /\ InCharge \in DOMAIN counters BY <3>1, <3>2 DEF InCharge, CounterNames
    <3> QED BY <3>1, <3>3, <1>2 DEF Orderly, Balanced
  <2>3. CASE version = "v1"
    <3>1. DOMAIN counters = {"PACKET_CTR_V1"} /\ ~Migrated /\ version # NULL
      BY <2>3, MigrationAssumption DEF Orderly, Declared, Migrated
    <3>2. ~Migrated' BY <1>1, <1>2, <3>1 DEF Migrated
    <3> QED BY <3>1, <3>2, <1>2 DEF Orderly, Balanced, InCharge
  <2> QED BY <2>1, <2>2, <2>3, <1>3
<1>11. Balanced' BY <1>1, <1>9, <1>10 DEF Orderly, Balanced
<1> QED BY <1>5, <1>6, <1>7, <1>8, <1>11 DEF Orderly

LEMMA MainStep ==
  ASSUME Orderly, NEW t \in Workers, main(t), NobodyInside
  PROVE  Orderly'
<1> DEFINE s == IF NeedsMigration THEN "copy" ELSE "load"
<1>1. /\ version # NULL /\ packets' = packets + 1 /\ step' = [step EXCEPT ![t] = s]
      /\ UNCHANGED <<counters, version, read, passed, lost>>
  BY DEF main, Goes
<1>2. s \in {"copy", "load"} /\ s \in Steps /\ step \in [Workers -> Steps]
  BY DEF Steps, Orderly, MigrationTypes
<1>3. /\ step' \in [Workers -> Steps] /\ step'[t] = s
      /\ \A u \in Workers \ {t} : step'[u] = "idle"
  <2> HIDE DEF s
  <2> QED BY <1>1, <1>2 DEF NobodyInside
<1>4. ~NobodyInside' BY <1>2, <1>3 DEF NobodyInside
<1>5. packets \in Nat BY DEF Orderly, MigrationTypes
<1>6. Counted' = packets /\ Counted = packets BY <1>1, <1>4, <1>5 DEF Counted
<1>7. MigrationTypes' BY <1>1, <1>3, <1>5 DEF Orderly, MigrationTypes
<1>8. Declared' BY <1>1 DEF Orderly, Declared
<1>9. Lone' BY <1>3 DEF Lone
<1>10. /\ Migrated' = Migrated /\ InCharge' = InCharge /\ PACKET_CTR' = PACKET_CTR
  BY <1>1 DEF Migrated, InCharge, PACKET_CTR
<1>11. version \in {"v1", "v2"} BY <1>1 DEF Orderly, MigrationTypes, Versions
<1>12. Phase(t)'
  <2>1. CASE NeedsMigration
    <3>1. version = "v2" /\ ~Migrated /\ s = "copy" BY <2>1 DEF NeedsMigration, Migrated
    <3> QED BY <1>1, <1>3, <1>10, <3>1 DEF Phase
  <2>2. CASE ~NeedsMigration
    <3>1. s = "load" BY <2>2
    <3>2. version = "v2" => Migrated BY <2>2 DEF NeedsMigration, Migrated, Orderly, Declared, CounterNames
    <3>3. version = "v1" => ~Migrated BY DEF Orderly, Declared, Migrated
    <3>4. PACKET_CTR = InCharge BY <3>2, <3>3, <1>11 DEF PACKET_CTR, InCharge
    <3> QED BY <1>1, <1>3, <1>10, <3>1, <3>4 DEF Phase
  <2> QED BY <2>1, <2>2
<1>13. ASSUME NEW u \in Workers \ {t} PROVE Phase(u)' BY <1>3 DEF Phase
<1>14. Balanced' BY <1>1, <1>6, <1>10 DEF Orderly, Balanced
<1> QED BY <1>7, <1>8, <1>9, <1>12, <1>13, <1>14 DEF Orderly

LEMMA CopyStep ==
  ASSUME Orderly, NEW t \in Workers, copy_counter(t)
  PROVE  Orderly'
<1>1. /\ step[t] = "copy" /\ Goes(t, "mark") /\ counters' = Set(counters, "PACKET_CTR_V2", old_counter)
      /\ UNCHANGED <<version, read, packets, passed, lost>>
  BY DEF copy_counter, historyVars
<1>2. version = "v2" /\ ~Migrated /\ AllCounters(counters) BY <1>1 DEF Orderly, Phase, MigrationTypes
<1>3. DOMAIN counters = CounterNames BY <1>2 DEF Orderly, Declared
<1>4. old_counter \in Nat /\ old_counter = Value(counters, "PACKET_CTR_V1")
  BY <1>2, <1>3, ValueFacts DEF old_counter, AllCounters, CounterNames
<1>5. /\ DOMAIN counters' = DOMAIN counters /\ AllCounters(counters')
      /\ Value(counters', "PACKET_CTR_V2") = old_counter
      /\ \A x \in DOMAIN counters : x # "PACKET_CTR_V2" => Value(counters', x) = Value(counters, x)
  <2>1. "PACKET_CTR_V2" \in DOMAIN counters BY <1>3 DEF CounterNames
  <2> QED BY <1>1, <1>2, <1>4, <2>1, SetFacts
<1>6. /\ Value(counters', "PACKET_CTR_V1") = Value(counters, "PACKET_CTR_V1")
      /\ Value(counters', "VERSION") = Value(counters, "VERSION")
  BY <1>3, <1>5 DEF CounterNames
<1>7. ~Migrated' /\ InCharge = "PACKET_CTR_V1" /\ InCharge' = "PACKET_CTR_V1"
  BY <1>2, <1>5, <1>6 DEF Migrated, InCharge
<1>8. old_counter < 2^W2
  <2>1. old_counter < 2^W1 BY <1>3, <1>4 DEF Orderly, Declared, CounterNames
  <2>2. 2^W1 \in Int /\ 2^W2 \in Int /\ 2^W1 <= 2^W2 BY MigrationAssumption
  <2> QED BY <1>4, <2>1, <2>2
<1>9. step'[t] = "mark" BY <1>1 DEF Goes, Orderly, MigrationTypes
<1>10. Phase(t)'
  BY <1>1, <1>2, <1>4, <1>5, <1>6, <1>7, <1>9, MigrationAssumption DEF Phase
<1> QED BY <1>1, <1>5, <1>6, <1>7, <1>8, <1>10, StaysInside DEF Steps, Orderly, MigrationTypes

LEMMA MarkStep ==
  ASSUME Orderly, NEW t \in Workers, mark_version(t)
  PROVE  Orderly'
<1>1. /\ step[t] = "mark" /\ Goes(t, "load") /\ counters' = Set(counters, "VERSION", 2)
      /\ UNCHANGED <<version, read, packets, passed, lost>>
  BY DEF mark_version, historyVars
<1>2. /\ version = "v2" /\ ~Migrated /\ AllCounters(counters)
      /\ Value(counters, "PACKET_CTR_V2") = Value(counters, "PACKET_CTR_V1")
  BY <1>1 DEF Orderly, Phase, MigrationTypes
<1>3. DOMAIN counters = CounterNames BY <1>2 DEF Orderly, Declared
<1>4. /\ DOMAIN counters' = DOMAIN counters /\ AllCounters(counters')
      /\ Value(counters', "VERSION") = 2
      /\ \A x \in DOMAIN counters : x # "VERSION" => Value(counters', x) = Value(counters, x)
  BY <1>1, <1>2, <1>3, SetFacts DEF CounterNames
<1>5. /\ Value(counters', "PACKET_CTR_V1") = Value(counters, "PACKET_CTR_V1")
      /\ Value(counters', "PACKET_CTR_V2") = Value(counters, "PACKET_CTR_V2")
  BY <1>3, <1>4 DEF CounterNames
<1>6. Migrated' BY <1>3, <1>4 DEF Migrated, CounterNames
<1>7. /\ InCharge = "PACKET_CTR_V1" /\ InCharge' = "PACKET_CTR_V2" /\ PACKET_CTR' = "PACKET_CTR_V2"
  BY <1>1, <1>2, <1>6 DEF InCharge, PACKET_CTR
<1>8. step'[t] = "load" BY <1>1 DEF Goes, Orderly, MigrationTypes
<1>9. Phase(t)' BY <1>1, <1>2, <1>7, <1>8, MigrationAssumption DEF Phase
<1>10. Value(counters', "PACKET_CTR_V2") < 2^W2 BY <1>3, <1>5 DEF Orderly, Declared, CounterNames
<1> QED BY <1>1, <1>2, <1>4, <1>5, <1>7, <1>9, <1>10, StaysInside DEF Steps, Orderly, MigrationTypes

LEMMA LoadCounterStep ==
  ASSUME Orderly, NEW t \in Workers, load_counter(t)
  PROVE  Orderly'
<1>1. /\ step[t] = "load" /\ Goes(t, "store") /\ read' = [read EXCEPT ![t] = Value(counters, PACKET_CTR)]
      /\ UNCHANGED <<counters, version, packets, passed, lost>>
  BY DEF load_counter, historyVars
<1>2. PACKET_CTR = InCharge /\ AllCounters(counters) /\ read \in [Workers -> Nat]
  BY <1>1 DEF Orderly, Phase, MigrationTypes
<1>3. version \in Versions /\ "PACKET_CTR_V1" \in DOMAIN counters BY <1>1, Inside
<1>4. PACKET_CTR \in DOMAIN counters
  BY <1>3 DEF PACKET_CTR, Orderly, Declared, Versions, CounterNames
<1>5. Value(counters, PACKET_CTR) \in Nat BY <1>2, <1>4, ValueFacts DEF AllCounters
<1>6. read' \in [Workers -> Nat] /\ read'[t] = Value(counters, PACKET_CTR) BY <1>1, <1>2, <1>5
<1>7. /\ InCharge' = InCharge /\ PACKET_CTR' = PACKET_CTR /\ Migrated' = Migrated
  BY <1>1 DEF InCharge, PACKET_CTR, Migrated
<1>8. step'[t] = "store" BY <1>1 DEF Goes, Orderly, MigrationTypes
<1>9. Phase(t)' BY <1>1, <1>2, <1>3, <1>6, <1>7, <1>8, MigrationAssumption DEF Phase, Versions
<1> QED BY <1>1, <1>2, <1>6, <1>7, <1>9, StaysInside DEF Steps, Orderly, Declared

(* What the incremented count is: one more, or all of it is lost.          *)
LEMMA Increment ==
  ASSUME NEW w \in Nat, NEW n \in Nat, 2^w \in Int, n < 2^w
  PROVE  (n + 1) % 2^w = IF n + 1 = 2^w THEN 0 ELSE n + 1
<1> DEFINE M == 2^w
<1>1. M \in Nat \ {0} /\ n \in 0 .. M - 1 OBVIOUS
<1> HIDE DEF M
<1>2. (n + 1) % M = IF n + 1 = M THEN 0 ELSE n + 1 BY <1>1
<1> QED BY <1>2 DEF M

LEMMA StoreCounterStep ==
  ASSUME Orderly, NEW t \in Workers, store_counter(t)
  PROVE  Orderly'
<1> DEFINE c == (read[t] + 1) % 2^Width
           n == read[t]
<1>1. /\ step[t] = "store" /\ counters' = Set(counters, PACKET_CTR, c)
      /\ passed' = (IF c > Limit THEN passed ELSE passed + 1)
      /\ lost' = lost + (n + 1 - c)
      /\ step' = [step EXCEPT ![t] = "idle"] /\ UNCHANGED <<version, read, packets>>
  BY DEF store_counter, Goes
<1>2. /\ PACKET_CTR = InCharge /\ n = Value(counters, PACKET_CTR) /\ AllCounters(counters)
      /\ packets \in Nat /\ passed \in Nat /\ lost \in Nat /\ step \in [Workers -> Steps]
  BY Zenon, <1>1 DEF Orderly, Phase, MigrationTypes
<1>3. /\ version \in Versions /\ Counted = packets - 1 /\ Value(counters, InCharge) + lost = packets - 1
      /\ \A u \in Workers \ {t} : step[u] = "idle"
  BY Zenon, <1>1, Inside
<1>4. PACKET_CTR \in DOMAIN counters
  BY <1>3 DEF PACKET_CTR, Orderly, Declared, Versions, CounterNames
<1>5. n \in Nat BY <1>2, <1>4, ValueFacts DEF AllCounters
<1>6. Width \in Nat /\ 2^Width \in Int /\ 1 <= 2^Width /\ n < 2^Width
  <2>1. W1 \in Nat /\ W2 \in Nat /\ 2^W1 \in Int /\ 2^W2 \in Int /\ 1 <= 2^W1 /\ 2^W1 <= 2^W2
    BY MigrationAssumption
  <2>2. CASE version = "v1"
    BY <2>1, <2>2, <1>2, <1>4 DEF Width, PACKET_CTR, Orderly, Declared
  <2>3. CASE version = "v2"
    <3>1. Width = W2 /\ PACKET_CTR = "PACKET_CTR_V2" BY <2>3 DEF Width, PACKET_CTR
    <3>2. 1 <= 2^W2 BY <2>1
    <3> QED BY <2>1, <3>1, <3>2, <1>2, <1>4 DEF Orderly, Declared
  <2> QED BY <2>2, <2>3, <1>3 DEF Versions
<1>7. c = IF n + 1 = 2^Width THEN 0 ELSE n + 1 BY <1>5, <1>6, Increment
<1> HIDE DEF c, n
<1>8. c \in Nat /\ c < 2^Width /\ n + 1 - c \in Nat BY <1>5, <1>6, <1>7
<1>9. /\ DOMAIN counters' = DOMAIN counters /\ AllCounters(counters')
      /\ Value(counters', PACKET_CTR) = c
      /\ \A x \in DOMAIN counters : x # PACKET_CTR => Value(counters', x) = Value(counters, x)
  BY <1>1, <1>2, <1>4, <1>8, SetFacts
<1>10. step' \in [Workers -> Steps] /\ NobodyInside'
  BY Zenon, <1>1, <1>2, <1>3 DEF Steps, NobodyInside
<1>11. Counted' = packets BY Zenon, <1>1, <1>10 DEF Counted
<1>12. Limit \in Nat /\ MigrationTypes'
  BY <1>1, <1>2, <1>8, <1>9, <1>10, MigrationAssumption DEF Orderly, MigrationTypes
<1>13. Declared'
  <2>1. version # NULL BY <1>3, MigrationAssumption DEF Versions
  <2>2. CASE version = "v1"
    BY Zenon, <2>1, <2>2, <1>1, <1>8, <1>9 DEF Width, PACKET_CTR, Orderly, Declared
  <2>3. CASE version = "v2"
    BY Zenon, <2>1, <2>3, <1>1, <1>8, <1>9 DEF Width, PACKET_CTR, Orderly, Declared, CounterNames
  <2> QED BY <2>2, <2>3, <1>3 DEF Versions
<1>14. Lone' BY <1>10 DEF Lone, NobodyInside
<1>15. ASSUME NEW u \in Workers PROVE Phase(u)' BY <1>10 DEF Phase, NobodyInside
<1>16. InCharge' = InCharge
  <2>1. PACKET_CTR # "VERSION" BY DEF PACKET_CTR
  <2>2. Migrated' <=> Migrated BY <2>1, <1>9 DEF Migrated
  <2> QED BY <2>2 DEF InCharge
<1>17. n + lost = packets - 1 BY <1>2, <1>3
<1>18. Value(counters', InCharge') + lost' = Counted'
  BY <1>1, <1>2, <1>5, <1>8, <1>9, <1>11, <1>16, <1>17
<1>19. lost' = 0 => passed' = IF Counted' > Limit THEN Limit ELSE Counted'
  <2> HAVE lost' = 0
  <2>1. lost = 0 /\ c = n + 1 /\ n = packets - 1 BY <1>1, <1>2, <1>5, <1>8, <1>17
  <2>2. passed = IF n > Limit THEN Limit ELSE n BY <2>1, <1>3 DEF Orderly, Balanced
  <2> QED BY <2>1, <2>2, <1>1, <1>2, <1>5, <1>11, <1>12
<1>20. Balanced' BY <1>18, <1>19 DEF Balanced
<1> QED BY <1>12, <1>13, <1>14, <1>15, <1>20 DEF Orderly

-----------------------------------------------------------------------------
(* Whatever the widths of the counters, and wherever between two packets   *)
(* the programs are loaded again or exchanged: the exchange of version 1   *)
(* for version 2 loses no count, and no store of a packet on its own does. *)
THEOREM CountSurvives == MigrationSpec => []NothingForgotten
<1>1. MigrationInit => MigrationInv
  <2> SUFFICES ASSUME MigrationInit PROVE Orderly BY DEF MigrationInv
  <2>1. /\ DOMAIN counters = {} /\ packets = 0 /\ passed = 0 /\ lost = 0 /\ version = NULL
        /\ step = [t \in Workers |-> "idle"] /\ read = [t \in Workers |-> 0]
    BY DEF MigrationInit
  <2>2. NobodyInside /\ NULL \notin {"v1", "v2"} /\ Limit \in Nat
    BY <2>1, MigrationAssumption DEF NobodyInside
  <2>3. MigrationTypes BY <2>1 DEF MigrationTypes, AllCounters, Steps
  <2>4. Declared BY <2>1, <2>2 DEF Declared
  <2>5. Lone /\ \A t \in Workers : Phase(t) BY <2>2 DEF Lone, Phase, NobodyInside
  <2>6. Balanced BY <2>1, <2>2 DEF Balanced, Counted
  <2> QED BY <2>3, <2>4, <2>5, <2>6 DEF Orderly
<1>2. ASSUME MigrationInv, [MigrationNext]_migrationVars PROVE MigrationInv'
  <2>1. ASSUME NEW v \in Versions, Configure(v), ~overlapped', ~wentBack' PROVE Orderly'
    <3>1. Orderly /\ ~(version = "v2" /\ v = "v1") BY <1>2, <2>1, Zenon DEF Configure, MigrationInv
    <3> QED BY <2>1, <3>1, ConfigureStep
  <2>2. ASSUME NEW t \in Workers, Packet(t), ~overlapped', ~wentBack' PROVE Orderly'
    <3>1. CASE main(t)
      <4>1. Orderly /\ NobodyInside BY <1>2, <2>2, <3>1, Zenon DEF main, MigrationInv
      <4> QED BY <3>1, <4>1, MainStep
    <3>2. CASE ~main(t)
      <4>1. ~overlapped /\ ~wentBack
        <5>1. overlapped' = overlapped /\ wentBack' = wentBack
          BY <2>2, <3>2 DEF Packet, copy_counter, mark_version, load_counter, store_counter, historyVars
        <5> QED BY <2>2, <5>1, Zenon
      <4>2. Orderly BY <1>2, <4>1, Zenon DEF MigrationInv
      <4> QED BY <2>2, <3>2, <4>2, CopyStep, MarkStep, LoadCounterStep, StoreCounterStep DEF Packet
    <3> QED BY <3>1, <3>2
  <2>3. CASE UNCHANGED migrationVars
    BY <1>2, <2>3, Zenon DEF migrationVars, MigrationInv, Orderly, MigrationTypes, Declared, Lone, Phase, Balanced,
                      Counted, NobodyInside, InCharge, Migrated, PACKET_CTR
  <2> QED BY <1>2, <2>1, <2>2, <2>3, Zenon DEF MigrationNext, MigrationInv
<1>3. MigrationInv => NothingForgotten
  BY Zenon DEF MigrationInv, NothingForgotten, Orderly, Balanced, Counted
<1> QED BY <1>1, <1>2, <1>3, PTL DEF MigrationSpec
=============================================================================

---------------------------- MODULE StateMigration ----------------------------
(***************************************************************************)
(* The two programs of the state-migration example and the exchange of one *)
(* for the other.  Both count packets and let the first ten pass; version  *)
(* 2 counts in a 64-bit map of its own and takes over the count of version *)
(* 1 the first time it runs.  Packets of several threads may be inside a   *)
(* program at once; an exchange waits until none is.                       *)
(***************************************************************************)
EXTENDS BpfHelpers

CONSTANTS
  W1, W2,      \* widths of the counters: 32 and 64
  Limit,       \* packets let pass: 10
  Workers,     \* threads that run the program
  MaxPackets   \* bound on the number of packets

ASSUME MigrationAssumption ==
  /\ W1 \in Nat /\ W2 \in Nat /\ Limit \in Nat /\ MaxPackets \in Nat
  /\ 1 <= 2^W1 /\ 2^W1 <= 2^W2
  /\ NULL \notin {"v1", "v2"}

Versions == {"v1", "v2"}

VARIABLES
  counters, version,
  step,      \* step[t]: what thread t does next, "idle" between packets
  read,      \* read[t]: the count t has read
  packets, passed,
  lost,      \* what has gone with wraps of a counter
  overlapped, wentBack   \* have packets overlapped, has version 1 replaced version 2?

migrationVars == <<counters, version, step, read, packets, passed, lost, overlapped, wentBack>>
historyVars == <<lost, overlapped, wentBack>>

u32Array == [type |-> "ARRAY", key_size |-> 4, value_size |-> 4, max_entries |-> 1]
u64Array == [type |-> "ARRAY", key_size |-> 4, value_size |-> 8, max_entries |-> 1]

(* The maps after the symbols of a version have been relocated.            *)
Relocated(v, maps) ==
  LET one == map_after(maps, "PACKET_CTR_V1", u32Array)
      two == map_after(one, "PACKET_CTR_V2", u64Array)
  IN  IF v = "v1" THEN one ELSE map_after(two, "VERSION", u64Array)

MigrationInit ==
  /\ counters = << >> /\ version = NULL
  /\ step = [t \in Workers |-> "idle"] /\ read = [t \in Workers |-> 0]
  /\ packets = 0 /\ passed = 0
  /\ lost = 0 /\ overlapped = FALSE /\ wentBack = FALSE

NobodyInside == \A t \in Workers : step[t] = "idle"

Configure(v) ==
  /\ NobodyInside
  /\ counters' = Relocated(v, counters)
  /\ version' = v
  /\ wentBack' = (wentBack \/ (version = "v2" /\ v = "v1"))
  /\ UNCHANGED <<step, read, packets, passed, lost, overlapped>>

Value(maps, n) == bpf_map_lookup_elem(maps[n], 0)
Set(maps, n, v) == [maps EXCEPT ![n] = bpf_map_update_elem(maps[n], 0, v)]
Goes(t, s) == step' = [step EXCEPT ![t] = s]

NeedsMigration_bug == version = "v2"

NeedsMigration == version = "v2" /\ Value(counters, "VERSION") # 2

(* main() is called; version 2 reads VERSION in handle_migration().        *)
main(t) ==
  /\ version # NULL /\ step[t] = "idle" /\ packets < MaxPackets
  /\ packets' = packets + 1
  /\ Goes(t, IF NeedsMigration THEN "copy" ELSE "load")
  /\ overlapped' = (overlapped \/ ~NobodyInside)
  /\ UNCHANGED <<counters, version, read, passed, lost, wentBack>>

old_counter_bug == Value(counters, "PACKET_CTR_V2") + Value(counters, "PACKET_CTR_V1")

old_counter == Value(counters, "PACKET_CTR_V1")

(* The two stores of handle_migration().                                   *)
copy_counter(t) ==
  /\ step[t] = "copy"
  /\ counters' = Set(counters, "PACKET_CTR_V2", old_counter)
  /\ Goes(t, "mark")
  /\ UNCHANGED <<version, read, packets, passed, historyVars>>

mark_version(t) ==
  /\ step[t] = "mark"
  /\ counters' = Set(counters, "VERSION", 2)
  /\ Goes(t, "load")
  /\ UNCHANGED <<version, read, packets, passed, historyVars>>

PACKET_CTR == IF version = "v1" THEN "PACKET_CTR_V1" ELSE "PACKET_CTR_V2"
Width == IF version = "v1" THEN W1 ELSE W2

(* The count is read, ...                                                  *)
load_counter(t) ==
  /\ step[t] = "load"
  /\ read' = [read EXCEPT ![t] = Value(counters, PACKET_CTR)]
  /\ Goes(t, "store")
  /\ UNCHANGED <<counters, version, packets, passed, historyVars>>

(* ... stored incremented and compared with the limit.                     *)
store_counter(t) ==
  LET counter == (read[t] + 1) % 2^Width IN
  /\ step[t] = "store"
  /\ counters' = Set(counters, PACKET_CTR, counter)
  /\ passed' = IF counter > Limit THEN passed ELSE passed + 1
  /\ lost' = lost + (read[t] + 1 - counter)
  /\ Goes(t, "idle")
  /\ UNCHANGED <<version, read, packets, overlapped, wentBack>>

Packet(t) ==
  main(t) \/ copy_counter(t) \/ mark_version(t) \/ load_counter(t) \/ store_counter(t)

MigrationNext == (\E v \in Versions : Configure(v)) \/ (\E t \in Workers : Packet(t))

MigrationSpec == MigrationInit /\ [][MigrationNext]_migrationVars

-----------------------------------------------------------------------------
Migrated == "VERSION" \in DOMAIN counters /\ Value(counters, "VERSION") = 2
InCharge == IF Migrated THEN "PACKET_CTR_V2" ELSE "PACKET_CTR_V1"

(* The counter in charge has counted every packet since the first version  *)
(* was started, wherever the exchange fell: the count of version 1 until   *)
(* version 2 has run, that of version 2 from then on, less what version 1  *)
(* lost when its 32 bits wrapped.  So until then the first ten packets     *)
(* pass, whichever versions see them, and none after them.  Excepted are   *)
(* packets that overlap in the program, and operators who go back to       *)
(* version 1, whose count version 2 does not take over again.              *)
NothingForgotten ==
  NobodyInside /\ ~overlapped /\ ~wentBack =>
    /\ version # NULL => Value(counters, InCharge) + lost = packets
    /\ lost = 0 => passed = IF packets > Limit THEN Limit ELSE packets

(* Packets that overlap only lose counts, also when several of them take   *)
(* over the count of version 1: no packet is turned away that is not       *)
(* beyond the limit.                                                       *)
NeverAhead ==
  version # NULL /\ ~wentBack => Value(counters, InCharge) <= packets
=============================================================================

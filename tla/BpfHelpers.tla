----------------------------- MODULE BpfHelpers -----------------------------
(***************************************************************************)
(* The map helpers and the data relocation of libs/ubpf/helper, as         *)
(* operators on the maps of one element (struct bpf_map_ctx).              *)
(*                                                                         *)
(* A map is its definition and its contents: a function from the keys that *)
(* are present, for an array every index below max_entries.  The maps of   *)
(* an element are a function from the names that exist; the address of a   *)
(* map is its name, since maps are never freed.                            *)
(***************************************************************************)
EXTENDS Integers, FiniteSets

CONSTANTS NULL

Zero == 0                \* calloc()
OutOfArray == -1         \* an address behind the array: no value of the map

(* bpf_map_lookup_elem(): the value, NULL if there is none.                *)
bpf_map_lookup_elem(map, key) ==
  CASE map.def.type = "HASH"  -> IF key \in DOMAIN map.data THEN map.data[key] ELSE NULL
    [] map.def.type = "ARRAY" -> IF key \in DOMAIN map.data THEN map.data[key] ELSE OutOfArray
    [] OTHER -> NULL

Put(f, k, v) == [x \in DOMAIN f \cup {k} |-> IF x = k THEN v ELSE f[x]]

(* bpf_map_update_elem(): the map afterwards.  Neither the number of       *)
(* entries of a hash nor the index of an array is compared with            *)
(* max_entries; a store behind the array leaves the map as it is.          *)
bpf_map_update_elem(map, key, value) ==
  CASE map.def.type = "HASH"  -> [map EXCEPT !.data = Put(map.data, key, value)]
    [] map.def.type = "ARRAY" ->
         IF key \in DOMAIN map.data THEN [map EXCEPT !.data[key] = value] ELSE map
    [] OTHER -> map

(* bpf_map_delete_elem(): only hashes support it.                          *)
bpf_map_delete_elem(map, key) ==
  IF map.def.type = "HASH"
    THEN [map EXCEPT !.data = [k \in DOMAIN map.data \ {key} |-> map.data[k]]]
    ELSE map

-----------------------------------------------------------------------------
(* do_map_relocation(): what the loader patches into the program for a map *)
(* symbol, and the maps afterwards.                                        *)

SizeOfKeyIndex == 4      \* sizeof(uint32_t)

Supported(def) ==
  \/ def.type = "HASH"
  \/ def.type = "ARRAY" /\ def.key_size = SizeOfKeyIndex

Fresh(def) ==
  [def |-> def,
   data |-> IF def.type = "ARRAY" THEN [i \in 0 .. def.max_entries - 1 |-> Zero]
            ELSE [k \in {} |-> Zero]]

(* Two definitions are the same when these four fields are.                *)
SameDef(d, e) == /\ d.type = e.type /\ d.key_size = e.key_size
                 /\ d.value_size = e.value_size /\ d.max_entries = e.max_entries

map_after_bug(maps, name, def) ==
  IF Supported(def) THEN Put(maps, name, Fresh(def)) ELSE maps

(* A map of that name is kept; otherwise a supported one is created.       *)
map_after(maps, name, def) ==
  IF name \notin DOMAIN maps /\ Supported(def) THEN Put(maps, name, Fresh(def)) ELSE maps

address_of_bug(maps, name, def) ==
  IF name \in DOMAIN map_after(maps, name, def) THEN name ELSE NULL

(* The address of the map, 0 when there is one of another definition or    *)
(* none can be made. A symbol too small for a bpf_map_def makes no map and *)
(* finds none: it counts as a definition of an unsupported type.           *)
address_of(maps, name, def) ==
  LET after == map_after(maps, name, def)
  IN  IF name \in DOMAIN after /\ SameDef(after[name].def, def) THEN name ELSE NULL

(* do_data_relocation(): a section is copied once per address at which it  *)
(* lies in the file buffer.                                                *)
data_after(global_data, address, section) ==
  IF address \in DOMAIN global_data THEN global_data ELSE Put(global_data, address, section)
=============================================================================

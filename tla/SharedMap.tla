----------------------------- MODULE SharedMap ------------------------------
(***************************************************************************)
(* What a table or dictionary of the struct-store promises (store.h:57-70):*)
(* "adding or removing entries produces a new dictionary".  There is the   *)
(* map that is being changed, the one that was stored last, and a value    *)
(* that was got from the map; changing the first leaves the others alone.  *)
(*                                                                         *)
(* A key without entry has the value Nil.  A table is a map from what it   *)
(* keeps to itself, a dictionary of sets one to sets of members.           *)
(***************************************************************************)
CONSTANTS
  Keys, Values, Members,
  Nil

VARIABLES
  kind,   \* "table", "dict" or "sets", for good
  map,    \* the current entries
  saved,  \* the entries that were stored
  held    \* a value that somebody has got

vars == <<kind, map, saved, held>>

Init ==
  /\ kind \in {"table", "dict", "sets"}
  /\ map = [k \in Keys |-> Nil]
  /\ saved = map
  /\ held = Nil

Change(k, v) ==
  /\ map' = [map EXCEPT ![k] = v]
  /\ UNCHANGED <<kind, saved, held>>

Set(k, v) == Change(k, v)
Add(k, m) == Change(k, IF map[k] = Nil THEN {m} ELSE map[k] \union {m})
Del(k, m) ==
  Change(k, IF map[k] \in {Nil, {m}} THEN Nil ELSE map[k] \ {m})

\* Every value is replaced, or removed when f says so.
UpdateAll(f) ==
  /\ map' = [k \in Keys |-> IF map[k] = Nil THEN Nil ELSE f[map[k]]]
  /\ UNCHANGED <<kind, saved, held>>

\* Members go, but the sets stay, empty ones as well.
Retain(keep) ==
  /\ map' = [k \in Keys |-> IF map[k] = Nil THEN Nil ELSE map[k] \intersect keep]
  /\ UNCHANGED <<kind, saved, held>>

Get(k) ==
  /\ held' = map[k]
  /\ UNCHANGED <<kind, map, saved>>

Save ==
  /\ saved' = map
  /\ UNCHANGED <<kind, map, held>>

Revert ==
  /\ map' = saved
  /\ UNCHANGED <<kind, saved, held>>

Next ==
  \/ kind = "table" /\ \E k \in Keys : Set(k, k)
  \/ kind = "dict" /\ \E k \in Keys, v \in Values \union {Nil} : Set(k, v)
  \/ kind = "dict" /\ \E f \in [Values -> Values \union {Nil}] : UpdateAll(f)
  \/ kind = "sets" /\ \E k \in Keys : Set(k, Nil) \/ \E m \in Members : Add(k, m) \/ Del(k, m)
  \/ kind = "sets" /\ \E keep \in SUBSET Members : Retain(keep)
  \/ \E k \in Keys : Get(k)
  \/ Save
  \/ Revert

Spec == Init /\ [][Next]_vars
=============================================================================

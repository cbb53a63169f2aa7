-------------------------------- MODULE Dict --------------------------------
(***************************************************************************)
(* Tables and dictionaries (store.c:1370-2440): tries of dispatch nodes    *)
(* and search nodes, in a heap where stored objects are never changed and  *)
(* unstored ones, which malloc made, are changed in place.                 *)
(*                                                                         *)
(* The heap maps addresses to nodes.  A search node has the entries of one *)
(* hash value, a dispatch node a slot for each part of a hash value; a set *)
(* has members.  The bitmap that keeps a dispatch node short is left out:  *)
(* an unused slot is Nil.  The operators that the code calls with an       *)
(* address return the changed heap, h, and the address of the result, n.   *)
(***************************************************************************)
EXTENDS Integers, Sequences, SequencesExt, FiniteSetsExt, TLC

CONSTANTS
  Keys,      \* keys of a dictionary, or what a table keeps
  KeysOf,    \* those that are used, for each kind
  Values,    \* values of a dictionary
  Members,   \* members of the sets of a dictionary of sets
  NSlots,    \* how many slots a dispatch node has
  DictHash,  \* the parts of the hash of a key, one for each level
  TableHash, \* the same for a table, where keys can have equal hashes
  Addr,      \* addresses
  Nil,       \* NULL
  MaxNodes   \* bound on the nodes that are referred to

ASSUME DictAssumption ==
  /\ \A j, k \in Keys : DictHash[j] = DictHash[k] => j = k
  /\ \A k \in Keys : Range(DictHash[k]) \union Range(TableHash[k]) \subseteq 1 .. NSlots
  /\ Addr \subseteq Nat /\ MaxNodes \in Nat
  /\ KeysOf \in [{"table", "dict", "sets"} -> SUBSET Keys]

VARIABLES
  kind,   \* "table", "dict" or "sets"
  heap,   \* the nodes
  root,   \* d->root or ot->root
  saved,  \* the root that was stored last
  held    \* what ss_dict_get returned

vars == <<kind, heap, root, saved, held>>

\* A dictionary is hashed by the places of its keys in the store, which are
\* less than 2^30 and hence all different; a table by contents.
Hash(k) == IF kind = "table" THEN TableHash[k] ELSE DictHash[k]

Slots == 1 .. NSlots
Search(hash, entries) == [tag |-> "search", stored |-> FALSE, hash |-> hash, elts |-> entries]
Dispatch(slots) == [tag |-> "dispatch", stored |-> FALSE, elts |-> slots]
SetOf(m) == [tag |-> "set", stored |-> FALSE, elts |-> <<m>>]

(***************************************************************************)
(* Objects                                                                 *)
(***************************************************************************)
New(h, node) ==
  LET a == CHOOSE a \in Addr : a \notin DOMAIN h /\ (a = 1 \/ a - 1 \in DOMAIN h)
  IN [h |-> (a :> node) @@ h, n |-> a]

Free(h, a) == [b \in (DOMAIN h) \ {a} |-> h[b]]
Unchanged(h, a) == [h |-> h, n |-> a]

\* ss_ref and ss_set, for what may be an object.
Ref(node, i) == IF node.tag = "search" THEN node.elts[i][2] ELSE node.elts[i]
SetRef(node, i, v) ==
  IF node.tag = "search" THEN [node EXCEPT !.elts[i][2] = v] ELSE [node EXCEPT !.elts[i] = v]
Refs(node) == IF node.tag = "set" THEN {} ELSE DOMAIN node.elts

\* Mutant: what is stored is changed like anything else.
InPlace(h, a, elts, moves) == [h |-> [h EXCEPT ![a].elts = elts], n |-> a]

\* ss_unstore_object and ss_set, ss_insert_many, ss_remove_many: a stored
\* object is copied, an unstored one changed, and realloc may move it.
Modify(h, a, elts, moves) ==
  LET node == [h[a] EXCEPT !.elts = elts, !.stored = FALSE]
  IN IF h[a].stored THEN New(h, node)
     ELSE IF moves THEN LET r == New(h, node) IN Unchanged(Free(r.h, a), r.n)
     ELSE Unchanged([h EXCEPT ![a] = node], a)

Assign(h, a, i, v) == Modify(h, a, SetRef(h[a], i, v).elts, FALSE)
Append1(h, a, e, moves) == Modify(h, a, Append(h[a].elts, e), moves)
Remove1(h, a, i) == Modify(h, a, RemoveAt(h[a].elts, i), FALSE)

\* Mutant: only the root itself is stored.
StoreShallow(h, a) ==
  IF a \notin Addr \/ h[a].stored THEN Unchanged(h, a)
  ELSE Unchanged([h EXCEPT ![a].stored = TRUE], a)

\* ss_store_object: with all that it refers to, and what was unstored is freed.
RECURSIVE StoreObject(_, _)
StoreObject(h, a) ==
  IF a \notin Addr \/ h[a].stored THEN Unchanged(h, a)
  ELSE LET StoreRef(i, acc) ==
             LET r == StoreObject(acc.h, Ref(acc.node, i))
             IN [h |-> r.h, node |-> SetRef(acc.node, i, r.n)]
           all == FoldSet(StoreRef, [h |-> h, node |-> h[a]], Refs(h[a]))
           r == New(all.h, [all.node EXCEPT !.stored = TRUE])
       IN Unchanged(Free(r.h, a), r.n)

(***************************************************************************)
(* What is done to the search node of a key, or to Nil where there is      *)
(* none: ss_tab_intern_action, ss_dict_set_action, ...                     *)
(***************************************************************************)
NoNode(h) == Unchanged(h, Nil)
NewSearch(h, k, v) == New(h, Search(Hash(k), <<<<k, v>>>>))
Place(P(_), seq) == IF \E i \in DOMAIN seq : P(seq[i]) THEN CHOOSE i \in DOMAIN seq : P(seq[i]) ELSE 0
Index(node, k) == Place(LAMBDA e : e[1] = k, node.elts)

Intern(h, a, op) ==
  IF a = Nil THEN NewSearch(h, op.key, op.key)
  ELSE IF Index(h[a], op.key) # 0 THEN Unchanged(h, a)
  ELSE Append1(h, a, <<op.key, op.key>>, op.moves)

GetValue(h, a, op) ==
  LET i == IF a = Nil THEN 0 ELSE Index(h[a], op.key)
      r == StoreObject(h, Ref(h[a], i))
  IN IF i = 0 THEN Unchanged(h, a)
     ELSE [h |-> [r.h EXCEPT ![a] = SetRef(h[a], i, r.n)], n |-> a]

\* When all entries of a node are gone from an update, a NULL is inserted too.
SetValue(h, a, op) ==
  LET i == Index(h[a], op.key)
  IN IF a = Nil THEN IF op.val = Nil THEN NoNode(h) ELSE NewSearch(h, op.key, op.val)
     ELSE IF i = 0 THEN Append1(h, a, <<op.key, op.val>>, op.moves)
     ELSE IF op.val # Nil THEN Assign(h, a, i, op.val)
     ELSE IF Len(h[a].elts) = 1 THEN NoNode(h)
     ELSE Remove1(h, a, i)

\* Mutant: ss_set_add does not look for the member.
AddMemberAgain(h, a, op) ==
  LET i == Index(h[a], op.key)
      new == New(h, SetOf(op.val))
      r == Append1(h, Ref(h[a], i), op.val, op.moves)
  IN IF a = Nil THEN NewSearch(new.h, op.key, new.n)
     ELSE IF i = 0 THEN Append1(new.h, a, <<op.key, new.n>>, op.moves)
     ELSE Assign(r.h, a, i, r.n)

AddMember(h, a, op) ==
  LET i == Index(h[a], op.key)
      set == Ref(h[a], i)
      new == New(h, SetOf(op.val))
      r == Append1(h, set, op.val, op.moves)
  IN IF a = Nil THEN NewSearch(new.h, op.key, new.n)
     ELSE IF i = 0 THEN Append1(new.h, a, <<op.key, new.n>>, op.moves)
     ELSE IF op.val \in Range(h[set].elts) THEN Unchanged(h, a)
     ELSE IF r.n # set THEN Assign(r.h, a, i, r.n)
     ELSE Unchanged(r.h, a)

DelMember(h, a, op) ==
  LET i == IF a = Nil THEN 0 ELSE Index(h[a], op.key)
      set == Ref(h[a], i)
      m == Place(LAMBDA x : x = op.val, h[set].elts)
      r == Remove1(h, set, m)
  IN IF i = 0 \/ m = 0 THEN Unchanged(h, a)
     ELSE IF Len(h[set].elts) = 1
       THEN IF Len(h[a].elts) = 1 THEN NoNode(h) ELSE Remove1(h, a, i)
     ELSE IF r.n # set THEN Assign(r.h, a, i, r.n)
     ELSE Unchanged(r.h, a)

Action(h, a, op) ==
  CASE op.name = "intern" -> Intern(h, a, op)
    [] op.name = "intern soft" -> Unchanged(h, a)
    [] op.name = "get" -> GetValue(h, a, op)
    [] op.name = "set" -> SetValue(h, a, op)
    [] op.name = "add" -> AddMember(h, a, op)
    [] op.name = "del" -> DelMember(h, a, op)

(***************************************************************************)
(* ss_hash_node_lookup                                                     *)
(***************************************************************************)
MapvecSet(h, a, i, v, moves) ==
  IF h[a].elts[i] = v THEN Unchanged(h, a)
  ELSE Modify(h, a, [h[a].elts EXCEPT ![i] = v], moves /\ h[a].elts[i] = Nil)

RECURSIVE Lookup(_, _, _, _)
Lookup(h, a, level, op) ==
  LET index == Hash(op.key)[level]
      Recurse(g, b) ==
        LET r == Lookup(g, g[b].elts[index], level + 1, op)
        IN MapvecSet(r.h, b, index, r.n, op.moves)
  IN IF a = Nil \/ (h[a].tag = "search" /\ h[a].hash = Hash(op.key)) THEN Action(h, a, op)
     ELSE IF h[a].tag = "search"
       THEN LET new == New(h, Dispatch([s \in Slots |-> IF s = h[a].hash[level] THEN a ELSE Nil]))
            IN Recurse(new.h, new.n)
     ELSE Recurse(h, a)

(***************************************************************************)
(* ss_dict_node_update; F returns the changed heap and the new value.      *)
(***************************************************************************)
\* The function of ss_dict_update.
Replace(f, h, v) == Unchanged(h, IF v = Nil THEN Nil ELSE f[v])

\* update_members, with a function that keeps or removes.
RetainMembers(keep, h, v) ==
  LET kept == IF v = Nil THEN <<>> ELSE SelectSeq(h[v].elts, LAMBDA m : m \in keep)
  IN IF v = Nil \/ kept = h[v].elts THEN Unchanged(h, v) ELSE Modify(h, v, kept, FALSE)

Updated(f, h, v) == IF kind = "sets" THEN RetainMembers(f, h, v) ELSE Replace(f, h, v)

RECURSIVE UpdateEntries(_, _, _, _)
UpdateEntries(h, a, i, f) ==
  IF i > Len(h[a].elts) THEN Unchanged(h, a)
  ELSE LET old == Ref(h[a], i)
           new == Updated(f, h, old)
           assigned == Assign(new.h, a, i, new.n)
           removed == Remove1(new.h, a, i)
       IN IF new.n = old THEN UpdateEntries(new.h, a, i + 1, f)
          ELSE IF new.n # Nil THEN UpdateEntries(assigned.h, assigned.n, i + 1, f)
          ELSE UpdateEntries(removed.h, removed.n, i, f)

RECURSIVE NodeUpdate(_, _, _)
NodeUpdate(h, a, f) ==
  IF a = Nil THEN NoNode(h)
  ELSE IF h[a].tag = "search" THEN UpdateEntries(h, a, 1, f)
  ELSE LET UpdateSlot(i, acc) ==
             LET old == Ref(acc.h[acc.n], i)
                 new == NodeUpdate(acc.h, old, f)
             IN IF new.n = old THEN Unchanged(new.h, acc.n) ELSE Assign(new.h, acc.n, i, new.n)
       IN FoldSet(UpdateSlot, Unchanged(h, a), Slots)

-----------------------------------------------------------------------------
(***************************************************************************)
(* Reading: the entry of a key, and the iterators, which keep the nodes    *)
(* from the root to the current one with an index into each.               *)
(***************************************************************************)
RECURSIVE Find(_, _, _, _)
Find(h, a, level, k) ==
  IF a = Nil THEN Nil
  ELSE IF h[a].tag = "dispatch" THEN Find(h, h[a].elts[Hash(k)[level]], level + 1, k)
  ELSE IF h[a].hash # Hash(k) \/ Index(h[a], k) = 0 THEN Nil
  ELSE Ref(h[a], Index(h[a], k))

EntriesInit(a) == IF a = Nil THEN <<>> ELSE <<[node |-> a, index |-> 1]>>
Advance(it) == [it EXCEPT ![Len(it)].index = @ + 1]

\* Mutant: popping a node does not move on in the one above.
MicroStepSkips(h, it) ==
  LET top == Last(it)
      node == h[top.node]
  IN IF top.index > Len(node.elts) THEN IF Len(it) = 1 THEN <<>> ELSE Advance(Advance(Front(it)))
     ELSE IF node.tag = "dispatch" /\ node.elts[top.index] # Nil
       THEN Append(it, [node |-> node.elts[top.index], index |-> 1])
     ELSE Advance(it)

\* ss_tab_entries_micro_step and ss_dict_entries_micro_step
MicroStep(h, it) ==
  LET top == Last(it)
      node == h[top.node]
  IN IF top.index > Len(node.elts) THEN IF Len(it) = 1 THEN <<>> ELSE Advance(Front(it))
     ELSE IF node.tag = "dispatch" /\ node.elts[top.index] # Nil
       THEN Append(it, [node |-> node.elts[top.index], index |-> 1])
     ELSE Advance(it)

Hit(h, it) ==
  /\ h[Last(it).node].tag = "search"
  /\ Last(it).index <= Len(h[Last(it).node].elts)

\* All entries, from ss_dict_entries_init to ss_dict_entries_done.
RECURSIVE Walk(_, _)
Walk(h, it) ==
  IF it = <<>> THEN <<>>
  ELSE (IF Hit(h, it) THEN <<h[Last(it).node].elts[Last(it).index]>> ELSE <<>>)
         \o Walk(h, MicroStep(h, it))

-----------------------------------------------------------------------------
(***************************************************************************)
(* The operations.  What nobody refers to any more is leaked by the        *)
(* program, or garbage in the store; here it is forgotten.  The rest is    *)
(* numbered in the order in which it is found, as addresses are only ever  *)
(* compared with each other.                                               *)
(***************************************************************************)
RefSeq(node) ==
  [i \in 1 .. IF node.tag = "set" THEN 0 ELSE Len(node.elts) |-> Ref(node, i)]

RECURSIVE Reach(_, _, _)
Reach(h, todo, found) ==
  IF todo = <<>> THEN found
  ELSE LET a == Head(todo)
       IN IF a \notin DOMAIN h \/ Place(LAMBDA b : b = a, found) # 0 THEN Reach(h, Tail(todo), found)
          ELSE Reach(h, RefSeq(h[a]) \o Tail(todo), Append(found, a))

\* The heap with root r, saved root s and held value v.  (An \E over one value
\* is a LET that TLC evaluates once.)
Become(h, r, s, v) ==
  \E reach \in {Reach(h, <<r, s, v>>, <<>>)} :
    LET Name(a) == LET i == Place(LAMBDA b : b = a, reach) IN IF i = 0 THEN a ELSE i
        Renamed(node) ==
          FoldSet(LAMBDA i, n : SetRef(n, i, Name(Ref(node, i))), node, Refs(node))
    IN /\ Len(reach) <= MaxNodes
       /\ heap' = [i \in DOMAIN reach |-> Renamed(h[reach[i]])]
       /\ root' = Name(r)
       /\ saved' = Name(s)
       /\ held' = Name(v)
       /\ UNCHANGED kind

Init ==
  /\ kind \in {"table", "dict", "sets"}
  /\ heap = [a \in {} |-> Nil]
  /\ root = Nil
  /\ saved = Nil
  /\ held = Nil

\* ss_tab_intern, ss_tab_intern_soft, ss_dict_set, ss_dict_add, ss_dict_del
Do(name, k, v) ==
  \E moves \in BOOLEAN :
    \E r \in {Lookup(heap, root, 1, [name |-> name, key |-> k, val |-> v, moves |-> moves])} :
      Become(r.h, r.n, saved, held)

\* ss_dict_get leaves the root alone, whatever the lookup has made of it.
Get(k) ==
  \E r \in {Lookup(heap, root, 1, [name |-> "get", key |-> k, val |-> Nil, moves |-> FALSE])} :
    Become(r.h, root, saved, Find(r.h, root, 1, k))

\* ss_dict_update, ss_dict_update_members
Update(f) ==
  \E r \in {NodeUpdate(heap, root, f)} : Become(r.h, r.n, saved, held)

\* ss_tab_store, ss_dict_store, of what is then put into the root of the store
Store ==
  \E r \in {StoreObject(heap, root)} : Become(r.h, r.n, r.n, held)

\* ss_tab_abort or ss_dict_abort, and starting again from what was stored.
Abort == Become(heap, saved, saved, held)

Next ==
  \/ \E k \in KeysOf[kind] :
       \/ kind = "table" /\ (Do("intern", k, k) \/ Do("intern soft", k, k))
       \/ kind = "dict" /\ \E v \in Values \union {Nil} : Do("set", k, v)
       \/ kind = "sets" /\ (Do("set", k, Nil) \/ \E m \in Members : Do("add", k, m) \/ Do("del", k, m))
       \/ kind # "table" /\ Get(k)
  \/ kind = "dict" /\ \E f \in [Values -> Values \union {Nil}] : Update(f)
  \/ kind = "sets" /\ \E keep \in SUBSET Members : Update(keep)
  \/ Store
  \/ Abort

Spec == Init /\ [][Next]_vars
-----------------------------------------------------------------------------
(***************************************************************************)
(* Properties                                                              *)
(***************************************************************************)
Value(v) == IF v \in Addr THEN Range(heap[v].elts) ELSE v
Map(a) == [k \in Keys |-> Value(Find(heap, a, 1, k))]

Collection == INSTANCE SharedMap WITH map <- Map(root), saved <- Map(saved), held <- Value(held)

TypeOK ==
  /\ kind \in {"table", "dict", "sets"}
  /\ DOMAIN heap \subseteq Addr
  /\ {root, saved} \subseteq DOMAIN heap \union {Nil}
  /\ \A a \in DOMAIN heap :
       LET node == heap[a]
       IN /\ node.stored \in BOOLEAN
          /\ \/ node.tag = "search" /\ node.hash \in {Hash(k) : k \in Keys}
             \/ node.tag = "dispatch" /\ node.elts \in [Slots -> Addr \union {Nil}]
             \/ node.tag = "set" /\ IsInjective(node.elts) /\ Range(node.elts) \subseteq Members

\* However the trie grows, whatever is changed in place, moved by realloc or
\* copied, and with equal hashes: every operation changes the entries of the
\* map as it should, and neither what was stored before nor what ss_dict_get
\* has returned (store.c:1909-2165).  The loop of handle_removes relies on the
\* latter: it deletes the members of the set it goes through (db.c:564-567).
ImplementsSharedMap == Collection!Spec

\* Nothing refers to memory that was freed, no stored object refers to an
\* unstored one, and an unstored object belongs to one object only, so that
\* it can be changed in place (store.c:983-986).
Owners(a) == {<<b, i>> \in (DOMAIN heap) \X (1 .. Cardinality(Addr)) :
                i \in Refs(heap[b]) /\ Ref(heap[b], i) = a}
UnstoredOwned ==
  /\ \A a \in DOMAIN heap : \A i \in Refs(heap[a]) :
       LET b == Ref(heap[a], i)
       IN b \in Addr => b \in DOMAIN heap /\ (heap[a].stored => heap[b].stored)
  /\ \A a \in {saved, held} \intersect Addr : a \in DOMAIN heap /\ heap[a].stored
  /\ \A a \in DOMAIN heap : ~heap[a].stored =>
       Cardinality(Owners(a)) = IF a = root THEN 0 ELSE 1

\* The iterators visit every entry that can be found once, and nothing else
\* but keys that were set to NULL (store.c:1727-1841, 2198-2293).
IteratorsVisitAll ==
  LET visited == Walk(heap, EntriesInit(root))
      found == {k \in Keys : Find(heap, root, 1, k) # Nil}
  IN /\ IsInjective([i \in DOMAIN visited |-> visited[i][1]])
     /\ {visited[i][1] : i \in {i \in DOMAIN visited : visited[i][2] # Nil}} = found
     /\ \A i \in DOMAIN visited : visited[i][2] = Find(heap, root, 1, visited[i][1])
=============================================================================

------------------------------- MODULE StoreGc ------------------------------
(***************************************************************************)
(* The copying garbage collector (store.c:412-843): from-space, to-space,  *)
(* forwarding pointers, and the three phases that are there for tables and *)
(* dictionaries with weak references.                                      *)
(*                                                                         *)
(* A copy keeps the name of its original, so a reference that the collector*)
(* translates is the same name, and what can go wrong shows up as a        *)
(* reference to an object that has no copy, or as a lost entry.  A dict or *)
(* table is one object here, its trie nodes are not: no two of them share  *)
(* nodes, as two versions of one dict would.  The order of its entries is  *)
(* the order in which the trie is walked.                                  *)
(***************************************************************************)
EXTENDS Integers, Sequences, FiniteSets, SequencesExt

CONSTANTS
  Obj,         \* objects of the store
  Null,        \* the null reference
  Root,        \* the root object
  Heaps,       \* the stores to collect, functions from Obj to objects
  MaxDelayed   \* MAX_DELAYED

ASSUME GcAssumption ==
  /\ Null \notin Obj
  /\ Root \in Obj
  /\ MaxDelayed \in Nat

(***************************************************************************)
(* An object has a kind, and `refs`: the fields of a record, the members   *)
(* of a table, the entries of a dict.  The value of an entry of a weak set *)
(* dict ("sets") is the sequence of the members of its set.                *)
(***************************************************************************)
Kinds == {"record", "numbered", "table", "strong", "weak", "sets"}
IsRecord(o) == o.kind \in {"record", "numbered"}
IsDict(o) == o.kind \in {"strong", "weak", "sets"}

VARIABLES
  heap,      \* the from-store
  keyFirst,  \* the order in which the build evaluates the arguments of a call
  phase,     \* "start", "scan", "ripple", "copy", "done", or why it stops, see below
  gc,        \* the collector's data, see below
  scan,      \* to_ptr, as an index into the to-space
  rippled,   \* the delayed objects this round of ripples has seen
  again,     \* gc.again
  rounds     \* the rounds of ripples that were begun

vars == <<heap, keyFirst, phase, gc, scan, rippled, again, rounds>>

(***************************************************************************)
(* ss_gc_data: the to-space in allocation order, what has been forwarded   *)
(* and whether to null, the entries that made it into the copy of a dict   *)
(* or table, the delayed objects, the numbers given to numbered records,   *)
(* and why the collection does not go on: there are too many delayed       *)
(* objects ("error"), or an object of the from-space was given to free and *)
(* anything may happen ("undefined").                                      *)
(***************************************************************************)
NoCopies == [to |-> <<>>, fwd |-> [o \in Obj |-> "none"], kept |-> [o \in Obj |-> <<>>],
             delayed |-> <<>>, number |-> [o \in Obj |-> -1], count |-> 0, stop |-> "none"]

\* Mutant: weak dicts are copied when they are found.
DelaySets(o) == heap[o].kind \in {"table", "sets"}

\* ss_gc_delay_p
Delay(o) == heap[o].kind \in {"table", "weak", "sets"}

StopWith(g, why) == [g EXCEPT !.stop = IF @ = "none" THEN why ELSE @]

\* What an object refers to by one of its fields, members or entries.
Members(o, e) ==
  CASE heap[o].kind \in {"strong", "weak"} -> <<e.key, e.val>>
    [] heap[o].kind = "sets" -> <<e.key>> \o e.val
    [] OTHER -> <<e>>
MembersOf(o, refs) == FlattenSeq([i \in DOMAIN refs |-> Members(o, refs[i])])

\* ss_gc_alive_p
Alive(g, o) ==
  \/ o = Null
  \/ g.fwd[o] # "none"
  \/ Delay(o) /\ Contains(g.delayed, o)

\* Mutant: numbers are not counted.
ForwardUncounted(g, o, kept) ==
  LET null == ~IsRecord(heap[o]) /\ kept = <<>> IN
  [g EXCEPT !.to = IF null THEN @ ELSE Append(@, o),
            !.fwd[o] = IF null THEN "null" ELSE "copied",
            !.kept[o] = kept,
            !.number[o] = IF heap[o].kind = "numbered" THEN g.count ELSE @]

\* The copy of an object goes to the end of the to-space.
Forward(g, o, kept) ==
  LET null == ~IsRecord(heap[o]) /\ kept = <<>> IN
  [g EXCEPT !.to = IF null THEN @ ELSE Append(@, o),
            !.fwd[o] = IF null THEN "null" ELSE "copied",
            !.kept[o] = kept,
            !.number[o] = IF heap[o].kind = "numbered" THEN g.count ELSE @,
            !.count = IF heap[o].kind = "numbered" THEN @ + 1 ELSE @]

\* ss_gc_copy: records and blobs are copied without what they refer to, a dict
\* or table with its entries, unless it has to wait for the last phase.
RECURSIVE Copy(_, _), CopyAll(_, _)

CopyAll(g, refs) == FoldLeft(LAMBDA h, o : Copy(h, o), g, refs)

\* The arguments of ss_dict_set (d, ss_gc_copy (gc, key), ss_gc_copy (gc, val)).
Args(e) == IF keyFirst THEN <<e.key, e.val>> ELSE <<e.val, e.key>>

\* ss_dict_set: with a value that has become null there is no entry, as there is
\* no other key with the same address.
DictSet(g, e) ==
  [gc |-> g, kept |-> IF e.val = Null \/ g.fwd[e.val] = "null" THEN <<>> ELSE <<e>>]

\* ss_dict_gc_copy and ss_tab_gc_copy
CopyEntry(g, kind, e) ==
  CASE kind = "strong" -> DictSet(CopyAll(g, Args(e)), e)
    [] kind = "weak" /\ Alive(g, e.key) -> DictSet(CopyAll(g, Args(e)), e)
    [] kind = "sets" ->
         LET c == FoldLeft(LAMBDA acc, m :
                             IF m # Null /\ Alive(acc.gc, m)
                             THEN [gc |-> Copy(acc.gc, m), set |-> Append(acc.set, m)]
                             ELSE acc,
                           [gc |-> g, set |-> <<>>], e.val)
         IN IF c.set # <<>>
            THEN [gc |-> Copy(c.gc, e.key), kept |-> <<[e EXCEPT !.val = c.set]>>]
            ELSE [gc |-> c.gc, kept |-> <<>>]
    [] kind = "table" /\ Alive(g, e) -> [gc |-> Copy(g, e), kept |-> <<e>>]
    [] OTHER -> [gc |-> g, kept |-> <<>>]

CopyEntries(g, o) ==
  FoldLeft(LAMBDA acc, e : LET c == CopyEntry(acc.gc, heap[o].kind, e)
                           IN [gc |-> c.gc, kept |-> acc.kept \o c.kept],
           [gc |-> g, kept |-> <<>>], heap[o].refs)

\* ss_dict_finish: ss_store_object takes what is not in the to-space for an
\* unstored object, copies it with all it refers to, and frees it (1161-1179).
\* That is what a delayed object looks like that ss_gc_copy has returned as it
\* was (529-535).
DictFinish(g, o, kept) ==
  IF \E x \in ToSet(MembersOf(o, kept)) : x # Null /\ g.fwd[x] = "none"
  THEN StopWith(g, "undefined") ELSE g

Copy(g, o) ==
  IF o = Null \/ g.fwd[o] # "none" THEN g
  ELSE IF phase \in {"start", "scan"} /\ Delay(o)
  THEN IF Len(g.delayed) >= MaxDelayed
       THEN StopWith(g, "error")
       ELSE [g EXCEPT !.delayed = Append(@, o)]
  ELSE IF IsRecord(heap[o]) THEN Forward(g, o, heap[o].refs)
  ELSE LET c == CopyEntries(g, o)
       IN Forward(IF IsDict(heap[o]) THEN DictFinish(c.gc, o, c.kept) ELSE c.gc, o, c.kept)

-----------------------------------------------------------------------------
Init ==
  /\ heap \in Heaps
  /\ keyFirst \in BOOLEAN
  /\ phase = "start"
  /\ gc = NoCopies
  /\ scan = 1
  /\ rippled = 0
  /\ again = FALSE
  /\ rounds = 0

Fixed == UNCHANGED <<heap, keyFirst>>

\* ss_gc_copy_phase: the root first, in the first and in the last phase.
CopyRoot ==
  /\ phase = "start"
  /\ gc' = Copy(gc, Root)
  /\ phase' = "scan"
  /\ scan' = 1
  /\ Fixed /\ UNCHANGED <<rippled, again, rounds>>

\* Mutant: records with a numbered tag are not scanned.
ScanPlain ==
  /\ phase \in {"scan", "copy"}
  /\ gc.stop = "none"
  /\ scan <= Len(gc.to)
  /\ LET o == gc.to[scan]
     IN gc' = IF heap[o].kind = "numbered" THEN gc ELSE CopyAll(gc, MembersOf(o, gc.kept[o]))
  /\ scan' = scan + 1
  /\ Fixed /\ UNCHANGED <<phase, rippled, again, rounds>>

\* ss_gc_scan_and_advance: the fields of a record, and the nodes of a dict or
\* table as well.
Scan ==
  /\ phase \in {"scan", "copy"}
  /\ gc.stop = "none"
  /\ scan <= Len(gc.to)
  /\ LET o == gc.to[scan]
     IN gc' = CopyAll(gc, MembersOf(o, gc.kept[o]))
  /\ scan' = scan + 1
  /\ Fixed /\ UNCHANGED <<phase, rippled, again, rounds>>

\* dyn_error ("too many weak tables"), or the program runs into free with an
\* address that malloc has not returned; it is not followed any further.
GiveUp ==
  /\ phase = "scan"
  /\ gc.stop # "none"
  /\ phase' = gc.stop
  /\ Fixed /\ UNCHANGED <<gc, scan, rippled, again, rounds>>

Scanned ==
  /\ phase = "scan"
  /\ gc.stop = "none"
  /\ scan > Len(gc.to)
  /\ phase' = "ripple"
  /\ rippled' = 0
  /\ again' = FALSE
  /\ rounds' = rounds + 1
  /\ Fixed /\ UNCHANGED <<gc, scan>>

\* Mutant: the key of an entry does not matter.
RippleAnyEntry(g, kind, e) ==
  CASE kind = "weak" /\ ~Alive(g, e.val) -> Copy(g, e.val)
    [] kind = "sets" /\ ~Alive(g, e.key) -> Copy(g, e.key)
    [] OTHER -> g

(***************************************************************************)
(* ss_gc_ripple_dicts: an entry whose key is alive makes its value alive;  *)
(* a set with a member that is alive makes its key alive.                  *)
(***************************************************************************)
RippleEntry(g, kind, e) ==
  CASE kind = "weak" /\ Alive(g, e.key) /\ ~Alive(g, e.val) -> Copy(g, e.val)
    [] kind = "sets" /\ ~Alive(g, e.key) /\ \E i \in DOMAIN e.val : Alive(g, e.val[i])
         -> Copy(g, e.key)
    [] OTHER -> g

\* Mutant: there is always another round.
RippleForever ==
  /\ phase = "ripple"
  /\ rippled < Len(gc.delayed)
  /\ LET d == gc.delayed[rippled + 1]
     IN gc' = IF gc.fwd[d] = "none" /\ IsDict(heap[d])
              THEN FoldLeft(LAMBDA g, e : RippleEntry(g, heap[d].kind, e), gc, heap[d].refs)
              ELSE gc
  /\ again' = TRUE
  /\ rippled' = rippled + 1
  /\ Fixed /\ UNCHANGED <<phase, scan, rounds>>

Ripple ==
  /\ phase = "ripple"
  /\ rippled < Len(gc.delayed)
  /\ LET d == gc.delayed[rippled + 1]
     IN gc' = IF gc.fwd[d] = "none" /\ IsDict(heap[d])
              THEN FoldLeft(LAMBDA g, e : RippleEntry(g, heap[d].kind, e), gc, heap[d].refs)
              ELSE gc
  /\ again' = (again \/ gc' # gc)
  /\ rippled' = rippled + 1
  /\ Fixed /\ UNCHANGED <<phase, scan, rounds>>

RippleAgain ==
  /\ phase = "ripple"
  /\ rippled = Len(gc.delayed)
  /\ again
  /\ rippled' = 0
  /\ again' = FALSE
  /\ rounds' = rounds + 1
  /\ Fixed /\ UNCHANGED <<phase, gc, scan>>

\* Mutant: what the ripples have copied is not scanned.
CopyDelayedOnly ==
  /\ phase = "ripple"
  /\ rippled = Len(gc.delayed)
  /\ ~again
  /\ gc' = Copy(gc, Root)
  /\ phase' = "copy"
  /\ scan' = Len(gc.to) + 1
  /\ Fixed /\ UNCHANGED <<rippled, again, rounds>>

\* The last phase: no more delays.
CopyDelayed ==
  /\ phase = "ripple"
  /\ rippled = Len(gc.delayed)
  /\ ~again
  /\ gc' = Copy(gc, Root)
  /\ phase' = "copy"
  /\ scan' = 1
  /\ Fixed /\ UNCHANGED <<rippled, again, rounds>>

Finish ==
  /\ phase = "copy"
  /\ scan > Len(gc.to)
  /\ phase' = "done"
  /\ Fixed /\ UNCHANGED <<gc, scan, rippled, again, rounds>>

Next == CopyRoot \/ Scan \/ GiveUp \/ Scanned \/ Ripple \/ RippleAgain \/ CopyDelayed \/ Finish

Spec == Init /\ [][Next]_vars
-----------------------------------------------------------------------------
(***************************************************************************)
(* What a collection should keep.                                          *)
(***************************************************************************)

\* What an object keeps alive by itself.
StrongRefs(o) ==
  LET h == heap[o] IN
  CASE IsRecord(h) -> ToSet(h.refs)
    [] h.kind = "strong" -> UNION {{e.key, e.val} : e \in ToSet(h.refs)}
    [] OTHER -> {}

\* An entry keeps its value alive as long as its key is, a set its key as long
\* as a member is.
WeakRefs(o, live) ==
  LET h == heap[o] IN
  CASE h.kind = "weak" -> {e.val : e \in {e \in ToSet(h.refs) : e.key \in live}}
    [] h.kind = "sets" ->
         {e.key : e \in {e \in ToSet(h.refs) : ToSet(e.val) \intersect live # {}}}
    [] OTHER -> {}

\* Everything that S keeps alive, without and with the help of weak references.
RECURSIVE Reach(_), KeepAlive(_)
Reach(S) == LET T == (S \union UNION {StrongRefs(o) : o \in S}) \ {Null}
            IN IF T = S THEN S ELSE Reach(T)
KeepAlive(S) == LET T == (S \union UNION {StrongRefs(o) \union WeakRefs(o, S) : o \in S}) \ {Null}
                IN IF T = S THEN S ELSE KeepAlive(T)

Reachable == Reach({Root})
Live == KeepAlive({Root})

Copies == {o \in Obj : gc.fwd[o] = "copied"}

KeptRefs(o) == ToSet(MembersOf(o, gc.kept[o])) \ {Null}

\* An entry is in the copy, or its value has become null.
EntryKept(d, e) == e \in ToSet(gc.kept[d]) \/ gc.fwd[e.val] = "null"

\* The new store is complete: whatever a copied object refers to was copied as
\* well, or was a dict or table that became empty.  In particular what the
\* ripples copied without scanning it has been scanned in the end.  Nothing of
\* the old store is freed unless a dict without weak references has a table or
\* a dict with weak references as key or value (store.c:623).
NothingDangles ==
  /\ phase = "done" => \A o \in Copies : \A x \in KeptRefs(o) : gc.fwd[x] # "none"
  /\ phase = "undefined" =>
       \E o \in Reachable : /\ heap[o].kind = "strong"
                            /\ \E x \in ToSet(MembersOf(o, heap[o].refs)) : Delay(x)

\* Each object has one copy, and what is reachable without weak references is
\* not lost.
ReachableKept ==
  phase = "done" =>
    /\ Cardinality(Copies) = Len(gc.to)
    /\ LET R == Reachable
       IN \A o \in R : gc.fwd[o] = "copied" \/ (gc.fwd[o] = "null" /\ ~IsRecord(heap[o]))

\* Garbage is collected: nothing is copied that only weak references lead to,
\* and that no living entry keeps alive.
OnlyLiveCopied == phase = "done" => Copies \subseteq Live

\* An entry whose key is reachable without weak references is kept, with its
\* value, in every dict that was reachable.
ReachableKeysKeepEntries ==
  phase = "done" =>
    LET R == Reachable IN
    \A d \in R : heap[d].kind = "weak" =>
      \A e \in ToSet(heap[d].refs) : e.key \in R => EntryKept(d, e)

\* The numbers of the records of a numbered tag are the numbers below their
\* count, each given once: db.c sizes its arrays with the count.
NumbersDense ==
  phase = "done" =>
    LET records == {o \in Copies : heap[o].kind = "numbered"}
    IN /\ {gc.number[o] : o \in records} = 0 .. gc.count - 1
       /\ Cardinality(records) = gc.count

\* The rounds of ripples come to an end: each one after the first needs a copy
\* that the one before it made, also when entries of two dicts keep each other's
\* keys alive, and an object is copied once.
RoundsSettle == rounds <= 1 + Len(gc.to)

\* store.h:71-73: an entry is removed when the last non-weak reference to its
\* key disappears, and not before.
EntriesOfCopiedKeysKept ==
  phase = "done" =>
    \A d \in Copies \union {o \in Reachable : gc.fwd[o] = "null"} : heap[d].kind = "weak" =>
      \A e \in ToSet(heap[d].refs) : e.key \in Copies => EntryKept(d, e)
=============================================================================

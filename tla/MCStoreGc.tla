------------------------------ MODULE MCStoreGc -----------------------------
(***************************************************************************)
(* Small stores: a root, three records that may refer to each other, and   *)
(* two dicts or tables.  Values never change (store.h:38), so an object    *)
(* refers to older ones only and there are no cycles; and a dict has one   *)
(* entry for a key.                                                        *)
(***************************************************************************)
EXTENDS StoreGc, TLC

CONSTANTS r1, a1, b1, c1, d1, e1

Records == {a1, b1, c1}
Entry(k, v) == [key |-> k, val |-> v]
Rec(refs) == [kind |-> "record", refs |-> refs]
Num(refs) == [kind |-> "numbered", refs |-> refs]
Strong(refs) == [kind |-> "strong", refs |-> refs]
Weak(refs) == [kind |-> "weak", refs |-> refs]
Sets(refs) == [kind |-> "sets", refs |-> refs]
Table(refs) == [kind |-> "table", refs |-> refs]
MaybeRef(S) == {<<>>} \union {<<x>> : x \in S}

RefersTo(ob) ==
  CASE ob.kind \in {"strong", "weak"} -> UNION {{e.key, e.val} : e \in ToSet(ob.refs)}
    [] ob.kind = "sets" -> UNION {{e.key} \union ToSet(e.val) : e \in ToSet(ob.refs)}
    [] OTHER -> ToSet(ob.refs)

\* Nothing is left when objects that refer to no others are taken away as many
\* times as there are objects.
Acyclic(h) ==
  FoldLeft(LAMBDA S, i : {o \in S : RefersTo(h[o]) \intersect S # {}},
           Obj, <<r1, a1, b1, c1, d1, e1>>) = {}

\* One entry per dict, both dicts reachable from the root.
WeakObjects ==
  {Weak(<<Entry(k, v)>>) : k, v \in Records} \union {Sets(<<Entry(k, <<m>>)>>) : k, m \in Records}

DictHeaps ==
  {h \in {(r1 :> Rec(refs) @@ a1 :> Num(fa) @@ b1 :> Rec(fb) @@ c1 :> Num(fc) @@ d1 :> od @@ e1 :> oe) :
            refs \in {<<a1, d1, e1>>, <<d1, e1, a1>>},
            fa \in MaybeRef({b1, c1}), fb \in MaybeRef({a1, c1}), fc \in {<<>>, <<b1>>},
            od, oe \in WeakObjects} : Acyclic(h)}

\* Dicts and tables inside each other, with two entries; e1 is reached through
\* d1, through a record, or not at all.  db.c:39 is a dict of dicts.
Nested == {a1, b1, e1}
OuterObjects ==
  {Weak(<<Entry(k[1], v), Entry(k[2], w)>>) : k \in {<<a1, b1>>, <<b1, a1>>}, v, w \in Nested}
  \union {Sets(<<Entry(k, <<m, n>>)>>) : k \in Nested, m, n \in {a1, b1}}
  \union {Table(<<x, y>>) : x, y \in Nested}
  \union {Strong(<<Entry(k, v)>>) : k, v \in Nested}

InnerObjects ==
  {Weak(<<Entry(k, v)>>) : k, v \in Records}
  \union {Strong(<<Entry(k, v)>>) : k, v \in Records}
  \union {Table(<<x>>) : x \in Records}
  \union {Sets(<<Entry(c1, <<m>>)>>) : m \in Records}

NestedHeaps ==
  {h \in {(r1 :> Rec(refs) @@ a1 :> Rec(fa) @@ b1 :> Num(fb) @@ c1 :> Num(<<>>) @@ d1 :> od @@ e1 :> oe) :
            refs \in {<<d1, a1>>, <<a1, d1, Null>>, <<e1, d1>>},
            fa \in MaybeRef({b1, d1, e1}), fb \in MaybeRef({c1, e1}),
            od \in OuterObjects, oe \in InnerObjects} : Acyclic(h)}

\* A dict or table as root, as in test.c:707.
RootHeaps ==
  {h \in {(r1 :> od @@ a1 :> Rec(fa) @@ b1 :> Num(<<c1>>) @@ c1 :> Num(<<>>) @@ d1 :> Rec(<<>>) @@ e1 :> oe) :
            fa \in MaybeRef({b1, e1}), od \in OuterObjects, oe \in InnerObjects} : Acyclic(h)}

\* A strong dict that only weak references lead to, with a dict or table in it.
WeakToStrong ==
  {Weak(<<Entry(k, d1)>>) : k \in {a1, b1}} \union {Sets(<<Entry(d1, <<a1>>)>>), Table(<<d1>>)}

DeepHeaps ==
  {h \in {(r1 :> Rec(refs) @@ a1 :> Rec(fa) @@ b1 :> Num(<<>>) @@ c1 :> oc
             @@ d1 :> Strong(<<Entry(k, e1)>>) @@ e1 :> oe) :
            refs \in {<<a1, c1>>, <<c1, a1, e1>>}, fa \in MaybeRef({b1, e1}), k \in {a1, b1},
            oc \in WeakToStrong, oe \in InnerObjects} : Acyclic(h)}

AllHeaps == DictHeaps \union NestedHeaps \union RootHeaps \union DeepHeaps
=============================================================================

---------------------------- MODULE Extents_proofs ----------------------------
(***************************************************************************)
(* Proofs about the dynamic extents, for all programs that nest their      *)
(* calls: references are counted exactly, what has an owner is not freed,  *)
(* what has none is, every error finds its catch, and in all of this they  *)
(* implement Scopes.                                                       *)
(***************************************************************************)
EXTENDS Extents, FiniteSetTheorems, WellFoundedInduction, SequenceTheorems, TLAPS

-----------------------------------------------------------------------------
(***************************************************************************)
(* Recursion over numbers                                                  *)
(***************************************************************************)
LEMMA NatWellFounded == IsWellFoundedOn({ss \in Nat \X Nat : ss[1] < ss[2]}, Nat)
BY NatLessThanWellFounded DEF OpToRel

\* A set of numbers has a least one: what stands for induction in here.
LEMMA NatMin ==
  ASSUME NEW T \in SUBSET Nat, T # {}
  PROVE  \E n \in T : \A m \in T : n <= m
<1> DEFINE R == {ss \in Nat \X Nat : ss[1] < ss[2]}
<1>1. IsWellFoundedOn(R, Nat)
  BY NatWellFounded
<1>2. \E x \in T : \A y \in T : ~(<<y, x>> \in R)
  <2> HIDE DEF R
  <2> QED BY <1>1, WFMin
<1>3. PICK x \in T : \A y \in T : ~(<<y, x>> \in R)
  BY <1>2
<1>4. ASSUME NEW y \in T PROVE x <= y
  <2>1. <<y, x>> \in Nat \X Nat /\ <<y, x>>[1] = y /\ <<y, x>>[2] = x
    OBVIOUS
  <2>2. ~(y < x)
    BY <1>3, <2>1
  <2> QED BY <2>1, <2>2
<1> QED BY <1>4

\* What holds for 0 and is passed on holds up to N.
LEMMA UpTo ==
  ASSUME NEW N \in Nat, NEW T, 0 \in T, \A n \in 0 .. N - 1 : n \in T => n + 1 \in T
  PROVE  \A n \in 0 .. N : n \in T
<1> SUFFICES ASSUME NEW n \in 0 .. N, n \notin T PROVE FALSE
  OBVIOUS
<1> DEFINE M == {k \in 0 .. N : k \notin T}
<1>1. M \in SUBSET Nat /\ M # {}
  OBVIOUS
<1>2. PICK k \in M : \A j \in M : k <= j
  <2> HIDE DEF M
  <2> QED BY <1>1, NatMin
<1>3. k - 1 \in 0 .. N - 1 /\ k - 1 + 1 = k
  OBVIOUS
<1>4. k - 1 \in T
  BY <1>2, <1>3
<1> QED BY <1>2, <1>3, <1>4

\* A function of numbers can be defined by recursion.
Steps(S) == [Nat -> [S -> S]]
\* f has been iterated N times from a: G has a function for every step.
Iterates(f, N, S, G, a) == f \in [0 .. N -> S] /\ f[0] = a /\ \A n \in 0 .. N - 1 : f[n + 1] = G[n][f[n]]

LEMMA Recursion ==
  ASSUME NEW N \in Nat, NEW S, NEW G \in Steps(S), NEW a \in S
  PROVE  \E f : Iterates(f, N, S, G, a)
<1> DEFINE Solves(f, k) == f \in [0 .. k -> S] /\ f[0] = a /\ \A n \in 0 .. k - 1 : f[n + 1] = G[n][f[n]]
           T == {k \in Nat : \E f : Solves(f, k)}
<1>1. 0 \in T
  <2>1. Solves([n \in 0 .. 0 |-> a], 0)
    OBVIOUS
  <2> QED BY <2>1
<1>2. ASSUME NEW k \in 0 .. N - 1, k \in T
      PROVE  k + 1 \in T
  <2>1. PICK f : Solves(f, k)
    BY <1>2
  <2> DEFINE g == [n \in 0 .. k + 1 |-> IF n = k + 1 THEN G[k][f[k]] ELSE f[n]]
  <2>2. G[k][f[k]] \in S
    BY <2>1 DEF Steps
  <2>3. g \in [0 .. k + 1 -> S] /\ g[0] = a
    BY <2>1, <2>2
  <2>4. ASSUME NEW n \in 0 .. k + 1 - 1 PROVE g[n + 1] = G[n][g[n]]
    <3>1. CASE n = k
      BY <3>1
    <3>2. CASE n # k
      <4>1. n \in 0 .. k - 1 /\ n + 1 \in 0 .. k /\ n + 1 # k + 1 /\ n # k + 1 /\ n \in 0 .. k + 1 /\ n + 1 \in 0 .. k + 1
        BY <3>2
      <4> QED BY <2>1, <4>1
    <3> QED BY <3>1, <3>2
  <2>5. Solves(g, k + 1)
    <3> HIDE DEF g
    <3> QED BY <2>3, <2>4
  <2>6. \E h : Solves(h, k + 1)
    <3> HIDE DEF g, Solves
    <3> QED BY <2>5
  <2> QED BY <2>6
<1> HIDE DEF T
<1>3. N \in T
  <2>1. \A n \in 0 .. N : n \in T
    BY <1>1, <1>2, UpTo
  <2> QED BY <2>1
<1> QED BY <1>3 DEF T, Iterates

-----------------------------------------------------------------------------
(***************************************************************************)
(* Memory                                                                  *)
(***************************************************************************)
Maybe == Val \union {None}

\* The states that memory can have.
Mem == [refs : [Val -> Nat], content : [Val -> Maybe \union Target], var : [Var -> Maybe],
        ran : Seq(Fun \X BOOLEAN)]

\* What is free has no references.
Cleared(m) == \A x \in Val : m.refs[x] = 0 => m.content[x] = None

\* Counting is summing up hits.  The sums are operators of their own, and At is
\* a name for a function's value, to have terms that lemmas can be about.
Hit(a, z) == IF a = z THEN 1 ELSE 0
Count(D, f, x) == Cardinality({d \in D : f[d] = x})
At(f, d) == f[d]
VarRefs(va, x) == Count(Var, va, x)
ContentRefs(co, x) == Count(Val, co, x)

\* The counts are s, the references from other values, and one more to x.
Owed(m, s, x) == \A z \in Val : m.refs[z] = s[z] + ContentRefs(m.content, z) + Hit(x, z)

\* Values that are not freed keep what they have.
Keeps(m, n) == \A x \in Val : n.refs[x] > 0 => m.refs[x] > 0 /\ n.content[x] = m.content[x]

LEMMA Constants ==
  /\ None \notin Val /\ Val \intersect Target = {} /\ IsFiniteSet(Val) /\ IsFiniteSet(Var)
  /\ Cardinality(Val) \in Nat
BY ExtentsAssumption, FS_CardinalityType DEF Target

LEMMA CountIsNat ==
  ASSUME NEW D, IsFiniteSet(D), NEW f, NEW z
  PROVE  Count(D, f, z) \in Nat
<1> DEFINE F == {d \in D : f[d] = z}
<1>1. F \subseteq D
  OBVIOUS
<1>2. IsFiniteSet(F)
  <2> HIDE DEF F
  <2> QED BY <1>1, FS_Subset
<1>3. Cardinality(F) \in Nat
  <2> HIDE DEF F
  <2> QED BY <1>2, FS_CardinalityType
<1> QED BY <1>3 DEF Count

\* Changing one value of a function changes two counts.
LEMMA Recount ==
  ASSUME NEW D, IsFiniteSet(D), NEW f, NEW g, NEW d \in D, \A y \in D \ {d} : g[y] = f[y], NEW z
  PROVE  Count(D, g, z) + Hit(f[d], z) = Count(D, f, z) + Hit(g[d], z)
<1> DEFINE F == {y \in D : f[y] = z}
           H == {y \in D : g[y] = z}
           B == {y \in D \ {d} : f[y] = z}
<1>1. IsFiniteSet(B) /\ Cardinality(B) \in Nat /\ d \notin B
  <2>1. B \subseteq D /\ d \notin B
    OBVIOUS
  <2> QED BY <2>1, FS_Subset, FS_CardinalityType
<1>2. Cardinality(B \union {d}) = Cardinality(B) + 1
  <2> HIDE DEF B
  <2> QED BY <1>1, FS_AddElement
<1>3. F = IF f[d] = z THEN B \union {d} ELSE B
  OBVIOUS
<1>4. H = IF g[d] = z THEN B \union {d} ELSE B
  OBVIOUS
<1> HIDE DEF F, H, B
<1>5. Cardinality(F) = Cardinality(B) + Hit(f[d], z)
  BY <1>1, <1>2, <1>3 DEF Hit
<1>6. Cardinality(H) = Cardinality(B) + Hit(g[d], z)
  BY <1>1, <1>2, <1>4 DEF Hit
<1>7. Hit(f[d], z) \in Nat /\ Hit(g[d], z) \in Nat
  BY DEF Hit
<1> QED BY <1>1, <1>5, <1>6, <1>7 DEF F, H, Count

LEMMA ContentRecount ==
  ASSUME NEW f, NEW g, NEW d \in Val, \A y \in Val \ {d} : g[y] = f[y], NEW z
  PROVE  ContentRefs(g, z) + Hit(f[d], z) = ContentRefs(f, z) + Hit(g[d], z)
<1>1. IsFiniteSet(Val)
  BY Constants
<1>2. Count(Val, g, z) + Hit(f[d], z) = Count(Val, f, z) + Hit(g[d], z)
  BY <1>1, Recount
<1> QED BY <1>2 DEF ContentRefs

LEMMA VarRecount ==
  ASSUME NEW f, NEW g, NEW d \in Var, \A y \in Var \ {d} : g[y] = f[y], NEW z
  PROVE  VarRefs(g, z) + Hit(At(f, d), z) = VarRefs(f, z) + Hit(At(g, d), z)
<1>1. IsFiniteSet(Var)
  BY Constants
<1>2. Count(Var, g, z) + Hit(f[d], z) = Count(Var, f, z) + Hit(g[d], z)
  BY <1>1, Recount
<1> QED BY <1>2 DEF VarRefs, At

LEMMA VarRefsAfter ==
  ASSUME NEW va \in [Var -> Maybe], NEW v \in Var, NEW x, NEW z
  PROVE  VarRefs([va EXCEPT ![v] = x], z) + Hit(va[v], z) = VarRefs(va, z) + Hit(x, z)
<1> DEFINE vb == [va EXCEPT ![v] = x]
           old == va[v]
<1>1. At(vb, v) = x /\ At(va, v) = old /\ \A y \in Var \ {v} : vb[y] = va[y]
  BY DEF At
<1> HIDE DEF vb, old
<1>2. VarRefs(vb, z) + Hit(old, z) = VarRefs(va, z) + Hit(x, z)
  BY <1>1, VarRecount
<1> QED BY <1>2 DEF vb, old

LEMMA CountsAreNat ==
  /\ \A co, z : ContentRefs(co, z) \in Nat
  /\ \A va, z : VarRefs(va, z) \in Nat
<1>1. IsFiniteSet(Val) /\ IsFiniteSet(Var)
  BY Constants
<1> QED BY <1>1, CountIsNat, Zenon DEF ContentRefs, VarRefs

(***************************************************************************)
(* Unref                                                                   *)
(***************************************************************************)
Walk == [mem : Mem, next : Maybe]

LEMMA MemParts ==
  ASSUME NEW m \in Mem
  PROVE  /\ m.refs \in [Val -> Nat] /\ m.content \in [Val -> Maybe \union Target] /\ m.var \in [Var -> Maybe]
         /\ m = [refs |-> m.refs, content |-> m.content, var |-> m.var, ran |-> m.ran]
BY DEF Mem

LEMMA UnrefOneFields ==
  ASSUME NEW m \in Mem, NEW x \in Val, NEW r, r = UnrefOne(m, x)
  PROVE  /\ r \in Walk /\ r.mem.var = m.var /\ r.mem.ran = m.ran
         /\ \A z \in Val \ {x} : r.mem.refs[z] = m.refs[z] /\ r.mem.content[z] = m.content[z]
         /\ m.refs[x] > 1 => r.mem.refs[x] = m.refs[x] - 1 /\ r.mem.content[x] = m.content[x] /\ r.next = None
         /\ m.refs[x] <= 1 => /\ r.mem.refs[x] = 0 /\ r.mem.content[x] = None
                              /\ r.next = IF m.content[x] \in Val THEN m.content[x] ELSE None
<1>0. /\ m.refs \in [Val -> Nat] /\ m.content \in [Val -> Maybe \union Target]
      /\ m.refs[x] \in Nat /\ None \in Maybe \union Target /\ None \in Maybe
  BY MemParts DEF Maybe
<1>1. CASE m.refs[x] > 1
  <2> DEFINE n == [m EXCEPT !.refs[x] = @ - 1]
  <2>1. r = [mem |-> n, next |-> None]
    BY <1>1 DEF UnrefOne
  <2>2. m.refs[x] - 1 \in Nat
    BY <1>0, <1>1
  <2>3. /\ n \in Mem /\ n.var = m.var /\ n.ran = m.ran /\ n.content = m.content
        /\ n.refs = [m.refs EXCEPT ![x] = m.refs[x] - 1]
    BY <1>0, <2>2 DEF Mem
  <2> HIDE DEF n
  <2>4. r.mem = n /\ r.next = None /\ r \in Walk
    BY <1>0, <2>1, <2>3 DEF Walk
  <2> QED BY <1>0, <1>1, <2>3, <2>4
<1>2. CASE ~(m.refs[x] > 1)
  <2> DEFINE y == IF m.content[x] \in Val THEN m.content[x] ELSE None
             n == [m EXCEPT !.refs[x] = 0, !.content[x] = None]
  <2>1. r = [mem |-> n, next |-> y]
    BY <1>2 DEF UnrefOne
  <2>2. /\ n \in Mem /\ n.var = m.var /\ n.ran = m.ran
        /\ n.refs = [m.refs EXCEPT ![x] = 0] /\ n.content = [m.content EXCEPT ![x] = None]
    BY <1>0 DEF Mem
  <2>3. y \in Maybe
    BY DEF Maybe
  <2> HIDE DEF n
  <2>4. r.mem = n /\ r.next = y /\ r \in Walk
    BY <1>0, <2>1, <2>2, <2>3 DEF Walk
  <2> QED BY <1>0, <1>2, <2>2, <2>4
<1> QED BY <1>0, <1>1, <1>2

LEMMA UnrefNextInWalk ==
  ASSUME NEW a \in Walk
  PROVE  UnrefNext(a) \in Walk /\ UnrefNext(a).mem.var = a.mem.var /\ UnrefNext(a).mem.ran = a.mem.ran
<1>1. a.mem \in Mem /\ a.next \in Maybe
  BY DEF Walk
<1>2. CASE a.next = None
  BY <1>2 DEF UnrefNext
<1>3. CASE a.next # None
  <2>1. a.next \in Val
    BY <1>1, <1>3 DEF Maybe
  <2> QED BY <1>1, <1>3, <2>1, UnrefOneFields DEF UnrefNext
<1> QED BY <1>2, <1>3

\* What Unref computes, step by step.
LEMMA UnrefSteps ==
  ASSUME NEW m \in Mem, NEW x \in Maybe
  PROVE  \E f \in [0 .. Cardinality(Val) -> Walk] :
           /\ f[0] = [mem |-> m, next |-> x]
           /\ \A n \in 0 .. Cardinality(Val) - 1 : f[n + 1] = UnrefNext(f[n])
           /\ Unref(m, x) = f[Cardinality(Val)].mem
<1> DEFINE N == Cardinality(Val)
           G == [n \in Nat |-> [a \in Walk |-> UnrefNext(a)]]
           first == [mem |-> m, next |-> x]
           Eq(f) == f = [n \in 0 .. N |-> IF n = 0 THEN first ELSE UnrefNext(f[n - 1])]
<1>1. N \in Nat
  BY Constants
<1>2. G \in Steps(Walk)
  BY UnrefNextInWalk DEF Steps
<1>3. first \in Walk
  BY DEF Walk
<1> HIDE DEF N, first
<1>4a. PICK f : Iterates(f, N, Walk, G, first)
  <2> HIDE DEF G
  <2> QED BY <1>1, <1>2, <1>3, Recursion
<1>4. f \in [0 .. N -> Walk] /\ f[0] = first /\ \A n \in 0 .. N - 1 : f[n + 1] = G[n][f[n]]
  BY <1>4a DEF Iterates
<1>5. ASSUME NEW n \in 0 .. N - 1 PROVE f[n + 1] = UnrefNext(f[n])
  <2>1. n \in Nat /\ f[n] \in Walk
    BY <1>1, <1>4
  <2>2. G[n][f[n]] = UnrefNext(f[n])
    BY <2>1
  <2> QED BY <1>4, <2>2
<1>6. Eq(f)
  <2>1. ASSUME NEW n \in 0 .. N
        PROVE  f[n] = IF n = 0 THEN first ELSE UnrefNext(f[n - 1])
    <3>1. CASE n = 0
      BY <3>1, <1>4
    <3>2. CASE n # 0
      <4>1. n - 1 \in 0 .. N - 1 /\ n - 1 + 1 = n
        BY <1>1, <3>2
      <4> QED BY <4>1, <1>5, <3>2
    <3> QED BY <3>1, <3>2
  <2>2. f = [n \in 0 .. N |-> f[n]]
    BY <1>4
  <2> QED BY <2>1, <2>2
<1> DEFINE h == CHOOSE g : Eq(g)
<1>7. Eq(h)
  BY <1>6
<1>8. h \in [0 .. N -> Walk] /\ h[0] = first
      /\ \A n \in 0 .. N - 1 : h[n + 1] = UnrefNext(h[n])
  <2> HIDE DEF h
  <2>0. \A k \in 0 .. N : h[k] = IF k = 0 THEN first ELSE UnrefNext(h[k - 1])
    BY <1>7
  <2>1. h[0] = first
    BY <1>1, <2>0
  <2>2. ASSUME NEW n \in 0 .. N - 1 PROVE h[n + 1] = UnrefNext(h[n])
    <3>1. n + 1 \in 0 .. N /\ n + 1 # 0 /\ n + 1 - 1 = n
      BY <1>1
    <3>2. h[n + 1] = IF n + 1 = 0 THEN first ELSE UnrefNext(h[n + 1 - 1])
      BY <2>0, <3>1
    <3> QED BY <3>1, <3>2
  <2>3. \A n \in 0 .. N : h[n] \in Walk
    <3> DEFINE T == {n \in 0 .. N : h[n] \in Walk}
    <3>1. 0 \in T
      BY <1>1, <1>3, <2>1
    <3>2. \A n \in 0 .. N - 1 : n \in T => n + 1 \in T
      BY <1>1, <2>2, UnrefNextInWalk
    <3>3. \A n \in 0 .. N : n \in T
      <4> HIDE DEF T
      <4> QED BY <1>1, <3>1, <3>2, UpTo
    <3> QED BY <3>3
  <2> QED BY <1>7, <2>1, <2>2, <2>3
<1>9. Unref(m, x) = h[N].mem
  BY DEF Unref, N, first
<1> QED BY <1>8, <1>9 DEF N, first

\* The values that have no references.
Zeros(m) == {z \in Val : m.refs[z] = 0}

\* After n steps of Unref, the value that is next has one reference too many;
\* each of the steps has freed a value.
UnrefInv(m, s, a, n) ==
  /\ a \in Walk /\ a.mem.var = m.var /\ a.mem.ran = m.ran
  /\ Cleared(a.mem) /\ Keeps(m, a.mem) /\ Owed(a.mem, s, a.next)
  /\ a.next # None => n <= Cardinality(Zeros(a.mem))

LEMMA ZerosFinite ==
  ASSUME NEW m
  PROVE  /\ IsFiniteSet(Zeros(m)) /\ Cardinality(Zeros(m)) \in Nat
         /\ Cardinality(Zeros(m)) <= Cardinality(Val)
         /\ Cardinality(Zeros(m)) = Cardinality(Val) => Zeros(m) = Val
<1>1. Zeros(m) \subseteq Val
  BY DEF Zeros
<1> QED BY <1>1, Constants, FS_Subset, FS_CardinalityType

LEMMA UnrefInvNext ==
  ASSUME NEW m \in Mem, NEW s \in [Val -> Nat], NEW a, NEW n \in Nat, UnrefInv(m, s, a, n)
  PROVE  UnrefInv(m, s, UnrefNext(a), n + 1)
<1> DEFINE b == UnrefNext(a)
<1>1. a \in Walk /\ a.mem \in Mem /\ a.next \in Maybe
  BY DEF UnrefInv, Walk
<1>2. b \in Walk /\ b.mem.var = m.var /\ b.mem.ran = m.ran
  BY <1>1, UnrefNextInWalk DEF UnrefInv
<1>3. CASE a.next = None
  BY <1>3 DEF UnrefInv, UnrefNext
<1>4. CASE a.next # None
  <2> DEFINE x == a.next
             c == a.mem
             d == b.mem
  <2>1. x \in Val
    BY <1>1, <1>4 DEF Maybe
  <2>2. b = UnrefOne(c, x)
    BY <1>4 DEF UnrefNext
  <2>3. /\ \A z \in Val \ {x} : d.refs[z] = c.refs[z] /\ d.content[z] = c.content[z]
        /\ c.refs[x] > 1 => d.refs[x] = c.refs[x] - 1 /\ d.content[x] = c.content[x] /\ b.next = None
        /\ c.refs[x] <= 1 => /\ d.refs[x] = 0 /\ d.content[x] = None
                             /\ b.next = IF c.content[x] \in Val THEN c.content[x] ELSE None
    <3> HIDE DEF b, c, x
    <3> QED BY <1>1, <2>1, <2>2, UnrefOneFields DEF c
  <2>4. /\ c.refs \in [Val -> Nat] /\ d.refs \in [Val -> Nat]
        /\ \A z \in Val : c.refs[z] \in Nat /\ s[z] \in Nat /\ ContentRefs(c.content, z) \in Nat
                            /\ ContentRefs(d.content, z) \in Nat
    BY <1>1, <1>2, MemParts, CountsAreNat DEF Walk
  <2>5. Cleared(c) /\ Keeps(m, c) /\ Owed(c, s, x) /\ n <= Cardinality(Zeros(c))
    BY <1>4 DEF UnrefInv
  <2>6. c.refs[x] = s[x] + ContentRefs(c.content, x) + 1
    BY <2>1, <2>5 DEF Owed, Hit
  <2> HIDE DEF b, c, d, x
  <2>7. CASE c.refs[x] > 1
    <3>1. Cleared(d)
      BY <2>3, <2>4, <2>5, <2>7 DEF Cleared
    <3>2. Keeps(m, d)
      BY <2>3, <2>4, <2>5, <2>7 DEF Keeps
    <3>3. \A z \in Val : ContentRefs(d.content, z) = ContentRefs(c.content, z)
      <4>1. \A y \in Val : d.content[y] = c.content[y]
        BY <2>3, <2>7
      <4> QED BY <4>1 DEF ContentRefs, Count
    <3>4. Owed(d, s, None)
      <4> SUFFICES ASSUME NEW z \in Val
                   PROVE  d.refs[z] = s[z] + ContentRefs(d.content, z) + Hit(None, z)
        BY DEF Owed
      <4>1. Hit(None, z) = 0 /\ (z # x => Hit(x, z) = 0)
        BY Constants DEF Hit
      <4>2. c.refs[z] = s[z] + ContentRefs(c.content, z) + Hit(x, z)
        BY <2>5 DEF Owed
      <4>3. CASE z = x
        BY <2>1, <2>3, <2>4, <2>6, <2>7, <3>3, <4>1, <4>3
      <4>4. CASE z # x
        BY <2>3, <2>4, <3>3, <4>1, <4>2, <4>4
      <4> QED BY <4>3, <4>4
    <3> QED BY <1>2, <2>3, <2>7, <3>1, <3>2, <3>4 DEF UnrefInv, d, b
  <2>8. CASE c.refs[x] <= 1
    <3>1. s[x] = 0 /\ ContentRefs(c.content, x) = 0 /\ c.refs[x] = 1
      BY <2>1, <2>4, <2>6, <2>8
    <3>2. c.content[x] # x
      <4> SUFFICES ASSUME c.content[x] = x PROVE FALSE
        OBVIOUS
      <4>1. x \in {y \in Val : c.content[y] = x} /\ IsFiniteSet({y \in Val : c.content[y] = x})
        <5>1. {y \in Val : c.content[y] = x} \subseteq Val
          OBVIOUS
        <5> QED BY <2>1, <5>1, Constants, FS_Subset
      <4> QED BY <4>1, <3>1, FS_EmptySet DEF ContentRefs, Count
    <3>3. Cleared(d)
      BY <2>1, <2>3, <2>5, <2>8 DEF Cleared
    <3>4. Keeps(m, d)
      BY <2>1, <2>3, <2>4, <2>5, <2>8 DEF Keeps
    <3>5. Owed(d, s, b.next)
      <4> SUFFICES ASSUME NEW z \in Val
                   PROVE  d.refs[z] = s[z] + ContentRefs(d.content, z) + Hit(b.next, z)
        BY DEF Owed
      <4>1. ContentRefs(d.content, z) + Hit(c.content[x], z) = ContentRefs(c.content, z) + Hit(d.content[x], z)
        <5> DEFINE old == c.content
                   new == d.content
        <5>1. \A y \in Val \ {x} : new[y] = old[y]
          BY <2>3
        <5>2. ContentRefs(new, z) + Hit(old[x], z) = ContentRefs(old, z) + Hit(new[x], z)
          <6> HIDE DEF old, new
          <6> QED BY <2>1, <5>1, ContentRecount
        <5> QED BY <5>2
      <4>2. Hit(d.content[x], z) = 0 /\ Hit(c.content[x], z) = Hit(b.next, z) /\ Hit(b.next, z) \in Nat
        BY <2>3, <2>8, Constants DEF Hit
      <4>3. CASE z = x
        <5>1. Hit(b.next, z) = 0
          BY <2>1, <2>3, <2>8, <3>2, <4>3, Constants DEF Hit
        <5> QED BY <2>1, <2>3, <2>4, <2>8, <3>1, <4>1, <4>2, <4>3, <5>1
      <4>4. CASE z # x
        <5>1. c.refs[z] = s[z] + ContentRefs(c.content, z) + Hit(x, z) /\ Hit(x, z) = 0
          BY <2>5, <4>4 DEF Owed, Hit
        <5> QED BY <2>3, <2>4, <4>1, <4>2, <4>4, <5>1
      <4> QED BY <4>3, <4>4
    <3>6. n + 1 <= Cardinality(Zeros(d))
      <4>1. Zeros(d) = Zeros(c) \union {x} /\ x \notin Zeros(c)
        BY <2>1, <2>3, <2>8, <3>1 DEF Zeros
      <4>2. Cardinality(Zeros(d)) = Cardinality(Zeros(c)) + 1
        BY <4>1, ZerosFinite, FS_AddElement
      <4> QED BY <2>5, <4>2, ZerosFinite
    <3> QED BY <1>2, <3>3, <3>4, <3>5, <3>6 DEF UnrefInv, d, b
  <2>9. c.refs[x] \in Nat
    BY <2>1, <2>4
  <2> QED BY <2>7, <2>8, <2>9
<1> QED BY <1>3, <1>4

\* A reference that is dropped goes away exactly once, with those of the values
\* that are freed, however many that are.
LEMMA UnrefExact ==
  ASSUME NEW m \in Mem, NEW s \in [Val -> Nat], NEW x \in Maybe, Cleared(m), Owed(m, s, x)
  PROVE  LET r == Unref(m, x) IN
         /\ r \in Mem /\ r.var = m.var /\ r.ran = m.ran
         /\ Cleared(r) /\ Keeps(m, r) /\ Owed(r, s, None)
<1> DEFINE N == Cardinality(Val)
<1>0. N \in Nat
  BY Constants
<1>1. PICK f \in [0 .. N -> Walk] :
        /\ f[0] = [mem |-> m, next |-> x]
        /\ \A n \in 0 .. N - 1 : f[n + 1] = UnrefNext(f[n])
        /\ Unref(m, x) = f[N].mem
  BY UnrefSteps
<1> HIDE DEF N
<1>2. UnrefInv(m, s, f[0], 0)
  <2>1. f[0] \in Walk /\ f[0].mem = m /\ f[0].next = x
    BY <1>0, <1>1
  <2>2. Keeps(m, m)
    BY DEF Keeps
  <2> QED BY <2>1, <2>2, ZerosFinite DEF UnrefInv
<1>3. UnrefInv(m, s, f[N], N)
  <2> DEFINE T == {n \in 0 .. N : UnrefInv(m, s, f[n], n)}
  <2>1. 0 \in T
    BY <1>0, <1>2
  <2>2. ASSUME NEW n \in 0 .. N - 1, n \in T PROVE n + 1 \in T
    <3>1. n \in Nat /\ n + 1 \in 0 .. N
      BY <1>0
    <3>2. UnrefInv(m, s, UnrefNext(f[n]), n + 1)
      BY <2>2, <3>1, UnrefInvNext
    <3> QED BY <1>1, <3>1, <3>2
  <2>3. \A n \in 0 .. N : n \in T
    <3> HIDE DEF T
    <3> QED BY <1>0, <2>1, <2>2, UpTo
  <2> QED BY <1>0, <2>3
<1>4. f[N].next = None
  <2> SUFFICES ASSUME f[N].next # None PROVE FALSE
    OBVIOUS
  <2> DEFINE y == f[N].next
  <2>1. f[N] \in Walk /\ f[N].mem \in Mem /\ y \in Val
    BY <1>3 DEF UnrefInv, Walk, Maybe
  <2>2. Cardinality(Zeros(f[N].mem)) = Cardinality(Val)
    BY <1>0, <1>3, ZerosFinite DEF UnrefInv, N
  <2>3. f[N].mem.refs[y] = 0
    <3>1. Zeros(f[N].mem) = Val
      BY <2>2, ZerosFinite
    <3> QED BY <2>1, <3>1 DEF Zeros
  <2>4. f[N].mem.refs[y] = s[y] + ContentRefs(f[N].mem.content, y) + 1
    BY <1>3, <2>1 DEF UnrefInv, Owed, Hit
  <2>5. s[y] \in Nat /\ ContentRefs(f[N].mem.content, y) \in Nat
    BY <2>1, CountsAreNat
  <2> QED BY <2>3, <2>4, <2>5
<1> QED BY <1>1, <1>3, <1>4 DEF UnrefInv, Walk

-----------------------------------------------------------------------------
(***************************************************************************)
(* Unwind                                                                  *)
(***************************************************************************)
TargetItems == [kind : {"target"}, target : Target, value : Maybe]

\* What can be on the list.
Item ==
  [kind : {"extent"}] \union [kind : {"func"}, func : Fun]
    \union [kind : {"var"}, var : Var, oldval : Maybe]
    \union [kind : {"unref"}, val : Maybe] \union TargetItems

\* The value that an item has a reference to.
ItemVal(w) ==
  CASE w.kind = "unref" -> w.val
    [] w.kind = "var" -> w.oldval
    [] w.kind = "target" -> w.value
    [] OTHER -> None

\* The references of the first n items of W, and with those of the variables
\* and of whoever else there is.
ItemVals(W) == [i \in 1 .. Len(W) |-> ItemVal(W[i])]
ItemRefs(W, n, x) == Count(1 .. n, ItemVals(W), x)
Owners(W, n, va, e) == [x \in Val |-> ItemRefs(W, n, x) + VarRefs(va, x) + e[x]]

\* What v was bound to by the first i items of W.
Bound(W, va, v, i) ==
  LET later == {j \in i + 1 .. Len(W) : W[j].kind = "var" /\ W[j].var = v} IN
  IF later = {} THEN va[v] ELSE W[Min(later)].oldval

LEMMA ItemCases ==
  ASSUME NEW w \in Item
  PROVE  \/ w = Extent
         \/ w.kind = "func" /\ w.func \in Fun
         \/ w.kind = "var" /\ w.var \in Var /\ w.oldval \in Maybe
         \/ w.kind = "unref" /\ w.val \in Maybe
         \/ w.kind = "target" /\ w.target \in Target /\ w.value \in Maybe
BY DEF Item, TargetItems, Extent

LEMMA ItemValIsMaybe ==
  ASSUME NEW w \in Item
  PROVE  ItemVal(w) \in Maybe
BY ItemCases DEF ItemVal, Extent, Maybe

LEMMA IntervalFinite ==
  ASSUME NEW n \in Nat
  PROVE  IsFiniteSet(1 .. n)
BY FS_Interval

LEMMA ItemRefsIsNat ==
  ASSUME NEW W, NEW n \in Nat, NEW x
  PROVE  ItemRefs(W, n, x) \in Nat
BY IntervalFinite, CountIsNat DEF ItemRefs

LEMMA OwnersAreNat ==
  ASSUME NEW W, NEW n \in Nat, NEW va, NEW e \in [Val -> Nat]
  PROVE  Owners(W, n, va, e) \in [Val -> Nat]
<1>1. ASSUME NEW x \in Val PROVE ItemRefs(W, n, x) + VarRefs(va, x) + e[x] \in Nat
  BY ItemRefsIsNat, CountsAreNat
<1> QED BY <1>1 DEF Owners

\* Counting one more.
LEMMA CountNext ==
  ASSUME NEW n \in Nat, NEW f, NEW x
  PROVE  Count(1 .. n + 1, f, x) = Count(1 .. n, f, x) + Hit(f[n + 1], x)
<1> DEFINE B == {i \in 1 .. n : f[i] = x}
           C == {i \in 1 .. n + 1 : f[i] = x}
<1>1. B \subseteq 1 .. n /\ n + 1 \notin B
  OBVIOUS
<1>2. C = IF f[n + 1] = x THEN B \union {n + 1} ELSE B
  OBVIOUS
<1> HIDE DEF B, C
<1>3. IsFiniteSet(B) /\ Cardinality(B) \in Nat
  BY <1>1, IntervalFinite, FS_Subset, FS_CardinalityType
<1>4. Cardinality(B \union {n + 1}) = Cardinality(B) + 1
  BY <1>1, <1>3, FS_AddElement
<1>5. Cardinality(C) = Cardinality(B) + Hit(f[n + 1], x)
  BY <1>2, <1>3, <1>4 DEF Hit
<1> QED BY <1>5 DEF B, C, Count

LEMMA ItemRefsNext ==
  ASSUME NEW W, NEW n \in Nat, n < Len(W), Len(W) \in Nat, NEW x
  PROVE  ItemRefs(W, n + 1, x) = ItemRefs(W, n, x) + Hit(ItemVal(W[n + 1]), x)
<1>1. ItemVals(W)[n + 1] = ItemVal(W[n + 1])
  BY DEF ItemVals
<1> QED BY <1>1, CountNext DEF ItemRefs

LEMMA MinIs ==
  ASSUME NEW S \in SUBSET Int, NEW x \in S, \A y \in S : x <= y
  PROVE  Min(S) = x
<1> DEFINE a == Min(S)
<1>1. a \in S /\ \A y \in S : a <= y
  BY DEF Min
<1> HIDE DEF a
<1>2. a \in Int /\ x \in Int
  BY <1>1
<1>3. a <= x /\ x <= a
  BY <1>1
<1>4. a = x
  BY <1>2, <1>3
<1> QED BY <1>4 DEF a

LEMMA MaxIs ==
  ASSUME NEW S \in SUBSET Int, NEW x \in S, \A y \in S : x >= y
  PROVE  Max(S) = x
<1> DEFINE a == Max(S)
<1>1. a \in S /\ \A y \in S : a >= y
  BY DEF Max
<1> HIDE DEF a
<1>2. a \in Int /\ x \in Int
  BY <1>1
<1>3. a >= x /\ x >= a
  BY <1>1
<1>4. a = x
  BY <1>2, <1>3
<1> QED BY <1>4 DEF a

LEMMA BoundNext ==
  ASSUME NEW W, NEW n \in Nat, Len(W) \in Nat, n < Len(W), NEW va, NEW v
  PROVE  Bound(W, va, v, n) = IF W[n + 1].kind = "var" /\ W[n + 1].var = v
                              THEN W[n + 1].oldval ELSE Bound(W, va, v, n + 1)
<1> DEFINE L(i) == {j \in i + 1 .. Len(W) : W[j].kind = "var" /\ W[j].var = v}
<1>1. CASE W[n + 1].kind = "var" /\ W[n + 1].var = v
  <2>1. n + 1 \in L(n) /\ L(n) \in SUBSET Int /\ \A y \in L(n) : n + 1 <= y
    BY <1>1
  <2>2. Min(L(n)) = n + 1 /\ L(n) # {}
    <3> HIDE DEF L
    <3> QED BY <2>1, MinIs
  <2>3. Bound(W, va, v, n) = W[n + 1].oldval
    BY <2>2 DEF Bound
  <2> QED BY <1>1, <2>3
<1>2. CASE ~(W[n + 1].kind = "var" /\ W[n + 1].var = v)
  <2>1. L(n) = L(n + 1)
    BY <1>2
  <2>2. Bound(W, va, v, n) = Bound(W, va, v, n + 1)
    BY <2>1 DEF Bound
  <2> QED BY <1>2, <2>2
<1> QED BY <1>1, <1>2

LEMMA BoundByAll ==
  ASSUME NEW W, Len(W) \in Nat, NEW va, NEW v
  PROVE  Bound(W, va, v, Len(W)) = At(va, v)
BY DEF Bound, At

LEMMA UnrefInMem ==
  ASSUME NEW m \in Mem, NEW x \in Maybe
  PROVE  Unref(m, x) \in Mem
<1>1. PICK f \in [0 .. Cardinality(Val) -> Walk] :
        /\ f[0] = [mem |-> m, next |-> x]
        /\ \A n \in 0 .. Cardinality(Val) - 1 : f[n + 1] = UnrefNext(f[n])
        /\ Unref(m, x) = f[Cardinality(Val)].mem
  BY UnrefSteps
<1>2. Cardinality(Val) \in 0 .. Cardinality(Val)
  BY Constants
<1>3. f[Cardinality(Val)] \in Walk
  BY <1>1, <1>2
<1> QED BY <1>1, <1>3 DEF Walk

\* What undoing an item does to the variables and to what has run.
VarAfter(va, w) == IF w.kind = "var" THEN [va EXCEPT ![w.var] = w.oldval] ELSE va
RanAfter(r, w, for_throw) == IF w.kind = "func" THEN Append(r, <<w.func, for_throw>>) ELSE r

LEMMA UndoInMem ==
  ASSUME NEW m \in Mem, NEW w \in Item, NEW for_throw \in BOOLEAN
  PROVE  Undo(m, w, for_throw) \in Mem
<1>1. CASE w = Extent
  <2>1. w.kind = "extent"
    BY <1>1 DEF Extent
  <2> QED BY <2>1 DEF Undo
<1>2. CASE w.kind = "func" /\ w.func \in Fun
  <2>1. Undo(m, w, for_throw) = [m EXCEPT !.ran = Append(@, <<w.func, for_throw>>)]
    BY <1>2 DEF Undo
  <2>2. Append(m.ran, <<w.func, for_throw>>) \in Seq(Fun \X BOOLEAN)
    BY <1>2 DEF Mem
  <2> QED BY <2>1, <2>2 DEF Mem
<1>3. CASE w.kind = "var" /\ w.var \in Var /\ w.oldval \in Maybe
  <2> DEFINE r == Unref(m, m.var[w.var])
  <2>1. r \in Mem
    BY <1>3, MemParts, UnrefInMem
  <2>2. Undo(m, w, for_throw) = [r EXCEPT !.var[w.var] = w.oldval]
    BY <1>3 DEF Undo
  <2> HIDE DEF r
  <2>3. [r.var EXCEPT ![w.var] = w.oldval] \in [Var -> Maybe]
    BY <1>3, <2>1, MemParts
  <2> QED BY <2>1, <2>2, <2>3 DEF Mem
<1>4. CASE w.kind = "unref" /\ w.val \in Maybe
  BY <1>4, UnrefInMem DEF Undo
<1>5. CASE w.kind = "target" /\ w.target \in Target /\ w.value \in Maybe
  BY <1>5, UnrefInMem DEF Undo
<1> QED BY <1>1, <1>2, <1>3, <1>4, <1>5, ItemCases

\* The counts are those of the first n items of W, of the variables, and e.
Counted(m, W, n, e) == Cleared(m) /\ Owed(m, Owners(W, n, m.var, e), None)

LEMMA KeepsAgain ==
  ASSUME NEW m, NEW n, NEW p, Keeps(m, n), Keeps(n, p)
  PROVE  Keeps(m, p)
BY DEF Keeps

LEMMA UndoExact ==
  ASSUME NEW W \in Seq(Item), NEW n \in Nat, n < Len(W), NEW m \in Mem, NEW e \in [Val -> Nat],
         NEW for_throw \in BOOLEAN, Counted(m, W, n + 1, e),
         NEW w, w = W[n + 1]
  PROVE  LET r == Undo(m, w, for_throw) IN
         /\ r \in Mem /\ Counted(r, W, n, e) /\ Keeps(m, r)
         /\ r.var = VarAfter(m.var, w)
         /\ r.ran = RanAfter(m.ran, w, for_throw)
<1>1. w \in Item /\ Len(W) \in Nat
  OBVIOUS
<1>2. \A x \in Val : Owners(W, n + 1, m.var, e)[x] = Owners(W, n, m.var, e)[x] + Hit(ItemVal(w), x)
  <2> SUFFICES ASSUME NEW x \in Val
               PROVE  Owners(W, n + 1, m.var, e)[x] = Owners(W, n, m.var, e)[x] + Hit(ItemVal(w), x)
    OBVIOUS
  <2>1. ItemRefs(W, n + 1, x) = ItemRefs(W, n, x) + Hit(ItemVal(w), x)
    BY <1>1, ItemRefsNext
  <2>2. ItemRefs(W, n, x) \in Nat /\ VarRefs(m.var, x) \in Nat /\ e[x] \in Nat /\ Hit(ItemVal(w), x) \in Nat
    BY ItemRefsIsNat, CountsAreNat DEF Hit
  <2> QED BY <2>1, <2>2 DEF Owners
<1> DEFINE s == Owners(W, n, m.var, e)
<1>3. s \in [Val -> Nat]
  BY OwnersAreNat
<1>4. Owed(m, s, ItemVal(w)) /\ Cleared(m)
  <2> SUFFICES ASSUME NEW z \in Val
               PROVE  m.refs[z] = s[z] + ContentRefs(m.content, z) + Hit(ItemVal(w), z)
    BY DEF Owed, Counted
  <2>1. m.refs[z] = Owners(W, n + 1, m.var, e)[z] + ContentRefs(m.content, z) + Hit(None, z)
    BY DEF Counted, Owed
  <2>2. Hit(None, z) = 0 /\ Hit(ItemVal(w), z) \in Nat
    BY Constants DEF Hit
  <2>3. Owners(W, n + 1, m.var, e)[z] = s[z] + Hit(ItemVal(w), z)
    BY <1>2
  <2>4. s[z] \in Nat /\ ContentRefs(m.content, z) \in Nat
    BY <1>3, CountsAreNat
  <2> HIDE DEF s
  <2> QED BY <2>1, <2>2, <2>3, <2>4
<1> HIDE DEF s
<1>5. CASE ItemVal(w) = None /\ w.kind \in {"extent", "func"}
  <2> DEFINE r == Undo(m, w, for_throw)
  <2>1. r.refs = m.refs /\ r.content = m.content /\ r.var = m.var /\ r.ran = RanAfter(m.ran, w, for_throw)
    BY <1>5, MemParts DEF Undo, RanAfter
  <2>2. r \in Mem
    BY <1>1, UndoInMem
  <2> HIDE DEF r
  <2>3. Keeps(m, r)
    BY <2>1 DEF Keeps
  <2>4. Counted(r, W, n, e)
    BY <1>4, <1>5, <2>1 DEF Counted, Owed, Cleared, s
  <2> QED BY <1>5, <2>1, <2>2, <2>3, <2>4 DEF VarAfter, r
<1>6. CASE w.kind \in {"unref", "target"}
  <2> DEFINE r == Unref(m, ItemVal(w))
  <2>1. Undo(m, w, for_throw) = r
    BY <1>6 DEF Undo, ItemVal
  <2>2. r \in Mem /\ r.var = m.var /\ r.ran = m.ran /\ Cleared(r) /\ Keeps(m, r) /\ Owed(r, s, None)
    BY <1>1, <1>3, <1>4, ItemValIsMaybe, UnrefExact
  <2> HIDE DEF r
  <2> QED BY <1>6, <2>1, <2>2 DEF VarAfter, RanAfter, Counted, s
<1>7. CASE w.kind = "var" /\ w.var \in Var /\ w.oldval \in Maybe
  <2> DEFINE v == w.var
             x == m.var[v]
             t == [z \in Val |-> s[z] + Hit(ItemVal(w), z) - Hit(x, z)]
             r == Unref(m, x)
             u == [r EXCEPT !.var[v] = w.oldval]
             va == [m.var EXCEPT ![v] = w.oldval]
  <2>1. Undo(m, w, for_throw) = u
    BY <1>7 DEF Undo
  <2>2. x \in Maybe /\ m.var \in [Var -> Maybe] /\ ItemVal(w) = w.oldval
    BY <1>7, MemParts DEF ItemVal
  <2> HIDE DEF x
  <2>3. \A z \in Val : t[z] \in Nat /\ t[z] = Owners(W, n, va, e)[z]
    <3> SUFFICES ASSUME NEW z \in Val PROVE t[z] \in Nat /\ t[z] = Owners(W, n, va, e)[z]
      OBVIOUS
    <3>1. VarRefs(va, z) + Hit(m.var[v], z) = VarRefs(m.var, z) + Hit(w.oldval, z)
      BY <1>7, <2>2, VarRefsAfter
    <3>3. /\ VarRefs(va, z) \in Nat /\ VarRefs(m.var, z) \in Nat /\ ItemRefs(W, n, z) \in Nat /\ e[z] \in Nat
          /\ Hit(m.var[v], z) \in Nat /\ Hit(w.oldval, z) \in Nat
      BY CountsAreNat, ItemRefsIsNat DEF Hit
    <3>4. s[z] = ItemRefs(W, n, z) + VarRefs(m.var, z) + e[z]
      BY DEF s, Owners
    <3>5. Owners(W, n, va, e)[z] = ItemRefs(W, n, z) + VarRefs(va, z) + e[z]
      BY DEF Owners
    <3>6. t[z] = s[z] + Hit(w.oldval, z) - Hit(m.var[v], z)
      BY <2>2 DEF x
    <3> HIDE DEF t, va, v
    <3>7. VarRefs(va, z) = VarRefs(m.var, z) + Hit(w.oldval, z) - Hit(m.var[v], z)
      BY <3>1, <3>3
    <3> QED BY <3>3, <3>4, <3>5, <3>6, <3>7
  <2>4. t \in [Val -> Nat]
    BY <2>3
  <2>5. Owed(m, t, x)
    <3> SUFFICES ASSUME NEW z \in Val
                 PROVE  m.refs[z] = t[z] + ContentRefs(m.content, z) + Hit(x, z)
      BY DEF Owed
    <3>1. m.refs[z] = s[z] + ContentRefs(m.content, z) + Hit(ItemVal(w), z)
      BY <1>4 DEF Owed
    <3>2. t[z] = s[z] + Hit(ItemVal(w), z) - Hit(x, z)
      OBVIOUS
    <3>3. Hit(x, z) \in Nat /\ Hit(ItemVal(w), z) \in Nat /\ s[z] \in Nat /\ ContentRefs(m.content, z) \in Nat
      BY <1>3, CountsAreNat DEF Hit
    <3> HIDE DEF t
    <3> QED BY <3>1, <3>2, <3>3
  <2> HIDE DEF t
  <2>6. r \in Mem /\ r.var = m.var /\ r.ran = m.ran /\ Cleared(r) /\ Keeps(m, r) /\ Owed(r, t, None)
    BY <1>4, <2>2, <2>4, <2>5, UnrefExact
  <2> HIDE DEF r
  <2>7. u \in Mem /\ u.var = va /\ u.ran = m.ran /\ u.refs = r.refs /\ u.content = r.content
    BY <1>7, <2>6 DEF Mem
  <2> HIDE DEF u, va
  <2>8. Cleared(u) /\ Keeps(m, u)
    BY <2>6, <2>7 DEF Cleared, Keeps
  <2>9. Owed(u, Owners(W, n, va, e), None)
    BY <2>3, <2>6, <2>7 DEF Owed
  <2> QED BY <1>7, <2>1, <2>7, <2>8, <2>9 DEF VarAfter, RanAfter, Counted, va
<1>8. \/ ItemVal(w) = None /\ w.kind \in {"extent", "func"}
      \/ w.kind \in {"unref", "target"}
      \/ w.kind = "var" /\ w.var \in Var /\ w.oldval \in Maybe
  BY <1>1, ItemCases DEF ItemVal, Extent
<1> QED BY <1>5, <1>6, <1>7, <1>8

\* What Unwind computes, item by item.
LEMMA UnwindSteps ==
  ASSUME NEW m \in Mem, windlist \in Seq(Item), NEW goal \in 0 .. Len(windlist), NEW for_throw \in BOOLEAN
  PROVE  \E f \in [0 .. Len(windlist) - goal -> Mem] :
           /\ f[0] = m
           /\ \A n \in 0 .. Len(windlist) - goal - 1 :
                f[n + 1] = Undo(f[n], windlist[Len(windlist) - n], for_throw)
           /\ Unwind(m, goal, for_throw) = f[Len(windlist) - goal]
<1> DEFINE L == Len(windlist)
           N == L - goal
           item(n) == windlist[L - n]
           G == [n \in Nat |-> [a \in Mem |-> IF n < N THEN Undo(a, item(n), for_throw) ELSE a]]
           Eq(g) == g = [i \in goal .. L |-> IF i = L THEN m ELSE Undo(g[i + 1], windlist[i + 1], for_throw)]
<1>1. L \in Nat /\ N \in Nat /\ goal \in Nat /\ goal = L - N
  OBVIOUS
<1>2. \A n \in 0 .. N - 1 : item(n) \in Item /\ L - n - 1 \in goal .. L /\ L - (n + 1) \in goal .. L /\ n \in Nat /\ n < N
  <2> SUFFICES ASSUME NEW n \in 0 .. N - 1
               PROVE  item(n) \in Item /\ L - n - 1 \in goal .. L /\ L - (n + 1) \in goal .. L /\ n \in Nat /\ n < N
    OBVIOUS
  <2>1. L - n \in 1 .. Len(windlist)
    OBVIOUS
  <2>2. item(n) \in Item
    BY <2>1
  <2> QED BY <2>2
<1> HIDE DEF L, N
<1>3. G \in Steps(Mem)
  <2>1. ASSUME NEW n \in Nat, NEW a \in Mem
        PROVE  (IF n < N THEN Undo(a, item(n), for_throw) ELSE a) \in Mem
    <3>1. CASE n < N
      <4>1. n \in 0 .. N - 1
        BY <1>1, <3>1
      <4> QED BY <1>2, <3>1, <4>1, UndoInMem
    <3> QED BY <3>1
  <2> HIDE DEF item
  <2> QED BY <2>1 DEF Steps
<1>4. PICK f : Iterates(f, N, Mem, G, m)
  <2> HIDE DEF G
  <2> QED BY <1>1, <1>3, Recursion
<1>5. /\ f \in [0 .. N -> Mem] /\ f[0] = m
      /\ \A n \in 0 .. N - 1 : f[n + 1] = Undo(f[n], item(n), for_throw)
  <2>1. f \in [0 .. N -> Mem] /\ f[0] = m /\ \A n \in 0 .. N - 1 : f[n + 1] = G[n][f[n]]
    BY <1>4 DEF Iterates
  <2>2. ASSUME NEW n \in 0 .. N - 1 PROVE f[n + 1] = Undo(f[n], item(n), for_throw)
    <3>1. n \in Nat /\ n < N /\ f[n] \in Mem
      BY <1>1, <2>1
    <3>2. G[n][f[n]] = Undo(f[n], item(n), for_throw)
      BY <3>1
    <3> QED BY <2>1, <3>2
  <2> QED BY <2>1, <2>2
<1> DEFINE g0 == [i \in goal .. L |-> f[L - i]]
<1>6. Eq(g0)
  <2>1. ASSUME NEW i \in goal .. L
        PROVE  f[L - i] = IF i = L THEN m ELSE Undo(g0[i + 1], windlist[i + 1], for_throw)
    <3>1. CASE i = L
      BY <1>1, <1>5, <3>1
    <3>2. CASE i # L
      <4> DEFINE n == L - i - 1
      <4>1. n \in 0 .. N - 1 /\ n + 1 = L - i /\ i + 1 \in goal .. L /\ L - (i + 1) = n /\ L - n = i + 1
        BY <1>1, <3>2
      <4>2. g0[i + 1] = f[n] /\ item(n) = windlist[i + 1]
        BY <4>1
      <4> HIDE DEF n, item
      <4>3. f[n + 1] = Undo(f[n], item(n), for_throw)
        BY <1>5, <4>1
      <4> QED BY <3>2, <4>1, <4>2, <4>3
    <3> QED BY <3>1, <3>2
  <2> DEFINE rhs(i) == IF i = L THEN m ELSE Undo(g0[i + 1], windlist[i + 1], for_throw)
  <2>2. \A i \in goal .. L : f[L - i] = rhs(i)
    BY <2>1
  <2>3. g0 = [i \in goal .. L |-> rhs(i)]
    <3> HIDE DEF rhs
    <3> QED BY <2>2
  <2> QED BY <2>3
<1> DEFINE h == CHOOSE g : Eq(g)
<1>7. Eq(h)
  <2> HIDE DEF g0
  <2> QED BY <1>6
<1>8. \A i \in goal .. L : h[i] = IF i = L THEN m ELSE Undo(h[i + 1], windlist[i + 1], for_throw)
  <2> HIDE DEF h
  <2> QED BY <1>7
<1>9. \A n \in 0 .. N : h[L - n] = f[n]
  <2> HIDE DEF h
  <2> DEFINE T == {n \in 0 .. N : h[L - n] = f[n]}
  <2>1. 0 \in T
    <3>1. L \in goal .. L /\ L - 0 = L
      BY <1>1
    <3> QED BY <1>1, <1>5, <1>8, <3>1
  <2>2. ASSUME NEW n \in 0 .. N - 1, n \in T PROVE n + 1 \in T
    <3> DEFINE i == L - (n + 1)
    <3>1. i \in goal .. L /\ i # L /\ i + 1 = L - n /\ n + 1 \in 0 .. N
      BY <1>1
    <3>2. h[i] = Undo(h[i + 1], windlist[i + 1], for_throw)
      <4> HIDE DEF i
      <4> QED BY <1>8, <3>1
    <3>3. h[i] = f[n + 1]
      BY <1>5, <2>2, <3>1, <3>2
    <3> QED BY <3>1, <3>3
  <2>3. \A n \in 0 .. N : n \in T
    <3> HIDE DEF T
    <3> QED BY <1>1, <2>1, <2>2, UpTo
  <2> QED BY <2>3
<1>10. Unwind(m, goal, for_throw) = h[goal]
  BY DEF Unwind, L
<1>11. h[goal] = f[N]
  <2> HIDE DEF h
  <2>1. N \in 0 .. N /\ L - N = goal
    BY <1>1
  <2> QED BY <1>9, <2>1
<1> HIDE DEF h
<1> QED BY <1>5, <1>10, <1>11 DEF L, N

\* What Unwind leaves behind: exact counts for the items that are left, and for
\* whoever else has references; values that have owners keep what they have;
\* variables are bound to what they were bound to when the items were added.
LEMMA UnwindExact ==
  ASSUME NEW m \in Mem, windlist \in Seq(Item), NEW goal \in 0 .. Len(windlist), NEW for_throw \in BOOLEAN,
         NEW e \in [Val -> Nat], Counted(m, windlist, Len(windlist), e)
  PROVE  LET r == Unwind(m, goal, for_throw) IN
         /\ r \in Mem /\ Counted(r, windlist, goal, e) /\ Keeps(m, r)
         /\ \A v \in Var : r.var[v] = Bound(windlist, m.var, v, goal)
<1> DEFINE L == Len(windlist)
           N == L - goal
<1>1. PICK f \in [0 .. N -> Mem] :
        /\ f[0] = m
        /\ \A n \in 0 .. N - 1 : f[n + 1] = Undo(f[n], windlist[L - n], for_throw)
        /\ Unwind(m, goal, for_throw) = f[N]
  BY UnwindSteps
<1>2. L \in Nat /\ N \in Nat /\ goal = L - N /\ N \in 0 .. N /\ N <= L
  OBVIOUS
<1> DEFINE Good(n) == /\ Counted(f[n], windlist, L - n, e) /\ Keeps(m, f[n])
                      /\ \A v \in Var : f[n].var[v] = Bound(windlist, m.var, v, L - n)
           T == {n \in 0 .. N : Good(n)}
<1> HIDE DEF L, N
<1>3. 0 \in T
  <2>1. 0 \in 0 .. N /\ L - 0 = L
    BY <1>2
  <2>2. Keeps(m, m)
    BY DEF Keeps
  <2>3. \A v \in Var : Bound(windlist, m.var, v, L) = m.var[v]
    BY <1>2, BoundByAll DEF L, At
  <2> QED BY <1>1, <2>1, <2>2, <2>3 DEF L
<1>4. ASSUME NEW n \in 0 .. N - 1, n \in T PROVE n + 1 \in T
  <2> DEFINE k == L - n - 1
             w == windlist[L - n]
  <2>1. /\ k \in Nat /\ k < L /\ k + 1 = L - n /\ L - (n + 1) = k /\ n + 1 \in 0 .. N /\ n \in 0 .. N
        /\ f[n] \in Mem /\ w = windlist[k + 1] /\ k + 1 \in 1 .. L
    BY <1>2, <1>1
  <2> HIDE DEF k
  <2>2. w \in Item
    BY <2>1 DEF L
  <2> HIDE DEF w
  <2>3. Counted(f[n], windlist, k + 1, e) /\ Keeps(m, f[n])
    BY <1>4, <2>1
  <2> DEFINE a == f[n]
             b == Undo(a, w, for_throw)
  <2>4. f[n + 1] = b
    BY <1>1 DEF w
  <2>5. /\ b \in Mem /\ Counted(b, windlist, k, e) /\ Keeps(a, b)
        /\ b.var = VarAfter(a.var, w)
    <3> DEFINE c == b
    <3>1. a \in Mem /\ Counted(a, windlist, k + 1, e) /\ k < Len(windlist)
      BY <2>1, <2>3 DEF L
    <3> HIDE DEF a
    <3> QED BY <2>1, <3>1, UndoExact
  <2>6. Keeps(m, b)
    <3> HIDE DEF b
    <3> QED BY <2>3, <2>5, KeepsAgain
  <2> HIDE DEF b
  <2>7. ASSUME NEW v \in Var PROVE b.var[v] = Bound(windlist, m.var, v, k)
    <3>1. a.var[v] = Bound(windlist, m.var, v, k + 1) /\ a.var \in [Var -> Maybe]
      BY <1>4, <2>1, MemParts
    <3>2. Bound(windlist, m.var, v, k) = IF w.kind = "var" /\ w.var = v THEN w.oldval
                                          ELSE Bound(windlist, m.var, v, k + 1)
      BY <1>2, <2>1, BoundNext DEF L
    <3>3. CASE w.kind = "var"
      <4>1. b.var = [a.var EXCEPT ![w.var] = w.oldval]
        BY <2>5, <3>3 DEF VarAfter
      <4> HIDE DEF a
      <4> QED BY <3>1, <3>2, <3>3, <4>1
    <3>4. CASE w.kind # "var"
      BY <2>5, <3>1, <3>2, <3>4 DEF VarAfter
    <3> QED BY <3>3, <3>4
  <2>8. Good(n + 1)
    <3> HIDE DEF a
    <3> QED BY <2>1, <2>4, <2>5, <2>6, <2>7
  <2> QED BY <2>1, <2>8
<1>5. N \in T
  <2>1. \A n \in 0 .. N : n \in T
    <3> HIDE DEF T
    <3> QED BY <1>2, <1>3, <1>4, UpTo
  <2> QED BY <1>2, <2>1
<1>6. f[N] \in Mem
  BY <1>1, <1>2
<1> QED BY <1>1, <1>2, <1>5, <1>6

-----------------------------------------------------------------------------
(***************************************************************************)
(* References come and go                                                  *)
(***************************************************************************)
\* One more reference to x, by somebody who is not on the list yet.
Extra(x) == [z \in Val |-> Hit(x, z)]

LEMMA ExtraIsNat == \A x : Extra(x) \in [Val -> Nat]
BY DEF Extra, Hit

\* The counts only look at the items up to the n-th, and at their values.
LEMMA ItemRefsSame ==
  ASSUME NEW V, NEW W, NEW n \in Nat, Len(V) \in Nat, Len(W) \in Nat, n <= Len(V), n <= Len(W),
         \A i \in 1 .. n : ItemVal(V[i]) = ItemVal(W[i]), NEW x
  PROVE  ItemRefs(V, n, x) = ItemRefs(W, n, x)
<1>1. \A i \in 1 .. n : ItemVals(V)[i] = ItemVals(W)[i]
  BY DEF ItemVals
<1>2. {i \in 1 .. n : ItemVals(V)[i] = x} = {i \in 1 .. n : ItemVals(W)[i] = x}
  BY <1>1
<1> QED BY <1>2 DEF ItemRefs, Count

LEMMA CountedSame ==
  ASSUME NEW V, NEW W, NEW n \in Nat, Len(V) \in Nat, Len(W) \in Nat, n <= Len(V), n <= Len(W),
         \A i \in 1 .. n : ItemVal(V[i]) = ItemVal(W[i]), NEW m, NEW e, Counted(m, W, n, e)
  PROVE  Counted(m, V, n, e)
<1>1. \A x : ItemRefs(V, n, x) = ItemRefs(W, n, x)
  BY ItemRefsSame
<1>2. Owners(V, n, m.var, e) = Owners(W, n, m.var, e)
  BY <1>1 DEF Owners
<1> QED BY <1>2 DEF Counted

\* An item takes over a reference.
LEMMA TakeOver ==
  ASSUME NEW W, NEW n \in Nat, Len(W) \in Nat, n < Len(W), NEW m, NEW e \in [Val -> Nat], NEW f \in [Val -> Nat],
         \A z \in Val : e[z] = f[z] + Hit(ItemVal(W[n + 1]), z), Counted(m, W, n, e)
  PROVE  Counted(m, W, n + 1, f)
<1> SUFFICES ASSUME NEW z \in Val
             PROVE  m.refs[z] = Owners(W, n + 1, m.var, f)[z] + ContentRefs(m.content, z) + Hit(None, z)
  BY DEF Counted, Owed
<1>1. m.refs[z] = Owners(W, n, m.var, e)[z] + ContentRefs(m.content, z) + Hit(None, z)
  BY DEF Counted, Owed
<1>2. Owners(W, n, m.var, e)[z] = ItemRefs(W, n, z) + VarRefs(m.var, z) + e[z]
  BY DEF Owners
<1>3. Owners(W, n + 1, m.var, f)[z] = ItemRefs(W, n + 1, z) + VarRefs(m.var, z) + f[z]
  BY DEF Owners
<1>4. ItemRefs(W, n + 1, z) = ItemRefs(W, n, z) + Hit(ItemVal(W[n + 1]), z)
  BY ItemRefsNext
<1>5. e[z] = f[z] + Hit(ItemVal(W[n + 1]), z)
  OBVIOUS
<1>6. /\ ItemRefs(W, n, z) \in Nat /\ VarRefs(m.var, z) \in Nat /\ f[z] \in Nat
      /\ Hit(ItemVal(W[n + 1]), z) \in Nat
  BY ItemRefsIsNat, CountsAreNat DEF Hit
<1>7. Owners(W, n + 1, m.var, f)[z] = Owners(W, n, m.var, e)[z]
  BY <1>2, <1>3, <1>4, <1>5, <1>6
<1> QED BY <1>1, <1>7

LEMMA AddOwner ==
  ASSUME NEW W \in Seq(Item), NEW w \in Item, NEW m, NEW e \in [Val -> Nat], NEW f \in [Val -> Nat],
         \A z \in Val : e[z] = f[z] + Hit(ItemVal(w), z), Counted(m, W, Len(W), e)
  PROVE  Counted(m, Append(W, w), Len(W) + 1, f)
<1> DEFINE V == Append(W, w)
           n == Len(W)
<1>1. n \in Nat /\ Len(V) = n + 1 /\ V[n + 1] = w /\ \A i \in 1 .. n : V[i] = W[i]
  OBVIOUS
<1> HIDE DEF V
<1>2. Counted(m, V, n, e)
  <2>1. \A i \in 1 .. n : ItemVal(V[i]) = ItemVal(W[i])
    BY <1>1
  <2> QED BY <1>1, <2>1, CountedSame
<1> HIDE DEF n
<1>3. Counted(m, V, n + 1, f)
  BY <1>1, <1>2, TakeOver
<1> QED BY <1>3 DEF V, n

LEMMA AddItem ==
  ASSUME NEW W \in Seq(Item), NEW w \in Item, NEW m, Counted(m, W, Len(W), Extra(ItemVal(w)))
  PROVE  Counted(m, Append(W, w), Len(W) + 1, Extra(None))
<1>1. \A z \in Val : Extra(ItemVal(w))[z] = Extra(None)[z] + Hit(ItemVal(w), z)
  BY Constants DEF Extra, Hit
<1> QED BY <1>1, AddOwner, ExtraIsNat

LEMMA RefExact ==
  ASSUME NEW m \in Mem, NEW x \in Maybe, x # None => m.refs[x] > 0
  PROVE  LET r == Ref(m, x) IN
         /\ r \in Mem /\ r.content = m.content /\ r.var = m.var /\ r.ran = m.ran
         /\ \A z \in Val : r.refs[z] = m.refs[z] + Hit(x, z)
<1> DEFINE r == Ref(m, x)
<1>1. CASE x = None
  <2>1. r = m /\ \A z \in Val : Hit(x, z) = 0 /\ m.refs[z] \in Nat
    BY <1>1, Constants, MemParts DEF Ref, Hit
  <2> QED BY <2>1
<1>2. CASE x # None
  <2>1. x \in Val /\ m.refs[x] \in Nat /\ m.refs[x] # 0
    BY <1>2, MemParts DEF Maybe
  <2>2. r = [m EXCEPT !.refs[x] = m.refs[x] + 1]
    BY <1>2, <2>1 DEF Ref
  <2> HIDE DEF r
  <2>3. [m.refs EXCEPT ![x] = m.refs[x] + 1] \in [Val -> Nat]
    BY <2>1, MemParts
  <2>4. /\ r \in Mem /\ r.content = m.content /\ r.var = m.var /\ r.ran = m.ran
        /\ r.refs = [m.refs EXCEPT ![x] = m.refs[x] + 1]
    BY <2>2, <2>3 DEF Mem
  <2>5. ASSUME NEW z \in Val PROVE r.refs[z] = m.refs[z] + Hit(x, z)
    <3>1. m.refs \in [Val -> Nat] /\ m.refs[z] \in Nat
      BY MemParts
    <3> QED BY <2>1, <2>4, <3>1 DEF Hit
  <2> QED BY <2>4, <2>5 DEF r
<1> QED BY <1>1, <1>2

\* Ref gives a reference to somebody.
LEMMA RefCounted ==
  ASSUME NEW m \in Mem, NEW x \in Maybe, x # None => m.refs[x] > 0,
         NEW W, NEW n \in Nat, Counted(m, W, n, Extra(None))
  PROVE  LET r == Ref(m, x) IN
         /\ r \in Mem /\ r.content = m.content /\ r.var = m.var /\ r.ran = m.ran
         /\ Counted(r, W, n, Extra(x)) /\ Keeps(m, r)
         /\ \A z \in Val : m.refs[z] > 0 => r.refs[z] > 0
<1> DEFINE r == Ref(m, x)
<1>1. /\ r \in Mem /\ r.content = m.content /\ r.var = m.var /\ r.ran = m.ran
      /\ \A z \in Val : r.refs[z] = m.refs[z] + Hit(x, z)
  BY RefExact
<1> HIDE DEF r
<1>2. \A z \in Val : m.refs[z] \in Nat /\ r.refs[z] \in Nat /\ Hit(x, z) \in Nat
  BY <1>1, MemParts DEF Hit
<1>3. \A z \in Val : r.refs[z] > 0 <=> m.refs[z] > 0
  <2> SUFFICES ASSUME NEW z \in Val PROVE r.refs[z] > 0 <=> m.refs[z] > 0
    OBVIOUS
  <2>1. CASE z = x
    <3>1. x # None /\ Hit(x, z) = 1 /\ m.refs[z] > 0
      BY <2>1, Constants DEF Hit
    <3> QED BY <1>1, <1>2, <3>1
  <2>2. CASE z # x
    <3>1. Hit(x, z) = 0
      BY <2>2 DEF Hit
    <3> QED BY <1>1, <1>2, <3>1
  <2> QED BY <2>1, <2>2
<1>4. Cleared(r) /\ Keeps(m, r)
  BY <1>1, <1>2, <1>3 DEF Cleared, Keeps, Counted
<1>5. Owed(r, Owners(W, n, r.var, Extra(x)), None)
  <2> SUFFICES ASSUME NEW z \in Val
               PROVE  r.refs[z] = Owners(W, n, r.var, Extra(x))[z] + ContentRefs(r.content, z) + Hit(None, z)
    BY DEF Owed
  <2>1. m.refs[z] = Owners(W, n, m.var, Extra(None))[z] + ContentRefs(m.content, z) + Hit(None, z)
    BY DEF Counted, Owed
  <2>2. Hit(None, z) = 0
    BY Constants DEF Hit
  <2>3. /\ Owners(W, n, m.var, Extra(None))[z] = ItemRefs(W, n, z) + VarRefs(m.var, z) + Hit(None, z)
        /\ Owners(W, n, m.var, Extra(x))[z] = ItemRefs(W, n, z) + VarRefs(m.var, z) + Hit(x, z)
    BY DEF Owners, Extra
  <2>4. /\ ItemRefs(W, n, z) \in Nat /\ VarRefs(m.var, z) \in Nat /\ ContentRefs(m.content, z) \in Nat
        /\ Hit(x, z) \in Nat
    BY ItemRefsIsNat, CountsAreNat DEF Hit
  <2>5. r.refs[z] = m.refs[z] + Hit(x, z) /\ r.var = m.var /\ r.content = m.content
    BY <1>1
  <2>6. Owners(W, n, m.var, Extra(x))[z] = Owners(W, n, m.var, Extra(None))[z] + Hit(x, z)
    BY <2>2, <2>3, <2>4
  <2>7. Owners(W, n, m.var, Extra(None))[z] \in Nat
    BY <2>2, <2>3, <2>4
  <2> QED BY <2>1, <2>2, <2>4, <2>5, <2>6, <2>7
<1> QED BY <1>1, <1>3, <1>4, <1>5 DEF Counted, r

\* dyn_let without its item, and dyn_set once the new value is referenced.
Bind(m, v, x) == [m EXCEPT !.var[v] = x]
Rebind(m, v, x) == [Unref(m, m.var[v]) EXCEPT !.var[v] = x]

\* A variable takes over a reference, and somebody gets the one it had.
LEMMA OwnersAfter ==
  ASSUME NEW W, NEW n \in Nat, NEW va, NEW v \in Var, NEW vb, \A y \in Var \ {v} : vb[y] = va[y],
         NEW old, NEW new, old = At(va, v), new = At(vb, v)
  PROVE  Owners(W, n, va, Extra(new)) = Owners(W, n, vb, Extra(old))
<1> SUFFICES ASSUME NEW z \in Val
             PROVE  ItemRefs(W, n, z) + VarRefs(va, z) + Extra(new)[z]
                        = ItemRefs(W, n, z) + VarRefs(vb, z) + Extra(old)[z]
  BY DEF Owners
<1>1. Extra(new)[z] = Hit(new, z) /\ Extra(old)[z] = Hit(old, z)
  BY DEF Extra
<1>2. VarRefs(vb, z) + Hit(old, z) = VarRefs(va, z) + Hit(new, z)
  BY VarRecount
<1>3. /\ ItemRefs(W, n, z) \in Nat /\ VarRefs(va, z) \in Nat /\ VarRefs(vb, z) \in Nat
      /\ Hit(new, z) \in Nat /\ Hit(old, z) \in Nat
  BY ItemRefsIsNat, CountsAreNat DEF Hit
<1> QED BY <1>1, <1>2, <1>3

LEMMA BindCounted ==
  ASSUME NEW m \in Mem, NEW v \in Var, NEW x \in Maybe,
         NEW W, NEW n \in Nat, Counted(m, W, n, Extra(x))
  PROVE  LET r == Bind(m, v, x) IN
         /\ r \in Mem /\ r.content = m.content /\ r.refs = m.refs /\ r.ran = m.ran
         /\ r.var = [m.var EXCEPT ![v] = x]
         /\ Counted(r, W, n, Extra(At(m.var, v)))
<1> DEFINE r == Bind(m, v, x)
<1>1. [m.var EXCEPT ![v] = x] \in [Var -> Maybe]
  BY MemParts
<1>2. /\ r \in Mem /\ r.content = m.content /\ r.refs = m.refs /\ r.ran = m.ran
      /\ r.var = [m.var EXCEPT ![v] = x]
  BY <1>1 DEF Mem, Bind
<1> HIDE DEF r
<1>3. Cleared(r)
  BY <1>2 DEF Cleared, Counted
<1>4. Owners(W, n, m.var, Extra(x)) = Owners(W, n, r.var, Extra(At(m.var, v)))
  <2> DEFINE va == m.var
             vb == r.var
             old == At(m.var, v)
  <2>1. old = At(va, v) /\ x = At(vb, v) /\ \A y \in Var \ {v} : vb[y] = va[y]
    BY <1>2, MemParts DEF At
  <2> HIDE DEF va, vb, old
  <2>2. Owners(W, n, va, Extra(x)) = Owners(W, n, vb, Extra(old))
    BY <2>1, OwnersAfter
  <2> QED BY <2>2 DEF va, vb, old
<1>5. Owed(r, Owners(W, n, r.var, Extra(At(m.var, v))), None)
  BY <1>2, <1>4 DEF Owed, Counted
<1> QED BY <1>2, <1>3, <1>5 DEF Counted, r

\* The same when the reference that the variable had is dropped.
LEMMA RebindCounted ==
  ASSUME NEW m \in Mem, NEW v \in Var, NEW x \in Maybe,
         NEW W, NEW n \in Nat, Counted(m, W, n, Extra(x))
  PROVE  LET r == Rebind(m, v, x) IN
         /\ r \in Mem /\ r.ran = m.ran /\ r.var = [m.var EXCEPT ![v] = x]
         /\ Counted(r, W, n, Extra(None)) /\ Keeps(m, r)
<1> DEFINE r == Rebind(m, v, x)
           u == Unref(m, m.var[v])
           va == [m.var EXCEPT ![v] = x]
           s == Owners(W, n, va, Extra(None))
<1>1. m.var[v] \in Maybe /\ m.var \in [Var -> Maybe] /\ va \in [Var -> Maybe]
  BY MemParts
<1>2. s \in [Val -> Nat]
  BY OwnersAreNat, ExtraIsNat
<1>3. Owed(m, s, m.var[v])
  <2> SUFFICES ASSUME NEW z \in Val
               PROVE  m.refs[z] = s[z] + ContentRefs(m.content, z) + Hit(m.var[v], z)
    BY DEF Owed
  <2>1. m.refs[z] = Owners(W, n, m.var, Extra(x))[z] + ContentRefs(m.content, z) + Hit(None, z)
    BY DEF Counted, Owed
  <2>2. Owners(W, n, m.var, Extra(x))[z] = s[z] + Hit(m.var[v], z)
    <3> DEFINE vb == m.var
               old == m.var[v]
    <3>1. At(va, v) = x /\ At(vb, v) = old /\ \A y \in Var \ {v} : va[y] = vb[y]
      BY <1>1 DEF At
    <3> HIDE DEF vb, va, old
    <3>2. VarRefs(va, z) + Hit(old, z) = VarRefs(vb, z) + Hit(x, z)
      BY <3>1, VarRecount
    <3>3. /\ Owners(W, n, vb, Extra(x))[z] = ItemRefs(W, n, z) + VarRefs(vb, z) + Hit(x, z)
          /\ s[z] = ItemRefs(W, n, z) + VarRefs(va, z) + Hit(None, z)
      BY DEF Owners, Extra
    <3>4. /\ ItemRefs(W, n, z) \in Nat /\ VarRefs(va, z) \in Nat /\ VarRefs(vb, z) \in Nat
          /\ Hit(x, z) \in Nat /\ Hit(old, z) \in Nat /\ Hit(None, z) = 0
      BY ItemRefsIsNat, CountsAreNat, Constants DEF Hit
    <3> HIDE DEF s
    <3>5. Owners(W, n, vb, Extra(x))[z] = s[z] + Hit(old, z)
      BY <3>2, <3>3, <3>4
    <3> QED BY <3>5 DEF old, vb
  <2>3. s[z] \in Nat /\ ContentRefs(m.content, z) \in Nat /\ Hit(m.var[v], z) \in Nat /\ Hit(None, z) = 0
    BY <1>2, CountsAreNat, Constants DEF Hit
  <2> HIDE DEF s
  <2> QED BY <2>1, <2>2, <2>3
<1> HIDE DEF s
<1>4. /\ u \in Mem /\ u.var = m.var /\ u.ran = m.ran
      /\ Cleared(u) /\ Keeps(m, u) /\ Owed(u, s, None)
  <2>1. Cleared(m)
    BY DEF Counted
  <2> QED BY <1>1, <1>2, <1>3, <2>1, UnrefExact
<1> HIDE DEF u
<1>5. r \in Mem /\ r.var = va /\ r.ran = m.ran /\ r.refs = u.refs /\ r.content = u.content
  BY <1>1, <1>4 DEF Mem, Rebind, u
<1> HIDE DEF va, r
<1>6. Cleared(r) /\ Keeps(m, r) /\ Owed(r, s, None)
  BY <1>4, <1>5 DEF Cleared, Keeps, Owed
<1> QED BY <1>5, <1>6 DEF Counted, s, va, r

\* A new value has one reference; what it contains is not a value, or alive.
LEMMA AllocCounted ==
  ASSUME NEW m \in Mem, NEW x \in Val, m.refs[x] = 0, NEW c \in Maybe \union Target,
         c \in Val => m.refs[c] > 0, NEW W, NEW n \in Nat, Counted(m, W, n, Extra(None))
  PROVE  LET r == IF c \in Val THEN Ref(Alloc(m, x, c), c) ELSE Alloc(m, x, c) IN
         /\ r \in Mem /\ r.var = m.var /\ r.ran = m.ran
         /\ r.content = [m.content EXCEPT ![x] = c] /\ r.refs[x] = 1
         /\ \A z \in Val : m.refs[z] > 0 => r.refs[z] > 0
         /\ Counted(r, W, n, Extra(x))
<1> DEFINE a == Alloc(m, x, c)
           r == IF c \in Val THEN Ref(a, c) ELSE a
<1>1. /\ m.refs \in [Val -> Nat] /\ m.content \in [Val -> Maybe \union Target] /\ m.var \in [Var -> Maybe]
      /\ m.content[x] = None
  BY MemParts DEF Counted, Cleared
<1>2. /\ a \in Mem /\ a.var = m.var /\ a.ran = m.ran
      /\ a.content = [m.content EXCEPT ![x] = c] /\ a.refs = [m.refs EXCEPT ![x] = 1]
  <2>1. [m.content EXCEPT ![x] = c] \in [Val -> Maybe \union Target] /\ [m.refs EXCEPT ![x] = 1] \in [Val -> Nat]
    BY <1>1
  <2>2. a = [m EXCEPT !.refs[x] = 1, !.content[x] = c]
    BY DEF Alloc
  <2> HIDE DEF a
  <2> QED BY <2>1, <2>2 DEF Mem
<1> HIDE DEF a
<1>3. /\ r \in Mem /\ r.var = m.var /\ r.ran = m.ran /\ r.content = a.content
      /\ \A z \in Val : r.refs[z] = a.refs[z] + Hit(c, z)
  <2>1. CASE c \in Val
    <3>1. c # x /\ a.refs[c] > 0 /\ c \in Maybe
      BY <1>1, <1>2, <2>1 DEF Maybe
    <3> HIDE DEF r
    <3>2. r = Ref(a, c)
      BY <2>1 DEF r
    <3> QED BY <1>2, <3>1, <3>2, RefExact
  <2>2. CASE c \notin Val
    <3>1. \A z \in Val : Hit(c, z) = 0 /\ a.refs[z] \in Nat
      BY <1>2, <2>2, MemParts DEF Hit
    <3> HIDE DEF r
    <3>2. r = a
      BY <2>2 DEF r
    <3>3. \A z \in Val : a.refs[z] = a.refs[z] + Hit(c, z)
      BY <3>1
    <3>4. a \in Mem /\ a.var = m.var /\ a.ran = m.ran
      BY <1>2
    <3> QED BY <3>2, <3>3, <3>4
  <2> QED BY <2>1, <2>2
<1> HIDE DEF r
<1>4. \A z \in Val : r.refs[z] = m.refs[z] + Hit(x, z) + Hit(c, z)
  <2> SUFFICES ASSUME NEW z \in Val PROVE r.refs[z] = m.refs[z] + Hit(x, z) + Hit(c, z)
    OBVIOUS
  <2>1. a.refs[z] = m.refs[z] + Hit(x, z)
    BY <1>1, <1>2 DEF Hit
  <2> QED BY <1>3, <2>1
<1>5. \A z \in Val : m.refs[z] \in Nat /\ Hit(x, z) \in Nat /\ Hit(c, z) \in Nat
  BY <1>1 DEF Hit
<1>6. \A z \in Val : m.refs[z] > 0 => r.refs[z] > 0
  BY <1>4, <1>5
<1>7. r.refs[x] = 1
  <2>1. Hit(x, x) = 1 /\ Hit(c, x) = 0
    BY DEF Hit
  <2> QED BY <1>4, <2>1
<1>8. Cleared(r)
  <2> SUFFICES ASSUME NEW z \in Val, r.refs[z] = 0 PROVE r.content[z] = None
    BY DEF Cleared
  <2> DEFINE p == r.refs[z]
             q == m.refs[z]
  <2>0. p = m.refs[z] + Hit(x, z) + Hit(c, z) /\ m.refs[z] \in Nat /\ Hit(x, z) \in Nat /\ Hit(c, z) \in Nat
    BY <1>4, <1>5
  <2>00. z # x
    BY <1>7
  <2>01. m.refs[z] = 0
    <3>1. p = 0 /\ p = q + Hit(x, z) + Hit(c, z) /\ q \in Nat /\ Hit(x, z) \in Nat /\ Hit(c, z) \in Nat
      BY <2>0
    <3> HIDE DEF p, q
    <3>2. q = 0
      BY <3>1
    <3> QED BY <3>2 DEF q
  <2>1. z # x /\ m.refs[z] = 0
    BY <2>00, <2>01
  <2>2. m.content[z] = None
    BY <2>1 DEF Counted, Cleared
  <2> QED BY <1>1, <1>2, <1>3, <2>1, <2>2
<1>9. Owed(r, Owners(W, n, r.var, Extra(x)), None)
  <2> SUFFICES ASSUME NEW z \in Val
               PROVE  r.refs[z] = Owners(W, n, r.var, Extra(x))[z] + ContentRefs(r.content, z) + Hit(None, z)
    BY DEF Owed
  <2>1. m.refs[z] = Owners(W, n, m.var, Extra(None))[z] + ContentRefs(m.content, z) + Hit(None, z)
    BY DEF Counted, Owed
  <2>2. Hit(None, z) = 0
    BY Constants DEF Hit
  <2>3. /\ Owners(W, n, m.var, Extra(None))[z] = ItemRefs(W, n, z) + VarRefs(m.var, z) + Hit(None, z)
        /\ Owners(W, n, m.var, Extra(x))[z] = ItemRefs(W, n, z) + VarRefs(m.var, z) + Hit(x, z)
    BY DEF Owners, Extra
  <2>4. ContentRefs(r.content, z) = ContentRefs(m.content, z) + Hit(c, z)
    <3> DEFINE old == m.content
               new == r.content
    <3>1. new[x] = c /\ old[x] = None /\ \A y \in Val \ {x} : new[y] = old[y]
      BY <1>1, <1>2, <1>3
    <3>2. ContentRefs(new, z) \in Nat /\ ContentRefs(old, z) \in Nat /\ Hit(c, z) \in Nat
      BY CountsAreNat DEF Hit
    <3> HIDE DEF old, new
    <3>3. ContentRefs(new, z) + Hit(old[x], z) = ContentRefs(old, z) + Hit(new[x], z)
      BY <3>1, ContentRecount
    <3>4. ContentRefs(new, z) + 0 = ContentRefs(old, z) + Hit(c, z)
      BY <2>2, <3>1, <3>3
    <3>5. ContentRefs(new, z) = ContentRefs(old, z) + Hit(c, z)
      BY <3>2, <3>4
    <3> QED BY <3>5 DEF old, new
  <2>5. /\ ItemRefs(W, n, z) \in Nat /\ VarRefs(m.var, z) \in Nat /\ ContentRefs(m.content, z) \in Nat
        /\ Hit(x, z) \in Nat /\ Hit(c, z) \in Nat
    BY ItemRefsIsNat, CountsAreNat DEF Hit
  <2>6. m.refs[z] = ItemRefs(W, n, z) + VarRefs(m.var, z) + ContentRefs(m.content, z)
    BY <2>1, <2>2, <2>3, <2>5
  <2>7. r.refs[z] = m.refs[z] + Hit(x, z) + Hit(c, z) /\ r.var = m.var
    BY <1>3, <1>4
  <2> QED BY <2>2, <2>3, <2>4, <2>5, <2>6, <2>7
<1> QED BY <1>2, <1>3, <1>6, <1>7, <1>8, <1>9 DEF Counted, r, a

\* What has an owner is alive.
LEMMA CountPositive ==
  ASSUME NEW D, IsFiniteSet(D), NEW f, NEW d \in D
  PROVE  Count(D, f, f[d]) > 0
<1> DEFINE F == {y \in D : f[y] = f[d]}
<1>1. F \subseteq D /\ d \in F
  OBVIOUS
<1> HIDE DEF F
<1>2. IsFiniteSet(F) /\ Cardinality(F) \in Nat /\ Cardinality(F) # 0
  BY <1>1, FS_Subset, FS_CardinalityType, FS_EmptySet
<1>3. Cardinality(F) > 0
  BY <1>2
<1> QED BY <1>3 DEF F, Count

LEMMA OwnedIsAlive ==
  ASSUME NEW m \in Mem, NEW W, Len(W) \in Nat, NEW n \in 0 .. Len(W), NEW e \in [Val -> Nat], Counted(m, W, n, e)
  PROVE  /\ \A v \in Var : m.var[v] \in Val => m.refs[m.var[v]] > 0
         /\ \A i \in 1 .. n : ItemVal(W[i]) \in Val => m.refs[ItemVal(W[i])] > 0
         /\ \A y \in Val : m.content[y] \in Val => m.refs[m.content[y]] > 0
         /\ \A x \in Val : e[x] > 0 => m.refs[x] > 0
<1>1. ASSUME NEW x \in Val
      PROVE  /\ m.refs[x] = ItemRefs(W, n, x) + VarRefs(m.var, x) + e[x] + ContentRefs(m.content, x)
             /\ ItemRefs(W, n, x) \in Nat /\ VarRefs(m.var, x) \in Nat /\ ContentRefs(m.content, x) \in Nat
             /\ e[x] \in Nat
  <2>1. m.refs[x] = Owners(W, n, m.var, e)[x] + ContentRefs(m.content, x) + Hit(None, x)
    BY DEF Counted, Owed
  <2>2. Hit(None, x) = 0 /\ Owners(W, n, m.var, e)[x] = ItemRefs(W, n, x) + VarRefs(m.var, x) + e[x]
    BY Constants DEF Hit, Owners
  <2>3. /\ ItemRefs(W, n, x) \in Nat /\ VarRefs(m.var, x) \in Nat /\ ContentRefs(m.content, x) \in Nat
        /\ e[x] \in Nat
    BY ItemRefsIsNat, CountsAreNat
  <2> QED BY <2>1, <2>2, <2>3
<1>2. ASSUME NEW v \in Var, m.var[v] \in Val PROVE m.refs[m.var[v]] > 0
  <2>1. VarRefs(m.var, m.var[v]) > 0
    BY Constants, CountPositive DEF VarRefs
  <2> QED BY <1>1, <1>2, <2>1
<1>3. ASSUME NEW i \in 1 .. n, ItemVal(W[i]) \in Val PROVE m.refs[ItemVal(W[i])] > 0
  <2>1. ItemVals(W)[i] = ItemVal(W[i]) /\ IsFiniteSet(1 .. n)
    BY IntervalFinite DEF ItemVals
  <2>2. ItemRefs(W, n, ItemVals(W)[i]) > 0
    BY <2>1, CountPositive DEF ItemRefs
  <2> QED BY <1>1, <1>3, <2>1, <2>2
<1>4. ASSUME NEW y \in Val, m.content[y] \in Val PROVE m.refs[m.content[y]] > 0
  <2>1. ContentRefs(m.content, m.content[y]) > 0
    BY Constants, CountPositive DEF ContentRefs
  <2> QED BY <1>1, <1>4, <2>1
<1>5. ASSUME NEW x \in Val, e[x] > 0 PROVE m.refs[x] > 0
  BY <1>1, <1>5
<1> QED BY <1>2, <1>3, <1>4, <1>5

-----------------------------------------------------------------------------
(***************************************************************************)
(* The list                                                                *)
(***************************************************************************)
LEMMA Prefix ==
  ASSUME NEW S, NEW s \in Seq(S), NEW n \in 0 .. Len(s)
  PROVE  /\ SubSeq(s, 1, n) \in Seq(S) /\ Len(SubSeq(s, 1, n)) = n
         /\ \A i \in 1 .. n : SubSeq(s, 1, n)[i] = s[i]
<1>1. Len(s) \in Nat /\ n \in Nat /\ 1 \in Int /\ n \in Int /\ n - 1 + 1 = n
  OBVIOUS
<1>2. \A i \in 1 .. n : s[i] \in S
  BY <1>1
<1>3. /\ SubSeq(s, 1, n) \in Seq(S) /\ Len(SubSeq(s, 1, n)) = IF 1 <= n THEN n - 1 + 1 ELSE 0
      /\ \A i \in 1 .. n - 1 + 1 : SubSeq(s, 1, n)[i] = s[1 + i - 1]
  BY <1>1, <1>2, SubSeqProperties
<1>4. Len(SubSeq(s, 1, n)) = n
  BY <1>1, <1>3
<1>5. ASSUME NEW i \in 1 .. n PROVE SubSeq(s, 1, n)[i] = s[i]
  <2>1. i \in 1 .. n - 1 + 1 /\ 1 + i - 1 = i
    BY <1>1
  <2> QED BY <1>3, <2>1
<1> QED BY <1>3, <1>4, <1>5

LEMMA Appended ==
  ASSUME NEW S, NEW s \in Seq(S), NEW a \in S
  PROVE  /\ Append(s, a) \in Seq(S) /\ Len(Append(s, a)) = Len(s) + 1 /\ Len(s) \in Nat
         /\ Append(s, a)[Len(s) + 1] = a
         /\ \A i \in 1 .. Len(s) : Append(s, a)[i] = s[i]
OBVIOUS

LEMMA AddOne ==
  ASSUME NEW S, NEW s \in Seq(S), NEW a \in S
  PROVE  s \o <<a>> = Append(s, a)
OBVIOUS

LEMMA AddThree ==
  ASSUME NEW S, NEW s \in Seq(S), NEW a \in S, NEW b \in S, NEW c \in S
  PROVE  s \o <<a, b, c>> = Append(Append(Append(s, a), b), c)
<1> DEFINE p == <<a, b, c>>
           t == s \o p
           u == Append(Append(Append(s, a), b), c)
<1>1. t \in Seq(S) /\ u \in Seq(S) /\ Len(t) = Len(s) + 3 /\ Len(u) = Len(s) + 3 /\ Len(s) \in Nat
  OBVIOUS
<1>2. ASSUME NEW i \in 1 .. Len(s) + 3 PROVE t[i] = u[i]
  <2>1. CASE i \in 1 .. Len(s)
    BY <2>1
  <2>2. CASE i = Len(s) + 1
    BY <2>2
  <2>3. CASE i = Len(s) + 2
    BY <2>3
  <2>4. CASE i = Len(s) + 3
    BY <2>4
  <2> QED BY <1>1, <2>1, <2>2, <2>3, <2>4
<1> HIDE DEF t, u
<1>3. t = u
  BY <1>1, <1>2, SeqEqual
<1> QED BY <1>3 DEF t, u

\* The items that bind v.
Binds(w, v) == w.kind = "var" /\ w.var = v

\* What v was bound to is what it is bound to, or what an item will restore.
LEMMA BoundIs ==
  ASSUME NEW W, Len(W) \in Nat, NEW va, NEW v, NEW j \in 0 .. Len(W)
  PROVE  \/ Bound(W, va, v, j) = va[v]
         \/ \E i \in j + 1 .. Len(W) : Binds(W[i], v) /\ Bound(W, va, v, j) = W[i].oldval
<1> DEFINE later == {i \in j + 1 .. Len(W) : W[i].kind = "var" /\ W[i].var = v}
<1>1. CASE later = {}
  BY <1>1 DEF Bound
<1>2. CASE later # {}
  <2>1. later \in SUBSET Nat /\ later \in SUBSET Int
    OBVIOUS
  <2>2. PICK i \in later : \A k \in later : i <= k
    <3> HIDE DEF later
    <3> QED BY <1>2, <2>1, NatMin
  <2>3. Min(later) = i
    <3> HIDE DEF later
    <3> QED BY <2>1, <2>2, MinIs
  <2>4. Bound(W, va, v, j) = W[i].oldval
    BY <1>2, <2>3 DEF Bound
  <2> QED BY <2>4 DEF Binds
<1> QED BY <1>1, <1>2

\* The first g items and what they were bound to do not depend on what comes
\* after them.
LEMMA BoundPrefix ==
  ASSUME NEW W, Len(W) \in Nat, NEW V, Len(V) \in Nat, Len(V) <= Len(W), NEW v,
         \A i \in 1 .. Len(V) : Binds(V[i], v) <=> Binds(W[i], v),
         \A i \in 1 .. Len(V) : Binds(V[i], v) => V[i].oldval = W[i].oldval,
         NEW va, NEW vb, At(vb, v) = Bound(W, va, v, Len(V))
  PROVE  \A j \in 0 .. Len(V) : Bound(V, vb, v, j) = Bound(W, va, v, j)
<1> DEFINE g == Len(V)
           T == {n \in 0 .. g : Bound(V, vb, v, g - n) = Bound(W, va, v, g - n)}
<1>0. g \in Nat /\ g = Len(V) /\ g <= Len(W)
  OBVIOUS
<1> HIDE DEF g
<1>1. 0 \in T
  <2>1. Bound(V, vb, v, g) = At(vb, v)
    BY <1>0, BoundByAll
  <2>2. At(vb, v) = Bound(W, va, v, g)
    BY <1>0
  <2>3. g - 0 = g /\ 0 \in 0 .. g
    BY <1>0
  <2> QED BY <2>1, <2>2, <2>3
<1>2. ASSUME NEW n \in 0 .. g - 1, n \in T PROVE n + 1 \in T
  <2> DEFINE k == g - (n + 1)
  <2>1. /\ k \in Nat /\ k < g /\ k < Len(V) /\ k < Len(W) /\ k + 1 = g - n /\ n + 1 \in 0 .. g
        /\ k + 1 \in 1 .. Len(V)
    BY <1>0
  <2>2. Bound(V, vb, v, k + 1) = Bound(W, va, v, k + 1)
    BY <1>2, <2>1
  <2> HIDE DEF k
  <2>3. Bound(V, vb, v, k) = IF Binds(V[k + 1], v) THEN V[k + 1].oldval ELSE Bound(V, vb, v, k + 1)
    BY <2>1, BoundNext DEF Binds
  <2>4. Bound(W, va, v, k) = IF Binds(W[k + 1], v) THEN W[k + 1].oldval ELSE Bound(W, va, v, k + 1)
    BY <2>1, BoundNext DEF Binds
  <2>5. Bound(V, vb, v, k) = Bound(W, va, v, k)
    BY <2>1, <2>2, <2>3, <2>4
  <2> QED BY <2>1, <2>5 DEF k
<1>3. \A n \in 0 .. g : n \in T
  <2> HIDE DEF T
  <2> QED BY <1>0, <1>1, <1>2, UpTo
<1>4. ASSUME NEW j \in 0 .. g PROVE Bound(V, vb, v, j) = Bound(W, va, v, j)
  <2>1. g - j \in 0 .. g /\ g - (g - j) = j
    BY <1>0
  <2>2. g - j \in T
    BY <1>3, <2>1
  <2>3. Bound(V, vb, v, g - (g - j)) = Bound(W, va, v, g - (g - j))
    BY <2>2
  <2> QED BY <2>1, <2>3
<1> QED BY <1>0, <1>4

\* An item that is added does not change what variables were bound to.
LEMMA BoundAppend ==
  ASSUME NEW W \in Seq(Item), NEW w \in Item, NEW va, NEW vb, NEW v,
         Binds(w, v) => ItemVal(w) = At(va, v), ~Binds(w, v) => At(vb, v) = At(va, v)
  PROVE  \A j \in 0 .. Len(W) : Bound(Append(W, w), vb, v, j) = Bound(W, va, v, j)
<1> DEFINE V == Append(W, w)
           n == Len(W)
<1>1. n \in Nat /\ Len(V) = n + 1 /\ n < Len(V) /\ Len(V) \in Nat /\ V[n + 1] = w /\ \A i \in 1 .. n : V[i] = W[i]
  OBVIOUS
<1> HIDE DEF V
<1>2. At(va, v) = Bound(V, vb, v, n)
  <2>1. Bound(V, vb, v, n + 1) = At(vb, v)
    BY <1>1, BoundByAll
  <2>2. Bound(V, vb, v, n) = IF Binds(V[n + 1], v) THEN V[n + 1].oldval ELSE Bound(V, vb, v, n + 1)
    <3> HIDE DEF n
    <3> QED BY <1>1, BoundNext DEF Binds
  <2>3. Binds(w, v) => ItemVal(w) = w.oldval
    BY DEF Binds, ItemVal
  <2> QED BY <1>1, <2>1, <2>2, <2>3
<1>3. /\ \A i \in 1 .. n : Binds(W[i], v) <=> Binds(V[i], v)
      /\ \A i \in 1 .. n : Binds(W[i], v) => W[i].oldval = V[i].oldval
  BY <1>1
<1>4. \A j \in 0 .. n : Bound(W, va, v, j) = Bound(V, vb, v, j)
  BY <1>1, <1>2, <1>3, BoundPrefix
<1> QED BY <1>4 DEF V, n

-----------------------------------------------------------------------------
(***************************************************************************)
(* Calls and their items                                                   *)
(***************************************************************************)
CallKinds == {"block", "catch"}

\* The k-th call has the pos[k]-th item: an extent for a dyn_block, a target
\* without a value for a dyn_catch.  There are no other extents, and the targets
\* above it are those of calls that were nested in it.
Marks(W, cs, pos) ==
  /\ pos \in [Nat -> Nat]
  /\ \A k \in 1 .. Len(cs) : pos[k] \in 1 .. Len(W)
  /\ \A k, l \in 1 .. Len(cs) : k < l => pos[k] < pos[l]
  /\ \A k \in 1 .. Len(cs) : W[pos[k]] = IF cs[k] = "block" THEN Extent ELSE TargetItem(k)
  /\ \A i \in 1 .. Len(W) : W[i].kind = "extent" => \E k \in 1 .. Len(cs) : pos[k] = i
  /\ \A i \in 1 .. Len(W), k \in 1 .. Len(cs) : W[i].kind = "target" /\ i > pos[k] => W[i].target > k

LEMMA EntryKinds ==
  /\ Extent.kind = "extent"
  /\ \A k : TargetItem(k).kind = "target" /\ TargetItem(k).target = k /\ TargetItem(k).value = None
BY DEF Extent, TargetItem

LEMMA MarkOf ==
  ASSUME NEW W \in Seq(Item), NEW cs \in Seq(CallKinds), NEW pos, Marks(W, cs, pos), NEW k \in 1 .. Len(cs)
  PROVE  /\ pos[k] \in 1 .. Len(W) /\ Len(W) \in Nat /\ Len(cs) \in Nat /\ k \in Nat
         /\ cs[k] = "block" => W[pos[k]] = Extent
         /\ cs[k] = "catch" => W[pos[k]] = TargetItem(k)
         /\ cs[k] # "block" => W[pos[k]] = TargetItem(k)
<1>1. Len(W) \in Nat /\ Len(cs) \in Nat /\ k \in Nat
  OBVIOUS
<1>2. pos[k] \in 1 .. Len(W)
  BY Zenon DEF Marks
<1>3. W[pos[k]] = IF cs[k] = "block" THEN Extent ELSE TargetItem(k)
  BY Zenon DEF Marks
<1>4. "catch" # "block"
  OBVIOUS
<1> QED BY <1>1, <1>2, <1>3, <1>4

LEMMA MarksPush ==
  ASSUME NEW W \in Seq(Item), NEW w \in Item, w.kind \notin {"extent", "target"},
         NEW cs \in Seq(CallKinds), NEW pos, Marks(W, cs, pos)
  PROVE  Marks(Append(W, w), cs, pos)
<1> DEFINE V == Append(W, w)
           n == Len(W)
<1>1. n \in Nat /\ Len(V) = n + 1 /\ V[n + 1] = w /\ \A i \in 1 .. n : V[i] = W[i]
  BY Appended
<1> HIDE DEF V
<1>2. \A k \in 1 .. Len(cs) : pos[k] \in 1 .. n /\ pos[k] \in 1 .. n + 1 /\ V[pos[k]] = W[pos[k]]
  <2> SUFFICES ASSUME NEW k \in 1 .. Len(cs)
               PROVE  pos[k] \in 1 .. n /\ pos[k] \in 1 .. n + 1 /\ V[pos[k]] = W[pos[k]]
    OBVIOUS
  <2> DEFINE q == pos[k]
  <2>1. q \in 1 .. n
    BY MarkOf
  <2> HIDE DEF q, n
  <2>2. q \in 1 .. n + 1 /\ V[q] = W[q]
    BY <1>1, <2>1
  <2> QED BY <2>1, <2>2 DEF q
<1>3. \A i \in 1 .. n + 1 : V[i].kind \in {"extent", "target"} => i \in 1 .. n /\ V[i] = W[i]
  BY <1>1
<1> QED BY <1>1, <1>2, <1>3 DEF Marks, V

LEMMA MarksEnter ==
  ASSUME NEW W \in Seq(Item), NEW cs \in Seq(CallKinds), NEW call \in CallKinds, NEW pos, Marks(W, cs, pos),
         NEW w \in Item, w = IF call = "block" THEN Extent ELSE TargetItem(Len(cs) + 1)
  PROVE  Marks(Append(W, w), Append(cs, call), [pos EXCEPT ![Len(cs) + 1] = Len(W) + 1])
<1> DEFINE V == Append(W, w)
           ds == Append(cs, call)
           n == Len(W)
           c == Len(cs)
           new == [pos EXCEPT ![c + 1] = n + 1]
<1>1. n \in Nat /\ Len(V) = n + 1 /\ V[n + 1] = w /\ \A i \in 1 .. n : V[i] = W[i]
  BY Appended
<1>2. c \in Nat /\ Len(ds) = c + 1 /\ ds[c + 1] = call /\ \A k \in 1 .. c : ds[k] = cs[k]
  BY Appended
<1> HIDE DEF V, ds, n, c
<1>3. new \in [Nat -> Nat] /\ new[c + 1] = n + 1 /\ \A k \in 1 .. c : new[k] = pos[k]
  <2>1. pos \in [Nat -> Nat]
    BY DEF Marks
  <2>2. c + 1 \in Nat /\ n + 1 \in Nat /\ \A k \in 1 .. c : k \in Nat /\ k # c + 1
    BY <1>1, <1>2
  <2> QED BY <2>1, <2>2
<1> HIDE DEF new
<1>4. /\ \A k \in 1 .. c : pos[k] \in 1 .. n
      /\ \A k, l \in 1 .. c : k < l => pos[k] < pos[l]
      /\ \A k \in 1 .. c : W[pos[k]] = IF cs[k] = "block" THEN Extent ELSE TargetItem(k)
      /\ \A i \in 1 .. n : W[i].kind = "extent" => \E k \in 1 .. c : pos[k] = i
      /\ \A i \in 1 .. n, k \in 1 .. c : W[i].kind = "target" /\ i > pos[k] => W[i].target > k
  BY DEF Marks, n, c
<1>5. \A k \in 1 .. c + 1 : k = c + 1 \/ k \in 1 .. c
  BY <1>2
<1>6. \A i \in 1 .. n + 1 : i = n + 1 \/ i \in 1 .. n
  BY <1>1
<1>7. \A k \in 1 .. c + 1 : new[k] \in 1 .. n + 1
  <2> SUFFICES ASSUME NEW k \in 1 .. c + 1 PROVE new[k] \in 1 .. n + 1
    OBVIOUS
  <2>1. CASE k = c + 1
    <3>1. new[k] = n + 1 /\ n + 1 \in 1 .. n + 1
      BY <1>1, <1>3, <2>1
    <3> QED BY <3>1, Zenon
  <2>2. CASE k \in 1 .. c
    <3>1. pos[k] \in 1 .. n /\ new[k] = pos[k]
      BY <1>3, <1>4, <2>2
    <3>2. \A q \in 1 .. n : q \in 1 .. n + 1
      BY <1>1
    <3> QED BY <3>1, <3>2, Zenon
  <2> QED BY <1>5, <2>1, <2>2
<1>8. ASSUME NEW k \in 1 .. c + 1, NEW l \in 1 .. c + 1, k < l PROVE new[k] < new[l]
  <2>1. k \in 1 .. c
    BY <1>2, <1>5, <1>8
  <2>2. CASE l = c + 1
    <3> DEFINE q == pos[k]
    <3>1. q \in 1 .. n /\ new[k] = q /\ new[l] = n + 1
      BY <1>3, <1>4, <2>1, <2>2
    <3> HIDE DEF q
    <3> QED BY <1>1, <3>1
  <2>3. CASE l \in 1 .. c
    BY <1>3, <1>4, <1>8, <2>1, <2>3
  <2> QED BY <1>5, <2>2, <2>3
<1>9. ASSUME NEW k \in 1 .. c + 1
      PROVE  V[new[k]] = IF ds[k] = "block" THEN Extent ELSE TargetItem(k)
  <2>1. CASE k = c + 1
    BY <1>1, <1>2, <1>3, <2>1 DEF c
  <2>2. CASE k \in 1 .. c
    <3>1. pos[k] \in 1 .. n /\ new[k] = pos[k] /\ ds[k] = cs[k]
      BY <1>2, <1>3, <1>4, <2>2
    <3> QED BY <1>1, <1>4, <2>2, <3>1
  <2> QED BY <1>5, <2>1, <2>2
<1>10. ASSUME NEW i \in 1 .. n + 1, V[i].kind = "extent" PROVE \E k \in 1 .. c + 1 : new[k] = i
  <2>1. CASE i = n + 1
    <3>1. c + 1 \in 1 .. c + 1
      BY <1>2
    <3> QED BY <1>3, <2>1, <3>1
  <2>2. CASE i \in 1 .. n
    <3>1. PICK k \in 1 .. c : pos[k] = i
      BY <1>1, <1>4, <1>10, <2>2
    <3>2. k \in 1 .. c + 1
      BY <1>2
    <3> QED BY <1>3, <3>1, <3>2
  <2> QED BY <1>6, <2>1, <2>2
<1>11. ASSUME NEW i \in 1 .. n + 1, NEW k \in 1 .. c + 1, V[i].kind = "target", i > new[k] PROVE V[i].target > k
  <2>1. k \in 1 .. c
    <3> SUFFICES ASSUME k = c + 1 PROVE FALSE
      BY <1>5
    <3>1. new[k] = n + 1 /\ i > new[k]
      BY <1>3, <1>11
    <3>2. ~(i > n + 1)
      BY <1>1
    <3> QED BY <3>1, <3>2
  <2>2. CASE i = n + 1
    <3>1. V[i] = w /\ w.kind = "target"
      BY <1>1, <1>11, <2>2
    <3>2. w = TargetItem(c + 1)
      BY <3>1, EntryKinds DEF c
    <3>3. V[i].target = c + 1
      BY <3>1, <3>2, EntryKinds
    <3> QED BY <1>2, <2>1, <3>3
  <2>3. CASE i \in 1 .. n
    BY <1>1, <1>3, <1>4, <1>11, <2>1, <2>3
  <2> QED BY <1>6, <2>2, <2>3
<1>12. Marks(V, ds, new)
  BY <1>1, <1>2, <1>3, <1>7, <1>8, <1>9, <1>10, <1>11 DEF Marks
<1> QED BY <1>12 DEF V, ds, new, n, c

\* Items are dropped, and with them the calls that are over.
LEMMA MarksDrop ==
  ASSUME NEW W \in Seq(Item), NEW cs \in Seq(CallKinds), NEW pos, Marks(W, cs, pos),
         NEW V \in Seq(Item), Len(V) <= Len(W), NEW ds \in Seq(CallKinds), Len(ds) <= Len(cs),
         \A i \in 1 .. Len(V) : V[i].kind = W[i].kind /\ (V[i].kind = "target" => V[i].target = W[i].target),
         \A k \in 1 .. Len(ds) : ds[k] = cs[k] /\ pos[k] <= Len(V) /\ V[pos[k]] = W[pos[k]],
         \A k \in Len(ds) + 1 .. Len(cs) : pos[k] <= Len(V) => cs[k] # "block"
  PROVE  Marks(V, ds, pos)
<1>1. Len(W) \in Nat /\ Len(V) \in Nat /\ Len(cs) \in Nat /\ Len(ds) \in Nat
  OBVIOUS
<1>2. /\ \A i \in 1 .. Len(V) : i \in 1 .. Len(W)
      /\ \A k \in 1 .. Len(ds) : k \in 1 .. Len(cs)
  BY <1>1
<1>3. \A k \in 1 .. Len(ds) : pos[k] \in 1 .. Len(V)
  BY <1>1, <1>2 DEF Marks
<1>4. \A k \in 1 .. Len(ds) : V[pos[k]] = IF ds[k] = "block" THEN Extent ELSE TargetItem(k)
  BY <1>2 DEF Marks
<1>5. ASSUME NEW i \in 1 .. Len(V), V[i].kind = "extent" PROVE \E k \in 1 .. Len(ds) : pos[k] = i
  <2>1. W[i].kind = "extent" /\ i \in 1 .. Len(W)
    BY <1>2, <1>5
  <2>2. PICK k \in 1 .. Len(cs) : pos[k] = i
    BY <2>1 DEF Marks
  <2>3. cs[k] = "block"
    <3>1. W[pos[k]] = IF cs[k] = "block" THEN Extent ELSE TargetItem(k)
      BY DEF Marks
    <3> QED BY <2>1, <2>2, <3>1, EntryKinds
  <2>4. i <= Len(V)
    BY <1>1
  <2>5. k \notin Len(ds) + 1 .. Len(cs)
    BY <2>2, <2>3, <2>4
  <2>6. k \in 1 .. Len(ds)
    BY <1>1, <2>5
  <2> QED BY <2>2, <2>6
<1>6. ASSUME NEW i \in 1 .. Len(V), NEW k \in 1 .. Len(ds), V[i].kind = "target", i > pos[k] PROVE V[i].target > k
  <2>1. W[i].kind = "target" /\ V[i].target = W[i].target /\ i \in 1 .. Len(W) /\ k \in 1 .. Len(cs)
    BY <1>2, <1>6
  <2>2. W[i].target > k
    BY <1>6, <2>1 DEF Marks
  <2> QED BY <2>1, <2>2
<1>7. \A k, l \in 1 .. Len(ds) : k < l => pos[k] < pos[l]
  BY <1>2 DEF Marks
<1> QED BY <1>3, <1>4, <1>5, <1>6, <1>7 DEF Marks

\* The innermost extent is that of the innermost dyn_block.
LEMMA InnermostExtent ==
  ASSUME NEW W \in Seq(Item), NEW cs \in Seq(CallKinds), NEW pos, Marks(W, cs, pos),
         cs # <<>>, cs[Len(cs)] = "block"
  PROVE  Max({i \in 1 .. Len(W) : W[i].kind = "extent"}) = pos[Len(cs)]
<1> DEFINE S == {i \in 1 .. Len(W) : W[i].kind = "extent"}
           c == Len(cs)
<1>1. c \in Nat /\ c \in 1 .. c /\ Len(W) \in Nat
  OBVIOUS
<1>2. pos[c] \in S
  BY <1>1, EntryKinds DEF Marks
<1>3. S \in SUBSET Int
  BY <1>1
<1>4. ASSUME NEW i \in S PROVE pos[c] >= i
  <2>1. PICK k \in 1 .. c : pos[k] = i
    BY DEF Marks
  <2>2. k = c \/ k < c
    BY <1>1
  <2>3. k < c => pos[k] < pos[c]
    BY <1>1 DEF Marks
  <2>4. pos[k] \in Nat /\ pos[c] \in Nat
    BY <1>1 DEF Marks
  <2> QED BY <2>1, <2>2, <2>3, <2>4
<1> HIDE DEF S
<1>5. Max(S) = pos[c]
  BY <1>2, <1>3, <1>4, MaxIs
<1> QED BY <1>5 DEF S, c

\* The innermost item of a target is that of the dyn_catch that has not returned.
LEMMA InnermostTarget ==
  ASSUME NEW W \in Seq(Item), NEW cs \in Seq(CallKinds), NEW pos, Marks(W, cs, pos),
         NEW t \in 1 .. Len(cs), cs[t] = "catch",
         NEW S \in SUBSET (1 .. Len(W)), \A i \in S : W[i].kind = "target" /\ W[i].target = t,
         W[pos[t]] = TargetItem(t) => pos[t] \in S
  PROVE  Max(S) = pos[t] /\ pos[t] \in S /\ W[pos[t]] = TargetItem(t)
<1>1. W[pos[t]] = TargetItem(t) /\ pos[t] \in S /\ pos[t] \in Nat /\ t \in Nat
  <2>1. W[pos[t]] = TargetItem(t) /\ pos[t] \in 1 .. Len(W) /\ Len(W) \in Nat /\ t \in Nat
    BY MarkOf
  <2>2. pos[t] \in S
    BY <2>1, Zenon
  <2>3. \A q \in 1 .. Len(W) : q \in Nat
    BY <2>1
  <2> QED BY <2>1, <2>2, <2>3, Zenon
<1>2. ASSUME NEW i \in S PROVE pos[t] >= i
  <2>1. ~(i > pos[t])
    <3> SUFFICES ASSUME i > pos[t] PROVE FALSE
      OBVIOUS
    <3>1. W[i].target > t
      BY DEF Marks
    <3> QED BY <1>1, <3>1
  <2>2. i \in Int
    OBVIOUS
  <2> QED BY <1>1, <2>1, <2>2
<1>3. S \in SUBSET Int
  OBVIOUS
<1> QED BY <1>1, <1>2, <1>3, MaxIs

\* Every item that binds the handler stands two above the item of its dyn_catch,
\* and what it has bound the handler to throws to that.
HandledBy(h, j, co, cs, pos) == h \in Val /\ \E k \in 1 .. Len(cs) : pos[k] = j - 2 /\ cs[k] = "catch" /\ co[h] = k

Handlers(W, va, co, cs, pos) ==
  /\ Bound(W, va, Handler, 0) = None
  /\ \A j \in 1 .. Len(W) : Binds(W[j], Handler) => HandledBy(Bound(W, va, Handler, j), j, co, cs, pos)

\* What a variable or an item has a reference to.
IsOwned(W, va, h) == (\E v \in Var : va[v] = h) \/ \E i \in 1 .. Len(W) : ItemVal(W[i]) = h

LEMMA BoundIsOwned ==
  ASSUME NEW W \in Seq(Item), NEW va, NEW v \in Var, NEW j \in 0 .. Len(W)
  PROVE  IsOwned(W, va, Bound(W, va, v, j))
<1>1. Len(W) \in Nat
  OBVIOUS
<1>2. CASE Bound(W, va, v, j) = va[v]
  BY <1>2 DEF IsOwned
<1>3. CASE \E i \in j + 1 .. Len(W) : Binds(W[i], v) /\ Bound(W, va, v, j) = W[i].oldval
  <2>1. PICK i \in j + 1 .. Len(W) : Binds(W[i], v) /\ Bound(W, va, v, j) = W[i].oldval
    BY <1>3
  <2>2. i \in 1 .. Len(W) /\ ItemVal(W[i]) = W[i].oldval
    BY <1>1, <2>1 DEF Binds, ItemVal
  <2> QED BY <2>1, <2>2 DEF IsOwned
<1> QED BY <1>1, <1>2, <1>3, BoundIs

LEMMA HandlerIsVar == Handler \in Var
BY ExtentsAssumption

\* V and W bind the same variables, as far as V goes.
SameBindings(V, W) ==
  \A i \in 1 .. Len(V) : /\ Binds(V[i], Handler) <=> Binds(W[i], Handler)
                         /\ Binds(V[i], Handler) => V[i].oldval = W[i].oldval

\* What V and the variables vb own has the same contents in co and cp.
OwnedKeep(V, vb, co, cp) == \A h \in Val : IsOwned(V, vb, h) => cp[h] = co[h]

\* Items and calls are dropped, and what still has an owner keeps what it has.
LEMMA HandlersDrop ==
  ASSUME NEW W \in Seq(Item), NEW cs \in Seq(CallKinds), NEW pos, Marks(W, cs, pos),
         NEW va, NEW co, Handlers(W, va, co, cs, pos),
         NEW V \in Seq(Item), Len(V) <= Len(W), NEW ds \in Seq(CallKinds), Len(ds) <= Len(cs),
         SameBindings(V, W), \A k \in 1 .. Len(ds) : ds[k] = cs[k],
         \A k \in Len(ds) + 1 .. Len(cs) : pos[k] + 1 >= Len(V),
         NEW vb, At(vb, Handler) = Bound(W, va, Handler, Len(V)),
         NEW cp, OwnedKeep(V, vb, co, cp)
  PROVE  Handlers(V, vb, cp, ds, pos)
<1>1. Len(W) \in Nat /\ Len(V) \in Nat /\ Len(cs) \in Nat /\ Len(ds) \in Nat
  OBVIOUS
<1>2. \A j \in 0 .. Len(V) : Bound(V, vb, Handler, j) = Bound(W, va, Handler, j)
  BY <1>1, BoundPrefix DEF SameBindings
<1>3. Bound(V, vb, Handler, 0) = None
  <2>1. 0 \in 0 .. Len(V)
    BY <1>1
  <2> QED BY <1>2, <2>1 DEF Handlers
<1>4. ASSUME NEW j \in 1 .. Len(V), Binds(V[j], Handler)
      PROVE  HandledBy(Bound(V, vb, Handler, j), j, cp, ds, pos)
  <2> DEFINE h == Bound(V, vb, Handler, j)
  <2>1. j \in 1 .. Len(W) /\ j \in 0 .. Len(V) /\ Binds(W[j], Handler)
    BY <1>1, <1>4 DEF SameBindings
  <2>2. HandledBy(h, j, co, cs, pos)
    <3>1. HandledBy(Bound(W, va, Handler, j), j, co, cs, pos)
      BY <2>1 DEF Handlers
    <3> QED BY <1>2, <2>1, <3>1
  <2>3. IsOwned(V, vb, h)
    BY <2>1, BoundIsOwned, HandlerIsVar
  <2> HIDE DEF h
  <2>4. PICK k \in 1 .. Len(cs) : h \in Val /\ pos[k] = j - 2 /\ cs[k] = "catch" /\ co[h] = k
    BY <2>2 DEF HandledBy
  <2>5. cp[h] = k
    BY <2>3, <2>4 DEF OwnedKeep
  <2>6. k \in 1 .. Len(ds)
    <3>1. j <= Len(V)
      BY <1>1
    <3>2. ~(pos[k] + 1 >= Len(V))
      BY <1>1, <2>4, <3>1
    <3>3. k \notin Len(ds) + 1 .. Len(cs)
      BY <3>2
    <3> QED BY <1>1, <3>3
  <2>7. ds[k] = "catch"
    BY <2>4, <2>6
  <2>8. HandledBy(h, j, cp, ds, pos)
    BY <2>4, <2>5, <2>6, <2>7 DEF HandledBy
  <2> QED BY <2>8 DEF h
<1> QED BY <1>3, <1>4 DEF Handlers

\* An item and maybe a call are added.
LEMMA HandlersPush ==
  ASSUME NEW W \in Seq(Item), NEW cs \in Seq(CallKinds), NEW pos,
         NEW va, NEW co, Handlers(W, va, co, cs, pos),
         NEW w \in Item, ~Binds(w, Handler), NEW vb, At(vb, Handler) = At(va, Handler),
         NEW ds \in Seq(CallKinds), Len(cs) <= Len(ds), NEW new,
         \A k \in 1 .. Len(cs) : ds[k] = cs[k] /\ new[k] = pos[k]
  PROVE  Handlers(Append(W, w), vb, co, ds, new)
<1> DEFINE V == Append(W, w)
           n == Len(W)
<1>1. n \in Nat /\ Len(V) = n + 1 /\ V[n + 1] = w /\ \A i \in 1 .. n : V[i] = W[i]
  BY Appended
<1>2. \A j \in 0 .. n : Bound(V, vb, Handler, j) = Bound(W, va, Handler, j)
  BY BoundAppend
<1> HIDE DEF V, n
<1>3. Bound(V, vb, Handler, 0) = None
  BY <1>1, <1>2 DEF Handlers
<1>4. ASSUME NEW j \in 1 .. n + 1, Binds(V[j], Handler)
      PROVE  HandledBy(Bound(V, vb, Handler, j), j, co, ds, new)
  <2>1. j \in 1 .. n /\ j \in 0 .. n
    BY <1>1, <1>4
  <2> DEFINE h == Bound(W, va, Handler, j)
  <2>2. HandledBy(h, j, co, cs, pos)
    BY <1>1, <1>4, <2>1 DEF Handlers, n
  <2>3. Bound(V, vb, Handler, j) = h
    BY <1>2, <2>1
  <2> HIDE DEF h
  <2>4. PICK k \in 1 .. Len(cs) : h \in Val /\ pos[k] = j - 2 /\ cs[k] = "catch" /\ co[h] = k
    BY <2>2 DEF HandledBy
  <2>5. k \in 1 .. Len(ds)
    OBVIOUS
  <2>6. ds[k] = "catch" /\ new[k] = j - 2
    BY <2>4
  <2>7. HandledBy(h, j, co, ds, new)
    BY <2>4, <2>5, <2>6 DEF HandledBy
  <2> QED BY <2>3, <2>7
<1> QED BY <1>1, <1>3, <1>4 DEF Handlers, V

LEMMA ItemsAre ==
  /\ \A x \in Maybe : UnrefItem(x) \in Item /\ ItemVal(UnrefItem(x)) = x /\ UnrefItem(x).kind = "unref"
  /\ \A f \in Fun : FuncItem(f) \in Item /\ ItemVal(FuncItem(f)) = None /\ FuncItem(f).kind = "func"
  /\ \A v \in Var, x \in Maybe : /\ VarItem(v, x) \in Item /\ ItemVal(VarItem(v, x)) = x
                                 /\ VarItem(v, x).kind = "var" /\ VarItem(v, x).var = v
BY DEF UnrefItem, FuncItem, VarItem, Item, ItemVal

LEMMA BindsKind ==
  \A w, v : w.kind # "var" => ~Binds(w, v)
BY DEF Binds

\* A condition's dyn_catch binds the handler.
LEMMA HandlersBind ==
  ASSUME NEW W \in Seq(Item), NEW cs \in Seq(CallKinds), NEW pos,
         NEW va, NEW co, Handlers(W, va, co, cs, pos),
         NEW w \in Item, Binds(w, Handler), ItemVal(w) = At(va, Handler),
         NEW vb, NEW h \in Val, At(vb, Handler) = h, HandledBy(h, Len(W) + 1, co, cs, pos)
  PROVE  Handlers(Append(W, w), vb, co, cs, pos)
<1> DEFINE V == Append(W, w)
           n == Len(W)
<1>1. n \in Nat /\ Len(V) = n + 1 /\ V[n + 1] = w /\ \A i \in 1 .. n : V[i] = W[i]
  BY Appended
<1>2. \A j \in 0 .. n : Bound(V, vb, Handler, j) = Bound(W, va, Handler, j)
  BY BoundAppend
<1> HIDE DEF V
<1>3. Bound(V, vb, Handler, n + 1) = h
  <2>1. Bound(V, vb, Handler, Len(V)) = At(vb, Handler)
    BY <1>1, BoundByAll
  <2> QED BY <1>1, <2>1
<1> HIDE DEF n
<1>4. Bound(V, vb, Handler, 0) = None
  BY <1>1, <1>2 DEF Handlers
<1>5. ASSUME NEW j \in 1 .. n + 1, Binds(V[j], Handler)
      PROVE  HandledBy(Bound(V, vb, Handler, j), j, co, cs, pos)
  <2>1. CASE j = n + 1
    BY <1>3, <2>1 DEF n
  <2>2. CASE j \in 1 .. n
    <3>1. j \in 0 .. n /\ Binds(W[j], Handler)
      BY <1>1, <1>5, <2>2
    <3>2. HandledBy(Bound(W, va, Handler, j), j, co, cs, pos)
      BY <2>2, <3>1 DEF Handlers, n
    <3> QED BY <1>2, <3>1, <3>2
  <2> QED BY <1>1, <2>1, <2>2
<1>6. Handlers(V, vb, co, cs, pos)
  BY <1>1, <1>4, <1>5 DEF Handlers
<1> QED BY <1>6 DEF V

\* A signal finds the dyn_catch of a condition that has not returned.
LEMMA CurrentHandler ==
  ASSUME NEW W \in Seq(Item), NEW cs, NEW pos, NEW va, NEW co, Handlers(W, va, co, cs, pos),
         va[Handler] # None
  PROVE  /\ va[Handler] \in Val
         /\ \E k \in 1 .. Len(cs) : cs[k] = "catch" /\ co[va[Handler]] = k
<1> DEFINE n == Len(W)
           S == {j \in 1 .. n : Binds(W[j], Handler)}
           T == {m \in 0 .. n : n - m \in S}
<1>1. n \in Nat
  OBVIOUS
<1>2. S # {}
  <2> SUFFICES ASSUME S = {} PROVE FALSE
    OBVIOUS
  <2>1. {j \in 0 + 1 .. n : W[j].kind = "var" /\ W[j].var = Handler} = {}
    BY <1>1 DEF Binds
  <2>2. Bound(W, va, Handler, 0) = va[Handler]
    BY <2>1 DEF Bound
  <2> QED BY <2>2 DEF Handlers
<1>3. T # {} /\ T \in SUBSET Nat
  <2>1. PICK j \in S : TRUE
    BY <1>2
  <2>2. n - j \in 0 .. n /\ n - (n - j) = j
    BY <1>1, <2>1
  <2>3. n - j \in T
    BY <2>1, <2>2
  <2>4. T \in SUBSET Nat
    BY <1>1
  <2> HIDE DEF T
  <2> QED BY <2>3, <2>4
<1>4. PICK m \in T : \A l \in T : m <= l
  <2> HIDE DEF T
  <2> QED BY <1>3, NatMin
<1> DEFINE j == n - m
<1>5. j \in S /\ j \in 1 .. n /\ m \in 0 .. n
  BY <1>1, <1>4
<1>6. {i \in j + 1 .. n : W[i].kind = "var" /\ W[i].var = Handler} = {}
  <2> SUFFICES ASSUME NEW i \in j + 1 .. n, Binds(W[i], Handler) PROVE FALSE
    BY DEF Binds
  <2>1. i \in S /\ n - i \in 0 .. n /\ n - (n - i) = i /\ i > j
    BY <1>1, <1>5
  <2>2. n - i \in T
    BY <2>1
  <2>3. m <= n - i
    BY <1>4, <2>2
  <2> QED BY <1>1, <1>5, <2>1, <2>3
<1>7. Bound(W, va, Handler, j) = va[Handler]
  BY <1>6 DEF Bound
<1>8. HandledBy(va[Handler], j, co, cs, pos)
  BY <1>5, <1>7 DEF Handlers
<1> QED BY <1>8 DEF HandledBy

-----------------------------------------------------------------------------
(***************************************************************************)
(* The inductive invariant                                                 *)
(*                                                                         *)
(* The counts are exact (Counted), what is free is cleared, and the items  *)
(* of the calls the program is in are on the list, in order and without    *)
(* others of their kind (Nested): otherwise dyn_end would unwind to the    *)
(* extent of another call, and dyn_throw to another catch or to none.  The *)
(* third part is that a handler that is bound now or will be bound again   *)
(* throws to a dyn_catch that has not returned then (Handlers).            *)
(***************************************************************************)
Nested(W, va, co, cs) == \E pos : Marks(W, cs, pos) /\ Handlers(W, va, co, cs, pos)

\* Memory m, items W and calls cs fit, and nobody else has a reference.
Sound(m, W, cs) ==
  /\ m \in Mem /\ W \in Seq(Item) /\ cs \in Seq(CallKinds) /\ Len(cs) <= MaxCalls
  /\ Counted(m, W, Len(W), Extra(None))
  /\ Nested(W, m.var, m.content, cs)

\* The inductive invariant.
IInv == Sound(Memory, windlist, calls)

LEMMA Becomes ==
  ASSUME NEW m, NEW W, NEW cs, Sound(m, W, cs), Become(m), windlist' = W, calls' = cs
  PROVE  IInv'
<1> DEFINE n == Memory'
<1>1. n.refs = m.refs /\ n.content = m.content /\ n.var = m.var /\ n.ran = <<>>
  BY DEF Become, Memory
<1>2. n \in Mem
  BY <1>1 DEF Memory, Mem, Sound
<1> HIDE DEF n
<1>3. Counted(n, W, Len(W), Extra(None))
  BY <1>1 DEF Sound, Counted, Cleared, Owed
<1>4. Sound(n, W, cs)
  BY <1>1, <1>2, <1>3 DEF Sound
<1> QED BY <1>4 DEF IInv, n

LEMMA MemoryFields == Memory.refs = refs /\ Memory.content = content /\ Memory.var = var
BY DEF Memory

LEMMA SoundParts ==
  ASSUME NEW m, NEW W, NEW cs, Sound(m, W, cs)
  PROVE  /\ m \in Mem /\ W \in Seq(Item) /\ cs \in Seq(CallKinds) /\ Len(cs) <= MaxCalls
         /\ Len(W) \in Nat /\ Len(W) \in 0 .. Len(W) /\ Len(cs) \in Nat
         /\ Counted(m, W, Len(W), Extra(None)) /\ Nested(W, m.var, m.content, cs)
         /\ Extra(None) \in [Val -> Nat]
BY ExtraIsNat DEF Sound

\* What has an owner has kept what it has.
LEMMA OwnedKept ==
  ASSUME NEW m \in Mem, NEW r \in Mem, Keeps(m, r), NEW W \in Seq(Item), NEW e \in [Val -> Nat],
         Counted(r, W, Len(W), e)
  PROVE  \A h \in Val : IsOwned(W, r.var, h) => r.content[h] = m.content[h]
<1>1. Len(W) \in Nat /\ Len(W) \in 0 .. Len(W)
  OBVIOUS
<1>2. /\ \A v \in Var : r.var[v] \in Val => r.refs[r.var[v]] > 0
      /\ \A i \in 1 .. Len(W) : ItemVal(W[i]) \in Val => r.refs[ItemVal(W[i])] > 0
  BY <1>1, OwnedIsAlive
<1>3. ASSUME NEW h \in Val, IsOwned(W, r.var, h) PROVE r.refs[h] > 0
  BY <1>2, <1>3 DEF IsOwned
<1> QED BY <1>3 DEF Keeps

LEMMA NestedKept ==
  ASSUME NEW W \in Seq(Item), NEW cs \in Seq(CallKinds), NEW va, NEW co, Nested(W, va, co, cs),
         NEW vb, At(vb, Handler) = At(va, Handler), NEW cp, OwnedKeep(W, vb, co, cp)
  PROVE  Nested(W, vb, cp, cs)
<1>1. PICK pos : Marks(W, cs, pos) /\ Handlers(W, va, co, cs, pos)
  BY DEF Nested
<1>2. /\ Len(W) \in Nat /\ Len(cs) \in Nat /\ Len(W) <= Len(W) /\ Len(cs) <= Len(cs)
      /\ \A k \in Len(cs) + 1 .. Len(cs) : pos[k] + 1 >= Len(W)
  OBVIOUS
<1>3. Bound(W, va, Handler, Len(W)) = At(va, Handler)
  BY <1>2, BoundByAll
<1>4. At(vb, Handler) = Bound(W, va, Handler, Len(W))
  BY <1>3
<1>5. Handlers(W, vb, cp, cs, pos)
  <2>1. SameBindings(W, W)
    BY DEF SameBindings
  <2> QED BY <1>1, <1>2, <1>4, <2>1, HandlersDrop
<1> QED BY <1>1, <1>5 DEF Nested

LEMMA NestedPush ==
  ASSUME NEW W \in Seq(Item), NEW cs \in Seq(CallKinds), NEW va, NEW co, Nested(W, va, co, cs),
         NEW w \in Item, w.kind \notin {"extent", "target"}, ~Binds(w, Handler), NEW vb, At(vb, Handler) = At(va, Handler)
  PROVE  Nested(Append(W, w), vb, co, cs)
<1>1. PICK pos : Marks(W, cs, pos) /\ Handlers(W, va, co, cs, pos)
  BY DEF Nested
<1>2. Marks(Append(W, w), cs, pos)
  BY <1>1, MarksPush
<1>3. Len(cs) <= Len(cs)
  OBVIOUS
<1>4. Handlers(Append(W, w), vb, co, cs, pos)
  BY <1>1, <1>3, HandlersPush
<1> QED BY <1>2, <1>4 DEF Nested

\* An item takes over the reference that is left.
LEMMA SoundPush ==
  ASSUME NEW m \in Mem, NEW W \in Seq(Item), NEW cs \in Seq(CallKinds), Len(cs) <= MaxCalls,
         NEW w \in Item, w.kind \notin {"extent", "target"}, ~Binds(w, Handler),
         Counted(m, W, Len(W), Extra(ItemVal(w))),
         NEW va, At(va, Handler) = At(m.var, Handler), Nested(W, va, m.content, cs)
  PROVE  Sound(m, Append(W, w), cs)
<1>1. Append(W, w) \in Seq(Item) /\ Len(Append(W, w)) = Len(W) + 1
  BY Appended
<1>2. Counted(m, Append(W, w), Len(W) + 1, Extra(None))
  BY AddItem
<1>3. Nested(Append(W, w), m.var, m.content, cs)
  BY NestedPush
<1> QED BY <1>1, <1>2, <1>3 DEF Sound

\* A call begins.
LEMMA SoundEnter ==
  ASSUME NEW m, NEW W, NEW cs, Sound(m, W, cs), Len(cs) < MaxCalls, NEW call \in CallKinds,
         NEW w, w = IF call = "block" THEN Extent ELSE TargetItem(Len(cs) + 1)
  PROVE  Sound(m, Append(W, w), Append(cs, call))
<1> DEFINE ds == Append(cs, call)
<1>1. /\ m \in Mem /\ W \in Seq(Item) /\ cs \in Seq(CallKinds) /\ Len(W) \in Nat /\ Len(cs) \in Nat
      /\ Counted(m, W, Len(W), Extra(None))
  BY SoundParts
<1>2. w \in Item /\ ItemVal(w) = None /\ ~Binds(w, Handler)
  <2>1. CASE call = "block"
    BY <2>1 DEF Extent, Item, ItemVal, Binds
  <2>2. CASE call # "block"
    <3>1. Len(cs) + 1 \in Target /\ MaxCalls \in Nat
      BY <1>1, ExtentsAssumption DEF Target
    <3>2. w = [kind |-> "target", target |-> Len(cs) + 1, value |-> None]
      BY <2>2 DEF TargetItem
    <3>3. w \in TargetItems
      BY <3>1, <3>2 DEF TargetItems, Maybe
    <3> QED BY <3>2, <3>3 DEF Item, ItemVal, Binds
  <2> QED BY <2>1, <2>2
<1>3. /\ Append(W, w) \in Seq(Item) /\ Len(Append(W, w)) = Len(W) + 1
      /\ ds \in Seq(CallKinds) /\ Len(ds) = Len(cs) + 1 /\ \A k \in 1 .. Len(cs) : ds[k] = cs[k]
  BY <1>1, <1>2, Appended
<1>4. Counted(m, Append(W, w), Len(W) + 1, Extra(None))
  BY <1>1, <1>2, AddItem
<1>5. Nested(Append(W, w), m.var, m.content, ds)
  <2>1. PICK pos : Marks(W, cs, pos) /\ Handlers(W, m.var, m.content, cs, pos)
    BY SoundParts DEF Nested
  <2> DEFINE new == [pos EXCEPT ![Len(cs) + 1] = Len(W) + 1]
  <2>2. Marks(Append(W, w), ds, new)
    BY <1>1, <1>2, <2>1, MarksEnter
  <2>3. \A k \in 1 .. Len(cs) : ds[k] = cs[k] /\ new[k] = pos[k]
    BY <1>1, <1>3, <2>1 DEF Marks
  <2>4. Len(cs) <= Len(ds)
    BY <1>1, <1>3
  <2> HIDE DEF ds, new
  <2>5. Handlers(Append(W, w), m.var, m.content, ds, new)
    BY <1>1, <1>2, <1>3, <2>1, <2>3, <2>4, HandlersPush
  <2> QED BY <2>2, <2>5 DEF Nested
<1>6. Len(ds) <= MaxCalls
  BY <1>1, <1>3, ExtentsAssumption
<1> QED BY <1>1, <1>3, <1>4, <1>5, <1>6 DEF Sound

\* V has the items of W below the w-th, and that one if the t-th call was a dyn_catch.
LeftAt(w, V, W, cs, t) ==
  /\ \A i \in 1 .. w - 1 : V[i] = W[i]
  /\ \/ Len(V) = w - 1
     \/ Len(V) = w /\ cs[t] = "catch" /\ V[w].kind = "target" /\ V[w].target = t

\* What is left when the t-th call is over: the items below its w-th, and that
\* one if it keeps a value.
DroppedAt(w, V, W, cs, pos, ds, t) ==
  /\ Marks(V, ds, pos)
  /\ Len(W) \in Nat /\ Len(V) \in Nat /\ Len(cs) \in Nat /\ t \in Nat /\ Len(ds) <= Len(cs)
  /\ w \in 1 .. Len(W) /\ (Len(V) = w - 1 \/ Len(V) = w)
  /\ \A i \in 1 .. Len(V) :
       V[i] = W[i] \/ (V[i].kind = "target" /\ W[i].kind = "target" /\ V[i].target = W[i].target)
  /\ \A k \in 1 .. t - 1 : k \in 1 .. Len(cs) /\ At(pos, k) \in 1 .. w - 1
  /\ \A k \in t .. Len(cs) : At(pos, k) >= w /\ At(pos, k) \in Nat

LEMMA DropMarks ==
  ASSUME NEW W \in Seq(Item), NEW cs \in Seq(CallKinds), NEW pos, Marks(W, cs, pos), NEW t \in 1 .. Len(cs),
         NEW V \in Seq(Item), Len(V) <= Len(W), LeftAt(At(pos, t), V, W, cs, t),
         NEW ds \in Seq(CallKinds), Len(ds) = t - 1, \A k \in 1 .. t - 1 : ds[k] = cs[k]
  PROVE  DroppedAt(At(pos, t), V, W, cs, pos, ds, t)
<1> DEFINE w == pos[t]
<1>1. /\ w \in 1 .. Len(W) /\ Len(W) \in Nat /\ Len(V) \in Nat /\ Len(cs) \in Nat /\ t \in Nat
      /\ Len(ds) = t - 1 /\ Len(ds) <= Len(cs)
      /\ Len(V) = w - 1 \/ Len(V) = w
  <2>1. w \in 1 .. Len(W) /\ Len(W) \in Nat /\ Len(cs) \in Nat /\ t \in Nat /\ Len(V) \in Nat
    BY MarkOf
  <2>2. Len(V) = w - 1 \/ Len(V) = w
    BY DEF LeftAt, At
  <2>3. Len(ds) = t - 1 /\ t <= Len(cs)
    OBVIOUS
  <2> QED BY <2>1, <2>2, <2>3
<1>2. ASSUME NEW k \in 1 .. t - 1 PROVE k \in 1 .. Len(cs) /\ pos[k] \in 1 .. w - 1 /\ pos[k] <= Len(V)
  <2>1. k \in 1 .. Len(cs) /\ k < t
    BY <1>1
  <2>2. pos[k] < w /\ pos[k] \in 1 .. Len(W)
    BY <2>1 DEF Marks
  <2> QED BY <1>1, <2>1, <2>2
<1>3. ASSUME NEW k \in t .. Len(cs) PROVE pos[k] >= w /\ pos[k] \in Nat /\ (pos[k] = w => k = t)
  <2>1. k \in 1 .. Len(cs) /\ (k = t \/ t < k)
    BY <1>1
  <2>2. t < k => w < pos[k]
    BY <2>1 DEF Marks
  <2>3. pos[k] \in 1 .. Len(W)
    BY <2>1 DEF Marks
  <2> QED BY <1>1, <2>1, <2>2, <2>3
<1>4. Len(V) = w => W[w] = TargetItem(t) /\ cs[t] = "catch" /\ V[w].kind = "target" /\ V[w].target = t
  <2> SUFFICES ASSUME Len(V) = w
               PROVE  W[w] = TargetItem(t) /\ cs[t] = "catch" /\ V[w].kind = "target" /\ V[w].target = t
    OBVIOUS
  <2>1. cs[t] = "catch" /\ V[w].kind = "target" /\ V[w].target = t
    BY <1>1 DEF LeftAt, At
  <2>2. W[w] = IF cs[t] = "block" THEN Extent ELSE TargetItem(t)
    BY DEF Marks
  <2> QED BY <2>1, <2>2
<1>5. ASSUME NEW i \in 1 .. Len(V)
      PROVE  \/ V[i] = W[i]
             \/ V[i].kind = "target" /\ W[i].kind = "target" /\ V[i].target = W[i].target
  <2>1. i \in 1 .. w - 1 \/ (i = w /\ Len(V) = w)
    BY <1>1
  <2>2. \A k \in 1 .. w - 1 : V[k] = W[k]
    BY DEF LeftAt, At
  <2> QED BY <1>4, <2>1, <2>2, EntryKinds
<1> HIDE DEF w
<1>6. Marks(V, ds, pos)
  <2>1. \A i \in 1 .. Len(V) : V[i].kind = W[i].kind /\ (V[i].kind = "target" => V[i].target = W[i].target)
    BY <1>5
  <2>2. \A k \in 1 .. Len(ds) : ds[k] = cs[k] /\ pos[k] <= Len(V) /\ V[pos[k]] = W[pos[k]]
    BY <1>1, <1>2 DEF LeftAt, At, w
  <2>3. ASSUME NEW k \in Len(ds) + 1 .. Len(cs), pos[k] <= Len(V) PROVE cs[k] # "block"
    <3>1. k \in t .. Len(cs)
      BY <1>1
    <3>2. Len(V) = w /\ k = t
      BY <1>1, <1>3, <2>3, <3>1
    <3> QED BY <1>4, <3>2
  <2> QED BY <1>1, <2>1, <2>2, <2>3, MarksDrop
<1> QED BY <1>1, <1>2, <1>3, <1>5, <1>6 DEF At, w, DroppedAt

LEMMA DropCalls ==
  ASSUME NEW W \in Seq(Item), NEW cs \in Seq(CallKinds), NEW pos, Marks(W, cs, pos), NEW t \in 1 .. Len(cs),
         NEW V \in Seq(Item), Len(V) <= Len(W), LeftAt(At(pos, t), V, W, cs, t),
         NEW ds \in Seq(CallKinds), Len(ds) = t - 1, \A k \in 1 .. t - 1 : ds[k] = cs[k],
         NEW va, NEW co, Handlers(W, va, co, cs, pos),
         NEW vb, At(vb, Handler) = Bound(W, va, Handler, Len(V)),
         NEW cp, OwnedKeep(V, vb, co, cp)
  PROVE  Nested(V, vb, cp, ds)
<1> DEFINE w == At(pos, t)
<1>1. DroppedAt(w, V, W, cs, pos, ds, t)
  BY DropMarks
<1> HIDE DEF w
<1>2. SameBindings(V, W)
  BY <1>1 DEF Binds, SameBindings, DroppedAt
<1>3. \A k \in 1 .. Len(ds) : ds[k] = cs[k]
  BY <1>1 DEF DroppedAt
<1>4. ASSUME NEW k \in Len(ds) + 1 .. Len(cs) PROVE pos[k] + 1 >= Len(V)
  <2>1. k \in t .. Len(cs)
    BY <1>1 DEF DroppedAt
  <2> QED BY <1>1, <2>1 DEF At, DroppedAt
<1>5. Handlers(V, vb, cp, ds, pos)
  BY <1>1, <1>2, <1>3, <1>4, HandlersDrop DEF DroppedAt
<1> QED BY <1>1, <1>5 DEF Nested, DroppedAt

\* The items above the goal are undone, and the extra reference stays.
LEMMA UnwindTo ==
  ASSUME NEW m \in Mem, windlist \in Seq(Item), NEW cs \in Seq(CallKinds), NEW pos, Marks(windlist, cs, pos),
         Handlers(windlist, m.var, m.content, cs, pos), NEW e \in [Val -> Nat],
         Counted(m, windlist, Len(windlist), e), NEW t \in 1 .. Len(cs), NEW for_throw \in BOOLEAN
  PROVE  LET V == SubSeq(windlist, 1, pos[t] - 1)
             r == Unwind(m, pos[t] - 1, for_throw) IN
         /\ V \in Seq(Item) /\ r \in Mem /\ Counted(r, V, Len(V), e)
         /\ Nested(V, r.var, r.content, SubSeq(cs, 1, t - 1))
         /\ SubSeq(cs, 1, t - 1) \in Seq(CallKinds) /\ Len(SubSeq(cs, 1, t - 1)) = t - 1
<1> DEFINE g == pos[t] - 1
           V == SubSeq(windlist, 1, g)
           ds == SubSeq(cs, 1, t - 1)
           r == Unwind(m, g, for_throw)
<1>1. /\ g \in 0 .. Len(windlist) /\ g = pos[t] - 1 /\ Len(windlist) \in Nat /\ g \in Nat /\ g <= Len(windlist)
      /\ t - 1 \in 0 .. Len(cs)
  <2> DEFINE q == pos[t]
  <2>1. q \in 1 .. Len(windlist) /\ Len(windlist) \in Nat /\ Len(cs) \in Nat /\ g = q - 1
    BY MarkOf
  <2>2. t - 1 \in 0 .. Len(cs)
    BY <2>1
  <2> HIDE DEF q
  <2> QED BY <2>1, <2>2
<1> HIDE DEF g
<1>2. V \in Seq(Item) /\ Len(V) = g /\ \A i \in 1 .. g : V[i] = windlist[i]
  BY <1>1, Prefix
<1>3. ds \in Seq(CallKinds) /\ Len(ds) = t - 1 /\ \A k \in 1 .. t - 1 : ds[k] = cs[k]
  BY <1>1, Prefix
<1>4. /\ r \in Mem /\ Counted(r, windlist, g, e) /\ Keeps(m, r)
      /\ \A v \in Var : r.var[v] = Bound(windlist, m.var, v, g)
  BY <1>1, UnwindExact
<1> HIDE DEF V, ds, r
<1>5. Counted(r, V, g, e)
  <2>1. Len(V) \in Nat /\ g <= Len(V) /\ \A i \in 1 .. g : ItemVal(V[i]) = ItemVal(windlist[i])
    BY <1>1, <1>2
  <2> QED BY <1>1, <1>4, <2>1, CountedSame
<1>6. \A h \in Val : IsOwned(V, r.var, h) => r.content[h] = m.content[h]
  BY <1>2, <1>4, <1>5, OwnedKept
<1>7. At(r.var, Handler) = Bound(windlist, m.var, Handler, Len(V))
  BY <1>2, <1>4, HandlerIsVar DEF At
<1>8. Nested(V, r.var, r.content, ds)
  <2> DEFINE va == r.var
             co == r.content
  <2>1. At(va, Handler) = Bound(windlist, m.var, Handler, Len(V)) /\ OwnedKeep(V, va, m.content, co)
    BY <1>6, <1>7 DEF OwnedKeep
  <2>2. Len(V) <= Len(windlist) /\ LeftAt(At(pos, t), V, windlist, cs, t)
    BY <1>1, <1>2 DEF LeftAt, At
  <2> HIDE DEF va, co
  <2>3. Nested(V, va, co, ds)
    BY <1>2, <1>3, <2>1, <2>2, DropCalls
  <2> QED BY <2>3 DEF va, co
<1> QED BY <1>2, <1>3, <1>4, <1>5, <1>8 DEF g, V, ds, r

\* A throw: the item of the catch takes over the value.
LEMMA UnwindForThrow ==
  ASSUME NEW m \in Mem, windlist \in Seq(Item), NEW cs \in Seq(CallKinds), Len(cs) <= MaxCalls,
         NEW pos, Marks(windlist, cs, pos),
         Handlers(windlist, m.var, m.content, cs, pos), NEW x \in Maybe,
         Counted(m, windlist, Len(windlist), Extra(x)), NEW t \in 1 .. Len(cs), cs[t] = "catch"
  PROVE  Sound(Unwind(m, pos[t], TRUE), [SubSeq(windlist, 1, pos[t]) EXCEPT ![pos[t]].value = x], SubSeq(cs, 1, t - 1))
<1> DEFINE g == pos[t]
           V0 == SubSeq(windlist, 1, g)
           V == [V0 EXCEPT ![g].value = x]
           ds == SubSeq(cs, 1, t - 1)
           r == Unwind(m, g, TRUE)
<1>1. /\ g \in 1 .. Len(windlist) /\ g \in 0 .. Len(windlist) /\ g = pos[t] /\ Len(windlist) \in Nat /\ g \in Nat
      /\ g - 1 \in Nat /\ g - 1 + 1 = g /\ g <= Len(windlist) /\ g - 1 < g
      /\ t - 1 \in 0 .. Len(cs) /\ t - 1 <= MaxCalls /\ t \in Target
      /\ windlist[g] = TargetItem(t)
  <2>1. MaxCalls \in Nat
    BY ExtentsAssumption
  <2>2. g \in 1 .. Len(windlist) /\ windlist[g] = TargetItem(t)
    BY DEF Marks
  <2> QED BY <2>1, <2>2 DEF Target
<1> HIDE DEF g
<1>2. V0 \in Seq(Item) /\ Len(V0) = g /\ \A i \in 1 .. g : V0[i] = windlist[i]
  BY <1>1, Prefix
<1>3. ds \in Seq(CallKinds) /\ Len(ds) = t - 1 /\ \A k \in 1 .. t - 1 : ds[k] = cs[k]
  BY <1>1, Prefix
<1>4. /\ r \in Mem /\ Counted(r, windlist, g, Extra(x)) /\ Keeps(m, r)
      /\ \A v \in Var : r.var[v] = Bound(windlist, m.var, v, g)
  BY <1>1, UnwindExact, ExtraIsNat
<1> HIDE DEF V0, ds, r
<1> DEFINE item == [TargetItem(t) EXCEPT !.value = x]
<1>5. item \in Item /\ item.kind = "target" /\ item.target = t /\ ItemVal(item) = x /\ ItemVal(TargetItem(t)) = None
  <2>1. item = [kind |-> "target", target |-> t, value |-> x]
    BY DEF TargetItem
  <2>2. item \in TargetItems
    BY <1>1, <2>1 DEF TargetItems
  <2> QED BY <2>1, <2>2, EntryKinds DEF Item, ItemVal
<1>6. V = [V0 EXCEPT ![g] = item]
  <2>1. V0[g] = TargetItem(t)
    BY <1>1, <1>2
  <2> QED BY <2>1
<1> HIDE DEF V, item
<1>7. V \in Seq(Item) /\ Len(V) = g /\ V[g] = item /\ \A i \in 1 .. g - 1 : V[i] = windlist[i]
  <2>1. g \in 1 .. Len(V0) /\ \A i \in 1 .. g - 1 : i \in 1 .. Len(V0) /\ i # g /\ V0[i] = windlist[i]
    BY <1>1, <1>2
  <2>2. V \in Seq(Item) /\ Len(V) = Len(V0) /\ V[g] = item
    BY <1>2, <1>5, <1>6, <2>1
  <2>3. \A i \in 1 .. g - 1 : V[i] = V0[i]
    BY <1>2, <1>6, <2>1
  <2> QED BY <1>2, <2>1, <2>2, <2>3
<1>8. Counted(r, windlist, g - 1, Extra(x))
  <2>1. ASSUME NEW z PROVE ItemRefs(windlist, g, z) = ItemRefs(windlist, g - 1, z) + Hit(None, z)
    <3>1. g - 1 < Len(windlist) /\ ItemVal(windlist[g - 1 + 1]) = None
      BY <1>1, <1>5
    <3>2. ItemRefs(windlist, g - 1 + 1, z) = ItemRefs(windlist, g - 1, z) + Hit(ItemVal(windlist[g - 1 + 1]), z)
      BY <1>1, <3>1, ItemRefsNext
    <3> QED BY <1>1, <3>1, <3>2
  <2>2. ASSUME NEW z \in Val PROVE ItemRefs(windlist, g, z) = ItemRefs(windlist, g - 1, z)
    <3>1. Hit(None, z) = 0 /\ ItemRefs(windlist, g - 1, z) \in Nat
      BY <1>1, Constants, ItemRefsIsNat DEF Hit
    <3> QED BY <2>1, <3>1
  <2>3. Owners(windlist, g, r.var, Extra(x)) = Owners(windlist, g - 1, r.var, Extra(x))
    BY <2>2 DEF Owners
  <2> QED BY <1>4, <2>3 DEF Counted
<1>9. Counted(r, V, g, Extra(None))
  <2>1. Len(V) \in Nat /\ g - 1 <= Len(V) /\ g - 1 <= Len(windlist) /\ g - 1 < Len(V)
    BY <1>1, <1>7
  <2>2. \A i \in 1 .. g - 1 : ItemVal(V[i]) = ItemVal(windlist[i])
    BY <1>7
  <2>3. Counted(r, V, g - 1, Extra(x))
    BY <1>1, <1>8, <2>1, <2>2, CountedSame
  <2>4. V[g - 1 + 1] = item
    BY <1>1, <1>7
  <2>5. \A z \in Val : Extra(x)[z] = Extra(None)[z] + Hit(ItemVal(V[g - 1 + 1]), z)
    BY <1>5, <2>4, Constants DEF Extra, Hit
  <2>6. Counted(r, V, g - 1 + 1, Extra(None))
    BY <1>1, <2>1, <2>3, <2>5, TakeOver, ExtraIsNat
  <2> QED BY <1>1, <2>6
<1>10. \A h \in Val : IsOwned(V, r.var, h) => r.content[h] = m.content[h]
  BY <1>4, <1>7, <1>9, OwnedKept, ExtraIsNat
<1>11. Nested(V, r.var, r.content, ds)
  <2> DEFINE va == r.var
             co == r.content
  <2>1. At(va, Handler) = Bound(windlist, m.var, Handler, Len(V)) /\ OwnedKeep(V, va, m.content, co)
    BY <1>4, <1>7, <1>10, HandlerIsVar DEF At, OwnedKeep
  <2>2. Len(V) <= Len(windlist) /\ LeftAt(At(pos, t), V, windlist, cs, t)
    BY <1>1, <1>5, <1>7 DEF LeftAt, At
  <2> HIDE DEF va, co
  <2>3. V \in Seq(Item) /\ ds \in Seq(CallKinds) /\ Len(ds) = t - 1 /\ \A k \in 1 .. t - 1 : ds[k] = cs[k]
    BY <1>3, <1>7
  <2>4. Nested(V, va, co, ds)
    BY <2>1, <2>2, <2>3, DropCalls
  <2> QED BY <2>4 DEF va, co
<1>12. Sound(r, V, ds)
  BY <1>1, <1>3, <1>4, <1>7, <1>9, <1>11 DEF Sound
<1> QED BY <1>12 DEF g, V, V0, ds, r

-----------------------------------------------------------------------------
(***************************************************************************)
(* Every step                                                              *)
(***************************************************************************)
LEMMA IInvParts ==
  ASSUME IInv
  PROVE  /\ Memory \in Mem /\ windlist \in Seq(Item) /\ calls \in Seq(CallKinds) /\ Len(calls) <= MaxCalls
         /\ Len(windlist) \in Nat /\ Len(windlist) \in 0 .. Len(windlist) /\ Len(calls) \in Nat
         /\ Counted(Memory, windlist, Len(windlist), Extra(None))
         /\ Nested(windlist, Memory.var, Memory.content, calls)
         /\ Extra(None) \in [Val -> Nat]
         /\ \A x \in Alive : x \in Val /\ x \in Maybe /\ Memory.refs[x] > 0
         /\ None \in Maybe /\ None \notin Val
BY SoundParts, MemoryFields, Constants DEF IInv, Alive, Maybe

LEMMA InitStep ==
  ASSUME Init
  PROVE  IInv
<1> DEFINE m == Memory
           W == windlist
           cs == calls
           pos == [k \in Nat |-> 0]
<1>1. /\ m.refs = [x \in Val |-> 0] /\ m.content = [x \in Val |-> None] /\ m.var = [v \in Var |-> None]
      /\ m.ran = <<>> /\ W = <<>> /\ cs = <<>>
  BY DEF Init, Memory
<1>2. m \in Mem
  BY <1>1 DEF Memory, Mem, Maybe
<1>3. W \in Seq(Item) /\ cs \in Seq(CallKinds) /\ Len(W) = 0 /\ Len(cs) = 0 /\ Len(cs) <= MaxCalls
  BY <1>1, ExtentsAssumption
<1> HIDE DEF m, W, cs
<1>4. Counted(m, W, 0, Extra(None))
  <2>1. \A x \in Val : Hit(None, x) = 0 /\ Extra(None)[x] = 0
    BY Constants DEF Hit, Extra
  <2>2. \A x \in Val : ItemRefs(W, 0, x) = 0
    <3>1. \A x \in Val : {i \in 1 .. 0 : ItemVals(W)[i] = x} = {}
      OBVIOUS
    <3> QED BY <3>1, FS_EmptySet DEF ItemRefs, Count
  <2>3. \A x \in Val : VarRefs(m.var, x) = 0
    <3>1. \A x \in Val : {v \in Var : m.var[v] = x} = {}
      BY <1>1, Constants
    <3> QED BY <3>1, FS_EmptySet DEF VarRefs, Count
  <2>4. \A x \in Val : ContentRefs(m.content, x) = 0
    <3>1. \A x \in Val : {v \in Val : m.content[v] = x} = {}
      BY <1>1, Constants
    <3> QED BY <3>1, FS_EmptySet DEF ContentRefs, Count
  <2>5. Cleared(m)
    BY <1>1 DEF Cleared
  <2>6. \A x \in Val : Owners(W, 0, m.var, Extra(None))[x] = 0
    BY <2>1, <2>2, <2>3 DEF Owners
  <2> QED BY <1>1, <2>1, <2>4, <2>5, <2>6 DEF Counted, Owed
<1>5. Marks(W, cs, pos)
  BY <1>3 DEF Marks
<1>6. Handlers(W, m.var, m.content, cs, pos)
  <2>1. Bound(W, m.var, Handler, 0) = m.var[Handler]
    BY <1>3, BoundByAll DEF At
  <2> QED BY <1>1, <1>3, <2>1, HandlerIsVar DEF Handlers
<1>7. Sound(m, W, cs)
  BY <1>2, <1>3, <1>4, <1>5, <1>6 DEF Sound, Nested
<1> QED BY <1>7 DEF IInv, m, W, cs

LEMMA NewStep ==
  ASSUME IInv, NEW x \in Val, NEW y \in Alive \union {None}, New(x, y)
  PROVE  IInv'
<1> DEFINE m == Memory
           r == Ref(Alloc(m, x, y), y)
           w == UnrefItem(x)
<1>1. Become(r) /\ windlist' = windlist \o <<w>> /\ calls' = calls /\ x \notin Alive
  BY DEF New, Add, Stay
<1>2. y \in Maybe /\ (y \in Val => m.refs[y] > 0) /\ m.refs[x] = 0
  <2>1. m.refs[x] \in Nat /\ ~(m.refs[x] > 0)
    BY <1>1, IInvParts, MemParts, MemoryFields DEF Alive
  <2> QED BY <2>1, IInvParts
<1>3. w \in Item /\ ItemVal(w) = x /\ w.kind = "unref" /\ ~Binds(w, Handler)
  BY ItemsAre, BindsKind DEF Maybe
<1> DEFINE r0 == IF y \in Val THEN Ref(Alloc(m, x, y), y) ELSE Alloc(m, x, y)
<1>4. r = r0
  <2>1. y \notin Val => y = None
    BY <1>2 DEF Maybe
  <2> QED BY <2>1 DEF Ref
<1>5. /\ r0 \in Mem /\ r0.var = m.var /\ r0.content = [m.content EXCEPT ![x] = y]
      /\ Counted(r0, windlist, Len(windlist), Extra(x))
  <2>1. y \in Maybe \union Target
    BY <1>2
  <2> HIDE DEF m
  <2> QED BY <1>2, <2>1, IInvParts, AllocCounted DEF m
<1> HIDE DEF m, r, r0, w
<1>6. Nested(windlist, m.var, r.content, calls)
  <2>1. \A v \in Var : m.var[v] \in Val => m.refs[m.var[v]] > 0
    BY IInvParts, OwnedIsAlive DEF m
  <2>2. \A i \in 1 .. Len(windlist) : ItemVal(windlist[i]) \in Val => m.refs[ItemVal(windlist[i])] > 0
    BY IInvParts, OwnedIsAlive DEF m
  <2>3. ASSUME NEW h \in Val, IsOwned(windlist, m.var, h) PROVE r.content[h] = m.content[h]
    <3>1. m.refs[h] > 0 /\ h # x
      BY <1>2, <2>1, <2>2, <2>3 DEF IsOwned
    <3>2. m.content \in [Val -> Maybe \union Target]
      BY IInvParts, MemParts DEF m
    <3> QED BY <1>4, <1>5, <3>1, <3>2
  <2>4. OwnedKeep(windlist, m.var, m.content, r.content)
    BY <2>3 DEF OwnedKeep
  <2> QED BY <2>4, IInvParts, NestedKept DEF m
<1>7. Sound(r, Append(windlist, w), calls)
  <2>1. At(m.var, Handler) = At(r.var, Handler)
    BY <1>4, <1>5
  <2> QED BY <1>3, <1>4, <1>5, <1>6, <2>1, IInvParts, SoundPush
<1>8. windlist' = Append(windlist, w)
  BY <1>1, <1>3, AddOne, IInvParts
<1> QED BY <1>1, <1>7, <1>8, Becomes

\* Ref and what it leaves alone.
LEMMA RefStep ==
  ASSUME IInv, NEW x \in Alive \union {None}
  PROVE  LET r == Ref(Memory, x) IN
         /\ x \in Maybe /\ r \in Mem /\ r.content = Memory.content /\ r.var = Memory.var /\ Keeps(Memory, r)
         /\ Counted(r, windlist, Len(windlist), Extra(x))
         /\ Nested(windlist, r.var, r.content, calls)
<1> DEFINE m == Memory
<1>1. x \in Maybe /\ (x # None => m.refs[x] > 0)
  BY IInvParts
<1>2. /\ m \in Mem /\ Len(windlist) \in Nat /\ Counted(m, windlist, Len(windlist), Extra(None))
      /\ Nested(windlist, m.var, m.content, calls)
  BY IInvParts
<1> HIDE DEF m
<1> DEFINE r == Ref(m, x)
<1>3. /\ r \in Mem /\ r.content = m.content /\ r.var = m.var
      /\ Counted(r, windlist, Len(windlist), Extra(x)) /\ Keeps(m, r)
  BY <1>1, <1>2, RefCounted
<1> HIDE DEF r
<1>4. Nested(windlist, r.var, r.content, calls)
  BY <1>2, <1>3
<1> QED BY <1>1, <1>3, <1>4 DEF r, m

LEMMA RetainStep ==
  ASSUME IInv, NEW x \in Alive, Retain(x)
  PROVE  IInv'
<1> DEFINE r == Ref(Memory, x)
           w == UnrefItem(x)
<1>1. Become(r) /\ windlist' = windlist \o <<w>> /\ calls' = calls
  BY DEF Retain, Add, Stay
<1>2. w \in Item /\ ItemVal(w) = x /\ w.kind = "unref" /\ ~Binds(w, Handler)
  BY ItemsAre, BindsKind, IInvParts
<1>3. /\ r \in Mem /\ Counted(r, windlist, Len(windlist), Extra(x))
      /\ Nested(windlist, r.var, r.content, calls)
  BY RefStep
<1> HIDE DEF r, w
<1>4. Sound(r, Append(windlist, w), calls)
  BY <1>2, <1>3, IInvParts, SoundPush
<1>5. windlist' = Append(windlist, w)
  BY <1>1, <1>2, AddOne, IInvParts
<1> QED BY <1>1, <1>4, <1>5, Becomes

LEMMA OnUnwindStep ==
  ASSUME IInv, NEW f \in Fun, OnUnwind(f)
  PROVE  IInv'
<1> DEFINE m == Memory
           w == FuncItem(f)
<1>1. Become(m) /\ windlist' = windlist \o <<w>> /\ calls' = calls
  BY DEF OnUnwind, Add, Stay
<1>2. w \in Item /\ ItemVal(w) = None /\ w.kind = "func" /\ ~Binds(w, Handler)
  BY ItemsAre, BindsKind
<1> HIDE DEF m, w
<1>4. Sound(m, Append(windlist, w), calls)
  BY <1>2, IInvParts, SoundPush DEF m
<1>5. windlist' = Append(windlist, w)
  BY <1>1, <1>2, AddOne, IInvParts
<1> QED BY <1>1, <1>4, <1>5, Becomes

LEMMA SetStep ==
  ASSUME IInv, NEW x \in Alive \union {None}, NEW v \in Var \ {Handler}, Set(v, x)
  PROVE  IInv'
<1> DEFINE a == Ref(Memory, x)
           r == Rebind(a, v, x)
<1>1. /\ x \in Maybe /\ a \in Mem /\ a.content = Memory.content /\ a.var = Memory.var
      /\ Counted(a, windlist, Len(windlist), Extra(x))
      /\ Nested(windlist, a.var, a.content, calls)
  BY RefStep
<1>2. Become(r) /\ windlist' = windlist /\ calls' = calls
  BY <1>1, MemoryFields DEF Set, Stay, Rebind
<1>3. /\ r \in Mem /\ r.var = [a.var EXCEPT ![v] = x]
      /\ Counted(r, windlist, Len(windlist), Extra(None)) /\ Keeps(a, r)
  <2> HIDE DEF a
  <2> QED BY <1>1, IInvParts, RebindCounted
<1> HIDE DEF a, r
<1>4. At(r.var, Handler) = At(a.var, Handler)
  BY <1>1, <1>3, MemParts, HandlerIsVar DEF At
<1>5. \A h \in Val : IsOwned(windlist, r.var, h) => r.content[h] = a.content[h]
  BY <1>1, <1>3, IInvParts, OwnedKept
<1>6. Nested(windlist, r.var, r.content, calls)
  <2> DEFINE va == r.var
             co == r.content
  <2>1. At(va, Handler) = At(a.var, Handler) /\ OwnedKeep(windlist, va, a.content, co)
    BY <1>4, <1>5 DEF OwnedKeep
  <2> HIDE DEF va, co
  <2>2. Nested(windlist, va, co, calls)
    BY <1>1, <2>1, IInvParts, NestedKept
  <2> QED BY <2>2 DEF va, co
<1>7. Sound(r, windlist, calls)
  BY <1>3, <1>6, IInvParts DEF Sound
<1> QED BY <1>2, <1>7, Becomes

LEMMA LetStep ==
  ASSUME IInv, NEW x \in Alive \union {None}, NEW v \in Var \ {Handler}, Let(v, x)
  PROVE  IInv'
<1> DEFINE a == Ref(Memory, x)
           r == Bind(a, v, x)
           w == VarItem(v, At(a.var, v))
<1>1. /\ x \in Maybe /\ a \in Mem /\ a.content = Memory.content /\ a.var = Memory.var
      /\ Counted(a, windlist, Len(windlist), Extra(x))
      /\ Nested(windlist, a.var, a.content, calls)
  BY RefStep
<1>2. Become(r) /\ windlist' = windlist \o <<w>> /\ calls' = calls
  BY <1>1, MemoryFields DEF Let, Add, Stay, Bind, At
<1> HIDE DEF a
<1>3. /\ r \in Mem /\ r.var = [a.var EXCEPT ![v] = x] /\ r.content = a.content
      /\ Counted(r, windlist, Len(windlist), Extra(At(a.var, v)))
  BY <1>1, IInvParts, BindCounted
<1>4. w \in Item /\ ItemVal(w) = At(a.var, v) /\ w.kind = "var" /\ ~Binds(w, Handler)
  <2>1. At(a.var, v) \in Maybe
    BY <1>1, MemParts DEF At
  <2>2. w \in Item /\ ItemVal(w) = At(a.var, v) /\ w.kind = "var" /\ w.var = v
    BY <2>1, ItemsAre
  <2> QED BY <2>2 DEF Binds
<1> HIDE DEF r, w
<1>5. At(a.var, Handler) = At(r.var, Handler)
  BY <1>1, <1>3, MemParts, HandlerIsVar DEF At
<1>6. Sound(r, Append(windlist, w), calls)
  <2> DEFINE va == a.var
  <2>1. At(va, Handler) = At(r.var, Handler) /\ Nested(windlist, va, r.content, calls)
    BY <1>1, <1>3, <1>5
  <2>2. Counted(r, windlist, Len(windlist), Extra(ItemVal(w)))
    BY <1>3, <1>4
  <2> HIDE DEF va
  <2> QED BY <1>3, <1>4, <2>1, <2>2, IInvParts, SoundPush
<1>7. windlist' = Append(windlist, w)
  BY <1>2, <1>4, AddOne, IInvParts
<1> QED BY <1>2, <1>6, <1>7, Becomes

LEMMA BeginStep ==
  ASSUME IInv, Begin
  PROVE  IInv'
<1>1. Become(Memory) /\ windlist' = windlist \o <<Extent>> /\ calls' = Append(calls, "block") /\ Len(calls) < MaxCalls
  BY DEF Begin, Enter, Add
<1>2. Sound(Memory, Append(windlist, Extent), Append(calls, "block"))
  BY <1>1, SoundEnter DEF IInv, CallKinds
<1>3. windlist' = Append(windlist, Extent)
  <2>1. Extent \in Item
    BY DEF Extent, Item
  <2> QED BY <1>1, <2>1, AddOne, IInvParts
<1> QED BY <1>1, <1>2, <1>3, Becomes

LEMMA CatchStep ==
  ASSUME IInv, Catch
  PROVE  IInv'
<1> DEFINE w == TargetItem(Len(calls) + 1)
<1>1. calls' = Append(calls, "catch") /\ Len(calls') = Len(calls) + 1 /\ Len(calls) < MaxCalls
  BY IInvParts DEF Catch, Enter, CallKinds
<1>2. Become(Memory) /\ windlist' = windlist \o <<w>>
  BY <1>1 DEF Catch, Add
<1>3. Sound(Memory, Append(windlist, w), Append(calls, "catch"))
  BY <1>1, SoundEnter DEF IInv, CallKinds
<1>4. windlist' = Append(windlist, w)
  <2>1. Len(calls) + 1 \in Target
    BY <1>1, IInvParts, ExtentsAssumption DEF Target
  <2>2. w \in Item
    BY <2>1 DEF TargetItem, TargetItems, Item, Maybe
  <2> QED BY <1>2, <2>2, AddOne, IInvParts
<1> QED BY <1>1, <1>2, <1>3, <1>4, Becomes

LEMMA InCallIs ==
  ASSUME IInv, NEW call \in CallKinds, InCall(call), Leave
  PROVE  /\ calls # <<>> /\ Len(calls) \in 1 .. Len(calls) /\ calls[Len(calls)] = call
         /\ calls' = SubSeq(calls, 1, Len(calls) - 1)
BY IInvParts DEF InCall, Leave

\* The innermost call returns, and x is handed on to the item w if there is one.
LEMMA EndStep ==
  ASSUME IInv, End
  PROVE  IInv'
<1> DEFINE t == Len(calls)
           W == windlist
<1>1. /\ calls # <<>> /\ t \in 1 .. Len(calls) /\ calls[Len(calls)] = "block" /\ calls' = SubSeq(calls, 1, t - 1)
  BY InCallIs DEF End, CallKinds
<1>2. PICK pos : Marks(W, calls, pos) /\ Handlers(W, Memory.var, Memory.content, calls, pos)
  BY IInvParts DEF Nested
<1>3. ExtentEnd = pos[t] - 1
  BY <1>1, <1>2, IInvParts, InnermostExtent DEF ExtentEnd
<1> DEFINE V == SubSeq(windlist, 1, pos[t] - 1)
           ds == SubSeq(calls, 1, t - 1)
           r == Unwind(Memory, pos[t] - 1, FALSE)
<1>4. Become(r) /\ windlist' = V /\ calls' = ds
  BY <1>1, <1>3 DEF End, DropTo
<1>5. /\ V \in Seq(Item) /\ r \in Mem /\ Counted(r, V, Len(V), Extra(None))
      /\ Nested(V, r.var, r.content, ds) /\ ds \in Seq(CallKinds) /\ Len(ds) = t - 1
  <2> DEFINE m == Memory
  <2>1. /\ m \in Mem /\ windlist \in Seq(Item) /\ calls \in Seq(CallKinds) /\ Extra(None) \in [Val -> Nat]
        /\ Counted(m, windlist, Len(windlist), Extra(None)) /\ FALSE \in BOOLEAN
    BY IInvParts
  <2>2. Marks(windlist, calls, pos) /\ Handlers(windlist, m.var, m.content, calls, pos)
    BY <1>2
  <2> HIDE DEF m, t
  <2>3. t \in 1 .. Len(calls)
    BY <1>1
  <2> QED BY <2>1, <2>2, <2>3, UnwindTo DEF m
<1> HIDE DEF V, ds, r
<1>6. Len(ds) <= MaxCalls
  BY <1>5, IInvParts, ExtentsAssumption
<1>7. Sound(r, V, ds)
  BY <1>5, <1>6 DEF Sound
<1> QED BY <1>4, <1>7, Becomes

LEMMA CatchReturnsStep ==
  ASSUME IInv, CatchReturns
  PROVE  IInv'
<1> DEFINE t == Len(calls)
           W == windlist
           S == {i \in 1 .. Len(windlist) : windlist[i].kind = "target" /\ windlist[i].target = Len(calls)}
<1>1. /\ calls # <<>> /\ t \in 1 .. Len(calls) /\ calls[t] = "catch" /\ calls' = SubSeq(calls, 1, t - 1)
  BY InCallIs DEF CatchReturns, CallKinds
<1>2. PICK pos : Marks(W, calls, pos) /\ Handlers(W, Memory.var, Memory.content, calls, pos)
  BY IInvParts DEF Nested
<1>3. Max(S) = pos[t]
  <2>1. S \in SUBSET (1 .. Len(W)) /\ \A i \in S : W[i].kind = "target" /\ W[i].target = t
    OBVIOUS
  <2>2. W[pos[t]] = TargetItem(t) => pos[t] \in S
    BY <1>1, <1>2, EntryKinds DEF Marks
  <2> HIDE DEF S
  <2>3. windlist \in Seq(Item) /\ calls \in Seq(CallKinds)
    BY IInvParts
  <2> HIDE DEF t
  <2> QED BY <1>1, <1>2, <2>1, <2>2, <2>3, InnermostTarget
<1> DEFINE V == SubSeq(windlist, 1, pos[t] - 1)
           ds == SubSeq(calls, 1, t - 1)
           r == Unwind(Memory, pos[t] - 1, FALSE)
<1>4. Become(r) /\ windlist' = V /\ calls' = ds
  BY <1>1, <1>3 DEF CatchReturns, DropTo
<1>5. /\ V \in Seq(Item) /\ r \in Mem /\ Counted(r, V, Len(V), Extra(None))
      /\ Nested(V, r.var, r.content, ds) /\ ds \in Seq(CallKinds) /\ Len(ds) = t - 1
  <2> DEFINE m == Memory
  <2>1. /\ m \in Mem /\ windlist \in Seq(Item) /\ calls \in Seq(CallKinds) /\ Extra(None) \in [Val -> Nat]
        /\ Counted(m, windlist, Len(windlist), Extra(None)) /\ FALSE \in BOOLEAN
    BY IInvParts
  <2>2. Marks(windlist, calls, pos) /\ Handlers(windlist, m.var, m.content, calls, pos)
    BY <1>2
  <2> HIDE DEF m, t
  <2>3. t \in 1 .. Len(calls)
    BY <1>1
  <2> QED BY <2>1, <2>2, <2>3, UnwindTo DEF m
<1> HIDE DEF V, ds, r
<1>6. Len(ds) <= MaxCalls
  BY <1>5, IInvParts, ExtentsAssumption
<1>7. Sound(r, V, ds)
  BY <1>5, <1>6 DEF Sound
<1> QED BY <1>4, <1>7, Becomes

LEMMA EndWithStep ==
  ASSUME IInv, NEW x \in Alive \union {None}, EndWith(x)
  PROVE  IInv'
<1> DEFINE t == Len(calls)
           W == windlist
           m == Ref(Memory, x)
           w == UnrefItem(x)
<1>1. /\ calls # <<>> /\ t \in 1 .. Len(calls) /\ calls[Len(calls)] = "block" /\ calls' = SubSeq(calls, 1, t - 1)
  BY InCallIs DEF EndWith, CallKinds
<1>2. /\ x \in Maybe /\ m \in Mem /\ m.content = Memory.content /\ m.var = Memory.var
      /\ Counted(m, windlist, Len(windlist), Extra(x))
      /\ Nested(windlist, m.var, m.content, calls)
  BY RefStep
<1> HIDE DEF m
<1>3. PICK pos : Marks(W, calls, pos) /\ Handlers(W, m.var, m.content, calls, pos)
  BY <1>2 DEF Nested
<1>4. ExtentEnd = pos[t] - 1
  BY <1>1, <1>3, IInvParts, InnermostExtent DEF ExtentEnd
<1> DEFINE V == SubSeq(windlist, 1, pos[t] - 1)
           ds == SubSeq(calls, 1, t - 1)
           r == Unwind(m, pos[t] - 1, FALSE)
<1>5. Become(r) /\ windlist' = Append(V, w) /\ calls' = ds
  BY <1>1, <1>4 DEF EndWith, m
<1>6. /\ V \in Seq(Item) /\ r \in Mem /\ Counted(r, V, Len(V), Extra(x))
      /\ Nested(V, r.var, r.content, ds) /\ ds \in Seq(CallKinds) /\ Len(ds) = t - 1
  <2>1. /\ windlist \in Seq(Item) /\ calls \in Seq(CallKinds) /\ Extra(x) \in [Val -> Nat] /\ FALSE \in BOOLEAN
    BY IInvParts, ExtraIsNat
  <2> HIDE DEF t
  <2>3. t \in 1 .. Len(calls)
    BY <1>1
  <2> QED BY <1>2, <1>3, <2>1, <2>3, UnwindTo
<1>7. w \in Item /\ ItemVal(w) = x /\ w.kind = "unref" /\ ~Binds(w, Handler)
  BY <1>2, ItemsAre, BindsKind
<1> HIDE DEF V, ds, r, w
<1>8. Len(ds) <= MaxCalls
  BY <1>6, IInvParts, ExtentsAssumption
<1>9. Sound(r, Append(V, w), ds)
  BY <1>6, <1>7, <1>8, SoundPush
<1> QED BY <1>5, <1>9, Becomes

LEMMA ThrowStep ==
  ASSUME IInv, NEW x \in Alive \union {None}, NEW t \in 1 .. Len(calls), calls[t] = "catch", Throw(t, x)
  PROVE  IInv'
<1> DEFINE W == windlist
           m == Ref(Memory, x)
           S == {i \in 1 .. Len(windlist) :
                   /\ windlist[i].kind = "target" /\ windlist[i].target = t
                   /\ windlist[i].value = None}
<1>1. /\ x \in Maybe /\ m \in Mem
      /\ Counted(m, windlist, Len(windlist), Extra(x))
      /\ Nested(windlist, m.var, m.content, calls)
  BY RefStep
<1> HIDE DEF m
<1>2. PICK pos : Marks(W, calls, pos) /\ Handlers(W, m.var, m.content, calls, pos)
  BY <1>1 DEF Nested
<1>3. Max(S) = pos[t] /\ S # {}
  <2>1. S \in SUBSET (1 .. Len(W)) /\ \A i \in S : W[i].kind = "target" /\ W[i].target = t
    OBVIOUS
  <2>2. W[pos[t]] = TargetItem(t) => pos[t] \in S
    BY <1>2, EntryKinds DEF Marks
  <2> HIDE DEF S
  <2>3. windlist \in Seq(Item) /\ calls \in Seq(CallKinds)
    BY IInvParts
  <2> QED BY <1>2, <2>1, <2>2, <2>3, InnermostTarget
<1> DEFINE r == Unwind(m, pos[t], TRUE)
           V == [SubSeq(windlist, 1, pos[t]) EXCEPT ![pos[t]].value = x]
           ds == SubSeq(calls, 1, t - 1)
<1>4. Become(r) /\ windlist' = V /\ calls' = ds
  <2>1. LET w == Max(S) IN
        /\ Become(Unwind(m, w, TRUE))
        /\ windlist' = [SubSeq(windlist, 1, w) EXCEPT ![w].value = x]
        /\ calls' = SubSeq(calls, 1, t - 1)
    BY <1>3, Zenon DEF Throw, m
  <2> QED BY <1>3, <2>1
<1> HIDE DEF V, ds, r, S
<1>5. Sound(r, V, ds)
  BY <1>1, <1>2, IInvParts, UnwindForThrow DEF r, V, ds
<1> QED BY <1>4, <1>5, Becomes

\* dyn_catch with a handler: the list holds one reference to it and the variable one.
LEMMA CatchConditionStep ==
  ASSUME IInv, NEW h \in Val, CatchCondition(h)
  PROVE  IInv'
<1> DEFINE t == Len(calls) + 1
           ds == Append(calls, "catch")
           m == Memory
           a == Alloc(m, h, t)
           b == Ref(a, h)
           r == Bind(b, Handler, h)
           old == At(m.var, Handler)
           w1 == TargetItem(t)
           w2 == UnrefItem(h)
           w3 == VarItem(Handler, old)
           W1 == Append(windlist, w1)
           W2 == Append(W1, w2)
           W3 == Append(W2, w3)
<1>1. calls' = ds /\ Len(calls) < MaxCalls /\ h \notin Alive
  BY DEF CatchCondition, Enter
<1>2. /\ ds \in Seq(CallKinds) /\ Len(ds) = t /\ ds[t] = "catch" /\ \A k \in 1 .. Len(calls) : ds[k] = calls[k]
      /\ t \in Target /\ t \notin Val /\ t \in Nat /\ t <= MaxCalls
  <2>1. MaxCalls \in Nat /\ Len(calls) \in Nat /\ calls \in Seq(CallKinds) /\ "catch" \in CallKinds
    BY IInvParts, ExtentsAssumption DEF CallKinds
  <2>2. t \in Target /\ t \in Nat /\ t <= MaxCalls
    BY <1>1, <2>1 DEF Target
  <2>3. /\ ds \in Seq(CallKinds) /\ Len(ds) = t /\ ds[t] = "catch" /\ \A k \in 1 .. Len(calls) : ds[k] = calls[k]
    BY <2>1, Appended
  <2> QED BY <2>2, <2>3, Constants
<1>3. Become(r) /\ windlist' = windlist \o <<w1, w2, w3>>
  BY <1>1, <1>2, MemoryFields DEF CatchCondition, Add, Bind, At
<1>4. /\ m \in Mem /\ windlist \in Seq(Item) /\ Len(windlist) \in Nat /\ calls \in Seq(CallKinds) /\ Len(calls) \in Nat
      /\ Counted(m, windlist, Len(windlist), Extra(None)) /\ Nested(windlist, m.var, m.content, calls)
      /\ old \in Maybe /\ m.var \in [Var -> Maybe] /\ m.content \in [Val -> Maybe \union Target]
  BY IInvParts, MemParts, HandlerIsVar DEF At
<1>5. m.refs[h] = 0
  <2>1. m.refs[h] \in Nat /\ ~(m.refs[h] > 0)
    BY <1>1, <1>4, MemParts, MemoryFields DEF Alive
  <2> QED BY <2>1
<1>6. /\ w1 \in Item /\ ItemVal(w1) = None /\ ~Binds(w1, Handler)
      /\ w2 \in Item /\ ItemVal(w2) = h /\ ~Binds(w2, Handler) /\ w2.kind \notin {"extent", "target"}
      /\ w3 \in Item /\ ItemVal(w3) = old /\ w3.kind \notin {"extent", "target"}
  <2>1. w1 \in TargetItems
    BY <1>2 DEF TargetItem, TargetItems, Maybe
  <2>2. w1 \in Item /\ w1.kind = "target" /\ ItemVal(w1) = None
    BY <2>1, EntryKinds DEF Item, ItemVal
  <2>3. h \in Maybe
    BY DEF Maybe
  <2>4. w2 \in Item /\ ItemVal(w2) = h /\ w2.kind = "unref"
    BY <2>3, ItemsAre
  <2>5. w3 \in Item /\ ItemVal(w3) = old /\ w3.kind = "var"
    BY <1>4, ItemsAre, HandlerIsVar
  <2> QED BY <2>2, <2>4, <2>5, BindsKind
<1> HIDE DEF m, w1, w2
<1>7. /\ a \in Mem /\ a.var = m.var /\ a.content = [m.content EXCEPT ![h] = t] /\ a.refs[h] = 1
      /\ Counted(a, windlist, Len(windlist), Extra(h))
  <2> DEFINE a0 == IF t \in Val THEN Ref(Alloc(m, h, t), t) ELSE Alloc(m, h, t)
  <2>1. a0 = a
    BY <1>2
  <2>2. t \in Maybe \union Target /\ (t \in Val => m.refs[t] > 0)
    BY <1>2
  <2> HIDE DEF t
  <2>3. /\ a0 \in Mem /\ a0.var = m.var /\ a0.content = [m.content EXCEPT ![h] = t] /\ a0.refs[h] = 1
        /\ Counted(a0, windlist, Len(windlist), Extra(h))
    BY <1>4, <1>5, <2>2, AllocCounted
  <2> HIDE DEF a0
  <2> QED BY <2>1, <2>3
<1> HIDE DEF a
<1>8. W1 \in Seq(Item) /\ Len(W1) = Len(windlist) + 1 /\ W2 \in Seq(Item) /\ Len(W2) = Len(windlist) + 2
      /\ W3 \in Seq(Item)
  BY <1>4, <1>6, Appended
<1>9. Counted(a, W1, Len(W1), Extra(h))
  <2>1. \A z \in Val : Extra(h)[z] = Extra(h)[z] + Hit(ItemVal(w1), z)
    <3>1. ASSUME NEW z \in Val PROVE Extra(h)[z] = Extra(h)[z] + Hit(ItemVal(w1), z)
      <4>1. Hit(ItemVal(w1), z) = 0 /\ Extra(h)[z] = Hit(h, z) /\ Hit(h, z) \in Nat
        BY <1>6, Constants DEF Hit, Extra
      <4> QED BY <4>1
    <3> QED BY <3>1
  <2>2. Extra(h) \in [Val -> Nat]
    BY ExtraIsNat
  <2>3. Counted(a, Append(windlist, w1), Len(windlist) + 1, Extra(h))
    BY <1>4, <1>6, <1>7, <2>1, <2>2, AddOwner
  <2> QED BY <1>8, <2>3
<1> HIDE DEF W1
<1>10. Counted(a, W2, Len(W2), Extra(None))
  <2>1. Counted(a, Append(W1, w2), Len(W1) + 1, Extra(None))
    BY <1>6, <1>8, <1>9, AddItem
  <2> QED BY <1>4, <1>8, <2>1
<1> HIDE DEF W2
<1>11. b \in Mem /\ b.content = a.content /\ b.var = m.var /\ Counted(b, W2, Len(W2), Extra(h))
  <2>1. h \in Maybe /\ a.refs[h] > 0 /\ Len(W2) \in Nat
    BY <1>4, <1>7, <1>8 DEF Maybe
  <2> QED BY <1>7, <1>10, <2>1, RefCounted
<1> HIDE DEF b
<1>12. /\ r \in Mem /\ r.content = a.content /\ r.var = [m.var EXCEPT ![Handler] = h]
       /\ Counted(r, W2, Len(W2), Extra(old))
  <2>1. h \in Maybe /\ Len(W2) \in Nat
    BY <1>4, <1>8 DEF Maybe
  <2>2. /\ r \in Mem /\ r.content = b.content /\ r.var = [b.var EXCEPT ![Handler] = h]
        /\ Counted(r, W2, Len(W2), Extra(At(b.var, Handler)))
    BY <1>11, <2>1, HandlerIsVar, BindCounted
  <2> QED BY <1>11, <2>2
<1> HIDE DEF r
<1>13. Counted(r, W3, Len(W3), Extra(None))
  <2>1. Counted(r, Append(W2, w3), Len(W2) + 1, Extra(None))
    <3> HIDE DEF w3, old
    <3> QED BY <1>6, <1>8, <1>12, AddItem
  <2>2. Len(W3) = Len(W2) + 1
    BY <1>6, <1>8, Appended
  <2> QED BY <2>1, <2>2
<1>14. Nested(W3, r.var, r.content, ds)
  <2>1. Nested(windlist, m.var, a.content, calls)
    <3> DEFINE co == a.content
               va == m.var
    <3>1. /\ \A v \in Var : m.var[v] \in Val => m.refs[m.var[v]] > 0
          /\ \A i \in 1 .. Len(windlist) : ItemVal(windlist[i]) \in Val => m.refs[ItemVal(windlist[i])] > 0
      BY <1>4, IInvParts, OwnedIsAlive
    <3>2. ASSUME NEW z \in Val, IsOwned(windlist, m.var, z) PROVE a.content[z] = m.content[z]
      <4>1. m.refs[z] > 0 /\ z # h
        BY <1>5, <3>1, <3>2 DEF IsOwned
      <4> QED BY <1>4, <1>7, <4>1
    <3>3. OwnedKeep(windlist, va, m.content, co)
      BY <3>2 DEF OwnedKeep
    <3> HIDE DEF co
    <3>4. Nested(windlist, va, co, calls)
      BY <1>4, <3>3, NestedKept
    <3> QED BY <3>4 DEF co
  <2>2. PICK pos : Marks(windlist, calls, pos) /\ Handlers(windlist, m.var, a.content, calls, pos)
    BY <2>1 DEF Nested
  <2> DEFINE new == [pos EXCEPT ![t] = Len(windlist) + 1]
  <2>3. /\ new[t] = Len(windlist) + 1
        /\ \A k \in 1 .. Len(calls) : ds[k] = calls[k] /\ new[k] = pos[k]
        /\ Len(calls) <= Len(ds)
    <3>1. pos \in [Nat -> Nat]
      BY <2>2 DEF Marks
    <3>2. t \in Nat /\ Len(calls) <= t /\ \A k \in 1 .. Len(calls) : k \in Nat /\ k # t
      BY <1>4
    <3> HIDE DEF t, ds
    <3> QED BY <1>2, <3>1, <3>2
  <2>4. Marks(W1, ds, new)
    <3>1. "catch" \in CallKinds /\ w1 = IF "catch" = "block" THEN Extent ELSE TargetItem(Len(calls) + 1)
      BY DEF CallKinds, w1
    <3> QED BY <1>4, <1>6, <2>2, <3>1, MarksEnter DEF W1
  <2> HIDE DEF new, ds, t
  <2>5. Handlers(W1, m.var, a.content, ds, new)
    BY <1>2, <1>4, <1>6, <2>2, <2>3, HandlersPush DEF W1
  <2>6. Marks(W2, ds, new)
    BY <1>2, <1>6, <1>8, <2>4, MarksPush DEF W2
  <2>7. Handlers(W2, m.var, a.content, ds, new)
    <3>1. Len(ds) <= Len(ds)
      BY <1>2
    <3> QED BY <1>2, <1>6, <1>8, <2>5, <3>1, HandlersPush DEF W2
  <2>8. Marks(W3, ds, new)
    <3> HIDE DEF w3
    <3> QED BY <1>2, <1>6, <1>8, <2>6, MarksPush
  <2>9. HandledBy(h, Len(W2) + 1, a.content, ds, new)
    <3>1. a.content[h] = t
      BY <1>4, <1>7
    <3>2. new[t] = Len(W2) + 1 - 2 /\ t \in 1 .. Len(ds)
      <4>1. t \in 1 .. t
        BY <1>2, <1>4 DEF t
      <4> QED BY <1>2, <1>4, <1>8, <2>3, <4>1
    <3> QED BY <1>2, <3>1, <3>2 DEF HandledBy
  <2>10. Binds(w3, Handler) /\ ItemVal(w3) = At(m.var, Handler)
    BY <1>6, ItemsAre, HandlerIsVar, <1>4 DEF Binds, w3, old
  <2>11. At(r.var, Handler) = h
    BY <1>4, <1>12, HandlerIsVar DEF At
  <2>12. Handlers(W3, r.var, a.content, ds, new)
    <3> HIDE DEF w3, old
    <3> QED BY <1>2, <1>6, <1>8, <2>7, <2>9, <2>10, <2>11, HandlersBind
  <2> QED BY <1>12, <2>8, <2>12 DEF Nested
<1>15. Sound(r, W3, ds)
  BY <1>2, <1>8, <1>12, <1>13, <1>14 DEF Sound
<1>16. windlist' = W3
  <2> HIDE DEF w3
  <2>1. windlist \o <<w1, w2, w3>> = Append(Append(Append(windlist, w1), w2), w3)
    BY <1>4, <1>6, AddThree
  <2> QED BY <1>3, <2>1 DEF W1, W2
<1> QED BY <1>1, <1>3, <1>15, <1>16, Becomes

LEMMA SignalIsCaught ==
  ASSUME IInv, var[Handler] # None
  PROVE  content[var[Handler]] \in 1 .. Len(calls) /\ calls[content[var[Handler]]] = "catch"
<1>1. PICK pos : Handlers(windlist, var, content, calls, pos)
  BY IInvParts, MemoryFields DEF Nested
<1>2. PICK k \in 1 .. Len(calls) : calls[k] = "catch" /\ content[var[Handler]] = k
  BY <1>1, IInvParts, CurrentHandler
<1> QED BY <1>2

LEMMA SignalStep ==
  ASSUME IInv, NEW x \in Alive \union {None}, Signal(x)
  PROVE  IInv'
<1>1. CASE var[Handler] = None
  <2>1. UNCHANGED <<windlist, var, refs, content, calls>>
    BY <1>1 DEF Signal
  <2> QED BY <2>1 DEF IInv, Memory
<1>2. CASE var[Handler] # None
  <2>1. Throw(content[var[Handler]], x)
    BY <1>2 DEF Signal
  <2> QED BY <1>2, <2>1, SignalIsCaught, ThrowStep
<1> QED BY <1>1, <1>2

LEMMA IInvStep ==
  ASSUME IInv, [Next]_vars
  PROVE  IInv'
<1>1. CASE Begin
  BY <1>1, BeginStep
<1>2. CASE End
  BY <1>2, EndStep
<1>3. CASE Catch
  BY <1>3, CatchStep
<1>4. CASE CatchReturns
  BY <1>4, CatchReturnsStep
<1>5. CASE \E f \in Fun : OnUnwind(f)
  BY <1>5, OnUnwindStep
<1>6. CASE \E x \in Val : \E y \in Alive \union {None} : New(x, y)
  BY <1>6, NewStep
<1>7. CASE \E x \in Val : CatchCondition(x)
  BY <1>7, CatchConditionStep
<1>8. CASE \E x \in Alive : Retain(x)
  BY <1>8, RetainStep
<1>9. CASE \E x \in Alive \union {None} : EndWith(x)
  BY <1>9, EndWithStep
<1>10. CASE \E x \in Alive \union {None} : ThrowTo(x)
  BY <1>10, ThrowStep DEF ThrowTo
<1>11. CASE \E x \in Alive \union {None} : Signal(x)
  BY <1>11, SignalStep
<1>12. CASE \E x \in Alive \union {None} : \E v \in Var \ {Handler} : Let(v, x)
  BY <1>12, LetStep
<1>13. CASE \E x \in Alive \union {None} : \E v \in Var \ {Handler} : Set(v, x)
  BY <1>13, SetStep
<1>14. CASE UNCHANGED vars
  BY <1>14 DEF vars, IInv, Memory
<1> QED BY <1>1, <1>2, <1>3, <1>4, <1>5, <1>6, <1>7, <1>8, <1>9, <1>10, <1>11, <1>12, <1>13, <1>14 DEF Next

LEMMA IInvIsInvariant == Spec => []IInv
BY InitStep, IInvStep, PTL DEF Spec

LEMMA IInvIsExact ==
  ASSUME IInv
  PROVE  RefsExact
<1> SUFFICES ASSUME NEW x \in Val
             PROVE  refs[x] =
                      Cardinality({i \in 1 .. Len(windlist) :
                        \/ windlist[i].kind = "unref" /\ windlist[i].val = x
                        \/ windlist[i].kind = "var" /\ windlist[i].oldval = x
                        \/ windlist[i].kind = "target" /\ windlist[i].value = x})
                    + Cardinality({v \in Var : var[v] = x})
                    + Cardinality({y \in Val : content[y] = x})
  BY DEF RefsExact
<1> DEFINE n == Len(windlist)
           A == {i \in 1 .. n :
                   \/ windlist[i].kind = "unref" /\ windlist[i].val = x
                   \/ windlist[i].kind = "var" /\ windlist[i].oldval = x
                   \/ windlist[i].kind = "target" /\ windlist[i].value = x}
<1>1. ItemRefs(windlist, n, x) = Cardinality(A)
  <2>1. \A i \in 1 .. n : ItemVals(windlist)[i] = ItemVal(windlist[i]) /\ windlist[i] \in Item
    BY IInvParts DEF ItemVals
  <2>2. ASSUME NEW i \in 1 .. n PROVE ItemVals(windlist)[i] = x <=> i \in A
    <3> DEFINE w == windlist[i]
    <3>1. \/ w.kind = "extent" \/ w.kind = "func" \/ w.kind = "var" \/ w.kind = "unref" \/ w.kind = "target"
      BY <2>1, ItemCases DEF Extent
    <3>2. ItemVal(w) = x <=> (\/ w.kind = "unref" /\ w.val = x
                              \/ w.kind = "var" /\ w.oldval = x
                              \/ w.kind = "target" /\ w.value = x)
      <4> HIDE DEF w
      <4> QED BY <3>1, Constants DEF ItemVal
    <3> QED BY <2>1, <3>2
  <2>3. {i \in 1 .. n : ItemVals(windlist)[i] = x} = A
    BY <2>2
  <2> QED BY <2>3 DEF ItemRefs, Count
<1>2. VarRefs(var, x) = Cardinality({v \in Var : var[v] = x}) /\ ContentRefs(content, x) = Cardinality({y \in Val : content[y] = x})
  BY DEF VarRefs, ContentRefs, Count
<1>3. refs[x] = Owners(windlist, n, var, Extra(None))[x] + ContentRefs(content, x) + Hit(None, x)
  BY IInvParts, MemoryFields DEF Counted, Owed
<1>4. Owners(windlist, n, var, Extra(None))[x] = ItemRefs(windlist, n, x) + VarRefs(var, x) + Extra(None)[x]
  BY DEF Owners
<1>5. Hit(None, x) = 0 /\ Extra(None)[x] = 0
  BY Constants DEF Hit, Extra
<1>6. ItemRefs(windlist, n, x) \in Nat /\ VarRefs(var, x) \in Nat /\ ContentRefs(content, x) \in Nat
  BY IInvParts, ItemRefsIsNat, CountsAreNat
<1>7. refs[x] = ItemRefs(windlist, n, x) + VarRefs(var, x) + ContentRefs(content, x)
  BY <1>3, <1>4, <1>5, <1>6
<1> QED BY <1>1, <1>2, <1>7

-----------------------------------------------------------------------------
(***************************************************************************)
(* Nothing leaks                                                           *)
(***************************************************************************)
\* What the innermost calls have put on the list, and where it is unwound to.
LEMMA EndGoal ==
  ASSUME IInv, InCall("block"), Leave
  PROVE  ExtentEnd \in 0 .. Len(windlist)
<1>1. calls # <<>> /\ Len(calls) \in 1 .. Len(calls) /\ calls[Len(calls)] = "block"
  BY InCallIs DEF CallKinds
<1>2. PICK pos : Marks(windlist, calls, pos)
  BY IInvParts DEF Nested
<1>3. ExtentEnd = pos[Len(calls)] - 1
  BY <1>1, <1>2, IInvParts, InnermostExtent DEF ExtentEnd
<1> DEFINE q == pos[Len(calls)]
<1>4. q \in 1 .. Len(windlist) /\ Len(windlist) \in Nat
  BY <1>1, <1>2, IInvParts, MarkOf
<1> HIDE DEF q
<1>5. q - 1 \in 0 .. Len(windlist)
  BY <1>4
<1> QED BY <1>3, <1>5 DEF q

LEMMA CatchGoal ==
  ASSUME IInv, CatchReturns
  PROVE  LET w == Max({i \in 1 .. Len(windlist) : windlist[i].kind = "target" /\ windlist[i].target = Len(calls)}) IN
         w \in 1 .. Len(windlist) /\ w - 1 \in 0 .. Len(windlist)
<1> DEFINE t == Len(calls)
           S == {i \in 1 .. Len(windlist) : windlist[i].kind = "target" /\ windlist[i].target = Len(calls)}
<1>1. t \in 1 .. Len(calls) /\ calls[t] = "catch"
  BY InCallIs DEF CatchReturns, CallKinds
<1>2. PICK pos : Marks(windlist, calls, pos)
  BY IInvParts DEF Nested
<1>3. Max(S) = pos[t] /\ pos[t] \in S
  <2>1. S \in SUBSET (1 .. Len(windlist)) /\ \A i \in S : windlist[i].kind = "target" /\ windlist[i].target = t
    OBVIOUS
  <2>2. windlist[pos[t]] = TargetItem(t) => pos[t] \in S
    BY <1>1, <1>2, EntryKinds DEF Marks
  <2> HIDE DEF S
  <2>3. windlist \in Seq(Item) /\ calls \in Seq(CallKinds)
    BY IInvParts
  <2> HIDE DEF t
  <2> QED BY <1>1, <1>2, <2>1, <2>2, <2>3, InnermostTarget
<1> DEFINE w == Max(S)
<1>4. w \in 1 .. Len(windlist)
  BY <1>3
<1> HIDE DEF w
<1>5. w - 1 \in 0 .. Len(windlist)
  BY <1>4, IInvParts
<1> QED BY <1>4, <1>5 DEF w

LEMMA ThrowGoal ==
  ASSUME IInv, NEW t \in 1 .. Len(calls), calls[t] = "catch"
  PROVE  LET found == {i \in 1 .. Len(windlist) :
                         /\ windlist[i].kind = "target" /\ windlist[i].target = t
                         /\ windlist[i].value = None} IN
         found # {} /\ Max(found) \in found /\ Max(found) \in 0 .. Len(windlist)
<1> DEFINE S == {i \in 1 .. Len(windlist) :
                   /\ windlist[i].kind = "target" /\ windlist[i].target = t
                   /\ windlist[i].value = None}
<1>1. PICK pos : Marks(windlist, calls, pos)
  BY IInvParts DEF Nested
<1>2. Max(S) = pos[t] /\ pos[t] \in S
  <2>1. S \in SUBSET (1 .. Len(windlist)) /\ \A i \in S : windlist[i].kind = "target" /\ windlist[i].target = t
    OBVIOUS
  <2>2. windlist[pos[t]] = TargetItem(t) => pos[t] \in S
    BY <1>1, EntryKinds DEF Marks
  <2> HIDE DEF S
  <2>3. windlist \in Seq(Item) /\ calls \in Seq(CallKinds)
    BY IInvParts
  <2> QED BY <1>1, <2>1, <2>2, <2>3, InnermostTarget
<1>3. S \subseteq 0 .. Len(windlist)
  BY IInvParts
<1> HIDE DEF S
<1> QED BY <1>2, <1>3 DEF S

\* No reference between values is new.
Shrinks(co, cp) == \A z \in Val : cp[z] \in Val => cp[z] = co[z]

LEMMA KeptShrinks ==
  ASSUME NEW m \in Mem, NEW r \in Mem, Keeps(m, r), NEW W, NEW n, NEW e, Counted(r, W, n, e)
  PROVE  Shrinks(m.content, r.content)
<1> SUFFICES ASSUME NEW z \in Val, r.content[z] \in Val PROVE r.content[z] = m.content[z]
  BY DEF Shrinks
<1>1. r.refs[z] \in Nat /\ (r.refs[z] = 0 => r.content[z] = None)
  BY MemParts DEF Counted, Cleared
<1>2. r.refs[z] > 0
  BY <1>1, Constants
<1> QED BY <1>2 DEF Keeps

LEMMA UnwindShrinks ==
  ASSUME IInv, NEW x \in Alive \union {None}, NEW goal \in 0 .. Len(windlist), NEW for_throw \in BOOLEAN,
         Become(Unwind(Ref(Memory, x), goal, for_throw))
  PROVE  Shrinks(content, content')
<1> DEFINE m == Ref(Memory, x)
           r == Unwind(m, goal, for_throw)
<1>1. m \in Mem /\ m.content = content /\ Counted(m, windlist, Len(windlist), Extra(x))
  BY RefStep, MemoryFields
<1>2. content' = r.content
  BY DEF Become
<1> HIDE DEF m
<1>3. r \in Mem /\ Counted(r, windlist, goal, Extra(x)) /\ Keeps(m, r)
  BY <1>1, IInvParts, ExtraIsNat, UnwindExact
<1> HIDE DEF r
<1> QED BY <1>1, <1>2, <1>3, KeptShrinks

\* Only a constructor lets a value have a reference to another.
LEMMA StepShrinks ==
  ASSUME IInv, [Next]_vars, ~(\E x \in Val : \E y \in Alive \union {None} : New(x, y))
  PROVE  Shrinks(content, content')
<1>0. /\ Memory.content = content /\ Ref(Memory, None) = Memory /\ None \in Alive \union {None}
      /\ FALSE \in BOOLEAN /\ TRUE \in BOOLEAN
  BY MemoryFields DEF Ref
<1>1. ASSUME content' = content PROVE Shrinks(content, content')
  BY <1>1 DEF Shrinks
<1>2. ASSUME NEW x \in Alive \union {None} PROVE Ref(Memory, x).content = content
  BY <1>0, RefStep
<1>3. CASE Begin \/ Catch \/ \E f \in Fun : OnUnwind(f)
  <2>1. Become(Memory)
    BY <1>3 DEF Begin, Catch, OnUnwind
  <2> QED BY <1>0, <1>1, <2>1 DEF Become
<1>4. CASE \E x \in Alive : Retain(x)
  <2>1. PICK x \in Alive : Become(Ref(Memory, x))
    BY <1>4 DEF Retain
  <2> QED BY <1>1, <1>2, <2>1 DEF Become
<1>5. CASE End
  <2>1. InCall("block") /\ Leave /\ Become(Unwind(Memory, ExtentEnd, FALSE))
    BY <1>5 DEF End
  <2>2. ExtentEnd \in 0 .. Len(windlist)
    BY <2>1, EndGoal
  <2> QED BY <1>0, <2>1, <2>2, UnwindShrinks
<1>6. CASE \E x \in Alive \union {None} : EndWith(x)
  <2>1. PICK x \in Alive \union {None} : InCall("block") /\ Leave /\ Become(Unwind(Ref(Memory, x), ExtentEnd, FALSE))
    BY <1>6 DEF EndWith
  <2>2. ExtentEnd \in 0 .. Len(windlist)
    BY <2>1, EndGoal
  <2> QED BY <1>0, <2>1, <2>2, UnwindShrinks
<1>7. CASE CatchReturns
  <2> DEFINE w == Max({i \in 1 .. Len(windlist) : windlist[i].kind = "target" /\ windlist[i].target = Len(calls)})
  <2>1. Become(Unwind(Memory, w - 1, FALSE))
    BY <1>7 DEF CatchReturns
  <2>2. w - 1 \in 0 .. Len(windlist)
    BY <1>7, CatchGoal
  <2> HIDE DEF w
  <2> QED BY <1>0, <2>1, <2>2, UnwindShrinks
<1>8. ASSUME NEW x \in Alive \union {None}, NEW t \in 1 .. Len(calls), calls[t] = "catch", Throw(t, x)
      PROVE  Shrinks(content, content')
  <2> DEFINE S == {i \in 1 .. Len(windlist) :
                     /\ windlist[i].kind = "target" /\ windlist[i].target = t
                     /\ windlist[i].value = None}
  <2>1. S # {} /\ Max(S) \in 0 .. Len(windlist)
    BY <1>8, ThrowGoal
  <2>2. Become(Unwind(Ref(Memory, x), Max(S), TRUE))
    BY <1>8, <2>1, Zenon DEF Throw
  <2> HIDE DEF S
  <2> QED BY <1>0, <2>1, <2>2, UnwindShrinks
<1>9. CASE \E x \in Alive \union {None} : ThrowTo(x)
  BY <1>8, <1>9 DEF ThrowTo
<1>10. CASE \E x \in Alive \union {None} : Signal(x)
  <2>1. PICK x \in Alive \union {None} : Signal(x)
    BY <1>10
  <2>2. CASE var[Handler] = None
    BY <1>1, <2>1, <2>2 DEF Signal
  <2>3. CASE var[Handler] # None
    BY <1>8, <2>1, <2>3, SignalIsCaught DEF Signal
  <2> QED BY <2>2, <2>3
<1>11. CASE \E x \in Alive \union {None} : \E v \in Var \ {Handler} : Let(v, x)
  <2>1. PICK x \in Alive \union {None}, v \in Var \ {Handler} : Become([Ref(Memory, x) EXCEPT !.var[v] = x])
    BY <1>11 DEF Let
  <2>2. [Ref(Memory, x) EXCEPT !.var[v] = x].content = content
    <3> DEFINE a == Ref(Memory, x)
    <3>1. a \in Mem /\ a.content = content
      BY <1>2, RefStep
    <3> HIDE DEF a
    <3>2. [a EXCEPT !.var[v] = x].content = a.content
      BY <3>1 DEF Mem
    <3> QED BY <3>1, <3>2 DEF a
  <2> QED BY <1>1, <2>1, <2>2 DEF Become
<1>12. CASE \E x \in Alive \union {None} : \E v \in Var \ {Handler} : Set(v, x)
  <2>1. PICK x \in Alive \union {None}, v \in Var \ {Handler} : Set(v, x)
    BY <1>12
  <2> DEFINE a == Ref(Memory, x)
             r == Rebind(a, v, x)
  <2>2. a \in Mem /\ a.content = content /\ a.var = var /\ x \in Maybe /\ Counted(a, windlist, Len(windlist), Extra(x))
    BY RefStep, MemoryFields
  <2>3. content' = r.content
    BY <2>1, <2>2 DEF Set, Become, Rebind
  <2> HIDE DEF a
  <2>4. r \in Mem /\ Counted(r, windlist, Len(windlist), Extra(None)) /\ Keeps(a, r)
    BY <2>2, IInvParts, RebindCounted
  <2> HIDE DEF r
  <2> QED BY <2>2, <2>3, <2>4, KeptShrinks
<1>13. CASE \E h \in Val : CatchCondition(h)
  <2>1. PICK h \in Val : CatchCondition(h)
    BY <1>13
  <2> DEFINE t == Len(calls) + 1
             a == Alloc(Memory, h, t)
  <2>2. Len(calls') = t /\ t \in Target
    <3>1. calls' = Append(calls, "catch") /\ Len(calls) < MaxCalls
      BY <2>1 DEF CatchCondition, Enter
    <3>2. Len(calls') = t
      BY <3>1, IInvParts
    <3> QED BY <3>1, <3>2, IInvParts, ExtentsAssumption DEF Target
  <2>3. content' = [content EXCEPT ![h] = t]
    <3>1. Become([Ref(Alloc(Memory, h, t), h) EXCEPT !.var[Handler] = h])
      BY <2>1, <2>2, Zenon DEF CatchCondition
    <3>2. a.content = [content EXCEPT ![h] = t] /\ DOMAIN a = {"refs", "content", "var", "ran"}
      BY <1>0, IInvParts DEF Alloc, Memory
    <3> HIDE DEF a, t
    <3>3. Ref(a, h).content = a.content /\ "var" \in DOMAIN Ref(a, h) /\ "content" \in DOMAIN Ref(a, h)
      BY <3>2 DEF Ref
    <3> DEFINE b == Ref(a, h)
    <3>4. content' = [b EXCEPT !.var[Handler] = h].content
      BY <3>1 DEF Become, a
    <3> HIDE DEF b
    <3>5. content' = b.content
      BY <3>3, <3>4 DEF b
    <3> QED BY <3>2, <3>3, <3>5 DEF b
  <2> HIDE DEF t
  <2>4. t \notin Val
    BY <2>2, Constants
  <2> QED BY <2>3, <2>4, IInvParts, MemParts, MemoryFields DEF Shrinks
<1>14. CASE UNCHANGED vars
  BY <1>1, <1>14 DEF vars
<1> QED BY <1>3, <1>4, <1>5, <1>6, <1>7, <1>9, <1>10, <1>11, <1>12, <1>13, <1>14 DEF Next

\* Values that refer to others are older than they: a value is ranked below
\* those that it has a reference to.
NoCycles(co) == \E rank \in [Val -> Nat] : \A x \in Val : co[x] \in Val => rank[x] < rank[co[x]]

LEMMA NoCyclesShrink ==
  ASSUME NEW co, NEW cp, NoCycles(co), Shrinks(co, cp)
  PROVE  NoCycles(cp)
BY DEF NoCycles, Shrinks

\* A new value is not referred to by any.
LEMMA NoCyclesNew ==
  ASSUME IInv, NoCycles(content), NEW x \in Val, NEW y \in Alive \union {None}, New(x, y)
  PROVE  NoCycles(content')
<1>1. PICK rank \in [Val -> Nat] : \A z \in Val : content[z] \in Val => rank[z] < rank[content[z]]
  BY DEF NoCycles
<1>2. content' = [content EXCEPT ![x] = y] /\ content \in [Val -> Maybe \union Target]
  <2>1. Become(Ref(Alloc(Memory, x, y), y)) /\ DOMAIN content = Val
    BY IInvParts, MemParts, MemoryFields DEF New
  <2> DEFINE a == Alloc(Memory, x, y)
  <2>2. a.content = [content EXCEPT ![x] = y] /\ DOMAIN a = {"refs", "content", "var", "ran"}
    BY DEF Alloc, Memory
  <2> HIDE DEF a
  <2>3. Ref(a, y).content = a.content
    BY <2>2 DEF Ref
  <2> QED BY <2>1, <2>2, <2>3, IInvParts, MemParts, MemoryFields DEF Become, a
<1>3. \A z \in Val : content[z] # x
  <2>1. ASSUME NEW z \in Val, content[z] = x PROVE FALSE
    <3>1. refs[x] > 0
      BY <2>1, IInvParts, OwnedIsAlive, MemoryFields
    <3> QED BY <3>1 DEF New, Alive
  <2> QED BY <2>1
<1>4. y # x
  BY Constants DEF New
<1> DEFINE new == [z \in Val |-> IF z = x THEN 0 ELSE rank[z] + 1]
<1>5. new \in [Val -> Nat]
  BY <1>1
<1>6. ASSUME NEW z \in Val, content'[z] \in Val PROVE new[z] < new[content'[z]]
  <2>1. CASE z = x
    <3>1. content'[z] = y /\ y \in Val /\ new[z] = 0 /\ new[y] = rank[y] + 1 /\ rank[y] \in Nat
      BY <1>1, <1>2, <1>4, <1>6, <2>1
    <3> QED BY <3>1
  <2>2. CASE z # x
    <3> DEFINE c == content[z]
    <3>1. content'[z] = c /\ c \in Val /\ c # x
      BY <1>2, <1>3, <1>6, <2>2
    <3>2. rank[z] < rank[c]
      BY <1>1, <3>1
    <3>3. new[z] = rank[z] + 1 /\ new[c] = rank[c] + 1 /\ rank[z] \in Nat /\ rank[c] \in Nat
      BY <1>1, <2>2, <3>1
    <3> HIDE DEF c, new
    <3> QED BY <3>1, <3>2, <3>3
  <2> QED BY <2>1, <2>2
<1> QED BY <1>5, <1>6 DEF NoCycles

LEMMA NoCyclesStep ==
  ASSUME IInv, NoCycles(content), [Next]_vars
  PROVE  NoCycles(content')
<1>1. CASE \E x \in Val : \E y \in Alive \union {None} : New(x, y)
  BY <1>1, NoCyclesNew
<1>2. CASE ~(\E x \in Val : \E y \in Alive \union {None} : New(x, y))
  BY <1>2, StepShrinks, NoCyclesShrink
<1> QED BY <1>1, <1>2

LEMMA NoCyclesIsInvariant == Spec => []NoCycles(content)
<1>1. Init => NoCycles(content)
  <2>1. ASSUME Init PROVE NoCycles(content)
    <3>1. \A x \in Val : content[x] \notin Val
      BY <2>1, Constants DEF Init
    <3>2. [x \in Val |-> 0] \in [Val -> Nat]
      OBVIOUS
    <3> QED BY <3>1, <3>2 DEF NoCycles
  <2> QED BY <2>1
<1>2. IInv /\ NoCycles(content) /\ [Next]_vars => NoCycles(content)'
  BY NoCyclesStep
<1> QED BY <1>1, <1>2, IInvIsInvariant, PTL DEF Spec

\* What can be reached from the list and the variables.
Reachable ==
  {x \in Val : \A S \in SUBSET Val :
     /\ \A z \in Val : IsOwned(windlist, var, z) => z \in S
     /\ \A z \in S : content[z] \in Val => content[z] \in S
     => x \in S}

\* What is counted is there: a value that is alive has an owner.
LEMMA OnlyOwners ==
  ASSUME IInv, NEW x \in Val, refs[x] > 0, ~IsOwned(windlist, var, x)
  PROVE  \E y \in Val : content[y] = x
<1> SUFFICES ASSUME \A y \in Val : content[y] # x PROVE FALSE
  OBVIOUS
<1> DEFINE n == Len(windlist)
<1>1. refs[x] = Owners(windlist, n, var, Extra(None))[x] + ContentRefs(content, x) + Hit(None, x)
  BY IInvParts, MemoryFields DEF Counted, Owed
<1>2. Owners(windlist, n, var, Extra(None))[x] = ItemRefs(windlist, n, x) + VarRefs(var, x) + Extra(None)[x]
  BY DEF Owners
<1>3. Hit(None, x) = 0 /\ Extra(None)[x] = 0
  BY Constants DEF Hit, Extra
<1>4. ContentRefs(content, x) = 0
  <2>1. {d \in Val : content[d] = x} = {}
    OBVIOUS
  <2> QED BY <2>1, FS_EmptySet DEF ContentRefs, Count
<1>5. VarRefs(var, x) = 0
  <2>1. {d \in Var : var[d] = x} = {}
    BY DEF IsOwned
  <2> QED BY <2>1, FS_EmptySet DEF VarRefs, Count
<1>6. ItemRefs(windlist, n, x) = 0
  <2>1. {i \in 1 .. n : ItemVals(windlist)[i] = x} = {}
    BY DEF IsOwned, ItemVals
  <2> QED BY <2>1, FS_EmptySet DEF ItemRefs, Count
<1> QED BY <1>1, <1>2, <1>3, <1>4, <1>5, <1>6

LEMMA AliveIsReachable ==
  ASSUME IInv, NoCycles(content)
  PROVE  Alive = Reachable
<1>1. ASSUME NEW x \in Reachable PROVE x \in Alive
  <2>1. /\ \A v \in Var : var[v] \in Val => refs[var[v]] > 0
        /\ \A i \in 1 .. Len(windlist) : ItemVal(windlist[i]) \in Val => refs[ItemVal(windlist[i])] > 0
        /\ \A y \in Val : content[y] \in Val => refs[content[y]] > 0
    BY IInvParts, OwnedIsAlive, MemoryFields
  <2>2. \A z \in Val : IsOwned(windlist, var, z) => z \in Alive
    BY <2>1 DEF IsOwned, Alive
  <2>3. \A z \in Alive : content[z] \in Val => content[z] \in Alive
    BY <2>1 DEF Alive
  <2>4. Alive \in SUBSET Val
    BY DEF Alive
  <2> QED BY <1>1, <2>2, <2>3, <2>4 DEF Reachable
<1>2. ASSUME NEW x \in Alive, x \notin Reachable PROVE FALSE
  <2>1. PICK S \in SUBSET Val :
          /\ \A z \in Val : IsOwned(windlist, var, z) => z \in S
          /\ \A z \in S : content[z] \in Val => content[z] \in S
          /\ x \notin S
    BY <1>2 DEF Reachable, Alive
  <2>2. PICK rank \in [Val -> Nat] : \A z \in Val : content[z] \in Val => rank[z] < rank[content[z]]
    BY DEF NoCycles
  <2> DEFINE T == {rank[z] : z \in Alive \ S}
  <2>3. T \in SUBSET Nat /\ T # {}
    BY <1>2, <2>1, <2>2 DEF Alive
  <2>4. PICK n \in T : \A k \in T : n <= k
    <3> HIDE DEF T
    <3> QED BY <2>3, NatMin
  <2>5. PICK z \in Alive \ S : rank[z] = n
    BY <2>4
  <2>6. z \in Val /\ refs[z] > 0 /\ ~IsOwned(windlist, var, z)
    BY <2>1, <2>5 DEF Alive
  <2>7. \E y \in Val : content[y] = z
    BY <2>6, OnlyOwners
  <2>8. PICK y \in Val : content[y] = z
    BY <2>7
  <2>9. y \in Alive
    <3>1. refs[y] \in Nat /\ (refs[y] = 0 => content[y] = None)
      BY IInvParts, MemParts, MemoryFields DEF Counted, Cleared
    <3>2. content[y] # None
      BY <2>6, <2>8, Constants
    <3>3. refs[y] > 0
      BY <3>1, <3>2
    <3> QED BY <3>3 DEF Alive
  <2>10. y \notin S
    BY <2>1, <2>5, <2>6, <2>8
  <2>11. rank[y] \in T
    BY <2>9, <2>10
  <2>12. rank[y] < rank[z]
    BY <2>2, <2>6, <2>8
  <2>13. rank[z] <= rank[y] /\ rank[y] \in Nat /\ rank[z] \in Nat
    <3> HIDE DEF T
    <3> QED BY <2>2, <2>4, <2>5, <2>6, <2>11
  <2> HIDE DEF T
  <2> QED BY <2>12, <2>13
<1>3. Alive \subseteq Val
  BY DEF Alive
<1> QED BY <1>1, <1>2

-----------------------------------------------------------------------------
(***************************************************************************)
(* The environment of a list                                               *)
(***************************************************************************)
\* The refinement mapping of Extents, for any list, variables and calls.
ActiveAt(W, cs, i) ==
  /\ W[i].target <= Len(cs) /\ cs[W[i].target] = "catch"
  /\ \A j \in i + 1 .. Len(W) : W[j].kind = "target" => W[j].target # W[i].target

ConditionAt(W, i) == i + 2 <= Len(W) /\ W[i + 2].kind = "var" /\ W[i + 2].var = Handler

EntryOf(W, va, cs, i) ==
  LET w == W[i] IN
  CASE w.kind = "extent" -> w
    [] w.kind = "func" -> [kind |-> "todo", func |-> w.func]
    [] w.kind = "var" -> [kind |-> "bind", var |-> w.var, val |-> Bound(W, va, w.var, i)]
    [] w.kind = "unref" -> [kind |-> "own", val |-> w.val]
    [] w.kind = "target" -> IF ActiveAt(W, cs, i) THEN [kind |-> "catch", condition |-> ConditionAt(W, i)]
                                                  ELSE [kind |-> "own", val |-> w.value]

EnvOf(W, va, cs) == [i \in 1 .. Len(W) |-> EntryOf(W, va, cs, i)]
GlobalOf(W, va) == [v \in Var |-> Bound(W, va, v, 0)]
ContentOf(co) == [x \in Val |-> IF co[x] \in Val THEN co[x] ELSE None]

LEMMA Views ==
  /\ [i \in 1 .. Len(windlist) |-> Entry(i)] = EnvOf(windlist, var, calls)
  /\ [v \in Var |-> BoundUpTo(v, 0)] = GlobalOf(windlist, var)
  /\ [x \in Val |-> IF content[x] \in Val THEN content[x] ELSE None] = ContentOf(content)
BY DEF EnvOf, EntryOf, Entry, GlobalOf, ContentOf, BoundUpTo, Bound, IsActive, ActiveAt, ConditionAt, BindsHandler

LEMMA ViewsNext ==
  /\ [i \in 1 .. Len(windlist) |-> Entry(i)]' = EnvOf(windlist', var', calls')
  /\ [v \in Var |-> BoundUpTo(v, 0)]' = GlobalOf(windlist', var')
  /\ [x \in Val |-> IF content[x] \in Val THEN content[x] ELSE None]' = ContentOf(content')
BY DEF EnvOf, EntryOf, Entry, GlobalOf, ContentOf, BoundUpTo, Bound, IsActive, ActiveAt, ConditionAt, BindsHandler

\* The items of the calls that have not returned are the marks of the environment.
LEMMA ActiveIs ==
  ASSUME NEW W \in Seq(Item), NEW cs \in Seq(CallKinds), NEW pos, Marks(W, cs, pos),
         NEW i \in 1 .. Len(W), W[i].kind = "target"
  PROVE  ActiveAt(W, cs, i) <=> \E k \in 1 .. Len(cs) : pos[k] = i
<1>0. Len(W) \in Nat /\ Len(cs) \in Nat
  OBVIOUS
<1>1. ASSUME NEW k \in 1 .. Len(cs), pos[k] = i PROVE ActiveAt(W, cs, i)
  <2>1. cs[k] # "block"
    <3>1. cs[k] = "block" => W[i] = Extent
      BY <1>1, MarkOf
    <3> QED BY <3>1, EntryKinds
  <2>2. cs[k] = "catch" /\ W[i].target = k
    <3>1. cs[k] \in CallKinds
      OBVIOUS
    <3>2. W[i] = TargetItem(k)
      BY <1>1, <2>1, MarkOf
    <3> QED BY <2>1, <3>1, <3>2, EntryKinds DEF CallKinds
  <2>3. ASSUME NEW j \in i + 1 .. Len(W), W[j].kind = "target" PROVE W[j].target # k
    <3>1. j \in 1 .. Len(W) /\ j > i /\ k \in Nat /\ ~(k > k)
      BY <1>0
    <3>2. W[j].target > k
      BY <1>1, <2>3, <3>1 DEF Marks
    <3> QED BY <3>1, <3>2
  <2> QED BY <1>0, <2>2, <2>3 DEF ActiveAt
<1>2. ASSUME ActiveAt(W, cs, i) PROVE \E k \in 1 .. Len(cs) : pos[k] = i
  <2> DEFINE t == W[i].target
  <2>1. t \in 1 .. Len(cs) /\ cs[t] = "catch"
    <3>1. t \in Target
      BY ItemCases DEF Extent
    <3>2. t <= Len(cs) /\ cs[t] = "catch"
      BY <1>2 DEF ActiveAt
    <3>3. t \in Nat /\ 1 <= t
      BY <3>1, ExtentsAssumption DEF Target
    <3> QED BY <1>0, <3>2, <3>3
  <2>2. W[pos[t]] = TargetItem(t) /\ pos[t] \in 1 .. Len(W)
    BY <2>1, MarkOf
  <2> DEFINE p == pos[t]
  <2>3. ~(p > i)
    <3> SUFFICES ASSUME p > i PROVE FALSE
      OBVIOUS
    <3>1. p \in i + 1 .. Len(W)
      BY <1>0, <2>2
    <3> QED BY <1>2, <2>2, <3>1, EntryKinds DEF ActiveAt
  <2>4. ~(i > p)
    <3> SUFFICES ASSUME i > p PROVE FALSE
      OBVIOUS
    <3>1. W[i].target > t
      BY <2>1 DEF Marks
    <3>2. t \in Nat
      BY <2>1
    <3> HIDE DEF p
    <3> QED BY <3>1, <3>2
  <2>5. p = i
    <3>1. p \in Nat /\ i \in Nat
      BY <1>0, <2>2
    <3> HIDE DEF p
    <3> QED BY <2>3, <2>4, <3>1
  <2> QED BY <2>1, <2>5
<1> QED BY <1>1, <1>2

LEMMA EntrySame ==
  ASSUME NEW V, NEW vb, NEW ds, NEW W \in Seq(Item), NEW va, NEW cs, NEW i \in 1 .. Len(W), V[i] = W[i],
         W[i].kind = "var" => Bound(V, vb, W[i].var, i) = Bound(W, va, W[i].var, i),
         W[i].kind = "target" => (ActiveAt(V, ds, i) <=> ActiveAt(W, cs, i)),
         W[i].kind = "target" /\ ActiveAt(W, cs, i) => (ConditionAt(V, i) <=> ConditionAt(W, i))
  PROVE  EntryOf(V, vb, ds, i) = EntryOf(W, va, cs, i)
<1> DEFINE w == W[i]
<1>1. \/ w.kind = "extent" \/ w.kind = "func" \/ w.kind = "var" \/ w.kind = "unref" \/ w.kind = "target"
  BY ItemCases DEF Extent
<1>2. CASE w.kind = "var"
  BY <1>2 DEF EntryOf
<1>3. CASE w.kind = "target"
  <2>1. ConditionAt(V, i) \in BOOLEAN /\ ConditionAt(W, i) \in BOOLEAN
    BY DEF ConditionAt
  <2> QED BY <1>3, <2>1 DEF EntryOf
<1>4. CASE w.kind \in {"extent", "func", "unref"}
  BY <1>4 DEF EntryOf
<1> QED BY <1>1, <1>2, <1>3, <1>4

\* What binds the handler stands on the item of a handler's function: between an
\* extent or a catch and what follows there is no such item.
ConditionItems(W) ==
  \A j \in 1 .. Len(W) : Binds(W[j], Handler) => j - 1 \in 1 .. Len(W) /\ W[j - 1].kind = "unref"

\* An item is added, and maybe the call that it is for.
Pushed(W, cs, pos, V, ds, new) ==
  /\ Marks(W, cs, pos) /\ Marks(V, ds, new) /\ Len(cs) <= Len(ds)
  /\ \A k \in 1 .. Len(cs) : new[k] = pos[k]
  /\ \A k \in Len(cs) + 1 .. Len(ds) : new[k] = Len(W) + 1

\* The item w has what the variable that it binds was bound to.
Saves(w, va, vb) ==
  \A v \in Var : /\ Binds(w, v) => ItemVal(w) = At(va, v)
                 /\ ~Binds(w, v) => At(vb, v) = At(va, v)

LEMMA EntryPush ==
  ASSUME NEW W \in Seq(Item), NEW w \in Item, NEW cs \in Seq(CallKinds), NEW ds \in Seq(CallKinds),
         NEW pos, NEW new, Pushed(W, cs, pos, Append(W, w), ds, new), NEW va, NEW vb,
         Saves(w, va, vb),
         NEW i \in 1 .. Len(W), Binds(w, Handler) => i # Len(W) - 1
  PROVE  EntryOf(Append(W, w), vb, ds, i) = EntryOf(W, va, cs, i)
<1> DEFINE V == Append(W, w)
           n == Len(W)
<1>1. n \in Nat /\ Len(V) = n + 1 /\ V[n + 1] = w /\ V \in Seq(Item) /\ \A j \in 1 .. n : V[j] = W[j]
  BY Appended
<1>2. ASSUME NEW v \in Var PROVE Bound(V, vb, v, i) = Bound(W, va, v, i)
  <2>1. i \in 0 .. n
    BY <1>1
  <2> QED BY <2>1, BoundAppend DEF Saves
<1>3. W[i].kind = "var" => W[i].var \in Var
  <2>1. W[i] \in Item
    OBVIOUS
  <2> QED BY <2>1, ItemCases DEF Extent
<1>0. Pushed(W, cs, pos, V, ds, new)
  OBVIOUS
<1> HIDE DEF V
<1>4. ASSUME W[i].kind = "target" PROVE ActiveAt(V, ds, i) <=> ActiveAt(W, cs, i)
  <2>1. ActiveAt(W, cs, i) <=> \E k \in 1 .. Len(cs) : pos[k] = i
    BY <1>0, <1>4, ActiveIs DEF Pushed
  <2>2. ActiveAt(V, ds, i) <=> \E k \in 1 .. Len(ds) : new[k] = i
    <3>1. i \in 1 .. Len(V) /\ V[i].kind = "target"
      BY <1>1, <1>4
    <3> QED BY <1>0, <1>1, <3>1, ActiveIs DEF Pushed
  <2>3. Len(cs) \in Nat /\ Len(ds) \in Nat
    OBVIOUS
  <2>4. ASSUME NEW k \in 1 .. Len(ds), new[k] = i PROVE k \in 1 .. Len(cs) /\ pos[k] = i
    <3>1. i # n + 1
      BY <1>1
    <3>2. k \in 1 .. Len(cs) \/ k \in Len(cs) + 1 .. Len(ds)
      BY <2>3
    <3> QED BY <1>0, <2>4, <3>1, <3>2 DEF Pushed
  <2>5. ASSUME NEW k \in 1 .. Len(cs), pos[k] = i PROVE k \in 1 .. Len(ds) /\ new[k] = i
    BY <1>0, <2>3, <2>5 DEF Pushed
  <2> QED BY <2>1, <2>2, <2>4, <2>5
<1>5. ConditionAt(V, i) <=> ConditionAt(W, i)
  <2>1. CASE i + 2 <= n
    <3>1. i + 2 \in 1 .. n /\ i + 2 <= Len(V)
      BY <1>1, <2>1
    <3> QED BY <1>1, <2>1, <3>1 DEF ConditionAt
  <2>2. CASE i + 2 = n + 1
    <3>1. ~(i + 2 <= n) /\ i = n - 1
      BY <1>1, <2>2
    <3> QED BY <1>1, <2>2, <3>1 DEF ConditionAt, Binds
  <2>3. CASE i + 2 > n + 1
    <3>1. ~(i + 2 <= n) /\ ~(i + 2 <= Len(V))
      BY <1>1, <2>3
    <3> QED BY <3>1 DEF ConditionAt
  <2> QED BY <1>1, <2>1, <2>2, <2>3
<1>6. V[i] = W[i]
  BY <1>1
<1>7. EntryOf(V, vb, ds, i) = EntryOf(W, va, cs, i)
  <2>1. W[i].kind = "var" => Bound(V, vb, W[i].var, i) = Bound(W, va, W[i].var, i)
    BY <1>2, <1>3
  <2>2. W[i].kind = "target" => (ActiveAt(V, ds, i) <=> ActiveAt(W, cs, i))
    BY <1>4
  <2> QED BY <1>5, <1>6, <2>1, <2>2, EntrySame
<1> QED BY <1>7 DEF V

\* The entry of the last item.
ItemEntry(w, va) ==
  CASE w.kind = "func" -> [kind |-> "todo", func |-> w.func]
    [] w.kind = "var" -> [kind |-> "bind", var |-> w.var, val |-> At(va, w.var)]
    [] w.kind = "unref" -> [kind |-> "own", val |-> w.val]

LEMMA LastPlain ==
  ASSUME NEW V \in Seq(Item), NEW n, n = Len(V), n > 0, NEW ds, NEW vb, NEW w, At(V, n) = w,
         w.kind \in {"func", "var", "unref"}
  PROVE  EntryOf(V, vb, ds, n) = ItemEntry(w, vb)
<1>1. n \in Nat /\ n \in 1 .. Len(V) /\ V[n] = w
  BY DEF At
<1>2. Bound(V, vb, w.var, n) = At(vb, w.var)
  BY <1>1, BoundByAll
<1>3. CASE w.kind = "var"
  BY <1>1, <1>2, <1>3 DEF EntryOf, ItemEntry
<1>4. CASE w.kind \in {"func", "unref"}
  BY <1>1, <1>4 DEF EntryOf, ItemEntry
<1> QED BY <1>3, <1>4

LEMMA LastExtent ==
  ASSUME NEW V, NEW n, NEW ds, NEW vb, At(V, n) = Extent
  PROVE  EntryOf(V, vb, ds, n) = Extent
BY EntryKinds DEF EntryOf, At

\* The n-th item is the last one, and that of the calls ds and of no other.
LastIs(V, n, ds, new) == V \in Seq(Item) /\ n = Len(V) /\ n > 0 /\ ds \in Seq(CallKinds) /\ Marks(V, ds, new)

LEMMA LastTarget ==
  ASSUME NEW V, NEW n, NEW ds, NEW new, LastIs(V, n, ds, new), NEW vb, NEW w, At(V, n) = w, w.kind = "target"
  PROVE  /\ (\E k \in 1 .. Len(ds) : At(new, k) = n) => EntryOf(V, vb, ds, n) = [kind |-> "catch", condition |-> FALSE]
         /\ ~(\E k \in 1 .. Len(ds) : At(new, k) = n) => EntryOf(V, vb, ds, n) = [kind |-> "own", val |-> w.value]
<1>0. V \in Seq(Item) /\ n = Len(V) /\ n > 0 /\ ds \in Seq(CallKinds) /\ Marks(V, ds, new)
  BY DEF LastIs
<1>1. n \in Nat /\ n \in 1 .. Len(V) /\ ~(n + 2 <= Len(V)) /\ V[n] = w
  BY <1>0 DEF At
<1>2. ConditionAt(V, n) = FALSE
  BY <1>1 DEF ConditionAt
<1>3. ActiveAt(V, ds, n) <=> \E k \in 1 .. Len(ds) : new[k] = n
  BY <1>0, <1>1, ActiveIs
<1> QED BY <1>1, <1>2, <1>3 DEF EntryOf, At

LEMMA LastCatch ==
  ASSUME NEW V, NEW n, NEW ds, NEW new, LastIs(V, n, ds, new), NEW vb, At(V, n).kind = "target",
         NEW k \in 1 .. Len(ds), At(new, k) = n
  PROVE  EntryOf(V, vb, ds, n) = [kind |-> "catch", condition |-> FALSE]
<1> DEFINE w == At(V, n)
<1>1. w.kind = "target" /\ At(V, n) = w
  OBVIOUS
<1>2. \E j \in 1 .. Len(ds) : At(new, j) = n
  OBVIOUS
<1> HIDE DEF w
<1> QED BY <1>1, <1>2, LastTarget

LEMMA LastOwn ==
  ASSUME NEW V, NEW n, NEW ds, NEW new, LastIs(V, n, ds, new), NEW vb, At(V, n).kind = "target",
         \A k \in 1 .. Len(ds) : At(new, k) # n
  PROVE  EntryOf(V, vb, ds, n) = [kind |-> "own", val |-> At(V, n).value]
<1> DEFINE w == At(V, n)
<1>1. w.kind = "target" /\ At(V, n) = w
  OBVIOUS
<1>2. ~\E j \in 1 .. Len(ds) : At(new, j) = n
  OBVIOUS
<1> HIDE DEF w
<1>3. EntryOf(V, vb, ds, n) = [kind |-> "own", val |-> w.value]
  BY <1>1, <1>2, LastTarget
<1> QED BY <1>3 DEF w

\* The calls from the t-th on are over: what was below its item is as it was.
LEMMA EntryDrop ==
  ASSUME NEW W \in Seq(Item), NEW cs \in Seq(CallKinds), NEW pos, Marks(W, cs, pos), NEW t \in 1 .. Len(cs),
         NEW V \in Seq(Item), Len(V) <= Len(W), LeftAt(At(pos, t), V, W, cs, t),
         NEW ds \in Seq(CallKinds), Len(ds) = t - 1, \A k \in 1 .. t - 1 : ds[k] = cs[k],
         ConditionItems(W),
         NEW va, NEW vb, \A v \in Var : At(vb, v) = Bound(W, va, v, Len(V)),
         NEW i \in 1 .. At(pos, t) - 1
  PROVE  EntryOf(V, vb, ds, i) = EntryOf(W, va, cs, i)
<1> DEFINE w == At(pos, t)
<1>0. DroppedAt(w, V, W, cs, pos, ds, t)
  BY DropMarks
<1>1. Marks(V, ds, pos)
  BY <1>0 DEF DroppedAt
<1>2. Len(W) \in Nat /\ Len(V) \in Nat /\ Len(cs) \in Nat /\ t \in Nat /\ Len(ds) <= Len(cs)
  BY <1>0 DEF DroppedAt
<1>3. w \in 1 .. Len(W) /\ (Len(V) = w - 1 \/ Len(V) = w)
  BY <1>0 DEF DroppedAt
<1>4. \A j \in 1 .. Len(V) :
        V[j] = W[j] \/ (V[j].kind = "target" /\ W[j].kind = "target" /\ V[j].target = W[j].target)
  BY <1>0 DEF DroppedAt
<1>5. \A k \in t .. Len(cs) : At(pos, k) >= w /\ At(pos, k) \in Nat
  BY <1>0 DEF DroppedAt
<1>6. \A j \in 1 .. w - 1 : V[j] = W[j]
  BY DEF LeftAt
<1>7. W[w].kind \in {"extent", "target"}
  <2>1. cs[t] = "block" => W[w] = Extent
    BY MarkOf DEF At
  <2>2. cs[t] # "block" => W[w] = TargetItem(t)
    BY MarkOf DEF At
  <2> QED BY <2>1, <2>2, EntryKinds
<1> HIDE DEF w
<1>8. i \in 1 .. w - 1 /\ i \in 1 .. Len(W) /\ i \in 1 .. Len(V) /\ i \in Nat /\ w \in Nat
  <2>1. i \in 1 .. w - 1
    BY DEF w
  <2> QED BY <1>2, <1>3, <2>1
<1>9. ASSUME NEW v \in Var PROVE Bound(V, vb, v, i) = Bound(W, va, v, i)
  <2>1. i \in 0 .. Len(V) /\ At(vb, v) = Bound(W, va, v, Len(V))
    BY <1>2, <1>8
  <2>2. /\ \A j \in 1 .. Len(V) : Binds(V[j], v) <=> Binds(W[j], v)
        /\ \A j \in 1 .. Len(V) : Binds(V[j], v) => V[j].oldval = W[j].oldval
    BY <1>4 DEF Binds
  <2> QED BY <1>2, <2>1, <2>2, BoundPrefix
<1>10. W[i].kind = "var" => W[i].var \in Var
  <2>1. W[i] \in Item
    BY <1>8
  <2> QED BY <2>1, ItemCases DEF Extent
<1>11. ASSUME W[i].kind = "target" PROVE ActiveAt(V, ds, i) <=> ActiveAt(W, cs, i)
  <2>1. ActiveAt(W, cs, i) <=> \E k \in 1 .. Len(cs) : pos[k] = i
    BY <1>8, <1>11, ActiveIs
  <2>2. ActiveAt(V, ds, i) <=> \E k \in 1 .. Len(ds) : pos[k] = i
    BY <1>1, <1>6, <1>8, <1>11, ActiveIs
  <2>3. ASSUME NEW k \in 1 .. Len(cs), pos[k] = i PROVE k \in 1 .. Len(ds)
    <3>1. k \notin t .. Len(cs)
      <4> SUFFICES ASSUME k \in t .. Len(cs) PROVE FALSE
        OBVIOUS
      <4>1. i >= w
        BY <1>5, <2>3 DEF At
      <4> QED BY <1>8, <4>1
    <3> QED BY <1>2, <3>1
  <2>4. \A k \in 1 .. Len(ds) : k \in 1 .. Len(cs)
    BY <1>2
  <2> QED BY <2>1, <2>2, <2>3, <2>4
<1>12. ConditionAt(V, i) <=> ConditionAt(W, i)
  <2>1. CASE i + 2 <= w - 1
    <3>1. i + 2 \in 1 .. w - 1 /\ i + 2 <= Len(V) /\ i + 2 <= Len(W)
      BY <1>2, <1>3, <1>8, <2>1
    <3> QED BY <1>6, <3>1 DEF ConditionAt
  <2>2. CASE i + 2 = w
    <3>1. i + 2 <= Len(V) => V[i + 2].kind = "target"
      BY <1>2, <1>3, <2>2 DEF LeftAt, w
    <3> QED BY <1>7, <2>2, <3>1 DEF ConditionAt
  <2>3. CASE i + 2 = w + 1
    <3>1. ~(i + 2 <= Len(V))
      BY <1>2, <1>3, <1>8, <2>3
    <3>2. ~ConditionAt(W, i)
      <4> SUFFICES ASSUME ConditionAt(W, i) PROVE FALSE
        OBVIOUS
      <4>1. i + 2 \in 1 .. Len(W) /\ Binds(W[i + 2], Handler) /\ i + 2 - 1 = w
        BY <1>2, <1>8, <2>3 DEF ConditionAt, Binds
      <4>2. W[w].kind = "unref"
        BY <4>1 DEF ConditionItems
      <4> QED BY <1>7, <4>2
    <3> QED BY <3>1, <3>2 DEF ConditionAt
  <2> QED BY <1>8, <2>1, <2>2, <2>3
<1>13. V[i] = W[i]
  BY <1>6, <1>8
<1> QED
  <2>1. W[i].kind = "var" => Bound(V, vb, W[i].var, i) = Bound(W, va, W[i].var, i)
    BY <1>9, <1>10
  <2>2. W[i].kind = "target" => (ActiveAt(V, ds, i) <=> ActiveAt(W, cs, i))
    BY <1>11
  <2> QED BY <1>8, <1>12, <1>13, <2>1, <2>2, EntrySame

-----------------------------------------------------------------------------
(***************************************************************************)
(* What is carried out                                                     *)
(***************************************************************************)
\* Promise!Carried, for any sequence.
Todo(e, i) == {j \in i .. Len(e) : e[j].kind = "todo"}
Nth(e, i, n) == {j \in Todo(e, i) : Cardinality({k \in Todo(e, i) : k >= j}) = n}
Only(S) == CHOOSE j \in S : TRUE
CarriedOf(e, i, for_throw) ==
  [n \in 1 .. Cardinality(Todo(e, i)) |-> <<e[Only(Nth(e, i, n))].func, for_throw>>]

LEMMA TodoFinite ==
  ASSUME NEW e, Len(e) \in Nat, NEW i \in Nat
  PROVE  /\ IsFiniteSet(Todo(e, i)) /\ Cardinality(Todo(e, i)) \in Nat
         /\ \A j : IsFiniteSet({k \in Todo(e, i) : k >= j})
                   /\ Cardinality({k \in Todo(e, i) : k >= j}) <= Cardinality(Todo(e, i))
                   /\ Cardinality({k \in Todo(e, i) : k >= j}) \in Nat
<1>1. Todo(e, i) \subseteq i .. Len(e)
  BY DEF Todo
<1>2. IsFiniteSet(i .. Len(e))
  BY FS_Interval
<1>3. IsFiniteSet(Todo(e, i)) /\ Cardinality(Todo(e, i)) \in Nat
  BY <1>1, <1>2, FS_Subset, FS_CardinalityType
<1>4. ASSUME NEW j
      PROVE  IsFiniteSet({k \in Todo(e, i) : k >= j})
             /\ Cardinality({k \in Todo(e, i) : k >= j}) <= Cardinality(Todo(e, i))
             /\ Cardinality({k \in Todo(e, i) : k >= j}) \in Nat
  <2> DEFINE S == {k \in Todo(e, i) : k >= j}
  <2>1. S \subseteq Todo(e, i)
    OBVIOUS
  <2> HIDE DEF S
  <2>2. IsFiniteSet(S) /\ Cardinality(S) <= Cardinality(Todo(e, i)) /\ Cardinality(S) \in Nat
    BY <1>3, <2>1, FS_Subset, FS_CardinalityType
  <2> QED BY <2>2 DEF S
<1> QED BY <1>3, <1>4

LEMMA CarriedNone ==
  ASSUME NEW e, Len(e) \in Nat, NEW for_throw
  PROVE  CarriedOf(e, Len(e) + 1, for_throw) = <<>>
<1>1. Todo(e, Len(e) + 1) = {}
  BY DEF Todo
<1>2. Cardinality(Todo(e, Len(e) + 1)) = 0
  BY <1>1, FS_EmptySet
<1> QED BY <1>2 DEF CarriedOf

\* An entry that is nothing to do changes nothing.
LEMMA CarriedSkip ==
  ASSUME NEW e, Len(e) \in Nat, NEW i \in 1 .. Len(e), NEW for_throw, e[i].kind # "todo"
  PROVE  CarriedOf(e, i, for_throw) = CarriedOf(e, i + 1, for_throw)
<1>1. Todo(e, i) = Todo(e, i + 1)
  BY DEF Todo
<1>2. \A n : Nth(e, i, n) = Nth(e, i + 1, n)
  BY <1>1 DEF Nth
<1> QED BY <1>1, <1>2 DEF CarriedOf

\* An action comes last.
LEMMA CarriedNext ==
  ASSUME NEW e, Len(e) \in Nat, NEW i \in 1 .. Len(e), NEW for_throw, NEW S, NEW s \in Seq(S),
         CarriedOf(e, i + 1, for_throw) = s, e[i].kind = "todo", <<e[i].func, for_throw>> \in S
  PROVE  CarriedOf(e, i, for_throw) = Append(s, <<e[i].func, for_throw>>)
<1> DEFINE A == Todo(e, i)
           B == Todo(e, i + 1)
           c == Cardinality(B)
<1>0. i \in Nat /\ i + 1 \in Nat
  OBVIOUS
<1>1. c \in Nat /\ IsFiniteSet(B) /\ \A j \in B : j > i /\ j \in Nat
  BY <1>0, TodoFinite DEF Todo
<1>2. DOMAIN s = 1 .. c /\ Len(s) = c
  <2>1. DOMAIN s = 1 .. c
    BY DEF CarriedOf
  <2>2. DOMAIN s = 1 .. Len(s) /\ Len(s) \in Nat
    OBVIOUS
  <2> HIDE DEF c
  <2> QED BY <1>1, <2>1, <2>2
<1> DEFINE last == <<e[i].func, for_throw>>
           t == CarriedOf(e, i, for_throw)
           u == Append(s, last)
<1>11. A = B \union {i} /\ i \notin B
  BY <1>0 DEF Todo
<1>12. Cardinality(A) = c + 1
  <2> HIDE DEF A, B
  <2> QED BY <1>1, <1>11, FS_AddElement DEF c
<1>13. ASSUME NEW j \in B PROVE {k \in A : k >= j} = {k \in B : k >= j}
  <2>1. ~(i >= j)
    BY <1>0, <1>1
  <2> HIDE DEF A, B
  <2> QED BY <1>11, <2>1
<1>14. {k \in A : k >= i} = A
  <2>1. \A k \in A : k >= i
    BY <1>0 DEF Todo
  <2> HIDE DEF A
  <2> QED BY <2>1
<1>15. ASSUME NEW n \in 1 .. c PROVE Nth(e, i, n) = Nth(e, i + 1, n)
  <2>1. Nth(e, i, n) = {j \in A : Cardinality({k \in A : k >= j}) = n}
    BY DEF Nth
  <2>2. Nth(e, i + 1, n) = {j \in B : Cardinality({k \in B : k >= j}) = n}
    BY DEF Nth
  <2>3. c + 1 # n
    BY <1>1
  <2> HIDE DEF A, B, c
  <2>4. Cardinality({k \in A : k >= i}) # n
    BY <1>12, <1>14, <2>3
  <2> QED BY <1>11, <1>13, <2>1, <2>2, <2>4
<1>16. Nth(e, i, c + 1) = {i}
  <2>1. Nth(e, i, c + 1) = {j \in A : Cardinality({k \in A : k >= j}) = c + 1}
    BY DEF Nth
  <2>2. ASSUME NEW j \in B PROVE Cardinality({k \in B : k >= j}) # c + 1
    <3> DEFINE d == Cardinality({k \in B : k >= j})
    <3>1. d <= c /\ d \in Nat
      BY <1>0, TodoFinite
    <3> HIDE DEF c, d
    <3>2. d # c + 1
      BY <1>1, <3>1
    <3> QED BY <3>2 DEF d
  <2> HIDE DEF A, B, c
  <2> QED BY <1>11, <1>12, <1>13, <1>14, <2>1, <2>2
<1>17. t = [n \in 1 .. c + 1 |-> <<e[Only(Nth(e, i, n))].func, for_throw>>]
  BY <1>12 DEF CarriedOf
<1>18. s = [n \in 1 .. c |-> <<e[Only(Nth(e, i + 1, n))].func, for_throw>>]
  BY DEF CarriedOf
<1>19. u \in Seq(S) /\ Len(u) = c + 1 /\ u[c + 1] = last /\ \A n \in 1 .. c : u[n] = s[n]
  <2> HIDE DEF c, last
  <2> QED BY <1>2, Appended DEF last
<1> HIDE DEF c, u, t
<1>20. ASSUME NEW n \in 1 .. c PROVE t[n] = u[n]
  <2>1. n \in 1 .. c + 1
    BY <1>1
  <2> QED BY <1>15, <1>17, <1>18, <1>19, <2>1
<1>21. t[c + 1] = u[c + 1]
  <2>1. c + 1 \in 1 .. c + 1
    BY <1>1
  <2>2. Only({i}) = i
    BY DEF Only
  <2> QED BY <1>16, <1>17, <1>19, <2>1, <2>2
<1>22. \A n \in 1 .. c + 1 : t[n] = u[n]
  BY <1>1, <1>20, <1>21
<1>23. DOMAIN t = 1 .. c + 1
  BY <1>17
<1>24. u = [n \in 1 .. c + 1 |-> u[n]]
  <2>1. u = [n \in 1 .. Len(u) |-> u[n]]
    BY <1>19
  <2> QED BY <1>19, <2>1
<1> DEFINE Fn(n) == <<e[Only(Nth(e, i, n))].func, for_throw>>
<1>25. t = [n \in 1 .. c + 1 |-> t[n]]
  <2>1. t = [n \in 1 .. c + 1 |-> Fn(n)]
    BY <1>17
  <2> HIDE DEF Fn
  <2>2. \A n \in 1 .. c + 1 : t[n] = Fn(n)
    BY <2>1
  <2> QED BY <2>1, <2>2
<1>26. t = u
  BY <1>22, <1>24, <1>25
<1> QED BY <1>26 DEF t, u

\* The actions of W are those of the environment e.
SameActions(e, W) ==
  /\ Len(e) = Len(W)
  /\ \A i \in 1 .. Len(W) : /\ e[i].kind = "todo" <=> W[i].kind = "func"
                            /\ W[i].kind = "func" => e[i].func = W[i].func

\* Unwind runs the functions of the items that it drops, the last one first.
LEMMA RanIs ==
  ASSUME NEW m \in Mem, m.ran = <<>>, windlist \in Seq(Item), NEW goal \in 0 .. Len(windlist), NEW for_throw \in BOOLEAN,
         NEW e \in [Val -> Nat], Counted(m, windlist, Len(windlist), e), NEW env, SameActions(env, windlist)
  PROVE  Unwind(m, goal, for_throw).ran = CarriedOf(env, goal + 1, for_throw)
<1> DEFINE L == Len(windlist)
           N == L - goal
<1>1. PICK f \in [0 .. N -> Mem] :
        /\ f[0] = m
        /\ \A n \in 0 .. N - 1 : f[n + 1] = Undo(f[n], windlist[L - n], for_throw)
        /\ Unwind(m, goal, for_throw) = f[N]
  BY UnwindSteps
<1>2. L \in Nat /\ N \in Nat /\ goal = L - N /\ N \in 0 .. N /\ N <= L /\ Len(env) = L
  BY DEF SameActions
<1> DEFINE Good(n) == /\ Counted(f[n], windlist, L - n, e)
                      /\ CarriedOf(env, L - n + 1, for_throw) = f[n].ran
           T == {n \in 0 .. N : Good(n)}
<1> HIDE DEF L, N
<1>3. 0 \in T
  <2>1. 0 \in 0 .. N /\ L - 0 = L
    BY <1>2
  <2>2. CarriedOf(env, L + 1, for_throw) = <<>>
    BY <1>2, CarriedNone
  <2> QED BY <1>1, <2>1, <2>2 DEF L
<1>4. ASSUME NEW n \in 0 .. N - 1, n \in T PROVE n + 1 \in T
  <2> DEFINE k == L - n - 1
             w == windlist[L - n]
  <2>1. /\ k \in Nat /\ k < L /\ k + 1 = L - n /\ L - (n + 1) = k /\ n + 1 \in 0 .. N /\ n \in 0 .. N
        /\ f[n] \in Mem /\ w = windlist[k + 1] /\ k + 1 \in 1 .. L /\ L - n + 1 = k + 1 + 1
        /\ L - (n + 1) + 1 = k + 1
    BY <1>2, <1>1
  <2> HIDE DEF k
  <2>2. w \in Item
    BY <2>1 DEF L
  <2> HIDE DEF w
  <2>3. Counted(f[n], windlist, k + 1, e) /\ CarriedOf(env, k + 1 + 1, for_throw) = f[n].ran
    BY <1>4, <2>1
  <2> DEFINE a == f[n]
             b == Undo(a, w, for_throw)
  <2>4. f[n + 1] = b
    BY <1>1 DEF w
  <2>5. b \in Mem /\ Counted(b, windlist, k, e) /\ b.ran = RanAfter(a.ran, w, for_throw)
    <3>1. a \in Mem /\ Counted(a, windlist, k + 1, e) /\ k < Len(windlist)
      BY <2>1, <2>3 DEF L
    <3> HIDE DEF a
    <3> QED BY <2>1, <3>1, UndoExact
  <2> DEFINE s == a.ran
             S == Fun \X BOOLEAN
             i == k + 1
  <2>6. s \in Seq(S)
    BY <2>1 DEF Mem
  <2>7. CarriedOf(env, i, for_throw) = b.ran
    <3>1. i \in 1 .. Len(env) /\ Len(env) \in Nat /\ CarriedOf(env, i + 1, for_throw) = s
      BY <1>2, <2>1, <2>3
    <3>2. env[i].kind = "todo" <=> w.kind = "func"
      BY <2>1 DEF SameActions, L
    <3>3. w.kind = "func" => env[i].func = w.func
      BY <2>1 DEF SameActions, L
    <3>4. b.ran = RanAfter(s, w, for_throw)
      BY <2>5
    <3> HIDE DEF s, i, b
    <3>5. CASE w.kind = "func"
      <4>1. w.func \in Fun
        BY <2>2, <3>5, ItemCases DEF Extent
      <4>2. <<env[i].func, for_throw>> \in S
        BY <3>3, <3>5, <4>1
      <4>3. CarriedOf(env, i, for_throw) = Append(s, <<env[i].func, for_throw>>)
        <5> HIDE DEF S
        <5> QED BY <2>6, <3>1, <3>2, <3>5, <4>2, CarriedNext
      <4> QED BY <3>3, <3>4, <3>5, <4>3 DEF RanAfter
    <3>6. CASE w.kind # "func"
      <4>1. CarriedOf(env, i, for_throw) = s
        <5> HIDE DEF S
        <5>1. env[i].kind # "todo"
          BY <3>2, <3>6
        <5>2. CarriedOf(env, i, for_throw) = CarriedOf(env, i + 1, for_throw)
          BY <3>1, <5>1, CarriedSkip
        <5> QED BY <3>1, <5>2
      <4> QED BY <3>4, <3>6, <4>1 DEF RanAfter
    <3> QED BY <3>5, <3>6
  <2>8. Good(n + 1)
    <3> HIDE DEF a
    <3> QED BY <2>1, <2>4, <2>5, <2>7
  <2> QED BY <2>1, <2>8
<1>5. N \in T
  <2>1. \A n \in 0 .. N : n \in T
    <3> HIDE DEF T
    <3> QED BY <1>2, <1>3, <1>4, UpTo
  <2> QED BY <1>2, <2>1
<1> QED BY <1>1, <1>2, <1>5

-----------------------------------------------------------------------------
(***************************************************************************)
(* What is owned                                                           *)
(***************************************************************************)
\* j is the last of the first n items that bind v, or 0.
LastOf(W, v, j, n) == (j = 0 \/ Binds(W[j], v)) /\ \A i \in j + 1 .. n : ~Binds(W[i], v)

LEMMA LastBinder ==
  ASSUME NEW W, Len(W) \in Nat, NEW va, NEW v, NEW n \in 0 .. Len(W)
  PROVE  \E j \in 0 .. n : LastOf(W, v, j, n) /\ Bound(W, va, v, j) = Bound(W, va, v, n)
<1> DEFINE Same(j) == Bound(W, va, v, j) = Bound(W, va, v, n) /\ \A i \in j + 1 .. n : ~Binds(W[i], v)
           T == {j \in 0 .. n : Same(j)}
<1>1. T \in SUBSET Nat /\ n \in T
  OBVIOUS
<1>2. PICK j \in T : \A k \in T : j <= k
  <2> HIDE DEF T
  <2> QED BY <1>1, NatMin
<1>3. ASSUME j # 0, ~Binds(W[j], v) PROVE FALSE
  <2>1. j - 1 \in 0 .. n /\ j - 1 \in Nat /\ j - 1 < Len(W) /\ (j - 1) + 1 = j /\ j \in 0 .. n
    BY <1>2, <1>3
  <2>2. Bound(W, va, v, j - 1) = Bound(W, va, v, j)
    <3> DEFINE k == j - 1
    <3>1. k \in Nat /\ k < Len(W) /\ k + 1 = j
      BY <2>1
    <3> HIDE DEF k
    <3>2. Bound(W, va, v, k) = IF W[k + 1].kind = "var" /\ W[k + 1].var = v
                               THEN W[k + 1].oldval ELSE Bound(W, va, v, k + 1)
      BY <3>1, BoundNext
    <3> QED BY <1>3, <3>1, <3>2 DEF Binds, k
  <2>3. \A i \in (j - 1) + 1 .. n : ~Binds(W[i], v)
    <3>1. \A i \in (j - 1) + 1 .. n : i = j \/ i \in j + 1 .. n
      BY <2>1
    <3> QED BY <1>2, <1>3, <3>1
  <2>4. j - 1 \in T
    BY <1>2, <2>1, <2>2, <2>3
  <2>5. j <= j - 1
    BY <1>2, <2>4
  <2> QED BY <2>1, <2>5
<1>4. LastOf(W, v, j, n)
  BY <1>2, <1>3 DEF LastOf
<1> QED BY <1>2, <1>4

\* The kinds of entries.
LEMMA EntryIs ==
  ASSUME NEW W \in Seq(Item), NEW cs \in Seq(CallKinds), NEW pos, Marks(W, cs, pos), NEW va,
         NEW i \in 1 .. Len(W), NEW e, e = EntryOf(W, va, cs, i)
  PROVE  /\ W[i].kind = "extent" => e = W[i] /\ e.kind = "extent"
         /\ W[i].kind = "func" => e.kind = "todo" /\ e.func = W[i].func
         /\ W[i].kind = "var" => e = [kind |-> "bind", var |-> W[i].var, val |-> Bound(W, va, W[i].var, i)]
         /\ W[i].kind = "unref" => e = [kind |-> "own", val |-> W[i].val]
         /\ W[i].kind = "target" /\ (\E k \in 1 .. Len(cs) : pos[k] = i)
              => e = [kind |-> "catch", condition |-> ConditionAt(W, i)] /\ W[i].value = None
         /\ W[i].kind = "target" /\ ~(\E k \in 1 .. Len(cs) : pos[k] = i) => e = [kind |-> "own", val |-> W[i].value]
<1>1. W[i].kind = "target" => (ActiveAt(W, cs, i) <=> \E k \in 1 .. Len(cs) : pos[k] = i)
  BY ActiveIs
<1>2. ASSUME W[i].kind = "target", NEW k \in 1 .. Len(cs), pos[k] = i PROVE W[i].value = None
  <2>1. cs[k] # "block"
    <3>1. cs[k] = "block" => W[i] = Extent
      BY <1>2, MarkOf
    <3> QED BY <1>2, <3>1, EntryKinds
  <2>2. W[i] = TargetItem(k)
    BY <1>2, <2>1, MarkOf
  <2> QED BY <2>2, EntryKinds
<1>3. CASE W[i].kind = "target"
  BY <1>1, <1>2, <1>3 DEF EntryOf
<1>4. CASE W[i].kind # "target"
  BY <1>4 DEF EntryOf
<1> QED BY <1>3, <1>4

LEMMA EnvIs ==
  ASSUME NEW W, Len(W) \in Nat, NEW va, NEW cs
  PROVE  /\ Len(EnvOf(W, va, cs)) = Len(W) /\ DOMAIN EnvOf(W, va, cs) = 1 .. Len(W)
         /\ \A i \in 1 .. Len(W) : EnvOf(W, va, cs)[i] = EntryOf(W, va, cs, i)
<1> DEFINE n == Len(W)
           f == EnvOf(W, va, cs)
           S == {f[i] : i \in 1 .. n}
<1>1. f = [i \in 1 .. n |-> f[i]] /\ DOMAIN f = 1 .. n
  BY DEF EnvOf
<1>2. f \in [1 .. n -> S]
  <2> HIDE DEF f
  <2> QED BY <1>1
<1>3. f \in Seq(S)
  <2> HIDE DEF f, S
  <2> QED BY <1>2
<1>4. Len(f) = n
  <2> HIDE DEF f, S, n
  <2>1. DOMAIN f = 1 .. Len(f) /\ Len(f) \in Nat /\ n \in Nat
    BY <1>3 DEF n
  <2> QED BY <1>1, <2>1
<1> QED BY <1>1, <1>4 DEF EnvOf

\* The environment owns what the list and the variables own.
LEMMA RootsAre ==
  ASSUME NEW W \in Seq(Item), NEW cs \in Seq(CallKinds), NEW pos, Marks(W, cs, pos), NEW va,
         NEW z \in Val
  PROVE  z \in Promise!Roots(EnvOf(W, va, cs), GlobalOf(W, va)) <=> IsOwned(W, va, z)
<1> DEFINE e == EnvOf(W, va, cs)
           g == GlobalOf(W, va)
           n == Len(W)
<1>1. n \in Nat /\ Len(e) = n /\ z # None
  BY EnvIs, Constants
<1>2. \A i \in 1 .. n : e[i] = EntryOf(W, va, cs, i)
  BY EnvIs
<1>3. \A v \in Var : g[v] = Bound(W, va, v, 0)
  BY DEF GlobalOf
<1>4. z \in Promise!Roots(e, g) <=> \/ \E i \in 1 .. n : e[i].kind \in {"own", "bind"} /\ e[i].val = z
                                    \/ \E v \in Var : g[v] = z
  <2> HIDE DEF e, g, n
  <2> QED BY <1>1 DEF Promise!Roots
<1> HIDE DEF e, g, n
<1>5. ASSUME NEW i \in 1 .. n, e[i].kind \in {"own", "bind"}, e[i].val = z PROVE IsOwned(W, va, z)
  <2>1. i \in 1 .. Len(W) /\ i \in 0 .. Len(W)
    BY DEF n
  <2> DEFINE w == W[i]
             active == \E k \in 1 .. Len(cs) : pos[k] = i
  <2>2. /\ w.kind = "extent" => e[i].kind = "extent"
        /\ w.kind = "func" => e[i].kind = "todo"
        /\ w.kind = "var" => e[i].val = Bound(W, va, w.var, i)
        /\ w.kind = "unref" => e[i].val = w.val
        /\ w.kind = "target" /\ active => e[i].kind = "catch"
        /\ w.kind = "target" /\ ~active => e[i].val = w.value
    BY <1>2, <2>1, EntryIs
  <2>3. w \in Item
    BY <2>1
  <2> HIDE DEF active, w
  <2>4. \/ w.kind = "var" /\ w.var \in Var /\ Bound(W, va, w.var, i) = z
        \/ w.kind = "unref" /\ w.val = z
        \/ w.kind = "target" /\ w.value = z
    BY <1>5, <2>2, <2>3, ItemCases DEF Extent
  <2>5. CASE w.kind = "var" /\ w.var \in Var /\ Bound(W, va, w.var, i) = z
    BY <2>1, <2>5, BoundIsOwned
  <2>6. CASE (w.kind = "unref" /\ w.val = z) \/ (w.kind = "target" /\ w.value = z)
    <3>1. ItemVal(w) = z
      BY <2>6 DEF ItemVal
    <3> QED BY <2>1, <3>1 DEF IsOwned, w
  <2> QED BY <2>4, <2>5, <2>6
<1>6. ASSUME NEW v \in Var, g[v] = z PROVE IsOwned(W, va, z)
  <2>1. 0 \in 0 .. Len(W)
    BY <1>1 DEF n
  <2> QED BY <1>3, <1>6, <2>1, BoundIsOwned
\* What a variable is or was bound to is in its last entry, or global.
<1>7. ASSUME NEW v \in Var, NEW i \in 0 .. n, Bound(W, va, v, i) = z
      PROVE  (\E k \in 1 .. n : e[k].kind \in {"own", "bind"} /\ e[k].val = z) \/ \E u \in Var : g[u] = z
  <2>1. i \in 0 .. Len(W) /\ Len(W) \in Nat
    BY <1>1 DEF n
  <2>2. PICK j \in 0 .. i : LastOf(W, v, j, i) /\ Bound(W, va, v, j) = z
    BY <1>7, <2>1, LastBinder
  <2>3. CASE j = 0
    BY <1>3, <2>2, <2>3
  <2>4. CASE j # 0
    <3>1. j \in 1 .. n /\ j \in 1 .. Len(W)
      BY <1>1, <2>4 DEF n
    <3>2. W[j].kind = "var" /\ W[j].var = v
      BY <2>2, <2>4 DEF LastOf, Binds
    <3>3. e[j] = [kind |-> "bind", var |-> v, val |-> z]
      BY <1>2, <2>2, <3>1, <3>2, EntryIs
    <3> QED BY <3>1, <3>3
  <2> QED BY <2>3, <2>4
<1>8. ASSUME IsOwned(W, va, z)
      PROVE  (\E i \in 1 .. n : e[i].kind \in {"own", "bind"} /\ e[i].val = z) \/ \E v \in Var : g[v] = z
  <2>1. ASSUME NEW v \in Var, va[v] = z
        PROVE  (\E i \in 1 .. n : e[i].kind \in {"own", "bind"} /\ e[i].val = z) \/ \E u \in Var : g[u] = z
    <3>1. Bound(W, va, v, n) = z /\ n \in 0 .. n
      BY <1>1, <2>1, BoundByAll DEF At, n
    <3> QED BY <1>7, <3>1
  <2>2. ASSUME NEW i \in 1 .. n, ItemVal(W[i]) = z
        PROVE  (\E k \in 1 .. n : e[k].kind \in {"own", "bind"} /\ e[k].val = z) \/ \E u \in Var : g[u] = z
    <3> DEFINE w == W[i]
               active == \E k \in 1 .. Len(cs) : pos[k] = i
    <3>1. i \in 1 .. Len(W) /\ w \in Item
      BY DEF n
    <3>2. /\ w.kind = "unref" => e[i] = [kind |-> "own", val |-> w.val]
          /\ w.kind = "target" /\ active => w.value = None
          /\ w.kind = "target" /\ ~active => e[i] = [kind |-> "own", val |-> w.value]
      BY <1>2, <3>1, EntryIs
    <3> HIDE DEF active
    <3>3. \/ w.kind = "var" /\ w.oldval = z
          \/ w.kind = "unref" /\ w.val = z
          \/ w.kind = "target" /\ w.value = z
      <4> HIDE DEF w
      <4>1. ItemVal(w) = z
        BY <2>2 DEF w
      <4> QED BY <1>1, <4>1 DEF ItemVal
    <3>4. CASE w.kind = "unref" \/ w.kind = "target"
      <4>1. e[i] = [kind |-> "own", val |-> z]
        <5> HIDE DEF w
        <5> QED BY <1>1, <3>2, <3>3, <3>4
      <4> QED BY <4>1
    <3>5. CASE w.kind = "var"
      <4> DEFINE k == i - 1
      <4>1. k \in Nat /\ k \in 0 .. n /\ k < Len(W) /\ k + 1 = i /\ Len(W) \in Nat
        BY <1>1 DEF n
      <4>2. w.oldval = z /\ w.var \in Var
        <5> HIDE DEF w
        <5> QED BY <3>1, <3>3, <3>5, ItemCases DEF Extent
      <4> HIDE DEF k
      <4>3. Bound(W, va, w.var, k) = z
        BY <3>5, <4>1, <4>2, BoundNext
      <4> HIDE DEF w
      <4> QED BY <1>7, <4>1, <4>2, <4>3
    <3> QED BY <3>3, <3>4, <3>5
  <2> QED BY <1>8, <2>1, <2>2 DEF IsOwned, n
<1>9. z \in Promise!Roots(e, g) <=> IsOwned(W, va, z)
  BY <1>4, <1>5, <1>6, <1>8
<1> QED BY <1>9 DEF e, g

LEMMA BoundIsMaybe ==
  ASSUME NEW W \in Seq(Item), NEW va \in [Var -> Maybe], NEW v \in Var, NEW j \in 0 .. Len(W)
  PROVE  Bound(W, va, v, j) \in Maybe
<1>1. Len(W) \in Nat
  OBVIOUS
<1>2. CASE Bound(W, va, v, j) = va[v]
  BY <1>2
<1>3. CASE \E i \in j + 1 .. Len(W) : Binds(W[i], v) /\ Bound(W, va, v, j) = W[i].oldval
  <2>1. PICK i \in j + 1 .. Len(W) : Binds(W[i], v) /\ Bound(W, va, v, j) = W[i].oldval
    BY <1>3
  <2>2. W[i] \in Item
    BY <1>1, <2>1
  <2>3. W[i].oldval \in Maybe
    BY <2>1, <2>2, ItemCases DEF Binds, Extent
  <2> QED BY <2>1, <2>3
<1> QED BY <1>1, <1>2, <1>3, BoundIs

LEMMA RootsAreValues ==
  ASSUME NEW W \in Seq(Item), NEW cs \in Seq(CallKinds), NEW pos, Marks(W, cs, pos), NEW va \in [Var -> Maybe]
  PROVE  Promise!Roots(EnvOf(W, va, cs), GlobalOf(W, va)) \subseteq Val
<1> DEFINE e == EnvOf(W, va, cs)
           g == GlobalOf(W, va)
           n == Len(W)
<1>1. n \in Nat /\ Len(e) = n
  BY EnvIs
<1>2. \A i \in 1 .. n : e[i] = EntryOf(W, va, cs, i)
  BY EnvIs
<1>3. \A v \in Var : g[v] \in Maybe
  <2>1. 0 \in 0 .. Len(W)
    BY <1>1
  <2> QED BY <2>1, BoundIsMaybe DEF GlobalOf
<1> HIDE DEF e, g, n
<1>4. ASSUME NEW i \in 1 .. n, e[i].kind \in {"own", "bind"} PROVE e[i].val \in Maybe
  <2>1. i \in 1 .. Len(W) /\ i \in 0 .. Len(W)
    BY DEF n
  <2> DEFINE w == W[i]
             active == \E k \in 1 .. Len(cs) : pos[k] = i
  <2>2. /\ w.kind = "extent" => e[i].kind = "extent"
        /\ w.kind = "func" => e[i].kind = "todo"
        /\ w.kind = "var" => e[i].val = Bound(W, va, w.var, i)
        /\ w.kind = "unref" => e[i].val = w.val
        /\ w.kind = "target" /\ active => e[i].kind = "catch"
        /\ w.kind = "target" /\ ~active => e[i].val = w.value
    <3> DEFINE en == e[i]
    <3>1. en = EntryOf(W, va, cs, i)
      BY <1>2 DEF n
    <3> HIDE DEF en
    <3>2. /\ w.kind = "extent" => en.kind = "extent"
          /\ w.kind = "func" => en.kind = "todo"
          /\ w.kind = "var" => en.val = Bound(W, va, w.var, i)
          /\ w.kind = "unref" => en.val = w.val
          /\ w.kind = "target" /\ active => en.kind = "catch"
          /\ w.kind = "target" /\ ~active => en.val = w.value
      BY <2>1, <3>1, EntryIs
    <3> QED BY <3>2 DEF en
  <2>3. w \in Item
    BY <2>1
  <2> HIDE DEF active, w
  <2>4. \/ w.kind = "var" /\ w.var \in Var /\ e[i].val = Bound(W, va, w.var, i)
        \/ e[i].val \in Maybe
    BY <1>4, <2>2, <2>3, ItemCases DEF Extent
  <2> QED BY <2>1, <2>4, BoundIsMaybe
<1>5. Promise!Roots(e, g) \subseteq Val
  BY <1>1, <1>3, <1>4 DEF Promise!Roots, Maybe
<1> QED BY <1>5 DEF e, g

\* The contents c are right about what is alive.
Agrees(c, re, co) == \A y \in Val : re[y] > 0 => At(c, y) = At(ContentOf(co), y)

\* What is alive is what the environment owns.
AliveIs ==
  \A c : Agrees(c, refs, content)
           => Promise!Owned(EnvOf(windlist, var, calls), GlobalOf(windlist, var), c) = Alive

LEMMA AliveIsOwned ==
  IInv /\ NoCycles(content) => AliveIs
<1> SUFFICES ASSUME IInv, NoCycles(content), NEW c,
                    Agrees(c, refs, content)
             PROVE  Promise!Owned(EnvOf(windlist, var, calls), GlobalOf(windlist, var), c) = Alive
  BY DEF AliveIs
<1> DEFINE e == EnvOf(windlist, var, calls)
           g == GlobalOf(windlist, var)
           R == Promise!Roots(e, g)
<1>1. PICK pos : Marks(windlist, calls, pos)
  BY IInvParts DEF Nested
<1>2. \A z \in Val : z \in R <=> IsOwned(windlist, var, z)
  BY <1>1, IInvParts, RootsAre
<1>3. R \subseteq Val
  <2>1. var \in [Var -> Maybe]
    BY IInvParts, MemParts, MemoryFields
  <2> QED BY <1>1, <2>1, IInvParts, RootsAreValues
<1> HIDE DEF e, g, R
<1>4. Promise!Owned(e, g, c) =
        {x \in Val : \A S \in SUBSET Val : R \subseteq S /\ (\A y \in S : c[y] \in S \union {None}) => x \in S}
  BY DEF Promise!Owned, R
<1>5. /\ \A z \in Val : IsOwned(windlist, var, z) => z \in Alive
      /\ \A z \in Alive : content[z] \in Val => content[z] \in Alive
  <2>1. /\ \A v \in Var : var[v] \in Val => refs[var[v]] > 0
        /\ \A i \in 1 .. Len(windlist) : ItemVal(windlist[i]) \in Val => refs[ItemVal(windlist[i])] > 0
        /\ \A y \in Val : content[y] \in Val => refs[content[y]] > 0
    BY IInvParts, OwnedIsAlive, MemoryFields
  <2> QED BY <2>1 DEF IsOwned, Alive
<1>6. \A y \in Alive : y \in Val /\ c[y] = IF content[y] \in Val THEN content[y] ELSE None
  BY DEF ContentOf, Alive, At, Agrees
<1>7. Alive = Reachable /\ None \notin Val
  BY AliveIsReachable, Constants
<1>8. ASSUME NEW x \in Promise!Owned(e, g, c) PROVE x \in Alive
  <2>1. R \subseteq Alive
    BY <1>2, <1>3, <1>5
  <2>2. \A y \in Alive : c[y] \in Alive \union {None}
    BY <1>5, <1>6
  <2>3. Alive \in SUBSET Val
    BY DEF Alive
  <2> QED BY <1>4, <1>8, <2>1, <2>2, <2>3
<1>9. ASSUME NEW x \in Alive PROVE x \in Promise!Owned(e, g, c)
  <2>1. ASSUME NEW S \in SUBSET Val, R \subseteq S, \A y \in S : c[y] \in S \union {None} PROVE x \in S
    <3> DEFINE U == {y \in Alive : y \in S}
    <3>1. \A z \in Val : IsOwned(windlist, var, z) => z \in U
      BY <1>2, <1>5, <2>1
    <3>2. \A z \in U : content[z] \in Val => content[z] \in U
      <4>1. ASSUME NEW z \in U, content[z] \in Val PROVE content[z] \in U
        <5>1. z \in Alive /\ z \in S /\ content[z] \in Alive
          BY <1>5, <4>1
        <5>2. c[z] = content[z] /\ c[z] \in S \union {None}
          BY <1>6, <2>1, <4>1, <5>1
        <5> QED BY <1>7, <4>1, <5>1, <5>2
      <4> QED BY <4>1
    <3>3. U \in SUBSET Val
      OBVIOUS
    <3>4. x \in U
      <4> HIDE DEF U
      <4> QED BY <1>7, <1>9, <3>1, <3>2, <3>3 DEF Reachable
    <3> QED BY <3>4
  <2>2. x \in Val
    BY <1>6, <1>9
  <2> QED BY <1>4, <2>1, <2>2
<1>10. Promise!Owned(e, g, c) = Alive
  BY <1>8, <1>9
<1> QED BY <1>10 DEF e, g

LEMMA AliveIsNext ==
  ASSUME IInv', NoCycles(content)'
  PROVE  AliveIs'
BY AliveIsOwned, PTL

-----------------------------------------------------------------------------
(***************************************************************************)
(* Every step is a step of the promise                                     *)
(***************************************************************************)
FreeIsCleared == \A z \in Val : ~(refs[z] > 0) => content[z] = None

LEMMA FreeIs ==
  IInv => FreeIsCleared
<1> SUFFICES ASSUME IInv, NEW z \in Val, ~(refs[z] > 0) PROVE content[z] = None
  BY DEF FreeIsCleared
<1>1. refs[z] \in Nat /\ (refs[z] = 0 => content[z] = None)
  BY IInvParts, MemParts, MemoryFields DEF Counted, Cleared
<1> QED BY <1>1

LEMMA FreeIsNext ==
  ASSUME IInv'
  PROVE  FreeIsCleared'
BY FreeIs, PTL

\* What the environment is, and what values own that are alive, tells which
\* values are freed.
LEMMA BecomeIs ==
  ASSUME IInv', NoCycles(content)', NEW e, NEW g, NEW c,
         EnvOf(windlist', var', calls') = e, GlobalOf(windlist', var') = g,
         Agrees(c, refs', content')
  PROVE  Promise!Become(e, g, c)
<1>1. Promise!Owned(e, g, c) = Alive'
  BY AliveIsNext DEF AliveIs
<1>2. [x \in Val |-> IF content[x] \in Val THEN content[x] ELSE None]'
        = [x \in Val |-> IF x \in Alive' THEN c[x] ELSE None]
  <2>1. ASSUME NEW x \in Val
        PROVE  At(ContentOf(content'), x) = IF x \in Alive' THEN c[x] ELSE None
    <3>1. CASE refs'[x] > 0
      BY <3>1 DEF Alive, At, Agrees
    <3>2. CASE ~(refs'[x] > 0)
      <4>1. content'[x] = None
        BY <3>2, FreeIsNext DEF FreeIsCleared
      <4> QED BY <3>2, <4>1 DEF Alive, At, ContentOf
    <3> QED BY <3>1, <3>2
  <2>2. ContentOf(content') = [x \in Val |-> At(ContentOf(content'), x)]
    BY DEF ContentOf, At
  <2>3. ContentOf(content') = [x \in Val |-> IF x \in Alive' THEN c[x] ELSE None]
    BY <2>1, <2>2
  <2> QED BY <2>3, ViewsNext
<1>3. [i \in 1 .. Len(windlist) |-> Entry(i)]' = e /\ [v \in Var |-> BoundUpTo(v, 0)]' = g
  BY ViewsNext
<1> QED BY <1>1, <1>2, <1>3 DEF Promise!Become

IsUpTo(f, n) == DOMAIN f = 1 .. n /\ f = [i \in 1 .. n |-> f[i]]

\* A function on 1 .. n is a sequence.
LEMMA IsSequence ==
  ASSUME NEW n \in Nat, NEW f, IsUpTo(f, n), NEW S, \A i \in 1 .. n : f[i] \in S
  PROVE  f \in Seq(S) /\ Len(f) = n
<1>1. f \in [1 .. n -> S]
  BY DEF IsUpTo
<1>2. f \in Seq(S)
  BY <1>1
<1>3. DOMAIN f = 1 .. Len(f) /\ Len(f) \in Nat
  BY <1>2
<1> QED BY <1>2, <1>3 DEF IsUpTo

LEMMA IsAppend ==
  ASSUME NEW n \in Nat, NEW f, IsUpTo(f, n), NEW x, NEW h, IsUpTo(h, n + 1),
         \A i \in 1 .. n : At(h, i) = At(f, i), At(h, n + 1) = x
  PROVE  h = Append(f, x) /\ h = f \o <<x>>
<1> DEFINE S == {f[i] : i \in 1 .. n} \union {x}
           u == Append(f, x)
<1>1. f \in Seq(S) /\ Len(f) = n /\ x \in S
  <2>1. (\A i \in 1 .. n : f[i] \in S) /\ x \in S
    OBVIOUS
  <2> HIDE DEF S
  <2> QED BY <2>1, IsSequence
<1>2. u \in Seq(S) /\ Len(u) = n + 1 /\ u[n + 1] = x /\ \A i \in 1 .. n : u[i] = f[i]
  <2> HIDE DEF S
  <2> QED BY <1>1, Appended
<1>3. f \o <<x>> = u
  <2> HIDE DEF S
  <2> QED BY <1>1, AddOne
<1>4. u = [i \in 1 .. n + 1 |-> u[i]]
  <2> HIDE DEF S, u
  <2>1. u = [i \in 1 .. Len(u) |-> u[i]]
    BY <1>2
  <2> QED BY <1>2, <2>1
<1>5. \A i \in 1 .. n + 1 : h[i] = u[i]
  <2>1. \A i \in 1 .. n + 1 : i = n + 1 \/ i \in 1 .. n
    OBVIOUS
  <2> HIDE DEF u
  <2> QED BY <1>2, <2>1 DEF At
<1>6. h = u
  <2> HIDE DEF u
  <2> QED BY <1>4, <1>5 DEF IsUpTo
<1> QED BY <1>3, <1>6

LEMMA EnvIsSequence ==
  ASSUME NEW W, Len(W) \in Nat, NEW va, NEW cs, NEW e, e = EnvOf(W, va, cs)
  PROVE  IsUpTo(e, Len(W))
BY DEF EnvOf, IsUpTo

\* An item is an entry more, and changes no others.
LEMMA EnvPush ==
  ASSUME NEW W \in Seq(Item), NEW w \in Item, NEW cs \in Seq(CallKinds), NEW ds \in Seq(CallKinds),
         NEW pos, NEW new, Pushed(W, cs, pos, Append(W, w), ds, new), NEW va, NEW vb,
         Saves(w, va, vb),
         ~Binds(w, Handler), NEW x, EntryOf(Append(W, w), vb, ds, Len(W) + 1) = x
  PROVE  /\ EnvOf(Append(W, w), vb, ds) = EnvOf(W, va, cs) \o <<x>>
         /\ EnvOf(Append(W, w), vb, ds) = Append(EnvOf(W, va, cs), x)
<1> DEFINE V == Append(W, w)
           n == Len(W)
           f == EnvOf(W, va, cs)
           h == EnvOf(V, vb, ds)
<1>1. n \in Nat /\ Len(V) = n + 1
  BY Appended
<1>2. \A i \in 1 .. n : h[i] = f[i]
  <2>1. ASSUME NEW i \in 1 .. n PROVE h[i] = f[i]
    <3>1. EntryOf(V, vb, ds, i) = EntryOf(W, va, cs, i)
      BY EntryPush
    <3>2. i \in 1 .. Len(V)
      BY <1>1
    <3>3. f[i] = EntryOf(W, va, cs, i) /\ h[i] = EntryOf(V, vb, ds, i)
      BY <3>2 DEF EnvOf
    <3> QED BY <3>1, <3>3
  <2> QED BY <2>1
<1>3. h[n + 1] = x
  <2>1. n + 1 \in 1 .. Len(V)
    BY <1>1
  <2> QED BY <2>1 DEF EnvOf
<1>4. IsUpTo(f, n)
  BY <1>1, EnvIsSequence
<1>5. IsUpTo(h, n + 1)
  <2> HIDE DEF V
  <2> QED BY <1>1, EnvIsSequence
<1>6. h = Append(f, x) /\ h = f \o <<x>>
  <2> HIDE DEF h, f, n
  <2>1. (\A i \in 1 .. n : At(h, i) = At(f, i)) /\ At(h, n + 1) = x
    BY <1>2, <1>3 DEF At
  <2>2. h = Append(f, x) /\ h = f \o <<x>>
    BY <1>1, <1>4, <1>5, <2>1, IsAppend
  <2> QED BY <2>2
<1> QED BY <1>6

LEMMA GlobalPush ==
  ASSUME NEW W \in Seq(Item), NEW w \in Item, NEW va, NEW vb,
         Saves(w, va, vb)
  PROVE  GlobalOf(Append(W, w), vb) = GlobalOf(W, va)
<1>1. ASSUME NEW v \in Var PROVE Bound(Append(W, w), vb, v, 0) = Bound(W, va, v, 0)
  <2>1. 0 \in 0 .. Len(W)
    OBVIOUS
  <2> QED BY <2>1, BoundAppend DEF Saves
<1> QED BY <1>1 DEF GlobalOf

LEMMA PushedItem ==
  ASSUME NEW W \in Seq(Item), NEW w \in Item, w.kind \notin {"extent", "target"},
         NEW cs \in Seq(CallKinds), NEW pos, Marks(W, cs, pos)
  PROVE  Pushed(W, cs, pos, Append(W, w), cs, pos)
<1>1. Marks(Append(W, w), cs, pos)
  BY MarksPush
<1>2. Len(cs) \in Nat
  OBVIOUS
<1>3. \A k \in Len(cs) + 1 .. Len(cs) : pos[k] = Len(W) + 1
  BY <1>2
<1> QED BY <1>1, <1>2, <1>3 DEF Pushed

LEMMA PushedCall ==
  ASSUME NEW W \in Seq(Item), NEW cs \in Seq(CallKinds), NEW call \in CallKinds, NEW pos, Marks(W, cs, pos),
         NEW w \in Item, w = IF call = "block" THEN Extent ELSE TargetItem(Len(cs) + 1)
  PROVE  Pushed(W, cs, pos, Append(W, w), Append(cs, call), [pos EXCEPT ![Len(cs) + 1] = Len(W) + 1])
<1> DEFINE n == Len(cs)
           new == [pos EXCEPT ![n + 1] = Len(W) + 1]
<1>1. n \in Nat /\ Len(Append(cs, call)) = n + 1 /\ pos \in [Nat -> Nat]
  BY Appended DEF Marks
<1>2. Marks(Append(W, w), Append(cs, call), new)
  BY MarksEnter
<1>3. \A k \in 1 .. n : new[k] = pos[k]
  BY <1>1
<1>4. \A k \in n + 1 .. n + 1 : new[k] = Len(W) + 1
  BY <1>1
<1> HIDE DEF new
<1>5. n <= n + 1
  BY <1>1
<1>6. Pushed(W, cs, pos, Append(W, w), Append(cs, call), new)
  BY <1>1, <1>2, <1>3, <1>4, <1>5 DEF Pushed
<1> QED BY <1>6 DEF new

\* The environment has the entry x more, and values own what c says.
Extends(x, c) ==
  /\ Promise!Become(EnvOf(windlist, var, calls) \o <<x>>, GlobalOf(windlist, var), c)
  /\ Promise!Become(Append(EnvOf(windlist, var, calls), x), GlobalOf(windlist, var), c)

\* An item is added.
LEMMA PushRefines ==
  ASSUME IInv, IInv', NoCycles(content)', NEW w \in Item, windlist' = Append(windlist, w), ~Binds(w, Handler),
         NEW pos, NEW new, Pushed(windlist, calls, pos, windlist', calls', new), calls' \in Seq(CallKinds),
         Saves(w, var, var'),
         NEW x, EntryOf(windlist', var', calls', Len(windlist) + 1) = x,
         NEW c, Agrees(c, refs', content')
  PROVE  Extends(x, c)
<1>1. windlist \in Seq(Item) /\ calls \in Seq(CallKinds)
  BY IInvParts
<1>2. /\ EnvOf(windlist', var', calls') = EnvOf(windlist, var, calls) \o <<x>>
      /\ EnvOf(windlist', var', calls') = Append(EnvOf(windlist, var, calls), x)
  <2>1. Pushed(windlist, calls, pos, Append(windlist, w), calls', new)
    OBVIOUS
  <2>2. EntryOf(Append(windlist, w), var', calls', Len(windlist) + 1) = x
    OBVIOUS
  <2>3. /\ EnvOf(Append(windlist, w), var', calls') = EnvOf(windlist, var, calls) \o <<x>>
        /\ EnvOf(Append(windlist, w), var', calls') = Append(EnvOf(windlist, var, calls), x)
    BY <1>1, <2>1, <2>2, EnvPush
  <2> QED BY <2>3
<1>3. GlobalOf(windlist', var') = GlobalOf(windlist, var)
  BY <1>1, GlobalPush
<1> QED BY <1>2, <1>3, BecomeIs DEF Extends

\* What Ref leaves alone.
LEMMA RefLeaves ==
  ASSUME NEW m, NEW x
  PROVE  Ref(m, x).content = m.content /\ Ref(m, x).var = m.var /\ Ref(m, x).ran = m.ran
BY DEF Ref

LEMMA MemoryIs == Memory.refs = refs /\ Memory.content = content /\ Memory.var = var /\ Memory.ran = <<>>
BY DEF Memory

\* An item is added that begins no call.
LEMMA ItemRefines ==
  ASSUME IInv, IInv', NoCycles(content)', NEW w \in Item, windlist' = Append(windlist, w), calls' = calls,
         w.kind \in {"func", "var", "unref"}, ~Binds(w, Handler), Saves(w, var, var'),
         NEW c, Agrees(c, refs', content'), NEW x, x = ItemEntry(w, var')
  PROVE  Extends(x, c)
<1> DEFINE n == Len(windlist) + 1
<1>1. windlist \in Seq(Item) /\ calls \in Seq(CallKinds)
  BY IInvParts
<1>2. PICK pos : Marks(windlist, calls, pos)
  BY IInvParts DEF Nested
<1>3. Pushed(windlist, calls, pos, windlist', calls', pos)
  BY <1>1, <1>2, PushedItem
<1>4. /\ windlist' \in Seq(Item) /\ n = Len(windlist') /\ n > 0 /\ At(windlist', n) = w
      /\ Marks(windlist', calls', pos) /\ calls' \in Seq(CallKinds)
  BY <1>1, <1>3, Appended DEF Pushed, At
<1>5. EntryOf(windlist', var', calls', n) = x
  <2> HIDE DEF n
  <2>1. windlist' \in Seq(Item) /\ n = Len(windlist') /\ n > 0 /\ At(windlist', n) = w
    BY <1>4
  <2>2. w.kind \in {"func", "var", "unref"}
    OBVIOUS
  <2>3. EntryOf(windlist', var', calls', n) = ItemEntry(w, var')
    BY ONLY <2>1, <2>2, LastPlain
  <2> QED BY <2>3
<1> QED BY <1>1, <1>3, <1>4, <1>5, PushRefines

LEMMA AddRefines ==
  ASSUME NEW entries, Promise!Become(EnvOf(windlist, var, calls) \o entries, GlobalOf(windlist, var), ContentOf(content))
  PROVE  Promise!Add(entries)
BY Views DEF Promise!Add, Promise!Become

LEMMA RetainRefines ==
  ASSUME IInv, IInv', NoCycles(content)', NEW x \in Alive, Retain(x)
  PROVE  Promise!Retain(x)
<1> DEFINE w == UnrefItem(x)
           e == [kind |-> "own", val |-> x]
<1>1. w \in Item /\ w.kind = "unref" /\ ~Binds(w, Handler) /\ \A v : ~Binds(w, v)
  BY IInvParts, ItemsAre, BindsKind
<1>2. windlist' = Append(windlist, w) /\ calls' = calls /\ caught' = None /\ over' = over
  BY <1>1, IInvParts, AddOne DEF Retain, Add, Stay, Quiet
<1>3. var' = var /\ content' = content /\ ran' = <<>>
  BY RefLeaves, MemoryIs DEF Retain, Become
<1>4. Saves(w, var, var')
  BY <1>1, <1>3 DEF Saves
<1>5. e = ItemEntry(w, var')
  BY DEF UnrefItem, ItemEntry
<1> HIDE DEF e, w
<1>6. Agrees(ContentOf(content), refs', content')
  BY <1>3 DEF Agrees
<1>7. Extends(e, ContentOf(content))
  BY <1>1, <1>2, <1>4, <1>5, <1>6, ItemRefines
<1>8. Promise!Add(<<e>>)
  BY <1>7, AddRefines DEF Extends
<1> QED BY <1>2, <1>3, <1>8 DEF Promise!Retain, Promise!Quiet, Promise!Own, e

LEMMA OnUnwindRefines ==
  ASSUME IInv, IInv', NoCycles(content)', NEW f \in Fun, OnUnwind(f)
  PROVE  Promise!OnUnwind(f)
<1> DEFINE w == FuncItem(f)
           e == [kind |-> "todo", func |-> f]
<1>1. w \in Item /\ w.kind = "func" /\ ~Binds(w, Handler) /\ \A v : ~Binds(w, v)
  BY ItemsAre, BindsKind
<1>2. windlist' = Append(windlist, w) /\ calls' = calls /\ caught' = None /\ over' = over
  BY <1>1, IInvParts, AddOne DEF OnUnwind, Add, Stay, Quiet
<1>3. var' = var /\ content' = content /\ ran' = <<>>
  BY MemoryIs DEF OnUnwind, Become
<1>4. Saves(w, var, var')
  BY <1>1, <1>3 DEF Saves
<1>5. e = ItemEntry(w, var')
  BY DEF FuncItem, ItemEntry
<1> HIDE DEF e, w
<1>6. Agrees(ContentOf(content), refs', content')
  BY <1>3 DEF Agrees
<1>7. Extends(e, ContentOf(content))
  BY <1>1, <1>2, <1>4, <1>5, <1>6, ItemRefines
<1>8. Promise!Add(<<e>>)
  BY <1>7, AddRefines DEF Extends
<1> QED BY <1>2, <1>3, <1>8 DEF Promise!OnUnwind, Promise!Quiet, Promise!Todo, e

LEMMA LetRefines ==
  ASSUME IInv, IInv', NoCycles(content)', NEW x \in Alive \union {None}, NEW v \in Var \ {Handler}, Let(v, x)
  PROVE  Promise!Let(v, x)
<1> DEFINE w == VarItem(v, var[v])
           e == [kind |-> "bind", var |-> v, val |-> x]
<1>0. var \in [Var -> Maybe] /\ v \in Var /\ v # Handler
  BY IInvParts, MemParts, MemoryFields
<1>1. /\ w \in Item /\ ItemVal(w) = var[v] /\ w.kind = "var" /\ w.var = v /\ ~Binds(w, Handler)
      /\ \A u : Binds(w, u) <=> u = v
  <2>1. var[v] \in Maybe
    BY <1>0
  <2>2. w \in Item /\ ItemVal(w) = var[v] /\ w.kind = "var" /\ w.var = v
    BY <1>0, <2>1, ItemsAre
  <2> HIDE DEF w
  <2> QED BY <1>0, <2>2 DEF Binds
<1>2. windlist' = Append(windlist, w) /\ calls' = calls /\ caught' = None /\ over' = over
  BY <1>1, IInvParts, AddOne DEF Let, Add, Stay, Quiet
<1>3. var' = [var EXCEPT ![v] = x] /\ content' = content /\ ran' = <<>>
  <2> DEFINE a == Ref(Memory, x)
  <2>1. a.content = content /\ a.var = var /\ a.ran = <<>>
    BY RefLeaves, MemoryIs
  <2>2. Become([a EXCEPT !.var[v] = x])
    BY DEF Let
  <2> HIDE DEF a
  <2> QED BY <2>1, <2>2 DEF Become
<1> HIDE DEF w
<1>4. Saves(w, var, var')
  BY <1>0, <1>1, <1>3 DEF Saves, At
<1>5. e = ItemEntry(w, var')
  <2>1. At(var', w.var) = x
    BY <1>0, <1>1, <1>3 DEF At
  <2> QED BY <1>1, <2>1 DEF ItemEntry
<1> HIDE DEF e
<1>6. Agrees(ContentOf(content), refs', content')
  BY <1>3 DEF Agrees
<1>7. Extends(e, ContentOf(content))
  BY <1>1, <1>2, <1>4, <1>5, <1>6, ItemRefines
<1>8. Promise!Add(<<e>>)
  BY <1>7, AddRefines DEF Extends
<1> QED BY <1>2, <1>3, <1>8 DEF Promise!Let, Promise!Quiet, Promise!Bind, e

LEMMA NewRefines ==
  ASSUME IInv, IInv', NoCycles(content)', NEW x \in Val, NEW y \in Alive \union {None}, New(x, y)
  PROVE  Promise!New(x, y)
<1> DEFINE w == UnrefItem(x)
           e == [kind |-> "own", val |-> x]
           c == [ContentOf(content) EXCEPT ![x] = y]
<1>1. w \in Item /\ w.kind = "unref" /\ ~Binds(w, Handler) /\ \A v : ~Binds(w, v)
  BY IInvParts, ItemsAre, BindsKind DEF Maybe
<1>2. windlist' = Append(windlist, w) /\ calls' = calls /\ caught' = None /\ over' = over
  BY <1>1, IInvParts, AddOne DEF New, Add, Stay, Quiet
<1>3. var' = var /\ content' = [content EXCEPT ![x] = y] /\ ran' = <<>>
  <2> DEFINE a == Alloc(Memory, x, y)
  <2>1. a.content = [content EXCEPT ![x] = y] /\ a.var = var /\ a.ran = <<>>
    BY MemoryIs DEF Alloc
  <2>2. Become(Ref(a, y))
    BY DEF New
  <2> HIDE DEF a
  <2> QED BY <2>1, <2>2, RefLeaves DEF Become
<1>4. Saves(w, var, var')
  BY <1>1, <1>3 DEF Saves
<1>5. e = ItemEntry(w, var')
  BY DEF UnrefItem, ItemEntry
<1>6. content \in [Val -> Maybe \union Target] /\ y \in Maybe /\ None \notin Val
  BY IInvParts, MemParts, MemoryFields, Constants
<1>7. Agrees(c, refs', content')
  <2>1. \A z \in Val : At(c, z) = At(ContentOf(content'), z)
    BY <1>3, <1>6 DEF ContentOf, At, Maybe
  <2> QED BY <2>1 DEF Agrees
<1> HIDE DEF e, w
<1>8. Extends(e, c)
  <2> HIDE DEF c
  <2> QED BY <1>1, <1>2, <1>4, <1>5, <1>7, ItemRefines
<1>9. x \notin Alive /\ y \in Alive \union {None}
  BY DEF New
<1>10. Promise!Become(Append([i \in 1 .. Len(windlist) |-> Entry(i)], e), [v \in Var |-> BoundUpTo(v, 0)],
                      [[z \in Val |-> IF content[z] \in Val THEN content[z] ELSE None] EXCEPT ![x] = y])
  BY <1>8, Views DEF Extends, Promise!Become
<1> QED BY <1>2, <1>3, <1>9, <1>10 DEF Promise!New, Promise!Quiet, Promise!Own, Promise!Become, e

\* The item of a call that begins.
LEMMA CallRefines ==
  ASSUME IInv, IInv', NoCycles(content)', NEW call \in CallKinds, calls' = Append(calls, call),
         NEW w \in Item, w = IF call = "block" THEN Extent ELSE TargetItem(Len(calls) + 1),
         windlist' = Append(windlist, w), var' = var, content' = content,
         NEW x, x = IF call = "block" THEN Extent ELSE [kind |-> "catch", condition |-> FALSE]
  PROVE  Extends(x, ContentOf(content))
<1> DEFINE n == Len(windlist) + 1
           k == Len(calls) + 1
<1>1. windlist \in Seq(Item) /\ calls \in Seq(CallKinds) /\ Len(calls) \in Nat
  BY IInvParts
<1>2. PICK pos : Marks(windlist, calls, pos)
  BY IInvParts DEF Nested
<1> DEFINE new == [pos EXCEPT ![k] = n]
<1>3. Pushed(windlist, calls, pos, windlist', calls', new)
  BY <1>1, <1>2, PushedCall
<1>4. /\ windlist' \in Seq(Item) /\ n = Len(windlist') /\ n > 0 /\ At(windlist', n) = w
      /\ Marks(windlist', calls', new) /\ calls' \in Seq(CallKinds) /\ k \in 1 .. Len(calls')
  BY <1>1, <1>3, Appended DEF Pushed, At
<1>5. At(new, k) = n
  BY <1>1, <1>2 DEF Marks, At
<1>6. ~Binds(w, Handler) /\ \A v : ~Binds(w, v)
  <2>1. w.kind # "var"
    BY EntryKinds
  <2> QED BY <2>1, BindsKind
<1>7. Saves(w, var, var')
  BY <1>6 DEF Saves
<1>8. Agrees(ContentOf(content), refs', content')
  BY DEF Agrees
<1> HIDE DEF new, n, k
<1>9. EntryOf(windlist', var', calls', n) = x
  <2>1. CASE call = "block"
    <3>1. At(windlist', n) = Extent
      BY <1>4, <2>1
    <3>2. EntryOf(windlist', var', calls', n) = Extent
      BY <3>1, LastExtent
    <3> QED BY <2>1, <3>2
  <2>2. CASE call # "block"
    <3>1. w.kind = "target"
      BY <2>2, EntryKinds
    <3>2. LastIs(windlist', n, calls', new)
      BY <1>4 DEF LastIs
    <3>3. EntryOf(windlist', var', calls', n) = [kind |-> "catch", condition |-> FALSE]
      BY <1>4, <1>5, <3>1, <3>2, LastCatch
    <3> QED BY <2>2, <3>3
  <2> QED BY <2>1, <2>2
<1> QED BY <1>1, <1>3, <1>4, <1>6, <1>7, <1>8, <1>9, PushRefines DEF n

LEMMA BeginRefines ==
  ASSUME IInv, IInv', NoCycles(content)', Begin
  PROVE  Promise!Begin
<1>1. calls' = Append(calls, "block") /\ caught' = None /\ over' = over
  BY DEF Begin, Enter, Quiet
<1>2. Extent \in Item /\ windlist' = Append(windlist, Extent)
  <2>1. Extent \in Item
    BY DEF Extent, Item
  <2> QED BY <2>1, AddOne, IInvParts DEF Begin, Add
<1>3. var' = var /\ content' = content /\ ran' = <<>>
  BY MemoryIs DEF Begin, Become
<1>4. Extends(Extent, ContentOf(content))
  BY <1>1, <1>2, <1>3, CallRefines DEF CallKinds
<1>5. Promise!Add(<<Extent>>)
  BY <1>4, AddRefines DEF Extends
<1> QED BY <1>1, <1>3, <1>5 DEF Promise!Begin, Promise!Quiet, Promise!Extent, Extent

LEMMA CatchRefines ==
  ASSUME IInv, IInv', NoCycles(content)', Catch
  PROVE  Promise!Catch
<1> DEFINE w == TargetItem(Len(calls) + 1)
           e == [kind |-> "catch", condition |-> FALSE]
<1>1. /\ calls' = Append(calls, "catch") /\ Len(calls') = Len(calls) + 1 /\ Len(calls) < MaxCalls
      /\ caught' = None /\ over' = over
  BY IInvParts DEF Catch, Enter, CallKinds, Quiet
<1>2. w \in Item /\ windlist' = Append(windlist, w)
  <2>1. Len(calls) + 1 \in Target
    BY <1>1, IInvParts, ExtentsAssumption DEF Target
  <2>2. w \in Item
    BY <2>1 DEF TargetItem, TargetItems, Item, Maybe
  <2>3. windlist' = windlist \o <<w>>
    BY <1>1 DEF Catch, Add
  <2> QED BY <2>2, <2>3, AddOne, IInvParts
<1>3. var' = var /\ content' = content /\ ran' = <<>>
  BY MemoryIs DEF Catch, Become
<1>4. Extends(e, ContentOf(content))
  BY <1>1, <1>2, <1>3, CallRefines DEF CallKinds
<1>5. Promise!Add(<<e>>)
  BY <1>4, AddRefines DEF Extends
<1> QED BY <1>1, <1>3, <1>5 DEF Promise!Catch, Promise!Quiet, Promise!CatchMark

\* An item of W is added to it, and V, vb and ds are what that leads to.
Grows(W, va, cs, w, V, vb, ds) ==
  /\ W \in Seq(Item) /\ w \in Item /\ V = Append(W, w) /\ cs \in Seq(CallKinds) /\ ds \in Seq(CallKinds)
  /\ (\E pos, new : Pushed(W, cs, pos, V, ds, new)) /\ Saves(w, va, vb)

LEMMA EntryGrows ==
  ASSUME NEW W, NEW va, NEW cs, NEW w, NEW V, NEW vb, NEW ds, Grows(W, va, cs, w, V, vb, ds),
         NEW i \in 1 .. Len(W), Binds(w, Handler) => i # Len(W) - 1
  PROVE  EntryOf(V, vb, ds, i) = EntryOf(W, va, cs, i)
<1>1. /\ W \in Seq(Item) /\ w \in Item /\ V = Append(W, w) /\ cs \in Seq(CallKinds) /\ ds \in Seq(CallKinds)
      /\ Saves(w, va, vb)
  BY DEF Grows
<1>2. PICK pos, new : Pushed(W, cs, pos, V, ds, new)
  BY DEF Grows
<1>3. EntryOf(Append(W, w), vb, ds, i) = EntryOf(W, va, cs, i)
  BY <1>1, <1>2, EntryPush
<1> QED BY <1>1, <1>3

LEMMA GlobalGrows ==
  ASSUME NEW W, NEW va, NEW cs, NEW w, NEW V, NEW vb, NEW ds, Grows(W, va, cs, w, V, vb, ds)
  PROVE  GlobalOf(V, vb) = GlobalOf(W, va)
<1>1. W \in Seq(Item) /\ w \in Item /\ V = Append(W, w) /\ Saves(w, va, vb)
  BY DEF Grows
<1>2. GlobalOf(Append(W, w), vb) = GlobalOf(W, va)
  BY <1>1, GlobalPush
<1> QED BY <1>1, <1>2

\* h is f with three more values.
HasThree(h, f, n, a, b, c) ==
  /\ IsUpTo(f, n) /\ IsUpTo(h, n + 3) /\ \A i \in 1 .. n : At(h, i) = At(f, i)
  /\ At(h, n + 1) = a /\ At(h, n + 2) = b /\ At(h, n + 3) = c

LEMMA IsConcat3 ==
  ASSUME NEW n \in Nat, NEW f, NEW a, NEW b, NEW c, NEW h, HasThree(h, f, n, a, b, c)
  PROVE  h = f \o <<a, b, c>>
<1>0. /\ IsUpTo(f, n) /\ IsUpTo(h, n + 3) /\ \A i \in 1 .. n : At(h, i) = At(f, i)
      /\ At(h, n + 1) = a /\ At(h, n + 2) = b /\ At(h, n + 3) = c
  BY DEF HasThree
<1> DEFINE S == {f[i] : i \in 1 .. n} \union {a, b, c}
           p == Append(f, a)
           q == Append(p, b)
           u == Append(q, c)
<1>1. f \in Seq(S) /\ Len(f) = n /\ a \in S /\ b \in S /\ c \in S
  <2>1. (\A i \in 1 .. n : f[i] \in S) /\ a \in S /\ b \in S /\ c \in S
    OBVIOUS
  <2> HIDE DEF S
  <2> QED BY <1>0, <2>1, IsSequence
<1> HIDE DEF S
<1>2. p \in Seq(S) /\ Len(p) = n + 1 /\ p[n + 1] = a /\ \A i \in 1 .. n : p[i] = f[i]
  BY <1>1, Appended
<1>3. q \in Seq(S) /\ Len(q) = n + 2 /\ q[n + 2] = b /\ \A i \in 1 .. n + 1 : q[i] = p[i]
  <2> HIDE DEF p
  <2>1. n + 1 + 1 = n + 2
    OBVIOUS
  <2> QED BY <1>1, <1>2, <2>1, Appended
<1>4. u \in Seq(S) /\ Len(u) = n + 3 /\ u[n + 3] = c /\ \A i \in 1 .. n + 2 : u[i] = q[i]
  <2> HIDE DEF q
  <2>1. n + 2 + 1 = n + 3
    OBVIOUS
  <2> QED BY <1>1, <1>3, <2>1, Appended
<1>5. f \o <<a, b, c>> = u
  BY <1>1, AddThree
<1> HIDE DEF p, q, u
<1>6. u = [i \in 1 .. n + 3 |-> u[i]]
  <2>1. u = [i \in 1 .. Len(u) |-> u[i]]
    BY <1>4
  <2> QED BY <1>4, <2>1
<1>7. ASSUME NEW i \in 1 .. n + 3 PROVE h[i] = u[i]
  <2>1. CASE i = n + 3
    BY <1>0, <1>4, <2>1 DEF At
  <2>2. CASE i = n + 2
    <3>1. n + 2 \in 1 .. n + 2
      OBVIOUS
    <3> QED BY <1>0, <1>3, <1>4, <2>2, <3>1 DEF At
  <2>3. CASE i = n + 1
    <3>1. n + 1 \in 1 .. n + 2 /\ n + 1 \in 1 .. n + 1
      OBVIOUS
    <3> QED BY <1>0, <1>2, <1>3, <1>4, <2>3, <3>1 DEF At
  <2>4. CASE i \in 1 .. n
    <3>1. i \in 1 .. n + 2 /\ i \in 1 .. n + 1
      BY <2>4
    <3> QED BY <1>0, <1>2, <1>3, <1>4, <2>4, <3>1 DEF At
  <2>5. i = n + 3 \/ i = n + 2 \/ i = n + 1 \/ i \in 1 .. n
    OBVIOUS
  <2> QED BY <2>1, <2>2, <2>3, <2>4, <2>5
<1>8. h = u
  BY <1>0, <1>6, <1>7 DEF IsUpTo
<1> QED BY <1>5, <1>8

Appends(W, w, V) == V = Append(W, w)

\* dyn_catch_condition, in the environment.
ConditionEntries(h) ==
  <<[kind |-> "catch", condition |-> TRUE], [kind |-> "own", val |-> h], [kind |-> "bind", var |-> Handler, val |-> h]>>

ConditionAdded(W, va, cs, h, w1, w2, w3, V1, V2, V3, vb, ds) ==
  /\ h \in Val /\ W \in Seq(Item) /\ cs \in Seq(CallKinds) /\ (\E pos : Marks(W, cs, pos))
  /\ At(vb, Handler) = h /\ (\A v \in Var \ {Handler} : At(vb, v) = At(va, v))
  /\ At(va, Handler) \in Maybe /\ Len(cs) + 1 \in Target
  /\ w1 = TargetItem(Len(cs) + 1) /\ w2 = UnrefItem(h) /\ w3 = VarItem(Handler, At(va, Handler))
  /\ Appends(W, w1, V1) /\ Appends(V1, w2, V2) /\ Appends(V2, w3, V3) /\ ds = Append(cs, "catch")

LEMMA ConditionEnv ==
  ASSUME NEW W, NEW cs, NEW va, NEW vb, NEW h, NEW w1, NEW w2, NEW w3, NEW V1, NEW V2, NEW V3, NEW ds,
         ConditionAdded(W, va, cs, h, w1, w2, w3, V1, V2, V3, vb, ds)
  PROVE  /\ EnvOf(V3, vb, ds) = EnvOf(W, va, cs) \o ConditionEntries(h)
         /\ GlobalOf(V3, vb) = GlobalOf(W, va)
<1>a. PICK pos : Marks(W, cs, pos)
  BY DEF ConditionAdded
<1>0. /\ h \in Val /\ W \in Seq(Item) /\ cs \in Seq(CallKinds)
      /\ At(vb, Handler) = h /\ (\A v \in Var \ {Handler} : At(vb, v) = At(va, v))
      /\ At(va, Handler) \in Maybe /\ Len(cs) + 1 \in Target
      /\ w1 = TargetItem(Len(cs) + 1) /\ w2 = UnrefItem(h) /\ w3 = VarItem(Handler, At(va, Handler))
      /\ Appends(W, w1, V1) /\ Appends(V1, w2, V2) /\ Appends(V2, w3, V3) /\ ds = Append(cs, "catch")
  BY DEF ConditionAdded
<1> USE <1>a, <1>0
<1> DEFINE n == Len(W)
           t == Len(cs) + 1
           new == [pos EXCEPT ![t] = n + 1]
<1>1. /\ w1 \in Item /\ w1.kind = "target"
      /\ w2 \in Item /\ w2.kind = "unref" /\ w2.val = h
      /\ w3 \in Item /\ ItemVal(w3) = At(va, Handler) /\ w3.kind = "var" /\ w3.var = Handler
  <2>1. w1 \in TargetItems
    BY DEF TargetItem, TargetItems, Maybe
  <2>2. w1 \in Item /\ w1.kind = "target"
    BY <2>1, EntryKinds DEF Item
  <2>3. h \in Maybe
    BY DEF Maybe
  <2>4. w2 \in Item /\ ItemVal(w2) = h /\ w2.kind = "unref" /\ w2.val = h
    BY <2>3, ItemsAre DEF UnrefItem
  <2> QED BY <2>2, <2>4, ItemsAre, HandlerIsVar
<1>2. \A v : ~Binds(w1, v) /\ ~Binds(w2, v) /\ (Binds(w3, v) <=> v = Handler)
  BY <1>1 DEF Binds
<1>3. /\ V1 \in Seq(Item) /\ Len(V1) = n + 1 /\ V1[n + 1] = w1
      /\ V2 \in Seq(Item) /\ Len(V2) = n + 2 /\ V2[n + 2] = w2 /\ \A i \in 1 .. n + 1 : V2[i] = V1[i]
      /\ V3 \in Seq(Item) /\ Len(V3) = n + 3 /\ V3[n + 3] = w3 /\ \A i \in 1 .. n + 2 : V3[i] = V2[i]
      /\ n \in Nat
  <2>1. V1 \in Seq(Item) /\ Len(V1) = n + 1 /\ V1[n + 1] = w1 /\ n \in Nat
    BY <1>1, Appended DEF Appends
  <2> HIDE DEF n
  <2>2. n + 1 + 1 = n + 2 /\ n + 2 + 1 = n + 3
    BY <2>1
  <2>3. V2 \in Seq(Item) /\ Len(V2) = n + 2 /\ V2[n + 2] = w2 /\ \A i \in 1 .. n + 1 : V2[i] = V1[i]
    BY <1>1, <2>1, <2>2, Appended DEF Appends
  <2>4. V3 \in Seq(Item) /\ Len(V3) = n + 3 /\ V3[n + 3] = w3 /\ \A i \in 1 .. n + 2 : V3[i] = V2[i]
    BY <1>1, <2>2, <2>3, Appended DEF Appends
  <2> QED BY <2>1, <2>3, <2>4
<1>4. ds \in Seq(CallKinds) /\ Len(ds) = t /\ t \in 1 .. Len(ds)
  BY Appended DEF CallKinds
<1>5. Pushed(W, cs, pos, V1, ds, new)
  BY <1>1, PushedCall DEF CallKinds, Appends
<1>6. Marks(V1, ds, new) /\ At(new, t) = n + 1
  <2>1. t \in Nat /\ pos \in [Nat -> Nat]
    <3>1. Len(cs) + 1 \in Nat
      OBVIOUS
    <3>2. pos \in [Nat -> Nat]
      BY DEF Marks
    <3> QED BY <3>1, <3>2
  <2>2. At(new, t) = n + 1
    BY <2>1 DEF At
  <2> HIDE DEF new
  <2> QED BY <1>5, <2>2 DEF Pushed
<1> HIDE DEF new
<1>7. Pushed(V1, ds, new, V2, ds, new)
  BY <1>1, <1>3, <1>4, <1>6, PushedItem DEF Appends
<1>8. Marks(V2, ds, new)
  BY <1>7 DEF Pushed
<1>9. Pushed(V2, ds, new, V3, ds, new)
  BY <1>1, <1>3, <1>4, <1>8, PushedItem DEF Appends
<1>10. Marks(V3, ds, new)
  BY <1>9 DEF Pushed
<1>11. Saves(w1, va, va) /\ Saves(w2, va, va)
  BY <1>2 DEF Saves
<1>12. Saves(w3, va, vb)
  BY <1>1, <1>2 DEF Saves
<1> DEFINE grow1 == Grows(W, va, cs, w1, V1, va, ds)
           grow2 == Grows(V1, va, ds, w2, V2, va, ds)
           grow3 == Grows(V2, va, ds, w3, V3, vb, ds)
<1>19. grow1 /\ grow2 /\ grow3
  BY <1>1, <1>3, <1>4, <1>5, <1>7, <1>9, <1>11, <1>12 DEF Grows, Appends
<1> HIDE DEF grow1, grow2, grow3
<1>13. GlobalOf(V3, vb) = GlobalOf(W, va)
  <2>1. GlobalOf(V1, va) = GlobalOf(W, va)
    BY <1>19, GlobalGrows DEF grow1
  <2>2. GlobalOf(V2, va) = GlobalOf(V1, va)
    BY <1>19, GlobalGrows DEF grow2
  <2>3. GlobalOf(V3, vb) = GlobalOf(V2, va)
    BY <1>19, GlobalGrows DEF grow3
  <2> QED BY <2>1, <2>2, <2>3
<1>14. ASSUME NEW i \in 1 .. n PROVE EntryOf(V3, vb, ds, i) = EntryOf(W, va, cs, i)
  <2>1. i \in 1 .. Len(W) /\ i \in 1 .. Len(V1) /\ i \in 1 .. Len(V2) /\ i # Len(V2) - 1
    BY <1>3
  <2>2. EntryOf(V1, va, ds, i) = EntryOf(W, va, cs, i)
    BY <1>2, <1>19, <2>1, EntryGrows DEF grow1
  <2>3. EntryOf(V2, va, ds, i) = EntryOf(V1, va, ds, i)
    BY <1>2, <1>19, <2>1, EntryGrows DEF grow2
  <2>4. EntryOf(V3, vb, ds, i) = EntryOf(V2, va, ds, i)
    BY <1>19, <2>1, EntryGrows DEF grow3
  <2> QED BY <2>2, <2>3, <2>4
<1>15. EntryOf(V3, vb, ds, n + 1) = [kind |-> "catch", condition |-> TRUE]
  <2>1. n + 1 \in 1 .. Len(V3) /\ n + 1 \in 1 .. n + 1 /\ n + 1 \in 1 .. n + 2 /\ n + 1 + 2 = n + 3
    BY <1>3
  <2>2. V3[n + 1].kind = "target"
    BY <1>1, <1>3, <2>1
  <2>3. ConditionAt(V3, n + 1) = TRUE
    BY <1>1, <1>3, <2>1 DEF ConditionAt
  <2>4. \E k \in 1 .. Len(ds) : new[k] = n + 1
    BY <1>4, <1>6 DEF At
  <2>5. ActiveAt(V3, ds, n + 1)
    <3> DEFINE j == n + 1
    <3>1. j \in 1 .. Len(V3) /\ V3[j].kind = "target" /\ \E k \in 1 .. Len(ds) : new[k] = j
      BY <2>1, <2>2, <2>4
    <3> HIDE DEF j
    <3>2. ActiveAt(V3, ds, j)
      BY <1>3, <1>4, <1>10, <3>1, ActiveIs
    <3> QED BY <3>2 DEF j
  <2> QED BY <2>2, <2>3, <2>5 DEF EntryOf
<1>16. EntryOf(V3, vb, ds, n + 2) = [kind |-> "own", val |-> h]
  <2>1. n + 2 \in 1 .. n + 2
    BY <1>3
  <2>2. V3[n + 2] = w2
    BY <1>3, <2>1
  <2> QED BY <1>1, <2>2 DEF EntryOf
<1>17. EntryOf(V3, vb, ds, n + 3) = [kind |-> "bind", var |-> Handler, val |-> h]
  <2>1. Bound(V3, vb, Handler, n + 3) = h
    <3>1. Len(V3) = n + 3 /\ Len(V3) \in Nat
      BY <1>3
    <3>2. Bound(V3, vb, Handler, Len(V3)) = At(vb, Handler)
      BY <3>1, BoundByAll
    <3> QED BY <3>1, <3>2
  <2> QED BY <1>1, <1>3, <2>1 DEF EntryOf
<1>18. EnvOf(V3, vb, ds) = EnvOf(W, va, cs) \o
         <<[kind |-> "catch", condition |-> TRUE], [kind |-> "own", val |-> h], [kind |-> "bind", var |-> Handler, val |-> h]>>
  <2> DEFINE f == EnvOf(W, va, cs)
             e == EnvOf(V3, vb, ds)
             a == [kind |-> "catch", condition |-> TRUE]
             b == [kind |-> "own", val |-> h]
             c == [kind |-> "bind", var |-> Handler, val |-> h]
  <2>1. IsUpTo(f, n) /\ IsUpTo(e, n + 3)
    <3>1. Len(W) \in Nat /\ Len(V3) \in Nat /\ Len(V3) = n + 3
      BY <1>3
    <3>2. IsUpTo(f, Len(W))
      BY <3>1, EnvIsSequence
    <3>3. IsUpTo(e, Len(V3))
      BY <3>1, EnvIsSequence
    <3> HIDE DEF f, e
    <3> QED BY <3>1, <3>2, <3>3
  <2>2. (\A i \in 1 .. n : i \in 1 .. n + 3) /\ n + 1 \in 1 .. n + 3 /\ n + 2 \in 1 .. n + 3 /\ n + 3 \in 1 .. n + 3
    BY <1>3
  <2>3. \A i \in 1 .. n + 3 : At(e, i) = EntryOf(V3, vb, ds, i)
    BY <1>3 DEF EnvOf, At
  <2>4. \A i \in 1 .. n : At(f, i) = EntryOf(W, va, cs, i)
    BY DEF EnvOf, At
  <2> HIDE DEF f, e, a, b, c
  <2>5. \A i \in 1 .. n : At(e, i) = At(f, i)
    BY <1>14, <2>2, <2>3, <2>4
  <2>6. At(e, n + 1) = a /\ At(e, n + 2) = b /\ At(e, n + 3) = c
    BY <1>15, <1>16, <1>17, <2>2, <2>3 DEF a, b, c
  <2> HIDE DEF n
  <2>7. HasThree(e, f, n, a, b, c)
    BY <2>1, <2>5, <2>6 DEF HasThree
  <2>8. e = f \o <<a, b, c>>
    BY <1>3, <2>7, IsConcat3
  <2> QED BY <2>8 DEF e, f, a, b, c
<1> QED BY <1>13, <1>18 DEF ConditionEntries

LEMMA CatchConditionRefines ==
  ASSUME IInv, IInv', NoCycles(content)', NEW h \in Val, CatchCondition(h)
  PROVE  Promise!CatchCondition(h)
<1> DEFINE t == Len(calls) + 1
           a == Alloc(Memory, h, t)
           old == At(var, Handler)
           w1 == TargetItem(t)
           w2 == UnrefItem(h)
           w3 == VarItem(Handler, old)
           V1 == Append(windlist, w1)
           V2 == Append(V1, w2)
           V3 == Append(V2, w3)
<1>1. /\ windlist \in Seq(Item) /\ calls \in Seq(CallKinds) /\ Len(calls) \in Nat
      /\ var \in [Var -> Maybe] /\ content \in [Val -> Maybe \union Target]
  BY IInvParts, MemParts, MemoryFields
<1>2. /\ calls' = Append(calls, "catch") /\ Len(calls') = t /\ t \in Target /\ t \notin Val
      /\ caught' = None /\ over' = over /\ h \notin Alive
  <2>1. calls' = Append(calls, "catch") /\ Len(calls) < MaxCalls /\ caught' = None /\ over' = over /\ h \notin Alive
    BY DEF CatchCondition, Enter, Quiet
  <2>2. Len(calls') = t
    BY <1>1, <2>1
  <2>3. t \in Target
    BY <1>1, <2>1, ExtentsAssumption DEF Target
  <2> QED BY <2>1, <2>2, <2>3, Constants
<1>3. old \in Maybe /\ w1 \in Item /\ w2 \in Item /\ w3 \in Item
  <2>1. old \in Maybe /\ h \in Maybe
    BY <1>1, HandlerIsVar DEF At, Maybe
  <2>2. w1 \in TargetItems
    BY <1>2 DEF TargetItem, TargetItems, Maybe
  <2> QED BY <2>1, <2>2, ItemsAre, HandlerIsVar DEF Item
<1>4. windlist' = V3
  <2>1. windlist' = windlist \o <<w1, w2, w3>>
    BY <1>2 DEF CatchCondition, Add, At
  <2> HIDE DEF w1, w2, w3
  <2>2. windlist \o <<w1, w2, w3>> = Append(Append(Append(windlist, w1), w2), w3)
    BY <1>1, <1>3, AddThree
  <2> QED BY <2>1, <2>2
<1>5. /\ var' = [var EXCEPT ![Handler] = h]
      /\ content' = [content EXCEPT ![h] = t] /\ ran' = <<>>
  <2>1. Become([Ref(Alloc(Memory, h, t), h) EXCEPT !.var[Handler] = h])
    BY <1>2, Zenon DEF CatchCondition
  <2>2. /\ a.content = [content EXCEPT ![h] = t] /\ a.var = var /\ a.ran = <<>>
        /\ DOMAIN a = {"refs", "content", "var", "ran"}
    BY MemoryIs DEF Alloc, Memory
  <2> HIDE DEF a, t
  <2>3. /\ Ref(a, h).content = a.content /\ Ref(a, h).var = a.var /\ Ref(a, h).ran = a.ran
        /\ DOMAIN Ref(a, h) = {"refs", "content", "var", "ran"}
    BY <2>2, RefLeaves DEF Ref
  <2> DEFINE b == Ref(a, h)
             r == [b EXCEPT !.var[Handler] = h]
  <2>4. Become(r)
    BY <2>1 DEF a
  <2>5. /\ b.content = a.content /\ b.var = a.var /\ b.ran = a.ran
        /\ DOMAIN b = {"refs", "content", "var", "ran"}
    BY <2>3
  <2> HIDE DEF b
  <2>6. r.content = b.content /\ r.ran = b.ran /\ r.var = [b.var EXCEPT ![Handler] = h]
    BY <2>5
  <2> QED BY <2>2, <2>4, <2>5, <2>6 DEF Become
<1>6. Agrees(ContentOf(content), refs', content')
  <2> SUFFICES ASSUME NEW y \in Val PROVE At(ContentOf(content), y) = At(ContentOf(content'), y)
    BY DEF Agrees
  <2>1. CASE y = h
    <3>1. content[h] = None
      BY <1>2, FreeIs DEF FreeIsCleared, Alive
    <3> QED BY <1>1, <1>2, <1>5, <2>1, <3>1, Constants DEF ContentOf, At
  <2>2. CASE y # h
    BY <1>1, <1>5, <2>2 DEF ContentOf, At
  <2> QED BY <2>1, <2>2
<1> DEFINE entries == ConditionEntries(h)
<1>7. /\ EnvOf(windlist', var', calls') = EnvOf(windlist, var, calls) \o entries
      /\ GlobalOf(windlist', var') = GlobalOf(windlist, var)
  <2>1. PICK pos : Marks(windlist, calls, pos)
    BY IInvParts DEF Nested
  <2>2. At(var', Handler) = h /\ \A v \in Var \ {Handler} : At(var', v) = At(var, v)
    BY <1>1, <1>5, HandlerIsVar DEF At
  <2>3. Appends(windlist, w1, V1) /\ Appends(V1, w2, V2) /\ Appends(V2, w3, V3)
    BY DEF Appends
  <2> HIDE DEF V1, V2, V3
  <2>4. w1 = TargetItem(Len(calls) + 1) /\ w2 = UnrefItem(h) /\ w3 = VarItem(Handler, At(var, Handler))
    OBVIOUS
  <2>5. At(var, Handler) \in Maybe /\ Len(calls) + 1 \in Target
    BY <1>2, <1>3
  <2> HIDE DEF w1, w2, w3, old, t
  <2>7. ConditionAdded(windlist, var, calls, h, w1, w2, w3, V1, V2, V3, var', calls')
    BY <1>1, <1>2, <2>1, <2>2, <2>3, <2>4, <2>5 DEF ConditionAdded
  <2>6. /\ EnvOf(V3, var', calls') = EnvOf(windlist, var, calls) \o entries
        /\ GlobalOf(V3, var') = GlobalOf(windlist, var)
    BY ONLY <2>7, ConditionEnv
  <2> QED BY <1>4, <2>6
<1> HIDE DEF entries
<1>8. Promise!Become(EnvOf(windlist, var, calls) \o entries, GlobalOf(windlist, var), ContentOf(content))
  <2> DEFINE e == EnvOf(windlist, var, calls) \o entries
             g == GlobalOf(windlist, var)
  <2>1. ASSUME NEW c, Agrees(c, refs', content') PROVE Promise!Become(e, g, c)
    BY <1>7, <2>1, BecomeIs
  <2> QED BY <1>6, <2>1 DEF Promise!Become
<1>9. Promise!Add(entries)
  BY <1>8, AddRefines
<1>10. Promise!Add(<<Promise!CatchMark(TRUE), Promise!Own(h), Promise!Bind(Handler, h)>>)
  BY <1>9 DEF entries, ConditionEntries, Promise!CatchMark, Promise!Own, Promise!Bind
<1> QED BY <1>2, <1>5, <1>10 DEF Promise!CatchCondition, Promise!Quiet

-----------------------------------------------------------------------------
(***************************************************************************)
(* What is left when calls end                                             *)
(***************************************************************************)
LEMMA PrefixIs ==
  ASSUME NEW N \in Nat, NEW n \in 0 .. N, NEW f, IsUpTo(f, N), NEW h, IsUpTo(h, n), \A i \in 1 .. n : At(h, i) = At(f, i)
  PROVE  h = SubSeq(f, 1, n)
<1> DEFINE S == {f[i] : i \in 1 .. N}
           u == SubSeq(f, 1, n)
<1>1. f \in Seq(S) /\ Len(f) = N
  <2>1. \A i \in 1 .. N : f[i] \in S
    OBVIOUS
  <2> HIDE DEF S
  <2> QED BY <2>1, IsSequence
<1> HIDE DEF S
<1>2. u \in Seq(S) /\ Len(u) = n /\ \A i \in 1 .. n : u[i] = f[i]
  BY <1>1, Prefix
<1> HIDE DEF u
<1>3. u = [i \in 1 .. n |-> u[i]]
  <2>1. u = [i \in 1 .. Len(u) |-> u[i]]
    BY <1>2
  <2> QED BY <1>2, <2>1
<1>4. \A i \in 1 .. n : h[i] = u[i]
  BY <1>2 DEF At
<1>5. h = u
  BY <1>3, <1>4 DEF IsUpTo
<1> QED BY <1>5 DEF u

\* The calls cs from the t-th on end: V, vb and ds are what is left.
Dropped(W, va, cs, pos, t, V, vb, ds) ==
  /\ W \in Seq(Item) /\ cs \in Seq(CallKinds) /\ Marks(W, cs, pos) /\ t \in 1 .. Len(cs) /\ ConditionItems(W)
  /\ V \in Seq(Item) /\ Len(V) <= Len(W) /\ LeftAt(At(pos, t), V, W, cs, t)
  /\ ds \in Seq(CallKinds) /\ Len(ds) = t - 1 /\ \A k \in 1 .. t - 1 : ds[k] = cs[k]
  /\ \A v \in Var : At(vb, v) = Bound(W, va, v, Len(V))

LEMMA DroppedEntries ==
  ASSUME NEW W, NEW va, NEW cs, NEW pos, NEW t, NEW V, NEW vb, NEW ds, Dropped(W, va, cs, pos, t, V, vb, ds)
  PROVE  /\ DroppedAt(At(pos, t), V, W, cs, pos, ds, t)
         /\ \A i \in 1 .. At(pos, t) - 1 : EntryOf(V, vb, ds, i) = EntryOf(W, va, cs, i)
         /\ GlobalOf(V, vb) = GlobalOf(W, va)
<1>0. /\ W \in Seq(Item) /\ cs \in Seq(CallKinds) /\ Marks(W, cs, pos) /\ t \in 1 .. Len(cs) /\ ConditionItems(W)
      /\ V \in Seq(Item) /\ Len(V) <= Len(W) /\ LeftAt(At(pos, t), V, W, cs, t)
      /\ ds \in Seq(CallKinds) /\ Len(ds) = t - 1 /\ \A k \in 1 .. t - 1 : ds[k] = cs[k]
      /\ \A v \in Var : At(vb, v) = Bound(W, va, v, Len(V))
  BY DEF Dropped
<1>1. DroppedAt(At(pos, t), V, W, cs, pos, ds, t)
  BY <1>0, DropMarks
<1>2. \A i \in 1 .. At(pos, t) - 1 : EntryOf(V, vb, ds, i) = EntryOf(W, va, cs, i)
  BY <1>0, EntryDrop
<1>3. ASSUME NEW v \in Var PROVE Bound(V, vb, v, 0) = Bound(W, va, v, 0)
  <2>1. /\ \A j \in 1 .. Len(V) :
             V[j] = W[j] \/ (V[j].kind = "target" /\ W[j].kind = "target" /\ V[j].target = W[j].target)
        /\ Len(W) \in Nat /\ Len(V) \in Nat
    BY <1>1 DEF DroppedAt
  <2>2. /\ \A j \in 1 .. Len(V) : Binds(V[j], v) <=> Binds(W[j], v)
        /\ \A j \in 1 .. Len(V) : Binds(V[j], v) => V[j].oldval = W[j].oldval
    BY <2>1 DEF Binds
  <2>3. At(vb, v) = Bound(W, va, v, Len(V)) /\ 0 \in 0 .. Len(V)
    BY <1>0, <2>1
  <2> QED BY <1>0, <2>1, <2>2, <2>3, BoundPrefix
<1>4. GlobalOf(V, vb) = GlobalOf(W, va)
  BY <1>3 DEF GlobalOf
<1> QED BY <1>1, <1>2, <1>4

LEMMA DropEnv ==
  ASSUME NEW W, NEW va, NEW cs, NEW pos, NEW t, NEW V, NEW vb, NEW ds, Dropped(W, va, cs, pos, t, V, vb, ds),
         Len(V) = At(pos, t) - 1
  PROVE  EnvOf(V, vb, ds) = SubSeq(EnvOf(W, va, cs), 1, At(pos, t) - 1)
<1> DEFINE p == At(pos, t)
           e == EnvOf(W, va, cs)
           h == EnvOf(V, vb, ds)
<1>1. p \in 1 .. Len(W) /\ Len(W) \in Nat /\ Len(V) \in Nat
  BY DroppedEntries DEF DroppedAt
<1>2. \A i \in 1 .. p - 1 : EntryOf(V, vb, ds, i) = EntryOf(W, va, cs, i)
  BY DroppedEntries
<1>3. IsUpTo(e, Len(W)) /\ IsUpTo(h, Len(V))
  BY <1>1, EnvIsSequence
<1>4. (\A i \in 1 .. Len(W) : At(e, i) = EntryOf(W, va, cs, i)) /\ \A i \in 1 .. Len(V) : At(h, i) = EntryOf(V, vb, ds, i)
  BY DEF EnvOf, At
<1> HIDE DEF e, h, p
<1>5. Len(V) = p - 1
  BY DEF p
<1>6. \A i \in 1 .. Len(V) : i \in 1 .. Len(W) /\ i \in 1 .. p - 1
  BY <1>1, <1>5
<1>7. \A i \in 1 .. Len(V) : At(h, i) = At(e, i)
  BY <1>2, <1>4, <1>6
<1>8. Len(V) \in 0 .. Len(W)
  BY <1>1, <1>5
<1>9. h = SubSeq(e, 1, Len(V))
  BY <1>1, <1>3, <1>7, <1>8, PrefixIs
<1> QED BY <1>9 DEF e, h

\* The item of a catch that has returned owns what was thrown.
OwnEntry(x) == [kind |-> "own", val |-> x]

LEMMA ThrowEnv ==
  ASSUME NEW W, NEW va, NEW cs, NEW pos, NEW t, NEW V, NEW vb, NEW ds, Dropped(W, va, cs, pos, t, V, vb, ds),
         Len(V) = At(pos, t)
  PROVE  EnvOf(V, vb, ds) = Append(SubSeq(EnvOf(W, va, cs), 1, At(pos, t) - 1), OwnEntry(At(V, Len(V)).value))
<1> DEFINE p == At(pos, t)
           n == p - 1
           e == EnvOf(W, va, cs)
           h == EnvOf(V, vb, ds)
           f == SubSeq(e, 1, n)
           x == OwnEntry(At(V, Len(V)).value)
<1>1. p \in 1 .. Len(W) /\ Len(W) \in Nat /\ Len(V) \in Nat
  BY DroppedEntries DEF DroppedAt
<1>2. \A i \in 1 .. p - 1 : EntryOf(V, vb, ds, i) = EntryOf(W, va, cs, i)
  BY DroppedEntries
<1>3. IsUpTo(e, Len(W)) /\ IsUpTo(h, Len(V))
  BY <1>1, EnvIsSequence
<1>4. (\A i \in 1 .. Len(W) : At(e, i) = EntryOf(W, va, cs, i)) /\ \A i \in 1 .. Len(V) : At(h, i) = EntryOf(V, vb, ds, i)
  BY DEF EnvOf, At
<1>5. EntryOf(V, vb, ds, p) = x
  <2>1. Marks(V, ds, pos) /\ \A k \in 1 .. t - 1 : At(pos, k) \in 1 .. p - 1
    BY DroppedEntries DEF DroppedAt
  <2>2. /\ V \in Seq(Item) /\ ds \in Seq(CallKinds) /\ Len(ds) = t - 1 /\ LeftAt(p, V, W, cs, t)
    BY DEF Dropped
  <2> HIDE DEF p, x
  <2>3. Len(V) = p
    BY DEF p
  <2>4. LastIs(V, p, ds, pos) /\ At(V, p).kind = "target"
    <3>1. At(V, p).kind = "target"
      BY <1>1, <2>2, <2>3 DEF LeftAt, At
    <3>2. p > 0
      BY <1>1
    <3> QED BY <2>1, <2>2, <2>3, <3>1, <3>2 DEF LastIs
  <2>5. \A k \in 1 .. Len(ds) : At(pos, k) # p
    <3>1. p \notin 1 .. p - 1
      BY <1>1
    <3> QED BY <2>1, <2>2, <3>1
  <2>6. EntryOf(V, vb, ds, p) = [kind |-> "own", val |-> At(V, p).value]
    BY <2>4, <2>5, LastOwn
  <2> QED BY <2>3, <2>6 DEF x, OwnEntry
<1>6. IsUpTo(f, n) /\ \A i \in 1 .. n : At(f, i) = At(e, i)
  <2> DEFINE S == {e[i] : i \in 1 .. Len(W)}
  <2>1. e \in Seq(S) /\ Len(e) = Len(W)
    <3>1. \A i \in 1 .. Len(W) : e[i] \in S
      OBVIOUS
    <3> HIDE DEF S, e
    <3> QED BY <1>1, <1>3, <3>1, IsSequence
  <2> HIDE DEF S, e, p
  <2>2. n \in 0 .. Len(e)
    BY <1>1, <2>1
  <2> HIDE DEF n
  <2>3. f \in Seq(S) /\ Len(f) = n /\ \A i \in 1 .. n : f[i] = e[i]
    BY <2>1, <2>2, Prefix
  <2> HIDE DEF f
  <2>4. f = [i \in 1 .. Len(f) |-> f[i]] /\ DOMAIN f = 1 .. Len(f)
    BY <2>3
  <2> QED BY <2>3, <2>4 DEF IsUpTo, At
<1> HIDE DEF e, h, p, f, x
<1>7. Len(V) = n + 1 /\ n \in Nat /\ p = n + 1 /\ (\A i \in 1 .. n : i \in 1 .. Len(V) /\ i \in 1 .. Len(W)) /\ n + 1 \in 1 .. Len(V)
  <2>1. Len(V) = p
    BY DEF p
  <2> QED BY <1>1, <2>1
<1>8. \A i \in 1 .. n : At(h, i) = At(f, i)
  BY <1>2, <1>4, <1>6, <1>7
<1>9. At(h, n + 1) = x
  BY <1>4, <1>5, <1>7
<1> HIDE DEF n
<1>10. n \in Nat /\ IsUpTo(f, n) /\ IsUpTo(h, n + 1)
  BY <1>3, <1>6, <1>7
<1>11. h = Append(f, x) /\ h = f \o <<x>>
  BY ONLY <1>8, <1>9, <1>10, IsAppend
<1> QED BY <1>11 DEF h, f, x, e, n, p

\* The marks of an environment are the entries of the calls.
MarksOf(e) == {i \in 1 .. Len(e) : e[i].kind \in {"extent", "catch"}}
MarkedBy(e, W, cs, pos) ==
  /\ Len(e) = Len(W)
  /\ \A k \in 1 .. Len(cs) : At(pos, k) \in MarksOf(e)
  /\ \A k \in 1 .. Len(cs) : cs[k] = "block" => At(e, At(pos, k)).kind = "extent"
  /\ \A k \in 1 .. Len(cs) : cs[k] = "catch" => At(e, At(pos, k)) = [kind |-> "catch", condition |-> ConditionAt(W, At(pos, k))]
  /\ \A i \in MarksOf(e) : \E k \in 1 .. Len(cs) : At(pos, k) = i
  /\ \A k, l \in 1 .. Len(cs) : k < l => At(pos, k) < At(pos, l)

LEMMA EntryKind ==
  ASSUME NEW W \in Seq(Item), NEW cs \in Seq(CallKinds), NEW pos, Marks(W, cs, pos), NEW va, NEW i \in 1 .. Len(W),
         NEW w, w = W[i], NEW e, e = EntryOf(W, va, cs, i)
  PROVE  /\ e.kind \in {"extent", "catch"} => \E k \in 1 .. Len(cs) : pos[k] = i
         /\ e.kind = "todo" <=> w.kind = "func"
         /\ w.kind = "func" => e.func = w.func
         /\ \A v \in Var : e.kind = "bind" /\ e.var = v <=> Binds(w, v)
<1>1. /\ w.kind = "extent" => e = w /\ e.kind = "extent"
      /\ w.kind = "func" => e.kind = "todo" /\ e.func = w.func
      /\ w.kind = "var" => e = [kind |-> "bind", var |-> w.var, val |-> Bound(W, va, w.var, i)]
      /\ w.kind = "unref" => e = [kind |-> "own", val |-> w.val]
      /\ w.kind = "target" /\ (\E k \in 1 .. Len(cs) : pos[k] = i) => e = [kind |-> "catch", condition |-> ConditionAt(W, i)]
      /\ w.kind = "target" /\ ~(\E k \in 1 .. Len(cs) : pos[k] = i) => e = [kind |-> "own", val |-> w.value]
  BY EntryIs
<1>2. w.kind = "extent" => \E k \in 1 .. Len(cs) : pos[k] = i
  BY DEF Marks
<1>3. w.kind \in {"extent", "func", "var", "unref", "target"}
  <2>1. w \in Item
    OBVIOUS
  <2> QED BY <2>1, ItemCases DEF Extent
<1>4. CASE w.kind = "extent"
  BY <1>1, <1>2, <1>4 DEF Binds
<1>5. CASE w.kind = "func"
  BY <1>1, <1>5 DEF Binds
<1>6. CASE w.kind = "var"
  BY <1>1, <1>6 DEF Binds
<1>7. CASE w.kind = "unref"
  BY <1>1, <1>7 DEF Binds
<1>8. CASE w.kind = "target"
  BY <1>1, <1>8 DEF Binds
<1> QED BY <1>3, <1>4, <1>5, <1>6, <1>7, <1>8

LEMMA MarksAre ==
  ASSUME NEW W \in Seq(Item), NEW cs \in Seq(CallKinds), NEW pos, Marks(W, cs, pos), NEW va, NEW e, e = EnvOf(W, va, cs)
  PROVE  MarkedBy(e, W, cs, pos) /\ SameActions(e, W)
<1>1. Len(e) = Len(W) /\ Len(W) \in Nat /\ \A i \in 1 .. Len(W) : e[i] = EntryOf(W, va, cs, i)
  BY EnvIs
<1>2. ASSUME NEW i \in 1 .. Len(W)
      PROVE  /\ e[i].kind = "todo" <=> W[i].kind = "func"
             /\ W[i].kind = "func" => e[i].func = W[i].func
             /\ e[i].kind \in {"extent", "catch"} => \E k \in 1 .. Len(cs) : pos[k] = i
  BY <1>1, EntryKind
<1>3. SameActions(e, W)
  BY <1>1, <1>2 DEF SameActions
<1>4. ASSUME NEW k \in 1 .. Len(cs)
      PROVE  /\ At(pos, k) \in MarksOf(e)
             /\ cs[k] = "block" => At(e, At(pos, k)).kind = "extent"
             /\ cs[k] = "catch" => At(e, At(pos, k)) = [kind |-> "catch", condition |-> ConditionAt(W, At(pos, k))]
  <2> DEFINE i == pos[k]
  <2>1. /\ i \in 1 .. Len(W) /\ (cs[k] = "block" => W[i] = Extent) /\ (cs[k] = "catch" => W[i] = TargetItem(k))
        /\ cs[k] \in CallKinds /\ \E l \in 1 .. Len(cs) : pos[l] = i
    BY MarkOf
  <2> HIDE DEF i
  <2> DEFINE x == EntryOf(W, va, cs, i)
  <2>2. e[i] = x
    BY <1>1, <2>1
  <2>3. /\ W[i].kind = "extent" => x.kind = "extent"
        /\ W[i].kind = "target" => x = [kind |-> "catch", condition |-> ConditionAt(W, i)]
    BY <2>1, EntryIs
  <2> HIDE DEF x
  <2>4. CASE cs[k] = "block"
    <3>1. e[i].kind = "extent"
      BY <2>1, <2>2, <2>3, <2>4, EntryKinds
    <3> QED BY <1>1, <2>1, <2>4, <3>1 DEF i, MarksOf, At
  <2>5. CASE cs[k] = "catch"
    <3>1. e[i] = [kind |-> "catch", condition |-> ConditionAt(W, i)]
      BY <2>1, <2>2, <2>3, <2>5, EntryKinds
    <3> QED BY <1>1, <2>1, <2>5, <3>1 DEF i, MarksOf, At
  <2> QED BY <2>1, <2>4, <2>5 DEF CallKinds
<1>5. \A i \in MarksOf(e) : \E k \in 1 .. Len(cs) : At(pos, k) = i
  BY <1>1, <1>2 DEF MarksOf, At
<1>6. \A k, l \in 1 .. Len(cs) : k < l => At(pos, k) < At(pos, l)
  BY DEF Marks, At
<1> QED BY <1>1, <1>3, <1>4, <1>5, <1>6 DEF MarkedBy

LEMMA PromiseMarks == Promise!Marks = MarksOf(EnvOf(windlist, var, calls))
BY Views DEF Promise!Marks, MarksOf

LEMMA PromiseCardinality == \A S : Promise!Cardinality(S) = Cardinality(S)
BY DEF Promise!Cardinality, Cardinality

LEMMA PromiseCarried ==
  ASSUME NEW i, NEW for_throw
  PROVE  Promise!Carried(i, for_throw) = CarriedOf(EnvOf(windlist, var, calls), i, for_throw)
<1> DEFINE E == [j \in 1 .. Len(windlist) |-> Entry(j)]
           F == EnvOf(windlist, var, calls)
<1>1. E = F
  BY Views
<1>2. Promise!Actions(i) = Todo(F, i)
  BY Views DEF Promise!Actions, Todo
<1>3. \A n : Promise!Nth(i, n) = Nth(F, i, n)
  BY <1>2, PromiseCardinality DEF Promise!Nth, Nth
<1>4. \A S : Promise!Only(S) = Only(S)
  BY DEF Promise!Only, Only
<1>5. Promise!Carried(i, for_throw) = [n \in 1 .. Promise!Cardinality(Promise!Actions(i)) |-> <<E[Promise!Only(Promise!Nth(i, n))].func, for_throw>>]
  BY DEF Promise!Carried
<1> HIDE DEF E, F
<1>6. Promise!Carried(i, for_throw) = CarriedOf(F, i, for_throw)
  BY <1>1, <1>2, <1>3, <1>4, <1>5, PromiseCardinality DEF CarriedOf
<1> QED BY <1>6 DEF F

\* What unwinding does to the variables and values, and what it carries out.
LEMMA Unwound ==
  ASSUME IInv, NEW x \in Alive \union {None}, NEW goal \in 0 .. Len(windlist), NEW for_throw \in BOOLEAN,
         Become(Unwind(Ref(Memory, x), goal, for_throw))
  PROVE  /\ Agrees(ContentOf(content), refs', content')
         /\ \A v \in Var : At(var', v) = Bound(windlist, var, v, goal)
         /\ ran' = CarriedOf(EnvOf(windlist, var, calls), goal + 1, for_throw)
<1> DEFINE m == Ref(Memory, x)
           r == Unwind(m, goal, for_throw)
           e == EnvOf(windlist, var, calls)
<1>1. /\ m \in Mem /\ m.content = content /\ m.var = var /\ m.ran = <<>> /\ Keeps(Memory, m)
      /\ Counted(m, windlist, Len(windlist), Extra(x))
  BY RefStep, RefLeaves, MemoryIs
<1>2. refs' = r.refs /\ content' = r.content /\ var' = r.var /\ ran' = r.ran
  BY DEF Become
<1> HIDE DEF m
<1>3. /\ r \in Mem /\ Counted(r, windlist, goal, Extra(x)) /\ Keeps(m, r)
      /\ \A v \in Var : r.var[v] = Bound(windlist, var, v, goal)
  BY <1>1, IInvParts, ExtraIsNat, UnwindExact
<1>4. r.ran = CarriedOf(e, goal + 1, for_throw)
  <2>1. PICK pos : Marks(windlist, calls, pos)
    BY IInvParts DEF Nested
  <2>2. SameActions(e, windlist)
    BY <2>1, IInvParts, MarksAre
  <2> HIDE DEF e
  <2> QED BY <1>1, <2>2, IInvParts, ExtraIsNat, RanIs
<1> HIDE DEF r
<1>5. Agrees(ContentOf(content), refs', content')
  BY <1>1, <1>2, <1>3 DEF Agrees, Keeps, ContentOf, At
<1> QED BY <1>2, <1>3, <1>4, <1>5 DEF At

LEMMA ConditionItemsPush ==
  ASSUME NEW W \in Seq(Item), NEW w \in Item, ~Binds(w, Handler), ConditionItems(W)
  PROVE  ConditionItems(Append(W, w)) /\ ConditionItems(W \o <<w>>)
<1> DEFINE V == Append(W, w)
<1>1. V \in Seq(Item) /\ Len(V) = Len(W) + 1 /\ Len(W) \in Nat /\ V[Len(W) + 1] = w /\ \A i \in 1 .. Len(W) : V[i] = W[i]
  BY Appended
<1>2. V = W \o <<w>>
  BY AddOne
<1> HIDE DEF V
<1>3. ConditionItems(V)
  BY <1>1 DEF ConditionItems
<1> QED BY <1>2, <1>3 DEF V

LEMMA ConditionItemsLeft ==
  ASSUME NEW W, NEW va, NEW cs, NEW pos, NEW t, NEW V, NEW vb, NEW ds, Dropped(W, va, cs, pos, t, V, vb, ds)
  PROVE  ConditionItems(V)
<1> DEFINE p == At(pos, t)
<1>1. p \in 1 .. Len(W) /\ Len(W) \in Nat /\ Len(V) \in Nat
  BY DroppedEntries DEF DroppedAt
<1>2. ConditionItems(W) /\ LeftAt(p, V, W, cs, t)
  BY DEF Dropped
<1> HIDE DEF p
<1>3. (\A i \in 1 .. p - 1 : V[i] = W[i]) /\ (Len(V) = p - 1 \/ (Len(V) = p /\ V[p].kind = "target"))
  BY <1>2 DEF LeftAt
<1> SUFFICES ASSUME NEW j \in 1 .. Len(V), Binds(V[j], Handler)
             PROVE  j - 1 \in 1 .. Len(V) /\ V[j - 1].kind = "unref"
  BY DEF ConditionItems
<1>4. j \in 1 .. p - 1
  BY <1>1, <1>3 DEF Binds
<1>5. j - 1 \in 1 .. Len(W) /\ W[j - 1].kind = "unref"
  BY <1>1, <1>2, <1>3, <1>4 DEF ConditionItems
<1> QED BY <1>1, <1>3, <1>4, <1>5

\* The calls from the t-th on end, and the list ends below its item.
LeftBelow(W, p) == SubSeq(W, 1, p - 1)

LEMMA DroppedTo ==
  ASSUME IInv, ConditionItems(windlist), NEW pos, Marks(windlist, calls, pos), NEW t \in 1 .. Len(calls),
         NEW x \in Alive \union {None}, NEW for_throw \in BOOLEAN,
         Become(Unwind(Ref(Memory, x), pos[t] - 1, for_throw)), calls' = SubSeq(calls, 1, t - 1)
  PROVE  /\ Dropped(windlist, var, calls, pos, t, LeftBelow(windlist, At(pos, t)), var', calls')
         /\ Len(LeftBelow(windlist, At(pos, t))) = At(pos, t) - 1
         /\ Agrees(ContentOf(content), refs', content')
         /\ ran' = CarriedOf(EnvOf(windlist, var, calls), At(pos, t), for_throw)
<1> DEFINE p == pos[t]
           V == LeftBelow(windlist, At(pos, t))
<1>1. windlist \in Seq(Item) /\ calls \in Seq(CallKinds) /\ Len(windlist) \in Nat /\ Len(calls) \in Nat
  BY IInvParts
<1>2. p \in 1 .. Len(windlist) /\ p = At(pos, t)
  BY <1>1, MarkOf DEF At
<1> HIDE DEF p
<1>3. p - 1 \in 0 .. Len(windlist) /\ (p - 1) + 1 = p
  BY <1>1, <1>2
<1>4. /\ Agrees(ContentOf(content), refs', content')
      /\ \A v \in Var : At(var', v) = Bound(windlist, var, v, p - 1)
      /\ ran' = CarriedOf(EnvOf(windlist, var, calls), (p - 1) + 1, for_throw)
  <2>1. Become(Unwind(Ref(Memory, x), p - 1, for_throw))
    BY DEF p
  <2> QED BY <1>3, <2>1, Unwound
<1> HIDE DEF V
<1>5. V \in Seq(Item) /\ Len(V) = p - 1 /\ \A i \in 1 .. p - 1 : V[i] = windlist[i]
  <2>1. V = SubSeq(windlist, 1, p - 1)
    BY <1>2 DEF V, LeftBelow
  <2> DEFINE n == p - 1
  <2>2. n \in 0 .. Len(windlist) /\ V = SubSeq(windlist, 1, n)
    BY <1>3, <2>1
  <2> HIDE DEF n
  <2>3. V \in Seq(Item) /\ Len(V) = n /\ \A i \in 1 .. n : V[i] = windlist[i]
    BY <1>1, <2>2, Prefix
  <2> QED BY <2>3 DEF n
<1>6. calls' \in Seq(CallKinds) /\ Len(calls') = t - 1 /\ \A k \in 1 .. t - 1 : calls'[k] = calls[k]
  <2> DEFINE n == t - 1
  <2>1. n \in 0 .. Len(calls) /\ calls' = SubSeq(calls, 1, n)
    BY <1>1
  <2> HIDE DEF n
  <2>2. calls' \in Seq(CallKinds) /\ Len(calls') = n /\ \A i \in 1 .. n : calls'[i] = calls[i]
    BY <1>1, <2>1, Prefix
  <2> QED BY <2>2 DEF n
<1>7. Dropped(windlist, var, calls, pos, t, V, var', calls') /\ Len(V) = At(pos, t) - 1
  <2>1. Len(V) <= Len(windlist)
    BY <1>1, <1>2, <1>5
  <2>2. LeftAt(At(pos, t), V, windlist, calls, t)
    BY <1>2, <1>5 DEF LeftAt
  <2>3. \A v \in Var : At(var', v) = Bound(windlist, var, v, Len(V))
    BY <1>4, <1>5
  <2> QED BY <1>1, <1>2, <1>5, <1>6, <2>1, <2>2, <2>3 DEF Dropped
<1> QED BY <1>2, <1>3, <1>4, <1>7 DEF V

LEMMA DropRefines ==
  ASSUME IInv, IInv', NoCycles(content)', ConditionItems(windlist), NEW pos, Marks(windlist, calls, pos), NEW t \in 1 .. Len(calls),
         NEW x \in Alive \union {None}, NEW for_throw \in BOOLEAN,
         Become(Unwind(Ref(Memory, x), pos[t] - 1, for_throw)),
         calls' = SubSeq(calls, 1, t - 1), windlist' = SubSeq(windlist, 1, pos[t] - 1)
  PROVE  /\ Promise!Become(SubSeq(EnvOf(windlist, var, calls), 1, At(pos, t) - 1), GlobalOf(windlist, var), ContentOf(content))
         /\ ran' = CarriedOf(EnvOf(windlist, var, calls), At(pos, t), for_throw)
         /\ ConditionItems(windlist')
<1>1. windlist' = LeftBelow(windlist, At(pos, t))
  BY DEF LeftBelow, At
<1>2. /\ Dropped(windlist, var, calls, pos, t, LeftBelow(windlist, At(pos, t)), var', calls')
      /\ Len(LeftBelow(windlist, At(pos, t))) = At(pos, t) - 1
      /\ Agrees(ContentOf(content), refs', content')
      /\ ran' = CarriedOf(EnvOf(windlist, var, calls), At(pos, t), for_throw)
  BY DroppedTo
<1>3. Dropped(windlist, var, calls, pos, t, windlist', var', calls') /\ Len(windlist') = At(pos, t) - 1
  BY <1>1, <1>2
<1>4. EnvOf(windlist', var', calls') = SubSeq(EnvOf(windlist, var, calls), 1, At(pos, t) - 1)
  BY ONLY <1>3, DropEnv
<1>5. GlobalOf(windlist', var') = GlobalOf(windlist, var)
  BY ONLY <1>3, DroppedEntries
<1>6. ASSUME NEW c, Agrees(c, refs', content')
      PROVE  Promise!Become(SubSeq(EnvOf(windlist, var, calls), 1, At(pos, t) - 1), GlobalOf(windlist, var), c)
  BY <1>4, <1>5, <1>6, BecomeIs
<1>7. Promise!Become(SubSeq(EnvOf(windlist, var, calls), 1, At(pos, t) - 1), GlobalOf(windlist, var), ContentOf(content))
  BY <1>2, <1>6 DEF Promise!Become
<1>8. ConditionItems(windlist')
  BY ONLY <1>3, ConditionItemsLeft
<1> QED BY <1>2, <1>7, <1>8

\* The item of a catch gets what is thrown.
ThrownTo(W, g, x) == [SubSeq(W, 1, g) EXCEPT ![g].value = x]
HasThrown(V, W, g, t, x) ==
  /\ V \in Seq(Item) /\ Len(V) = g /\ V[g].kind = "target" /\ V[g].target = t /\ V[g].value = x
  /\ \A i \in 1 .. g - 1 : V[i] = W[i]

LEMMA Thrown ==
  ASSUME NEW W \in Seq(Item), NEW g \in 1 .. Len(W), NEW t \in Target, W[g] = TargetItem(t), NEW x \in Maybe
  PROVE  HasThrown(ThrownTo(W, g, x), W, g, t, x)
<1> DEFINE V  == ThrownTo(W, g, x)
           V0 == SubSeq(W, 1, g)
           item == [TargetItem(t) EXCEPT !.value = x]
<1>1. g \in Nat /\ g \in 0 .. Len(W) /\ g \in 1 .. g
  OBVIOUS
<1>2. V0 \in Seq(Item) /\ Len(V0) = g /\ \A i \in 1 .. g : V0[i] = W[i]
  BY <1>1, Prefix
<1>3. item \in Item /\ item.kind = "target" /\ item.target = t /\ item.value = x
  <2>1. item = [kind |-> "target", target |-> t, value |-> x]
    BY DEF TargetItem
  <2>2. item \in TargetItems
    BY <2>1 DEF TargetItems
  <2> QED BY <2>1, <2>2 DEF Item
<1>4. V = [V0 EXCEPT ![g] = item]
  BY <1>1, <1>2 DEF ThrownTo
<1> HIDE DEF V0, item, V
<1>5. V \in Seq(Item) /\ Len(V) = Len(V0) /\ V[g] = item
  BY <1>1, <1>2, <1>3, <1>4
<1>6. \A i \in 1 .. g - 1 : V[i] = W[i]
  <2>1. \A i \in 1 .. g - 1 : i \in 1 .. Len(V0) /\ i \in 1 .. g /\ i # g
    BY <1>1, <1>2
  <2> QED BY <1>2, <1>4, <2>1
<1>7. HasThrown(V, W, g, t, x)
  BY <1>2, <1>3, <1>5, <1>6 DEF HasThrown
<1> QED BY <1>7 DEF V

LEMMA ThrowRefines ==
  ASSUME IInv, IInv', NoCycles(content)', ConditionItems(windlist), NEW pos, Marks(windlist, calls, pos), NEW t \in 1 .. Len(calls),
         calls[t] = "catch", NEW x \in Alive \union {None}, Throw(t, x)
  PROVE  Promise!Throw(At(pos, t), x) /\ ConditionItems(windlist')
<1> DEFINE p == pos[t]
           S == {i \in 1 .. Len(windlist) :
                   /\ windlist[i].kind = "target" /\ windlist[i].target = t
                   /\ windlist[i].value = None}
           e == EnvOf(windlist, var, calls)
           g == GlobalOf(windlist, var)
           own == OwnEntry(x)
<1>1. windlist \in Seq(Item) /\ calls \in Seq(CallKinds) /\ Len(windlist) \in Nat /\ Len(calls) \in Nat /\ x \in Maybe
  BY IInvParts, RefStep
<1>2. p \in 1 .. Len(windlist) /\ p = At(pos, t) /\ windlist[p] = TargetItem(t) /\ t \in Target
  <2>1. p \in 1 .. Len(windlist) /\ p = At(pos, t) /\ windlist[p] = TargetItem(t)
    BY <1>1, MarkOf DEF At
  <2>2. t \in Target
    BY <1>1, IInvParts, ExtentsAssumption DEF Target
  <2> QED BY <2>1, <2>2
<1>3. Max(S) = p /\ S # {}
  <2>1. S \in SUBSET (1 .. Len(windlist)) /\ \A i \in S : windlist[i].kind = "target" /\ windlist[i].target = t
    OBVIOUS
  <2>2. windlist[pos[t]] = TargetItem(t) => pos[t] \in S
    BY <1>2, EntryKinds
  <2> HIDE DEF S
  <2> QED BY <1>1, <2>1, <2>2, InnermostTarget
<1>4. /\ Become(Unwind(Ref(Memory, x), p, TRUE))
      /\ windlist' = [SubSeq(windlist, 1, p) EXCEPT ![p].value = x]
      /\ calls' = SubSeq(calls, 1, t - 1) /\ caught' = x /\ over' = over
  <2>1. LET w == Max(S) IN
        /\ Become(Unwind(Ref(Memory, x), w, TRUE))
        /\ windlist' = [SubSeq(windlist, 1, w) EXCEPT ![w].value = x]
        /\ calls' = SubSeq(calls, 1, t - 1) /\ caught' = x /\ over' = over
    BY <1>3, Zenon DEF Throw
  <2> HIDE DEF S, p
  <2> QED BY <1>3, <2>1
<1> HIDE DEF p, S
<1>5. /\ windlist' \in Seq(Item) /\ Len(windlist') = p
      /\ windlist'[p].kind = "target" /\ windlist'[p].target = t /\ windlist'[p].value = x
      /\ \A i \in 1 .. p - 1 : windlist'[i] = windlist[i]
  <2>1. windlist' = ThrownTo(windlist, p, x)
    BY <1>4 DEF ThrownTo
  <2>2. HasThrown(ThrownTo(windlist, p, x), windlist, p, t, x)
    BY <1>1, <1>2, Thrown
  <2> QED BY <2>1, <2>2 DEF HasThrown
<1>6. /\ Agrees(ContentOf(content), refs', content')
      /\ \A v \in Var : At(var', v) = Bound(windlist, var, v, p)
      /\ ran' = CarriedOf(e, p + 1, TRUE)
  <2>1. p \in 0 .. Len(windlist)
    BY <1>2
  <2> QED BY <1>4, <2>1, Unwound
<1>7. calls' \in Seq(CallKinds) /\ Len(calls') = t - 1 /\ \A k \in 1 .. t - 1 : calls'[k] = calls[k]
  <2> DEFINE n == t - 1
  <2>1. n \in 0 .. Len(calls) /\ calls' = SubSeq(calls, 1, n)
    BY <1>1, <1>4
  <2> HIDE DEF n
  <2>2. calls' \in Seq(CallKinds) /\ Len(calls') = n /\ \A i \in 1 .. n : calls'[i] = calls[i]
    BY <1>1, <2>1, Prefix
  <2> QED BY <2>2 DEF n
<1>8. Dropped(windlist, var, calls, pos, t, windlist', var', calls') /\ Len(windlist') = At(pos, t)
  <2>1. Len(windlist') <= Len(windlist)
    BY <1>1, <1>2, <1>5
  <2>2. LeftAt(At(pos, t), windlist', windlist, calls, t)
    BY <1>2, <1>5 DEF LeftAt
  <2>3. \A v \in Var : At(var', v) = Bound(windlist, var, v, Len(windlist'))
    BY <1>5, <1>6
  <2> QED BY <1>1, <1>2, <1>5, <1>7, <2>1, <2>2, <2>3 DEF Dropped
<1>9. EnvOf(windlist', var', calls') = Append(SubSeq(e, 1, p - 1), own) /\ GlobalOf(windlist', var') = g
  <2>1. EnvOf(windlist', var', calls') =
          Append(SubSeq(EnvOf(windlist, var, calls), 1, At(pos, t) - 1), OwnEntry(At(windlist', Len(windlist')).value))
    BY ONLY <1>8, ThrowEnv
  <2>2. GlobalOf(windlist', var') = GlobalOf(windlist, var)
    BY ONLY <1>8, DroppedEntries
  <2>3. At(windlist', Len(windlist')).value = x
    BY <1>5 DEF At
  <2> QED BY <1>2, <2>1, <2>2, <2>3
<1>10. ran' = CarriedOf(e, p, TRUE)
  <2>1. MarkedBy(e, windlist, calls, pos)
    BY <1>1, MarksAre
  <2> HIDE DEF e
  <2>2. Len(e) = Len(windlist) /\ e[p] = [kind |-> "catch", condition |-> ConditionAt(windlist, p)]
    BY <1>2, <2>1 DEF MarkedBy, At
  <2>3. e[p].kind # "todo" /\ p \in 1 .. Len(e) /\ Len(e) \in Nat
    BY <1>1, <1>2, <2>2
  <2>4. CarriedOf(e, p, TRUE) = CarriedOf(e, p + 1, TRUE)
    BY <2>3, CarriedSkip
  <2> QED BY <1>6, <2>4
<1>11. ASSUME NEW c, Agrees(c, refs', content') PROVE Promise!Become(Append(SubSeq(e, 1, p - 1), own), g, c)
  BY <1>9, <1>11, BecomeIs
<1>12. Promise!Become(Append(SubSeq(e, 1, p - 1), own), g, ContentOf(content))
  BY <1>6, <1>11 DEF Promise!Become
<1>13. Promise!Become(Append(Promise!Below(p), own), [v \in Var |-> BoundUpTo(v, 0)],
                      [y \in Val |-> IF content[y] \in Val THEN content[y] ELSE None])
  BY <1>12, Views DEF Promise!Become, Promise!Below
<1>14. ran' = Promise!Carried(p, TRUE)
  BY <1>10, PromiseCarried
<1>15. ConditionItems(windlist')
  BY ONLY <1>8, ConditionItemsLeft
<1> QED BY <1>2, <1>4, <1>13, <1>14, <1>15 DEF Promise!Throw, Promise!Own, OwnEntry, Promise!Become

\* The calls from the t-th on have ended, and what they return is owned below.
Returned(W, va, cs, pos, t, U, x, V, vb, ds) ==
  /\ Dropped(W, va, cs, pos, t, U, vb, ds) /\ Len(U) = At(pos, t) - 1
  /\ x \in Maybe /\ Appends(U, UnrefItem(x), V)
EnvWith(W, va, cs, p, x) == Append(SubSeq(EnvOf(W, va, cs), 1, p - 1), OwnEntry(x))

LEMMA ReturnedEnv ==
  ASSUME NEW W, NEW va, NEW cs, NEW pos, NEW t, NEW U, NEW x, NEW V, NEW vb, NEW ds,
         Returned(W, va, cs, pos, t, U, x, V, vb, ds)
  PROVE  EnvOf(V, vb, ds) = EnvWith(W, va, cs, At(pos, t), x) /\ GlobalOf(V, vb) = GlobalOf(W, va)
<1> DEFINE w == UnrefItem(x)
<1>1. Dropped(W, va, cs, pos, t, U, vb, ds) /\ Len(U) = At(pos, t) - 1 /\ x \in Maybe /\ V = Append(U, w)
  BY DEF Returned, Appends
<1>2. EnvOf(U, vb, ds) = SubSeq(EnvOf(W, va, cs), 1, At(pos, t) - 1)
  BY ONLY <1>1, DropEnv
<1>3. GlobalOf(U, vb) = GlobalOf(W, va) /\ DroppedAt(At(pos, t), U, W, cs, pos, ds, t)
  BY ONLY <1>1, DroppedEntries
<1>4. U \in Seq(Item) /\ ds \in Seq(CallKinds) /\ Marks(U, ds, pos)
  BY <1>1, <1>3 DEF Dropped, DroppedAt
<1>5. w \in Item /\ w.kind = "unref" /\ w.val = x /\ \A v \in Var : ~Binds(w, v)
  BY <1>1, ItemsAre DEF UnrefItem, Binds
<1> HIDE DEF w
<1>6. Saves(w, vb, vb)
  BY <1>5 DEF Saves
<1>7. Append(U, w) \in Seq(Item) /\ Len(Append(U, w)) = Len(U) + 1 /\ Len(U) \in Nat /\ At(Append(U, w), Len(U) + 1) = w
  BY <1>4, <1>5, Appended DEF At
<1>8. EntryOf(Append(U, w), vb, ds, Len(U) + 1) = OwnEntry(x)
  <2> DEFINE n == Len(U) + 1
             A == Append(U, w)
  <2>1. A \in Seq(Item) /\ n = Len(A) /\ n > 0 /\ At(A, n) = w /\ w.kind \in {"func", "var", "unref"}
    BY <1>5, <1>7
  <2> HIDE DEF n, A
  <2>2. EntryOf(A, vb, ds, n) = ItemEntry(w, vb)
    BY <2>1, LastPlain
  <2>3. ItemEntry(w, vb) = OwnEntry(x)
    BY <1>5 DEF ItemEntry, OwnEntry
  <2> QED BY <2>2, <2>3 DEF n, A
<1>9. Pushed(U, ds, pos, Append(U, w), ds, pos)
  BY <1>4, <1>5, PushedItem
<1>10. /\ EnvOf(Append(U, w), vb, ds) = EnvOf(U, vb, ds) \o <<OwnEntry(x)>>
       /\ EnvOf(Append(U, w), vb, ds) = Append(EnvOf(U, vb, ds), OwnEntry(x))
  <2>1. ~Binds(w, Handler)
    BY <1>5, HandlerIsVar
  <2> QED BY <1>4, <1>5, <1>6, <1>8, <1>9, <2>1, EnvPush
<1>11. GlobalOf(Append(U, w), vb) = GlobalOf(U, vb)
  BY <1>4, <1>5, <1>6, GlobalPush
<1> QED BY <1>1, <1>2, <1>3, <1>10, <1>11 DEF EnvWith

LEMMA ReturnRefines ==
  ASSUME IInv, IInv', NoCycles(content)', ConditionItems(windlist), NEW pos, Marks(windlist, calls, pos), NEW t \in 1 .. Len(calls),
         NEW x \in Alive \union {None}, NEW for_throw \in BOOLEAN,
         Become(Unwind(Ref(Memory, x), pos[t] - 1, for_throw)),
         calls' = SubSeq(calls, 1, t - 1), windlist' = Append(SubSeq(windlist, 1, pos[t] - 1), UnrefItem(x))
  PROVE  /\ Promise!Become(Append(SubSeq(EnvOf(windlist, var, calls), 1, At(pos, t) - 1), OwnEntry(x)),
                           GlobalOf(windlist, var), ContentOf(content))
         /\ ran' = CarriedOf(EnvOf(windlist, var, calls), At(pos, t), for_throw)
         /\ ConditionItems(windlist')
<1>1. windlist' = Append(LeftBelow(windlist, At(pos, t)), UnrefItem(x))
  BY DEF LeftBelow, At
<1>2. /\ Dropped(windlist, var, calls, pos, t, LeftBelow(windlist, At(pos, t)), var', calls')
      /\ Len(LeftBelow(windlist, At(pos, t))) = At(pos, t) - 1
      /\ Agrees(ContentOf(content), refs', content')
      /\ ran' = CarriedOf(EnvOf(windlist, var, calls), At(pos, t), for_throw)
  BY DroppedTo
<1>3. x \in Maybe
  BY RefStep
<1>4. Returned(windlist, var, calls, pos, t, LeftBelow(windlist, At(pos, t)), x, windlist', var', calls')
  BY <1>1, <1>2, <1>3 DEF Returned, Appends
<1>5. /\ EnvOf(windlist', var', calls') = EnvWith(windlist, var, calls, At(pos, t), x)
      /\ GlobalOf(windlist', var') = GlobalOf(windlist, var)
  BY ONLY <1>4, ReturnedEnv
<1>6. ASSUME NEW c, Agrees(c, refs', content')
      PROVE  Promise!Become(Append(SubSeq(EnvOf(windlist, var, calls), 1, At(pos, t) - 1), OwnEntry(x)), GlobalOf(windlist, var), c)
  BY <1>5, <1>6, BecomeIs DEF EnvWith
<1>7. Promise!Become(Append(SubSeq(EnvOf(windlist, var, calls), 1, At(pos, t) - 1), OwnEntry(x)),
                     GlobalOf(windlist, var), ContentOf(content))
  BY <1>2, <1>6 DEF Promise!Become
<1>8. ConditionItems(windlist')
  <2> DEFINE U == LeftBelow(windlist, At(pos, t))
  <2>1. ConditionItems(U) /\ U \in Seq(Item)
    BY <1>2, ConditionItemsLeft DEF Dropped
  <2>2. UnrefItem(x) \in Item /\ ~Binds(UnrefItem(x), Handler)
    BY <1>3, ItemsAre, BindsKind
  <2> HIDE DEF U
  <2>3. ConditionItems(Append(U, UnrefItem(x)))
    BY <2>1, <2>2, ConditionItemsPush
  <2> QED BY <1>1, <2>3 DEF U
<1> QED BY <1>2, <1>7, <1>8

-----------------------------------------------------------------------------
(***************************************************************************)
(* Ends, throws and signals                                                *)
(***************************************************************************)
\* The innermost call is the innermost mark.
LEMMA MarkIs ==
  ASSUME IInv, NEW pos, Marks(windlist, calls, pos), NEW k \in 1 .. Len(calls)
  PROVE  /\ At(pos, k) \in Promise!Marks
         /\ k = Len(calls) => Promise!IsInnermost(At(pos, k))
         /\ calls[k] = "block" => At(EnvOf(windlist, var, calls), At(pos, k)).kind = "extent"
         /\ calls[k] = "catch" => /\ At(EnvOf(windlist, var, calls), At(pos, k)).kind = "catch"
                                  /\ At(EnvOf(windlist, var, calls), At(pos, k)).condition = ConditionAt(windlist, At(pos, k))
<1> DEFINE e == EnvOf(windlist, var, calls)
<1>1. windlist \in Seq(Item) /\ calls \in Seq(CallKinds) /\ Len(calls) \in Nat
  BY IInvParts
<1>2. MarkedBy(e, windlist, calls, pos)
  BY <1>1, MarksAre
<1>3. Promise!Marks = MarksOf(e)
  BY PromiseMarks
<1> HIDE DEF e
<1>4. At(pos, k) \in Promise!Marks
  BY <1>2, <1>3 DEF MarkedBy
<1>5. k = Len(calls) => Promise!IsInnermost(At(pos, k))
  <2> SUFFICES ASSUME k = Len(calls), NEW j \in Promise!Marks PROVE j <= At(pos, k)
    BY <1>4 DEF Promise!IsInnermost
  <2>1. PICK l \in 1 .. Len(calls) : At(pos, l) = j
    BY <1>2, <1>3 DEF MarkedBy
  <2>2. l < k => At(pos, l) < At(pos, k)
    BY <1>2 DEF MarkedBy
  <2>3. At(pos, k) \in Int /\ j \in Int
    <3>1. \A i \in MarksOf(e) : i \in Int
      BY DEF MarksOf
    <3> QED BY <1>3, <1>4, <3>1
  <2>4. l < k \/ l = k
    BY <1>1
  <2> QED BY <2>1, <2>2, <2>3, <2>4
<1>6. calls[k] = "block" => At(e, At(pos, k)).kind = "extent"
  BY <1>2 DEF MarkedBy
<1>7. calls[k] = "catch" => At(e, At(pos, k)).kind = "catch" /\ At(e, At(pos, k)).condition = ConditionAt(windlist, At(pos, k))
  BY <1>2 DEF MarkedBy
<1> QED BY <1>4, <1>5, <1>6, <1>7 DEF e

LEMMA RefNone == Ref(Memory, None) = Memory
BY DEF Ref

LEMMA EndRefines ==
  ASSUME IInv, IInv', NoCycles(content)', ConditionItems(windlist), End
  PROVE  Promise!End(None) /\ ConditionItems(windlist')
<1> DEFINE t == Len(calls)
<1>1. /\ calls # <<>> /\ t \in 1 .. Len(calls) /\ calls[Len(calls)] = "block" /\ calls' = SubSeq(calls, 1, t - 1)
  BY InCallIs DEF End, CallKinds
<1>2. PICK pos : Marks(windlist, calls, pos)
  BY IInvParts DEF Nested
<1>3. ExtentEnd = pos[t] - 1
  BY <1>1, <1>2, IInvParts, InnermostExtent DEF ExtentEnd
<1>4. /\ Become(Unwind(Ref(Memory, None), pos[t] - 1, FALSE)) /\ windlist' = SubSeq(windlist, 1, pos[t] - 1)
      /\ caught' = None /\ over' = over
  BY <1>3, RefNone DEF End, DropTo, Leave, Quiet
<1> DEFINE i == At(pos, t)
<1> HIDE DEF t
<1>5. /\ Promise!Become(SubSeq(EnvOf(windlist, var, calls), 1, i - 1), GlobalOf(windlist, var), ContentOf(content))
      /\ ran' = CarriedOf(EnvOf(windlist, var, calls), i, FALSE) /\ ConditionItems(windlist')
  BY <1>1, <1>2, <1>4, DropRefines
<1>6. i \in Promise!Marks /\ Promise!IsInnermost(i) /\ At(EnvOf(windlist, var, calls), i).kind = "extent"
  <2>1. t = Len(calls) /\ calls[t] = "block"
    BY <1>1 DEF t
  <2> QED BY <1>1, <1>2, <2>1, MarkIs
<1> HIDE DEF i
<1>7. Promise!Become(Promise!Below(i), [v \in Var |-> BoundUpTo(v, 0)],
                     [x \in Val |-> IF content[x] \in Val THEN content[x] ELSE None])
  BY <1>5, Views DEF Promise!Become, Promise!Below
<1>8. ran' = Promise!Carried(i, FALSE)
  BY <1>5, PromiseCarried
<1>9. [j \in 1 .. Len(windlist) |-> Entry(j)][i].kind = "extent"
  BY <1>6, Views DEF At
<1> QED BY <1>4, <1>5, <1>6, <1>7, <1>8, <1>9 DEF Promise!End

LEMMA EndWithRefines ==
  ASSUME IInv, IInv', NoCycles(content)', ConditionItems(windlist), NEW z \in Alive \union {None}, EndWith(z)
  PROVE  Promise!End(z) /\ ConditionItems(windlist')
<1> DEFINE t == Len(calls)
<1>1. /\ calls # <<>> /\ t \in 1 .. Len(calls) /\ calls[Len(calls)] = "block" /\ calls' = SubSeq(calls, 1, t - 1)
  BY InCallIs DEF EndWith, CallKinds
<1>2. PICK pos : Marks(windlist, calls, pos)
  BY IInvParts DEF Nested
<1>3. ExtentEnd = pos[t] - 1
  BY <1>1, <1>2, IInvParts, InnermostExtent DEF ExtentEnd
<1>4. /\ Become(Unwind(Ref(Memory, z), pos[t] - 1, FALSE))
      /\ windlist' = Append(SubSeq(windlist, 1, pos[t] - 1), UnrefItem(z))
      /\ caught' = None /\ over' = over
  BY <1>3 DEF EndWith, Leave, Quiet
<1> DEFINE i == At(pos, t)
<1> HIDE DEF t
<1>5. /\ Promise!Become(Append(SubSeq(EnvOf(windlist, var, calls), 1, i - 1), OwnEntry(z)), GlobalOf(windlist, var), ContentOf(content))
      /\ ran' = CarriedOf(EnvOf(windlist, var, calls), i, FALSE) /\ ConditionItems(windlist')
  BY <1>1, <1>2, <1>4, ReturnRefines
<1>6. i \in Promise!Marks /\ Promise!IsInnermost(i) /\ At(EnvOf(windlist, var, calls), i).kind = "extent"
  <2>1. t = Len(calls) /\ calls[t] = "block"
    BY <1>1 DEF t
  <2> QED BY <1>1, <1>2, <2>1, MarkIs
<1> HIDE DEF i
<1>7. Promise!Become(Append(Promise!Below(i), Promise!Own(z)), [v \in Var |-> BoundUpTo(v, 0)],
                     [x \in Val |-> IF content[x] \in Val THEN content[x] ELSE None])
  BY <1>5, Views DEF Promise!Become, Promise!Below, Promise!Own, OwnEntry
<1>8. ran' = Promise!Carried(i, FALSE)
  BY <1>5, PromiseCarried
<1>9. [j \in 1 .. Len(windlist) |-> Entry(j)][i].kind = "extent"
  BY <1>6, Views DEF At
<1> QED BY <1>4, <1>5, <1>6, <1>7, <1>8, <1>9 DEF Promise!End, Promise!Own, Promise!Become

LEMMA CatchReturnsRefines ==
  ASSUME IInv, IInv', NoCycles(content)', ConditionItems(windlist), CatchReturns
  PROVE  Promise!CatchReturns /\ ConditionItems(windlist')
<1> DEFINE t == Len(calls)
           S == {i \in 1 .. Len(windlist) : windlist[i].kind = "target" /\ windlist[i].target = Len(calls)}
<1>1. /\ calls # <<>> /\ t \in 1 .. Len(calls) /\ calls[t] = "catch" /\ calls' = SubSeq(calls, 1, t - 1)
  BY InCallIs DEF CatchReturns, CallKinds
<1>2. PICK pos : Marks(windlist, calls, pos)
  BY IInvParts DEF Nested
<1>3. Max(S) = pos[t]
  <2>1. S \in SUBSET (1 .. Len(windlist)) /\ \A i \in S : windlist[i].kind = "target" /\ windlist[i].target = t
    OBVIOUS
  <2>2. windlist[pos[t]] = TargetItem(t) => pos[t] \in S
    BY <1>1, <1>2, EntryKinds DEF Marks
  <2> HIDE DEF S
  <2>3. windlist \in Seq(Item) /\ calls \in Seq(CallKinds)
    BY IInvParts
  <2> HIDE DEF t
  <2> QED BY <1>1, <1>2, <2>1, <2>2, <2>3, InnermostTarget
<1>4. /\ Become(Unwind(Ref(Memory, None), pos[t] - 1, FALSE)) /\ windlist' = SubSeq(windlist, 1, pos[t] - 1)
      /\ caught' = None /\ over' = over
  BY <1>3, RefNone DEF CatchReturns, DropTo, Leave, Quiet
<1> DEFINE i == At(pos, t)
<1> HIDE DEF t
<1>5. /\ Promise!Become(SubSeq(EnvOf(windlist, var, calls), 1, i - 1), GlobalOf(windlist, var), ContentOf(content))
      /\ ran' = CarriedOf(EnvOf(windlist, var, calls), i, FALSE) /\ ConditionItems(windlist')
  BY <1>1, <1>2, <1>4, DropRefines
<1>6. i \in Promise!Marks /\ Promise!IsInnermost(i) /\ At(EnvOf(windlist, var, calls), i).kind = "catch"
  <2>1. t = Len(calls)
    BY DEF t
  <2> QED BY <1>1, <1>2, <2>1, MarkIs
<1> HIDE DEF i
<1>7. Promise!Become(Promise!Below(i), [v \in Var |-> BoundUpTo(v, 0)],
                     [x \in Val |-> IF content[x] \in Val THEN content[x] ELSE None])
  BY <1>5, Views DEF Promise!Become, Promise!Below
<1>8. ran' = Promise!Carried(i, FALSE)
  BY <1>5, PromiseCarried
<1>9. [j \in 1 .. Len(windlist) |-> Entry(j)][i].kind = "catch"
  BY <1>6, Views DEF At
<1> QED BY <1>4, <1>5, <1>6, <1>7, <1>8, <1>9 DEF Promise!CatchReturns

LEMMA ThrowToRefines ==
  ASSUME IInv, IInv', NoCycles(content)', ConditionItems(windlist), NEW x \in Alive \union {None}, ThrowTo(x)
  PROVE  Promise!ThrowTo(x) /\ ConditionItems(windlist')
<1>1. PICK t \in 1 .. Len(calls) : calls[t] = "catch" /\ Throw(t, x)
  BY DEF ThrowTo
<1>2. PICK pos : Marks(windlist, calls, pos)
  BY IInvParts DEF Nested
<1> DEFINE i == At(pos, t)
<1>3. Promise!Throw(i, x) /\ ConditionItems(windlist')
  BY <1>1, <1>2, ThrowRefines
<1>4. i \in Promise!Marks /\ At(EnvOf(windlist, var, calls), i).kind = "catch"
  BY <1>1, <1>2, MarkIs
<1> HIDE DEF i
<1>5. [j \in 1 .. Len(windlist) |-> Entry(j)][i].kind = "catch"
  BY <1>4, Views DEF At
<1> QED BY <1>3, <1>4, <1>5 DEF Promise!ThrowTo

\* The catches of the condition are below the items that bind the handler.
ConditionsOf(e) == {i \in MarksOf(e) : At(e, i).kind = "catch" /\ At(e, i).condition}

LEMMA ConditionIs ==
  ASSUME NEW e, NEW W, NEW cs, NEW pos, MarkedBy(e, W, cs, pos), cs \in Seq(CallKinds), NEW i \in ConditionsOf(e)
  PROVE  ConditionAt(W, i) /\ i \in 1 .. Len(W)
<1>1. i \in MarksOf(e) /\ At(e, i).kind = "catch" /\ At(e, i).condition
  BY DEF ConditionsOf
<1>2. PICK k \in 1 .. Len(cs) : At(pos, k) = i
  BY <1>1 DEF MarkedBy
<1>3. cs[k] = "catch"
  <2>1. cs[k] \in CallKinds
    OBVIOUS
  <2>2. cs[k] = "block" => At(e, i).kind = "extent"
    BY <1>2 DEF MarkedBy
  <2> QED BY <1>1, <2>1, <2>2 DEF CallKinds
<1>4. At(e, At(pos, k)) = [kind |-> "catch", condition |-> ConditionAt(W, At(pos, k))]
  BY <1>3 DEF MarkedBy
<1>5. ConditionAt(W, i)
  BY <1>1, <1>2, <1>4
<1>6. i \in 1 .. Len(W)
  BY <1>1 DEF MarksOf, MarkedBy
<1> QED BY <1>5, <1>6

LEMMA ConditionHolds ==
  ASSUME NEW e, NEW W, Len(W) \in Nat, NEW cs, NEW pos, MarkedBy(e, W, cs, pos), NEW k \in 1 .. Len(cs), cs[k] = "catch",
         NEW j \in 1 .. Len(W), Binds(W[j], Handler), At(pos, k) = j - 2
  PROVE  At(pos, k) \in ConditionsOf(e)
<1>1. At(e, At(pos, k)) = [kind |-> "catch", condition |-> ConditionAt(W, At(pos, k))] /\ At(pos, k) \in MarksOf(e)
  BY DEF MarkedBy
<1>2. At(pos, k) + 2 = j
  OBVIOUS
<1>3. ConditionAt(W, At(pos, k))
  BY <1>2 DEF ConditionAt, Binds
<1> QED BY <1>1, <1>3 DEF ConditionsOf

\* The one whose handler is bound is the innermost.
CatchesSignal(e, i) == i \in ConditionsOf(e) /\ \A l \in ConditionsOf(e) : l <= i
SignalGoesTo(e, va, co, cs, pos) ==
  /\ At(va, Handler) = None => ConditionsOf(e) = {}
  /\ At(va, Handler) # None =>
       \E k \in 1 .. Len(cs) : cs[k] = "catch" /\ co[va[Handler]] = k /\ CatchesSignal(e, At(pos, k))

LEMMA InnermostCondition ==
  ASSUME NEW e, NEW W \in Seq(Item), NEW cs \in Seq(CallKinds), NEW pos, MarkedBy(e, W, cs, pos),
         NEW va, NEW co, Handlers(W, va, co, cs, pos)
  PROVE  SignalGoesTo(e, va, co, cs, pos)
<1> DEFINE n == Len(W)
<1>1. n \in Nat /\ n \in 0 .. n
  OBVIOUS
<1>2. PICK j \in 0 .. n : LastOf(W, Handler, j, n) /\ Bound(W, va, Handler, j) = Bound(W, va, Handler, n)
  BY <1>1, LastBinder
<1>3. Bound(W, va, Handler, j) = At(va, Handler)
  BY <1>1, <1>2, BoundByAll
<1>4. j = 0 => At(va, Handler) = None
  BY <1>3 DEF Handlers
<1>5. j # 0 => j \in 1 .. n /\ Binds(W[j], Handler) /\ HandledBy(At(va, Handler), j, co, cs, pos)
  <2> SUFFICES ASSUME j # 0 PROVE j \in 1 .. n /\ Binds(W[j], Handler) /\ HandledBy(At(va, Handler), j, co, cs, pos)
    OBVIOUS
  <2>1. j \in 1 .. n /\ Binds(W[j], Handler)
    BY <1>1, <1>2 DEF LastOf
  <2> QED BY <1>3, <2>1 DEF Handlers
<1>6. \A l \in ConditionsOf(e) : l \in Int /\ l + 2 <= j
  <2> SUFFICES ASSUME NEW l \in ConditionsOf(e) PROVE l \in Int /\ l + 2 <= j
    OBVIOUS
  <2>1. l \in 1 .. n /\ l + 2 <= n /\ Binds(W[l + 2], Handler)
    BY ConditionIs DEF ConditionAt, Binds
  <2>2. l + 2 \notin j + 1 .. n
    BY <1>2, <2>1 DEF LastOf
  <2> QED BY <1>1, <2>1, <2>2
<1>7. ASSUME At(va, Handler) = None
      PROVE  ConditionsOf(e) = {}
  <2>1. j = 0
    BY <1>5, <1>7, Constants DEF HandledBy
  <2>2. \A l \in ConditionsOf(e) : l \in 1 .. n
    BY ConditionIs
  <2> QED BY <1>6, <2>1, <2>2
<1>8. ASSUME At(va, Handler) # None
      PROVE  \E k \in 1 .. Len(cs) : cs[k] = "catch" /\ co[va[Handler]] = k /\ CatchesSignal(e, At(pos, k))
  <2>1. j \in 1 .. n /\ Binds(W[j], Handler) /\ HandledBy(At(va, Handler), j, co, cs, pos)
    BY <1>4, <1>5, <1>8
  <2>2. PICK k \in 1 .. Len(cs) : pos[k] = j - 2 /\ cs[k] = "catch" /\ co[At(va, Handler)] = k
    BY <2>1 DEF HandledBy
  <2>3. At(pos, k) = j - 2
    BY <2>2 DEF At
  <2>4. At(pos, k) \in ConditionsOf(e)
    BY <1>1, <2>1, <2>2, <2>3, ConditionHolds
  <2>5. \A l \in ConditionsOf(e) : l <= At(pos, k)
    BY <1>6, <2>1, <2>3
  <2>6. co[va[Handler]] = k
    BY <2>2 DEF At
  <2> QED BY <2>2, <2>4, <2>5, <2>6 DEF CatchesSignal
<1> QED BY <1>7, <1>8 DEF SignalGoesTo

LEMMA SignalRefines ==
  ASSUME IInv, IInv', NoCycles(content)', ConditionItems(windlist), NEW x \in Alive \union {None}, Signal(x)
  PROVE  Promise!Signal(x) /\ ConditionItems(windlist')
<1> DEFINE e == EnvOf(windlist, var, calls)
           C == {i \in Promise!Marks : [j \in 1 .. Len(windlist) |-> Entry(j)][i].kind = "catch"
                                       /\ [j \in 1 .. Len(windlist) |-> Entry(j)][i].condition}
<1>1. PICK pos : Marks(windlist, calls, pos) /\ Handlers(windlist, var, content, calls, pos)
  BY IInvParts, MemoryFields DEF Nested
<1>2. windlist \in Seq(Item) /\ calls \in Seq(CallKinds) /\ MarkedBy(e, windlist, calls, pos)
  BY <1>1, IInvParts, MarksAre
<1>3. C = ConditionsOf(e)
  <2>1. C = {i \in MarksOf(e) : e[i].kind = "catch" /\ e[i].condition}
    BY Views, PromiseMarks
  <2> QED BY <2>1 DEF ConditionsOf, At
<1> HIDE DEF e
<1>4. SignalGoesTo(e, var, content, calls, pos)
  BY <1>1, <1>2, InnermostCondition
<1>5. CASE var[Handler] = None
  <2>1. over' = TRUE /\ UNCHANGED <<windlist, var, refs, content, calls, caught, ran>>
    BY <1>5 DEF Signal
  <2>2. C = {}
    BY <1>3, <1>4, <1>5 DEF At, SignalGoesTo
  <2>3. UNCHANGED <<[i \in 1 .. Len(windlist) |-> Entry(i)], [v \in Var |-> BoundUpTo(v, 0)],
                    [y \in Val |-> IF content[y] \in Val THEN content[y] ELSE None], Alive, caught, ran>>
    <3>1. UNCHANGED [i \in 1 .. Len(windlist) |-> Entry(i)] /\ UNCHANGED [v \in Var |-> BoundUpTo(v, 0)]
      BY <2>1, Views, ViewsNext
    <3>2. UNCHANGED Alive
      BY <2>1 DEF Alive
    <3> QED BY <2>1, <3>1, <3>2
  <2> QED BY <2>1, <2>2, <2>3 DEF Promise!Signal
<1>6. CASE var[Handler] # None
  <2>1. Throw(content[var[Handler]], x)
    BY <1>6 DEF Signal
  <2>2. PICK k \in 1 .. Len(calls) : calls[k] = "catch" /\ content[var[Handler]] = k /\ CatchesSignal(e, At(pos, k))
    BY <1>4, <1>6 DEF At, SignalGoesTo
  <2>3. Promise!Throw(At(pos, k), x) /\ ConditionItems(windlist')
    BY <1>1, <2>1, <2>2, ThrowRefines
  <2>4. At(pos, k) \in C /\ \A l \in C : l <= At(pos, k)
    BY <1>3, <2>2 DEF CatchesSignal
  <2> QED BY <2>3, <2>4 DEF Promise!Signal
<1> QED BY <1>5, <1>6

-----------------------------------------------------------------------------
(***************************************************************************)
(* Variables that are set                                                  *)
(***************************************************************************)
\* A variable that is set: its innermost binding has the new value.
IsSet(W, va, v, x, j, vb) ==
  /\ W \in Seq(Item) /\ v \in Var /\ j \in 0 .. Len(W) /\ LastOf(W, v, j, Len(W))
  /\ At(vb, v) = x /\ \A u \in Var \ {v} : At(vb, u) = At(va, u)

LEMMA BoundSet ==
  ASSUME NEW W, NEW va, NEW v, NEW x, NEW j, NEW vb, IsSet(W, va, v, x, j, vb), NEW u \in Var, NEW i \in 0 .. Len(W)
  PROVE  /\ u = v /\ i >= j => Bound(W, vb, u, i) = x
         /\ ~(u = v /\ i >= j) => Bound(W, vb, u, i) = Bound(W, va, u, i)
<1> DEFINE later == {k \in i + 1 .. Len(W) : W[k].kind = "var" /\ W[k].var = u}
<1>1. W \in Seq(Item) /\ Len(W) \in Nat /\ j \in 0 .. Len(W) /\ i \in 0 .. Len(W)
  BY DEF IsSet
<1>2. CASE u # v
  <2>1. vb[u] = va[u]
    BY <1>2 DEF IsSet, At
  <2> QED BY <1>2, <2>1 DEF Bound
<1>3. CASE u = v /\ i >= j
  <2>1. \A k \in i + 1 .. Len(W) : ~Binds(W[k], v)
    BY <1>1, <1>3 DEF IsSet, LastOf
  <2>2. later = {}
    BY <1>3, <2>1 DEF Binds
  <2>3. vb[u] = x
    BY <1>3 DEF IsSet, At
  <2> QED BY <1>3, <2>2, <2>3 DEF Bound
<1>4. CASE u = v /\ ~(i >= j)
  <2>1. j \in i + 1 .. Len(W) /\ Binds(W[j], v)
    BY <1>1, <1>4 DEF IsSet, LastOf
  <2>2. later # {}
    BY <1>4, <2>1 DEF Binds
  <2> QED BY <1>4, <2>2 DEF Bound
<1> QED BY <1>2, <1>3, <1>4

LEMMA EntrySet ==
  ASSUME NEW W, NEW va, NEW v, NEW x, NEW j, NEW vb, IsSet(W, va, v, x, j, vb), NEW cs, NEW i \in 1 .. Len(W)
  PROVE  /\ i # j => EntryOf(W, vb, cs, i) = EntryOf(W, va, cs, i)
         /\ i = j => EntryOf(W, vb, cs, i) = [EntryOf(W, va, cs, i) EXCEPT !.val = x]
<1>1. W \in Seq(Item) /\ Len(W) \in Nat /\ j \in 0 .. Len(W) /\ i \in 0 .. Len(W) /\ W[i] \in Item
  BY DEF IsSet
<1>2. ASSUME i # j
      PROVE  EntryOf(W, vb, cs, i) = EntryOf(W, va, cs, i)
  <2>1. W[i].kind = "var" => Bound(W, vb, W[i].var, i) = Bound(W, va, W[i].var, i)
    <3> SUFFICES ASSUME W[i].kind = "var" PROVE Bound(W, vb, W[i].var, i) = Bound(W, va, W[i].var, i)
      OBVIOUS
    <3> DEFINE u == W[i].var
    <3>1. u \in Var
      BY <1>1, ItemCases DEF Extent
    <3>2. ~(u = v /\ i >= j)
      <4> SUFFICES ASSUME u = v, i >= j PROVE FALSE
        OBVIOUS
      <4>1. i \in j + 1 .. Len(W)
        BY <1>1, <1>2
      <4>2. ~Binds(W[i], v)
        BY <4>1 DEF IsSet, LastOf
      <4> QED BY <4>2 DEF Binds
    <3> HIDE DEF u
    <3>3. Bound(W, vb, u, i) = Bound(W, va, u, i)
      BY <1>1, <3>1, <3>2, BoundSet
    <3> QED BY <3>3 DEF u
  <2> QED BY <1>1, <2>1, EntrySame
<1>3. ASSUME i = j
      PROVE  EntryOf(W, vb, cs, i) = [EntryOf(W, va, cs, i) EXCEPT !.val = x]
  <2>1. Binds(W[i], v)
    BY <1>1, <1>3 DEF IsSet, LastOf
  <2>2. Bound(W, vb, v, i) = x
    <3>1. i >= j /\ v \in Var
      BY <1>1, <1>3 DEF IsSet
    <3> QED BY <1>1, <3>1, BoundSet
  <2>3. EntryOf(W, vb, cs, i) = [kind |-> "bind", var |-> v, val |-> Bound(W, vb, v, i)]
    BY <2>1 DEF EntryOf, Binds
  <2>4. EntryOf(W, va, cs, i) = [kind |-> "bind", var |-> v, val |-> Bound(W, va, v, i)]
    BY <2>1 DEF EntryOf, Binds
  <2> QED BY <2>2, <2>3, <2>4
<1> QED BY <1>2, <1>3

EnvSetTo(e, j, x) == [e EXCEPT ![j].val = x]
GlobalSetTo(g, v, x) == [g EXCEPT ![v] = x]

LEMMA EnvSet ==
  ASSUME NEW W, NEW va, NEW v, NEW x, NEW j, NEW vb, IsSet(W, va, v, x, j, vb), NEW cs
  PROVE  /\ j = 0 => EnvOf(W, vb, cs) = EnvOf(W, va, cs) /\ GlobalOf(W, vb) = GlobalSetTo(GlobalOf(W, va), v, x)
         /\ j # 0 => EnvOf(W, vb, cs) = EnvSetTo(EnvOf(W, va, cs), j, x) /\ GlobalOf(W, vb) = GlobalOf(W, va)
<1>1. W \in Seq(Item) /\ Len(W) \in Nat /\ j \in 0 .. Len(W) /\ 0 \in 0 .. Len(W) /\ v \in Var
  BY DEF IsSet
<1>2. \A i \in 1 .. Len(W) : /\ i # j => EntryOf(W, vb, cs, i) = EntryOf(W, va, cs, i)
                             /\ i = j => EntryOf(W, vb, cs, i) = [EntryOf(W, va, cs, i) EXCEPT !.val = x]
  BY EntrySet
<1>3. \A u \in Var : /\ u = v /\ 0 >= j => Bound(W, vb, u, 0) = x
                     /\ ~(u = v /\ 0 >= j) => Bound(W, vb, u, 0) = Bound(W, va, u, 0)
  BY <1>1, BoundSet
<1>4. CASE j = 0
  <2>1. EnvOf(W, vb, cs) = EnvOf(W, va, cs)
    BY <1>2, <1>4 DEF EnvOf
  <2>2. GlobalOf(W, vb) = GlobalSetTo(GlobalOf(W, va), v, x)
    <3> DEFINE g == GlobalOf(W, va)
    <3>1. \A u \in Var : Bound(W, vb, u, 0) = IF u = v THEN x ELSE g[u]
      BY <1>3, <1>4 DEF GlobalOf
    <3>2. DOMAIN g = Var /\ GlobalOf(W, vb) = [u \in Var |-> Bound(W, vb, u, 0)]
      BY DEF GlobalOf
    <3>3. g = [u \in Var |-> g[u]]
      BY DEF GlobalOf
    <3> HIDE DEF g
    <3>4. GlobalOf(W, vb) = [u \in Var |-> IF u = v THEN x ELSE g[u]]
      BY <3>1, <3>2
    <3>5. GlobalOf(W, vb) = [g EXCEPT ![v] = x]
      BY <1>1, <3>2, <3>3, <3>4
    <3> QED BY <3>5 DEF g, GlobalSetTo
  <2> QED BY <1>4, <2>1, <2>2
<1>5. CASE j # 0
  <2>1. EnvOf(W, vb, cs) = EnvSetTo(EnvOf(W, va, cs), j, x)
    BY <1>1, <1>2, <1>5 DEF EnvOf, EnvSetTo
  <2>2. GlobalOf(W, vb) = GlobalOf(W, va)
    BY <1>1, <1>3, <1>5 DEF GlobalOf
  <2> QED BY <1>5, <2>1, <2>2
<1> QED BY <1>4, <1>5

\* The entries that bind v are its items.
BindersOf(e, v) == {i \in 1 .. Len(e) : e[i].kind = "bind" /\ e[i].var = v}

LEMMA BindersAre ==
  ASSUME NEW W \in Seq(Item), NEW cs \in Seq(CallKinds), NEW pos, Marks(W, cs, pos), NEW va, NEW v \in Var
  PROVE  BindersOf(EnvOf(W, va, cs), v) = {i \in 1 .. Len(W) : Binds(W[i], v)}
<1> DEFINE e == EnvOf(W, va, cs)
<1>1. Len(e) = Len(W) /\ \A i \in 1 .. Len(W) : e[i] = EntryOf(W, va, cs, i)
  BY EnvIs
<1>2. ASSUME NEW i \in 1 .. Len(W), NEW w, w = W[i], NEW y, y = EntryOf(W, va, cs, i)
      PROVE  y.kind = "bind" /\ y.var = v <=> Binds(w, v)
  BY <1>2, EntryKind
<1>3. \A i \in 1 .. Len(W) : e[i].kind = "bind" /\ e[i].var = v <=> Binds(W[i], v)
  BY <1>1, <1>2
<1> HIDE DEF e
<1> QED BY <1>1, <1>3 DEF BindersOf, e

LEMMA SetRefines ==
  ASSUME IInv, IInv', NoCycles(content)', NEW z \in Alive \union {None}, NEW v \in Var \ {Handler}, Set(v, z)
  PROVE  Promise!Set(v, z)
<1> DEFINE e == EnvOf(windlist, var, calls)
           g == GlobalOf(windlist, var)
           n == Len(windlist)
<1>1. windlist \in Seq(Item) /\ calls \in Seq(CallKinds) /\ n \in Nat /\ n \in 0 .. n /\ v \in Var
  BY IInvParts
<1>2. PICK pos : Marks(windlist, calls, pos)
  BY IInvParts DEF Nested
<1>3. /\ windlist' = windlist /\ calls' = calls /\ ran' = <<>> /\ caught' = None /\ over' = over
      /\ At(var', v) = z /\ \A u \in Var \ {v} : At(var', u) = At(var, u)
      /\ Agrees(ContentOf(content), refs', content')
  <2> DEFINE a == Ref(Memory, z)
             r == Rebind(a, v, z)
  <2>1. /\ z \in Maybe /\ a \in Mem /\ a.content = Memory.content /\ a.var = Memory.var
        /\ Counted(a, windlist, Len(windlist), Extra(z)) /\ a.ran = <<>>
    BY RefStep, RefLeaves, MemoryIs
  <2>2. Become(r) /\ windlist' = windlist /\ calls' = calls /\ caught' = None /\ over' = over
    BY <2>1, MemoryFields DEF Set, Stay, Quiet, Rebind
  <2>3. /\ r \in Mem /\ r.ran = a.ran /\ r.var = [a.var EXCEPT ![v] = z] /\ Keeps(a, r)
    <3> HIDE DEF a
    <3> QED BY <1>1, <2>1, RebindCounted
  <2> HIDE DEF r
  <2>4. refs' = r.refs /\ content' = r.content /\ var' = [var EXCEPT ![v] = z] /\ ran' = <<>>
    BY <2>1, <2>2, <2>3, MemoryIs DEF Become
  <2>5. At(var', v) = z /\ \A u \in Var \ {v} : At(var', u) = At(var, u)
    <3>1. var \in [Var -> Maybe]
      BY IInvParts, MemParts, MemoryIs
    <3> QED BY <1>1, <2>4, <3>1 DEF At
  <2>6. Agrees(ContentOf(content), refs', content')
    BY <2>1, <2>3, <2>4, MemoryIs DEF Agrees, Keeps, ContentOf, At
  <2> QED BY <2>2, <2>4, <2>5, <2>6
<1>4. PICK j \in 0 .. n : LastOf(windlist, v, j, n)
  BY <1>1, LastBinder
<1>5. IsSet(windlist, var, v, z, j, var')
  BY <1>1, <1>3, <1>4 DEF IsSet
<1>6. /\ j = 0 => EnvOf(windlist, var', calls) = e /\ GlobalOf(windlist, var') = GlobalSetTo(g, v, z)
      /\ j # 0 => EnvOf(windlist, var', calls) = EnvSetTo(e, j, z) /\ GlobalOf(windlist, var') = g
  BY ONLY <1>5, EnvSet
<1>7. Promise!Binders(v) = BindersOf(e, v)
  BY Views DEF Promise!Binders, BindersOf
<1>8. BindersOf(e, v) = {i \in 1 .. n : Binds(windlist[i], v)}
  BY <1>1, <1>2, BindersAre
<1> HIDE DEF e, g
<1>9. CASE j = 0
  <2>1. EnvOf(windlist', var', calls') = e /\ GlobalOf(windlist', var') = GlobalSetTo(g, v, z)
    BY <1>3, <1>6, <1>9
  <2>2. ASSUME NEW c, Agrees(c, refs', content') PROVE Promise!Become(e, GlobalSetTo(g, v, z), c)
    BY <2>1, <2>2, BecomeIs
  <2>3. Promise!Become(e, GlobalSetTo(g, v, z), ContentOf(content))
    BY <1>3, <2>2 DEF Promise!Become
  <2>4. Promise!Binders(v) = {}
    BY <1>1, <1>4, <1>7, <1>8, <1>9 DEF LastOf
  <2>5. Promise!Become([i \in 1 .. Len(windlist) |-> Entry(i)], [[u \in Var |-> BoundUpTo(u, 0)] EXCEPT ![v] = z],
                       [x \in Val |-> IF content[x] \in Val THEN content[x] ELSE None])
    BY <2>3, Views DEF Promise!Become, GlobalSetTo, e, g
  <2> QED BY <1>3, <2>4, <2>5 DEF Promise!Set, Promise!Quiet, Promise!Become
<1>10. CASE j # 0
  <2>1. EnvOf(windlist', var', calls') = EnvSetTo(e, j, z) /\ GlobalOf(windlist', var') = g
    BY <1>3, <1>6, <1>10
  <2>2. ASSUME NEW c, Agrees(c, refs', content') PROVE Promise!Become(EnvSetTo(e, j, z), g, c)
    BY <2>1, <2>2, BecomeIs
  <2>3. Promise!Become(EnvSetTo(e, j, z), g, ContentOf(content))
    BY <1>3, <2>2 DEF Promise!Become
  <2>4. j \in Promise!Binders(v) /\ \A i \in Promise!Binders(v) : i <= j
    <3>1. j \in 1 .. n /\ Binds(windlist[j], v)
      BY <1>1, <1>4, <1>10 DEF LastOf
    <3>2. \A i \in 1 .. n : Binds(windlist[i], v) => i <= j
      BY <1>1, <1>4 DEF LastOf
    <3> HIDE DEF n
    <3> QED BY <1>7, <1>8, <3>1, <3>2
  <2>5. Promise!Become([[i \in 1 .. Len(windlist) |-> Entry(i)] EXCEPT ![j].val = z], [u \in Var |-> BoundUpTo(u, 0)],
                       [x \in Val |-> IF content[x] \in Val THEN content[x] ELSE None])
    BY <2>3, Views DEF Promise!Become, EnvSetTo, e, g
  <2>6. Promise!Binders(v) # {}
    BY <2>4
  <2> QED BY <1>3, <2>4, <2>5, <2>6 DEF Promise!Set, Promise!Quiet, Promise!Become
<1> QED BY <1>9, <1>10

-----------------------------------------------------------------------------
(***************************************************************************)
(* The steps                                                               *)
(***************************************************************************)
LEMMA ConditionItemsInit ==
  ASSUME Init
  PROVE  ConditionItems(windlist)
BY DEF Init, ConditionItems

LEMMA ConditionItemsThree ==
  ASSUME NEW W \in Seq(Item), NEW a \in Item, NEW b \in Item, NEW c \in Item,
         ~Binds(a, Handler), b.kind = "unref", ConditionItems(W)
  PROVE  ConditionItems(W \o <<a, b, c>>)
<1> DEFINE V1 == Append(W, a)
           V2 == Append(V1, b)
           V == Append(V2, c)
<1>1. V = W \o <<a, b, c>>
  BY AddThree
<1>2. V1 \in Seq(Item) /\ ConditionItems(V1)
  BY Appended, ConditionItemsPush
<1> HIDE DEF V1
<1>3. V2 \in Seq(Item) /\ ConditionItems(V2) /\ Len(V2) \in Nat /\ Len(V2) > 0 /\ V2[Len(V2)] = b
  <2>1. ~Binds(b, Handler)
    BY DEF Binds
  <2>2. ConditionItems(V2)
    BY <1>2, <2>1, ConditionItemsPush
  <2>3. V2 \in Seq(Item) /\ Len(V2) = Len(V1) + 1 /\ Len(V1) \in Nat /\ V2[Len(V1) + 1] = b
    BY <1>2, Appended
  <2> HIDE DEF V2
  <2> QED BY <2>2, <2>3
<1> HIDE DEF V2
<1>4. V \in Seq(Item) /\ Len(V) = Len(V2) + 1 /\ \A i \in 1 .. Len(V2) : V[i] = V2[i]
  BY <1>3, Appended
<1> HIDE DEF V
<1>5. ConditionItems(V)
  <2> SUFFICES ASSUME NEW j \in 1 .. Len(V), Binds(V[j], Handler) PROVE j - 1 \in 1 .. Len(V) /\ V[j - 1].kind = "unref"
    BY DEF ConditionItems
  <2>1. CASE j \in 1 .. Len(V2)
    <3>1. j - 1 \in 1 .. Len(V2) /\ V2[j - 1].kind = "unref"
      BY <1>3, <1>4, <2>1 DEF ConditionItems
    <3> QED BY <1>3, <1>4, <3>1
  <2>2. CASE j = Len(V2) + 1
    <3>1. j - 1 = Len(V2) /\ j - 1 \in 1 .. Len(V2)
      BY <1>3, <2>2
    <3> QED BY <1>3, <1>4, <3>1
  <2> QED BY <1>3, <1>4, <2>1, <2>2
<1> QED BY <1>1, <1>5

LEMMA ConditionItemsCatch ==
  ASSUME IInv, ConditionItems(windlist), NEW h \in Val, CatchCondition(h)
  PROVE  ConditionItems(windlist')
<1> DEFINE t == Len(calls')
<1>1. t \in Target
  <2>1. calls' = Append(calls, "catch") /\ Len(calls) < MaxCalls /\ calls \in Seq(CallKinds) /\ "catch" \in CallKinds
    BY IInvParts DEF CatchCondition, Enter, CallKinds
  <2>2. Len(calls') = Len(calls) + 1 /\ Len(calls) \in Nat
    BY <2>1, Appended
  <2> QED BY <2>1, <2>2, ExtentsAssumption DEF Target
<1>2. windlist' = windlist \o <<TargetItem(t), UnrefItem(h), VarItem(Handler, var[Handler])>>
  BY DEF CatchCondition, Add
<1> HIDE DEF t
<1>3. UnrefItem(h) \in Item /\ UnrefItem(h).kind = "unref"
  BY ItemsAre DEF Maybe
<1>4. VarItem(Handler, var[Handler]) \in Item
  <2>1. var[Handler] \in Maybe
    BY IInvParts, MemParts, MemoryIs, HandlerIsVar
  <2> QED BY <2>1, ItemsAre, HandlerIsVar
<1>5. TargetItem(t) \in Item /\ ~Binds(TargetItem(t), Handler)
  <2>1. TargetItem(t) = [kind |-> "target", target |-> t, value |-> None]
    BY DEF TargetItem
  <2>2. TargetItem(t) \in TargetItems
    BY <1>1, <2>1 DEF TargetItems, Maybe
  <2>3. TargetItem(t).kind # "var"
    BY <2>1
  <2> QED BY <2>2, <2>3 DEF Item, Binds
<1> QED BY <1>2, <1>3, <1>4, <1>5, IInvParts, ConditionItemsThree

LEMMA ConditionItemsAdd ==
  ASSUME IInv, ConditionItems(windlist), NEW w \in Item, ~Binds(w, Handler), Add(<<w>>)
  PROVE  ConditionItems(windlist')
BY IInvParts, ConditionItemsPush DEF Add

LEMMA ConditionItemsSteps ==
  ASSUME IInv, ConditionItems(windlist)
  PROVE  /\ Begin => ConditionItems(windlist')
         /\ Catch => ConditionItems(windlist')
         /\ \A f \in Fun : OnUnwind(f) => ConditionItems(windlist')
         /\ \A x \in Val : \A y : New(x, y) => ConditionItems(windlist')
         /\ \A x \in Alive : Retain(x) => ConditionItems(windlist')
         /\ \A x \in Alive \union {None}, v \in Var \ {Handler} : Let(v, x) => ConditionItems(windlist')
         /\ \A x, v : Set(v, x) => ConditionItems(windlist')
<1>1. Begin => ConditionItems(windlist')
  <2>1. Extent \in Item /\ ~Binds(Extent, Handler)
    BY DEF Item, Extent, Binds
  <2> QED BY <2>1, ConditionItemsAdd DEF Begin
<1>2. Catch => ConditionItems(windlist')
  <2> SUFFICES ASSUME Catch PROVE ConditionItems(windlist')
    OBVIOUS
  <2> DEFINE t == Len(calls')
  <2>1. t \in Target
    <3>1. calls' = Append(calls, "catch") /\ Len(calls) < MaxCalls /\ calls \in Seq(CallKinds) /\ "catch" \in CallKinds
      BY IInvParts DEF Catch, Enter, CallKinds
    <3>2. Len(calls') = Len(calls) + 1 /\ Len(calls) \in Nat
      BY <3>1, Appended
    <3> QED BY <3>1, <3>2, ExtentsAssumption DEF Target
  <2>2. Add(<<TargetItem(t)>>)
    BY DEF Catch
  <2> HIDE DEF t
  <2>3. TargetItem(t) = [kind |-> "target", target |-> t, value |-> None]
    BY DEF TargetItem
  <2>4. TargetItem(t) \in TargetItems
    BY <2>1, <2>3 DEF TargetItems, Maybe
  <2>5. TargetItem(t) \in Item /\ ~Binds(TargetItem(t), Handler)
    BY <2>3, <2>4 DEF Item, Binds
  <2> QED BY <2>2, <2>5, ConditionItemsAdd
<1>3. ASSUME NEW f \in Fun, OnUnwind(f) PROVE ConditionItems(windlist')
  <2>1. FuncItem(f) \in Item /\ ~Binds(FuncItem(f), Handler) /\ Add(<<FuncItem(f)>>)
    BY <1>3, ItemsAre, BindsKind DEF OnUnwind
  <2> QED BY <2>1, ConditionItemsAdd
<1>4. ASSUME NEW x \in Val, NEW y, New(x, y) PROVE ConditionItems(windlist')
  <2>1. UnrefItem(x) \in Item /\ ~Binds(UnrefItem(x), Handler) /\ Add(<<UnrefItem(x)>>)
    BY <1>4, ItemsAre, BindsKind DEF New, Maybe
  <2> QED BY <2>1, ConditionItemsAdd
<1>5. ASSUME NEW x \in Alive, Retain(x) PROVE ConditionItems(windlist')
  <2>1. UnrefItem(x) \in Item /\ ~Binds(UnrefItem(x), Handler) /\ Add(<<UnrefItem(x)>>)
    BY <1>5, IInvParts, ItemsAre, BindsKind DEF Retain
  <2> QED BY <2>1, ConditionItemsAdd
<1>6. ASSUME NEW x \in Alive \union {None}, NEW v \in Var \ {Handler}, Let(v, x) PROVE ConditionItems(windlist')
  <2>1. var[v] \in Maybe
    BY IInvParts, MemParts, MemoryIs
  <2>2. VarItem(v, var[v]) \in Item /\ VarItem(v, var[v]).var = v /\ v # Handler
    BY <2>1, ItemsAre
  <2>3. Add(<<VarItem(v, var[v])>>)
    BY <1>6 DEF Let
  <2> QED BY <2>2, <2>3, ConditionItemsAdd DEF Binds
<1>7. ASSUME NEW x, NEW v, Set(v, x) PROVE ConditionItems(windlist')
  BY <1>7 DEF Set
<1> QED BY <1>1, <1>2, <1>3, <1>4, <1>5, <1>6, <1>7

LEMMA InitRefines ==
  ASSUME Init
  PROVE  Promise!Init
<1>1. [i \in 1 .. Len(windlist) |-> Entry(i)] = <<>>
  <2>1. 1 .. Len(windlist) = {}
    BY DEF Init
  <2> QED BY <2>1
<1>2. [v \in Var |-> BoundUpTo(v, 0)] = [v \in Var |-> None]
  <2>1. \A v \in Var : BoundUpTo(v, 0) = None
    BY DEF Init, BoundUpTo
  <2> QED BY <2>1
<1>3. [x \in Val |-> IF content[x] \in Val THEN content[x] ELSE None] = [x \in Val |-> None]
  BY DEF Init
<1>4. Alive = {}
  BY DEF Init, Alive
<1> QED BY <1>1, <1>2, <1>3, <1>4 DEF Init, Promise!Init

LEMMA StutterRefines ==
  ASSUME UNCHANGED vars
  PROVE  UNCHANGED Promise!vars /\ ConditionItems(windlist') = ConditionItems(windlist)
<1>1. windlist' = windlist /\ var' = var /\ refs' = refs /\ content' = content /\ calls' = calls
      /\ caught' = caught /\ ran' = ran /\ over' = over
  BY DEF vars
<1>2. UNCHANGED [i \in 1 .. Len(windlist) |-> Entry(i)] /\ UNCHANGED [v \in Var |-> BoundUpTo(v, 0)]
      /\ UNCHANGED [x \in Val |-> IF content[x] \in Val THEN content[x] ELSE None]
  BY <1>1, Views, ViewsNext
<1>3. UNCHANGED Alive
  BY <1>1 DEF Alive
<1> QED BY <1>1, <1>2, <1>3 DEF Promise!vars

LEMMA NextRefines ==
  ASSUME IInv, IInv', NoCycles(content)', ConditionItems(windlist), [Next]_vars
  PROVE  [Promise!Next]_(Promise!vars) /\ ConditionItems(windlist')
<1>1. CASE UNCHANGED vars
  BY <1>1, StutterRefines
<1> SUFFICES ASSUME Next PROVE Promise!Next /\ ConditionItems(windlist')
  BY <1>1
<1>2. ~over
  BY DEF Next
<1>3. CASE Begin
  BY <1>2, <1>3, BeginRefines, ConditionItemsSteps DEF Promise!Next
<1>4. CASE End
  <2>1. Promise!End(None) /\ ConditionItems(windlist')
    BY <1>4, EndRefines
  <2> QED BY <1>2, <2>1 DEF Promise!Next
<1>5. CASE Catch
  BY <1>2, <1>5, CatchRefines, ConditionItemsSteps DEF Promise!Next
<1>6. CASE CatchReturns
  BY <1>2, <1>6, CatchReturnsRefines DEF Promise!Next
<1>7. CASE \E f \in Fun : OnUnwind(f)
  BY <1>2, <1>7, OnUnwindRefines, ConditionItemsSteps DEF Promise!Next
<1>8. CASE \E x \in Val : \E y \in Alive \union {None} : New(x, y)
  <2>1. PICK x \in Val, y \in Alive \union {None} : New(x, y)
    BY <1>8
  <2>2. Promise!New(x, y) /\ ConditionItems(windlist')
    BY <2>1, NewRefines, ConditionItemsSteps
  <2>3. y \in Val \union {None}
    BY IInvParts
  <2> QED BY <1>2, <2>2, <2>3 DEF Promise!Next
<1>9. CASE \E x \in Val : CatchCondition(x)
  BY <1>2, <1>9, CatchConditionRefines, ConditionItemsCatch DEF Promise!Next
<1>10. CASE \E x \in Alive : Retain(x)
  BY <1>2, <1>10, RetainRefines, ConditionItemsSteps DEF Promise!Next
<1>11. CASE \E x \in Alive \union {None} : EndWith(x)
  <2>1. PICK x \in Alive \union {None} : Promise!End(x) /\ ConditionItems(windlist')
    BY <1>11, EndWithRefines
  <2> QED BY <1>2, <2>1 DEF Promise!Next
<1>12. CASE \E x \in Alive \union {None} : ThrowTo(x)
  <2>1. PICK x \in Alive \union {None} : Promise!ThrowTo(x) /\ ConditionItems(windlist')
    BY <1>12, ThrowToRefines
  <2> QED BY <1>2, <2>1 DEF Promise!Next
<1>13. CASE \E x \in Alive \union {None} : Signal(x)
  <2>1. PICK x \in Alive \union {None} : Promise!Signal(x) /\ ConditionItems(windlist')
    BY <1>13, SignalRefines
  <2> QED BY <1>2, <2>1 DEF Promise!Next
<1>14. CASE \E x \in Alive \union {None} : \E v \in Var \ {Handler} : Let(v, x)
  <2>1. PICK x \in Alive \union {None}, v \in Var \ {Handler} : Promise!Let(v, x) /\ ConditionItems(windlist')
    BY <1>14, LetRefines, ConditionItemsSteps
  <2> QED BY <1>2, <2>1 DEF Promise!Next
<1>15. CASE \E x \in Alive \union {None} : \E v \in Var \ {Handler} : Set(v, x)
  <2>1. PICK x \in Alive \union {None}, v \in Var \ {Handler} : Promise!Set(v, x) /\ ConditionItems(windlist')
    BY <1>15, SetRefines, ConditionItemsSteps
  <2> QED BY <1>2, <2>1 DEF Promise!Next
<1> QED BY <1>3, <1>4, <1>5, <1>6, <1>7, <1>8, <1>9, <1>10, <1>11, <1>12, <1>13, <1>14, <1>15 DEF Next

LEMMA ConditionItemsIsInvariant == Spec => []ConditionItems(windlist)
<1>1. Init => ConditionItems(windlist)
  BY ConditionItemsInit
<1>2. IInv /\ IInv' /\ NoCycles(content)' /\ ConditionItems(windlist) /\ [Next]_vars => ConditionItems(windlist)'
  <2> SUFFICES ASSUME IInv, IInv', NoCycles(content)', ConditionItems(windlist), [Next]_vars PROVE ConditionItems(windlist)'
    OBVIOUS
  <2>1. ConditionItems(windlist')
    BY NextRefines
  <2> QED BY <2>1
<1> QED BY <1>1, <1>2, IInvIsInvariant, NoCyclesIsInvariant, PTL DEF Spec

-----------------------------------------------------------------------------
(***************************************************************************)
(* Theorems                                                                *)
(***************************************************************************)
\* Every count is the number of the owners (dyn.c:192-216): dyn_let, dyn_set,
\* dyn_end, dyn_end_with, dyn_catch and dyn_throw pass references on and drop
\* them in whatever order the program uses them, and none is lost or dropped
\* twice.
THEOREM ReferencesAreExact == Spec => []RefsExact
BY IInvIsInvariant, IInvIsExact, PTL

\* What a variable, an item of the list or another value has a reference to is
\* not freed: not what a variable is bound to again when its scope ends, and
\* not what is thrown out of the extents that owned it.
THEOREM OwnedIsNeverFreed ==
  Spec => [](/\ \A v \in Var : var[v] \in Val => var[v] \in Alive
             /\ \A i \in 1 .. Len(windlist) : ItemVal(windlist[i]) \in Val => ItemVal(windlist[i]) \in Alive
             /\ \A x \in Val : content[x] \in Val => content[x] \in Alive)
<1>1. ASSUME IInv
      PROVE  /\ \A v \in Var : var[v] \in Val => var[v] \in Alive
             /\ \A i \in 1 .. Len(windlist) : ItemVal(windlist[i]) \in Val => ItemVal(windlist[i]) \in Alive
             /\ \A x \in Val : content[x] \in Val => content[x] \in Alive
  BY <1>1, IInvParts, OwnedIsAlive, MemoryFields DEF Alive
<1> QED BY <1>1, IInvIsInvariant, PTL

\* Nothing leaks: what the list and the variables do not lead to has been freed.
\* Counting could only miss a cycle, and no sequence of calls makes one.
THEOREM NothingLeaks == Spec => [](Alive = Reachable)
BY AliveIsReachable, IInvIsInvariant, NoCyclesIsInvariant, PTL

\* dyn_throw finds the item of its catch, however deep it is and whatever has
\* been unwound before ("Uncaught throw", dyn.c:544, is not for programs that
\* nest their calls): only an error that has no handler ends the program.
THEOREM OnlyUnhandledErrorsEnd == Spec => [][~over /\ over' => var[Handler] = None]_vars
<1>1. ASSUME IInv, [Next]_vars, ~over, over' PROVE var[Handler] = None
  <2> SUFFICES ASSUME var[Handler] # None PROVE FALSE
    OBVIOUS
  <2>1. ASSUME NEW x, NEW t \in 1 .. Len(calls), calls[t] = "catch", Throw(t, x) PROVE FALSE
    <3> DEFINE S == {i \in 1 .. Len(windlist) :
                       /\ windlist[i].kind = "target" /\ windlist[i].target = t
                       /\ windlist[i].value = None}
    <3>1. S # {}
      BY <1>1, <2>1, ThrowGoal
    <3>2. UNCHANGED over
      BY <2>1, <3>1, Zenon DEF Throw
    <3> QED BY <1>1, <3>2
  <2>2. ASSUME NEW x, Signal(x) PROVE FALSE
    BY <1>1, <2>1, <2>2, SignalIsCaught DEF Signal
  <2>3. ASSUME NEW x, ThrowTo(x) PROVE FALSE
    BY <2>1, <2>3 DEF ThrowTo
  <2>4. UNCHANGED over
    BY <1>1, <2>2, <2>3
       DEF Next, Begin, End, Catch, CatchReturns, OnUnwind, New, CatchCondition, Retain, EndWith,
           Let, Set, Enter, Leave, Stay, Quiet, vars
  <2> QED BY <1>1, <2>4
<1> QED BY <1>1, IInvIsInvariant, PTL DEF Spec

\* An error goes to a catch that has not returned: the handler that is bound is
\* never one whose dyn_catch_condition is over (dyn.c:576-598).
THEOREM HandlersAreCurrent ==
  Spec => [](var[Handler] # None => /\ content[var[Handler]] \in 1 .. Len(calls)
                                    /\ calls[content[var[Handler]]] = "catch")
BY SignalIsCaught, IInvIsInvariant, PTL

\* The whole promise of dyn.h:30-72, step by step: whatever way an extent or a
\* catch ends, what was to be done is done once and in reverse order, variables
\* revert to what deep binding finds, exactly the values that nobody owns any
\* more are freed, and a signal gets to the innermost catch of its condition.
\* One list that is unwound, variables that are overwritten and counts do that
\* for any number of items, calls, variables and values.
THEOREM ImplementsScopesHolds == Spec => ImplementsScopes
<1>1. Init => Promise!Init
  BY InitRefines
<1>2. IInv /\ IInv' /\ NoCycles(content)' /\ ConditionItems(windlist) /\ [Next]_vars => [Promise!Next]_(Promise!vars)
  <2> SUFFICES ASSUME IInv, IInv', NoCycles(content)', ConditionItems(windlist), [Next]_vars PROVE [Promise!Next]_(Promise!vars)
    OBVIOUS
  <2> QED BY NextRefines
<1> QED BY <1>1, <1>2, IInvIsInvariant, NoCyclesIsInvariant, ConditionItemsIsInvariant, PTL DEF Spec, ImplementsScopes, Promise!Spec
=============================================================================

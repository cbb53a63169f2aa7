-------------------------- MODULE Workspace_proofs --------------------------
(***************************************************************************)
(* Proofs about the workspace: the counters of dpm_ws_select are exact,    *)
(* the deps mean what the relations mean, and the reversed deps follow     *)
(* from the others, for every database.                                    *)
(***************************************************************************)
EXTENDS Workspace, FiniteSetTheorems, TLAPS

USE DEF Null, Cand, GoalCand, UglyCand

-----------------------------------------------------------------------------
(***************************************************************************)
(* Finiteness                                                              *)
(***************************************************************************)

\* The values of a function with a finite domain are finitely many.
LEMMA FiniteRange ==
  ASSUME NEW S, IsFiniteSet(S), NEW f, f \in [S -> {f[x] : x \in S}]
  PROVE  IsFiniteSet({f[x] : x \in S})
<1>1. f \in Surjection(S, {f[x] : x \in S})
  BY DEF Surjection
<1> QED BY <1>1, FS_Surjection

LEMMA FiniteSeat == IsFiniteSet(Seat)
<1>1. IsFiniteSet({Goal}) /\ IsFiniteSet({Ugly})
  BY FS_Singleton
<1>2. {Goal, Ugly} = {Goal} \union {Ugly}
  OBVIOUS
<1>3. IsFiniteSet({Goal, Ugly})
  BY <1>1, <1>2, FS_Union
<1> QED BY <1>3, WorkspaceAssumption, FS_Union DEF Seat

\* There are finitely many candidates.
LEMMA FiniteCands ==
  ASSUME vers \subseteq Ver
  PROVE  IsFiniteSet(Cands)
<1> DEFINE null == [s \in Seat |-> Null(s)]
           cand == [v \in vers |-> Cand(v)]
           nulls == {null[s] : s \in Seat}
           cands == {cand[v] : v \in vers}
<1>1. IsFiniteSet(nulls)
  <2>1. null \in [Seat -> {null[s] : s \in Seat}]
    OBVIOUS
  <2> HIDE DEF null
  <2> QED BY <2>1, FiniteSeat, FiniteRange
<1>2. IsFiniteSet(vers)
  BY WorkspaceAssumption, FS_Subset
<1>3. IsFiniteSet(cands)
  <2>1. cand \in [vers -> {cand[v] : v \in vers}]
    OBVIOUS
  <2> HIDE DEF cand
  <2> QED BY <1>2, <2>1, FiniteRange
<1>4. IsFiniteSet({GoalCand}) /\ IsFiniteSet({UglyCand})
  BY FS_Singleton
<1>5. {GoalCand, UglyCand} = {GoalCand} \union {UglyCand}
  OBVIOUS
<1>6. IsFiniteSet({GoalCand, UglyCand})
  BY <1>4, <1>5, FS_Union
<1>7. Cands = (nulls \union {GoalCand, UglyCand}) \union cands
  BY DEF Cands
<1> QED BY <1>1, <1>3, <1>6, <1>7, FS_Union

\* Every candidate has a seat; the candidates are some of all candidates.
LEMMA CandsSeated ==
  ASSUME vers \subseteq Ver
  PROVE  Cands \subseteq AllCands /\ \A c \in Cands : c.seat \in Seat
BY WorkspaceAssumption DEF Cands, AllCands, Seat

\* What a candidate depends on is found in the database or in the goal.
AllRelations == (UNION {db.rels[v] : v \in Ver}) \union goal

LEMMA FiniteRelations ==
  ASSUME db \in Databases, goal \in Goals \union {{}}
  PROVE  IsFiniteSet(AllRelations)
<1> DEFINE rels == [v \in Ver |-> db.rels[v]]
<1>1. \A v \in Ver : IsFiniteSet(db.rels[v])
  BY InputAssumption DEF IsDatabase
<1>2. rels \in [Ver -> {rels[v] : v \in Ver}]
  OBVIOUS
<1>3. \A T \in {rels[v] : v \in Ver} : IsFiniteSet(T)
  BY <1>1
<1>4. UNION {db.rels[v] : v \in Ver} = UNION {rels[v] : v \in Ver}
  OBVIOUS
<1>5. IsFiniteSet(goal)
  BY InputAssumption, FS_EmptySet
<1> HIDE DEF rels
<1>6. IsFiniteSet({rels[v] : v \in Ver})
  BY <1>2, WorkspaceAssumption, FiniteRange
<1>7. IsFiniteSet(UNION {rels[v] : v \in Ver})
  BY <1>3, <1>6, FS_UNION
<1> QED BY <1>4, <1>5, <1>7, FS_Union DEF AllRelations

LEMMA FiniteForwardDeps ==
  ASSUME db \in Databases, goal \in Goals \union {{}}, vers \subseteq Ver
  PROVE  IsFiniteSet(ForwardDeps)
<1> DEFINE pairs == Cands \X AllRelations
           dep == [p \in pairs |-> Dep(p[1], p[2])]
<1>1. IsFiniteSet(pairs)
  BY FiniteCands, FiniteRelations, FS_Product
<1>2. dep \in [pairs -> {dep[p] : p \in pairs}]
  OBVIOUS
<1>3. ForwardDeps \subseteq {dep[p] : p \in pairs}
  <2> SUFFICES ASSUME NEW c \in Cands, NEW r \in Relations(c)
               PROVE  Dep(c, r) \in {dep[p] : p \in pairs}
    BY DEF ForwardDeps
  <2>1. r \in AllRelations
    BY FS_EmptySet DEF Relations, AllRelations
  <2>2. <<c, r>> \in pairs /\ dep[<<c, r>>] = Dep(c, r)
    BY <2>1
  <2> QED BY <2>2
<1> HIDE DEF pairs, dep
<1>4. IsFiniteSet({dep[p] : p \in pairs})
  BY <1>1, <1>2, FiniteRange
<1> QED BY <1>3, <1>4, FS_Subset

LEMMA FiniteReverseDeps ==
  ASSUME vers \subseteq Ver, NEW fwd
  PROVE  IsFiniteSet(ReverseDeps(fwd))
<1> DEFINE pairs == Cands \X Seat
           dep == [p \in pairs |-> ReverseDep(fwd, p[1], p[2])]
<1>1. IsFiniteSet(pairs)
  BY FiniteCands, FiniteSeat, FS_Product
<1>2. dep \in [pairs -> {dep[p] : p \in pairs}]
  OBVIOUS
<1>3. ReverseDeps(fwd) \subseteq {dep[p] : p \in pairs}
  <2> SUFFICES ASSUME NEW t \in Cands, NEW s \in Seat
               PROVE  ReverseDep(fwd, t, s) \in {dep[p] : p \in pairs}
    BY DEF ReverseDeps
  <2>1. <<t, s>> \in pairs /\ dep[<<t, s>>] = ReverseDep(fwd, t, s)
    OBVIOUS
  <2> QED BY <2>1
<1> HIDE DEF pairs, dep
<1>4. IsFiniteSet({dep[p] : p \in pairs})
  BY <1>1, <1>2, FiniteRange
<1> QED BY <1>3, <1>4, FS_Subset

-----------------------------------------------------------------------------
(***************************************************************************)
(* The inductive invariant                                                 *)
(***************************************************************************)

\* Counting by Cardinality needs finite sets.
FiniteDeps == IsFiniteSet(deps) /\ \A d \in deps : IsFiniteSet(d.alts)

\* Selecting before the start has nothing to count.
NoDepsYet == ~started => deps = {}

IInv == TypeOK /\ FiniteDeps /\ NoDepsYet /\ CountersExact

THEOREM InitIInv == Init => IInv
<1> SUFFICES ASSUME Init PROVE IInv
  OBVIOUS
<1> USE DEF Init
<1>1. TypeOK
  <2>1. \A s \in Seat : selected[s] \in SeatCands(s) /\ selected[s] \in AllCands
    BY WorkspaceAssumption DEF SeatCands, Cands, AllCands, Seat
  <2> QED BY <2>1 DEF TypeOK
<1>2. FiniteDeps
  BY FS_EmptySet DEF FiniteDeps
<1>3. CountersExact
  <2> SUFFICES ASSUME NEW c \in AllCands
               PROVE  nUnsat[c] = Cardinality({d \in deps : d.cand = c /\ nSelected[d] = 0})
    BY DEF CountersExact
  <2>1. {d \in deps : d.cand = c /\ nSelected[d] = 0} = {}
    OBVIOUS
  <2> QED BY <2>1, FS_EmptySet
<1> QED BY <1>1, <1>2, <1>3 DEF IInv, NoDepsYet

(***************************************************************************)
(* Adding candidates                                                       *)
(***************************************************************************)

\* What every action before the start keeps, whatever it adds and selects.
LEMMA Adding ==
  ASSUME IInv, ~started, NEW S, S \subseteq Ver, Add(S), NoDeps,
         goal' \in Goals \union {{}},
         selected' \in [Seat -> AllCands],
         \A s \in Seat : selected'[s] \in SeatCands(s)'
  PROVE  IInv'
<1> USE DEF IInv, TypeOK, NoDeps
<1>1. TypeOK'
  BY DEF Add, NoDepsYet
<1>2. FiniteDeps'
  BY DEF FiniteDeps
<1>3. CountersExact'
  <2>1. deps = {}
    BY DEF NoDepsYet
  <2> SUFFICES ASSUME NEW c \in AllCands
               PROVE  nUnsat'[c] = Cardinality({d \in deps' : d.cand = c /\ nSelected'[d] = 0})
    BY <2>1 DEF CountersExact, AllCands
  <2>2. {d \in deps : d.cand = c /\ nSelected[d] = 0} = {}
    BY <2>1
  <2>3. {d \in deps' : d.cand = c /\ nSelected'[d] = 0} = {}
    BY <2>1
  <2> QED BY <2>2, <2>3 DEF CountersExact
<1> QED BY <1>1, <1>2, <1>3 DEF NoDepsYet

\* A candidate stays one when candidates are added.
LEMMA StillSeated ==
  ASSUME IInv, NEW S, Add(S), UNCHANGED selected
  PROVE  /\ selected' \in [Seat -> AllCands]
         /\ \A s \in Seat : selected'[s] \in SeatCands(s)'
BY DEF IInv, TypeOK, Add, SeatCands, Cands

LEMMA AddStep ==
  ASSUME IInv, NEW v \in Ver, AddCand(v) \/ AddCandAndDeps(v)
  PROVE  IInv'
<1>1. CASE AddCand(v)
  BY <1>1, Adding, StillSeated DEF AddCand, IInv, TypeOK
<1>2. CASE AddCandAndDeps(v)
  <2>1. WithDeps({v}) \subseteq Ver
    BY DEF WithDeps
  <2> QED BY <1>2, <2>1, Adding, StillSeated DEF AddCandAndDeps, IInv, TypeOK
<1> QED BY <1>1, <1>2

LEMMA SetGoalStep ==
  ASSUME IInv, NEW g \in Goals, SetGoal(g)
  PROVE  IInv'
<1> DEFINE S == WithDeps(UNION {RelationCands(r) : r \in {r \in g : ~r.conf}})
<1>1. S \subseteq Ver
  BY DEF WithDeps
<1>2. Add(S) /\ ~started /\ NoDeps /\ goal' \in Goals \union {{}} /\ UNCHANGED selected
  BY DEF SetGoal
<1> HIDE DEF S
<1> QED BY <1>1, <1>2, Adding, StillSeated

LEMMA AddAndSelectSeated ==
  ASSUME IInv, NEW S, S \subseteq Ver, AddAndSelect(S)
  PROVE  /\ selected' \in [Seat -> AllCands]
         /\ \A s \in Seat : selected'[s] \in SeatCands(s)'
<1> SUFFICES ASSUME NEW s \in Seat
             PROVE  selected'[s] \in AllCands /\ selected'[s] \in SeatCands(s)'
  BY DEF AddAndSelect
<1>1. CASE \E v \in S : PkgOf[v] = s
  <2>1. PICK v \in S : PkgOf[v] = s /\ selected'[s] = Cand(v)
    BY <1>1 DEF AddAndSelect
  <2> QED BY <2>1 DEF AddAndSelect, Add, SeatCands, Cands, AllCands
<1>2. CASE ~\E v \in S : PkgOf[v] = s
  BY <1>2 DEF AddAndSelect, Add, IInv, TypeOK, SeatCands, Cands
<1> QED BY <1>1, <1>2

LEMMA AddInstalledStep ==
  ASSUME IInv, AddInstalled
  PROVE  IInv'
<1>1. db.installed \subseteq Ver
  BY InputAssumption DEF IInv, TypeOK, IsDatabase
<1>2. goal' \in Goals \union {{}}
  BY DEF IInv, TypeOK, AddInstalled
<1> QED BY <1>1, <1>2, Adding, AddAndSelectSeated DEF AddInstalled, AddAndSelect

LEMMA AddBestStep ==
  ASSUME IInv, AddBest
  PROVE  IInv'
<1> DEFINE S == UNION {LET best == Best({w \in Ver : PkgOf[w] = PkgOf[v]})
                       IN IF best = {} THEN {v} ELSE best : v \in db.installed}
<1>1. S \subseteq Ver
  BY InputAssumption DEF IInv, TypeOK, IsDatabase, Best
<1>2. AddAndSelect(S) /\ ~started /\ NoDeps /\ goal' \in Goals \union {{}}
  BY DEF AddBest, IInv, TypeOK
<1> HIDE DEF S
<1> QED BY <1>1, <1>2, Adding, AddAndSelectSeated DEF AddAndSelect

-----------------------------------------------------------------------------
(***************************************************************************)
(* Starting                                                                *)
(***************************************************************************)

\* A dep belongs to a candidate, and its alternatives are candidates.
LEMMA ForwardDepsTyped ==
  ASSUME NEW d \in ForwardDeps
  PROVE  d.cand \in Cands /\ d.alts \subseteq Cands /\ d.reversed = FALSE
<1>1. PICK c \in Cands : \E r \in Relations(c) : d = Dep(c, r)
  BY DEF ForwardDeps
<1>0. PICK r \in Relations(c) : d = Dep(c, r)
  BY <1>1
<1>2. \A a : AltCands(a, r.conf) \subseteq Cands
  BY DEF AltCands, SeatCands, Providers
<1>3. UglyCand \in Cands
  BY DEF Cands
<1> QED BY <1>0, <1>1, <1>2, <1>3 DEF Dep

LEMMA ReverseDepsTyped ==
  ASSUME NEW d \in ReverseDeps(ForwardDeps)
  PROVE  d.cand \in Cands /\ d.alts \subseteq Cands /\ d.reversed = TRUE
<1>1. PICK t \in Cands, s \in Seat : d = ReverseDep(ForwardDeps, t, s)
  BY DEF ReverseDeps
<1>2. \A c : SiblingDeps(ForwardDeps, t, c) \subseteq ForwardDeps
  BY DEF SiblingDeps
<1>3. \A x \in ForwardDeps : x.alts \subseteq Cands
  BY ForwardDepsTyped
<1> QED BY <1>1, <1>2, <1>3 DEF ReverseDep, SeatCands

LEMMA StartStep ==
  ASSUME IInv, Start
  PROVE  IInv'
<1> USE DEF IInv
<1>1. vers \subseteq Ver /\ Cands' = Cands /\ Cands \subseteq AllCands
  BY CandsSeated DEF TypeOK, Start, Cands
<1>2. IsFiniteSet(deps')
  BY <1>1, FiniteForwardDeps, FiniteReverseDeps, FS_Union DEF Start, TypeOK
<1>3. \A d \in deps' : d.cand \in Cands /\ d.alts \subseteq Cands
  BY ForwardDepsTyped, ReverseDepsTyped DEF Start
<1>4. \A d \in deps' : IsFiniteSet(d.alts) /\ IsFiniteSet(SelectedAlts(d, selected))
  BY <1>1, <1>3, FiniteCands, FS_Subset DEF SelectedAlts
<1>5. nSelected' \in [deps' -> Nat]
  BY <1>4, FS_CardinalityType DEF Start
<1>6. nUnsat' \in [AllCands -> Nat]
  <2>1. \A c : IsFiniteSet({d \in deps' : d.cand = c /\ nSelected'[d] = 0})
    BY <1>2, FS_Subset
  <2> QED BY <2>1, FS_CardinalityType DEF Start
<1>7. TypeOK'
  BY <1>1, <1>3, <1>5, <1>6 DEF TypeOK, Start, SeatCands
<1>8. CountersExact'
  BY DEF CountersExact, Start, SelectedAlts
<1> QED BY <1>2, <1>4, <1>7, <1>8 DEF FiniteDeps, NoDepsYet, Start

-----------------------------------------------------------------------------
(***************************************************************************)
(* Selecting                                                               *)
(***************************************************************************)

\* How many alternatives are selected after another candidate of a seat is.
LEMMA CountAfterSelecting ==
  ASSUME NEW d, IsFiniteSet(d.alts), NEW c, NEW sel, c.seat \in DOMAIN sel,
         sel[c.seat] # c, sel[c.seat].seat = c.seat,
         \A a \in d.alts : a.seat \in DOMAIN sel
  PROVE  Cardinality(SelectedAlts(d, [sel EXCEPT ![c.seat] = c])) =
           (IF sel[c.seat] \in d.alts
            THEN Cardinality(SelectedAlts(d, sel)) - 1
            ELSE Cardinality(SelectedAlts(d, sel)))
           + (IF c \in d.alts THEN 1 ELSE 0)
<1> DEFINE old == sel[c.seat]
           alts == d.alts
           X == SelectedAlts(d, sel)
           Y == SelectedAlts(d, [sel EXCEPT ![c.seat] = c])
<1>1. IsFiniteSet(X) /\ c \notin X /\ (old \in X <=> old \in alts)
  BY FS_Subset DEF SelectedAlts
<1>2. IsFiniteSet(X \ {old}) /\ Cardinality(X \ {old}) \in Nat /\ Cardinality(X) \in Nat
  BY <1>1, FS_RemoveElement, FS_CardinalityType
<1>3. Cardinality(X \ {old}) = IF old \in alts THEN Cardinality(X) - 1 ELSE Cardinality(X)
  BY <1>1, FS_RemoveElement
<1>4. CASE c \in alts
  <2>1. Y = (X \ {old}) \union {c}
    BY <1>4 DEF SelectedAlts
  <2>2. Cardinality(Y) = Cardinality(X \ {old}) + 1
    BY <1>1, <1>2, <2>1, FS_AddElement
  <2> QED BY <1>3, <1>4, <2>2
<1>5. CASE c \notin alts
  <2>1. Y = X \ {old}
    BY <1>5 DEF SelectedAlts
  <2>2. Cardinality(Y) = Cardinality(X \ {old})
    BY <2>1
  <2> HIDE DEF X, Y
  <2>3. Cardinality(Y) = (IF old \in alts THEN Cardinality(X) - 1 ELSE Cardinality(X))
                         + (IF c \in alts THEN 1 ELSE 0)
    BY <1>2, <1>3, <1>5, <2>2
  <2> QED BY <2>3 DEF X, Y
<1> QED BY <1>4, <1>5

LEMMA SelectStep ==
  ASSUME IInv, NEW c \in Cands, Select(c)
  PROVE  IInv'
<1> USE DEF IInv
<1> DEFINE old == selected[c.seat]
           n1 == Lose(nSelected, old)
           n2 == Gain(n1, c)
<1>1. /\ Cands' = Cands /\ Cands \subseteq AllCands
      /\ \A a \in Cands : a.seat \in Seat
      /\ c.seat \in Seat
      /\ selected \in [Seat -> AllCands]
      /\ old.seat = c.seat /\ old # c
  BY CandsSeated DEF TypeOK, Select, Cands, SeatCands
<1>2. /\ nSelected' = n2
      /\ deps' = deps
      /\ selected' = [selected EXCEPT ![c.seat] = c]
      /\ nUnsat' = [k \in AllCands |-> nUnsat[k] + Broken(n1, old, k) - Broken(n1, c, k)]
  BY DEF Select
<1>3. ASSUME NEW d \in deps
      PROVE  /\ nSelected[d] \in Nat
             /\ old \in d.alts => nSelected[d] > 0
             /\ n1[d] = IF old \in d.alts THEN nSelected[d] - 1 ELSE nSelected[d]
             /\ n1[d] \in Nat
             /\ n2[d] = IF c \in d.alts THEN n1[d] + 1 ELSE n1[d]
             /\ n2[d] \in Nat
             /\ n2[d] = Cardinality(SelectedAlts(d, selected'))
  <2>1. IsFiniteSet(SelectedAlts(d, selected)) /\ IsFiniteSet(d.alts)
    BY FS_Subset DEF FiniteDeps, SelectedAlts
  <2>2. nSelected[d] = Cardinality(SelectedAlts(d, selected)) /\ nSelected[d] \in Nat
    BY DEF CountersExact, TypeOK
  <2>3. old \in d.alts => nSelected[d] > 0
    <3> SUFFICES ASSUME old \in d.alts PROVE nSelected[d] # 0
      BY <2>2
    <3>1. old \in SelectedAlts(d, selected)
      BY <1>1 DEF SelectedAlts
    <3> QED BY <2>1, <2>2, <3>1, FS_EmptySet
  <2>4. n1[d] = IF old \in d.alts THEN nSelected[d] - 1 ELSE nSelected[d]
    BY DEF Lose
  <2>5. n2[d] = IF c \in d.alts THEN n1[d] + 1 ELSE n1[d]
    BY DEF Gain
  <2>6. n1[d] \in Nat
    BY <2>2, <2>3, <2>4
  <2>7. n2[d] = Cardinality(SelectedAlts(d, selected'))
    <3>1. \A a \in d.alts : a.seat \in DOMAIN selected
      BY <1>1 DEF TypeOK
    <3>2. Cardinality(SelectedAlts(d, selected')) =
            (IF old \in d.alts
             THEN Cardinality(SelectedAlts(d, selected)) - 1
             ELSE Cardinality(SelectedAlts(d, selected)))
            + (IF c \in d.alts THEN 1 ELSE 0)
      <4>1. c.seat \in DOMAIN selected /\ selected[c.seat] # c /\ selected[c.seat].seat = c.seat
        BY <1>1
      <4> QED BY <1>2, <2>1, <3>1, <4>1, CountAfterSelecting
    <3> QED BY <2>2, <2>4, <2>5, <2>6, <3>2
  <2> QED BY <2>2, <2>3, <2>4, <2>5, <2>6, <2>7
<1>4. ASSUME NEW k \in AllCands
      PROVE  nUnsat'[k] = Cardinality({d \in deps : d.cand = k /\ n2[d] = 0})
  <2> DEFINE U0 == {d \in deps : d.cand = k /\ nSelected[d] = 0}
             B1 == {d \in deps : d.cand = k /\ old \in d.alts /\ n1[d] = 0}
             B2 == {d \in deps : d.cand = k /\ c \in d.alts /\ n1[d] = 0}
             U1 == {d \in deps : d.cand = k /\ n1[d] = 0}
             U2 == {d \in deps : d.cand = k /\ n2[d] = 0}
  <2>1. IsFiniteSet(U0) /\ IsFiniteSet(B1) /\ IsFiniteSet(U1) /\ IsFiniteSet(B2)
    BY FS_Subset DEF FiniteDeps
  <2>2. U1 = U0 \union B1 /\ U0 \intersect B1 = {}
    BY <1>3
  <2>3. U2 = U1 \ B2 /\ U1 \intersect B2 = B2
    BY <1>3
  <2>4. nUnsat'[k] = Cardinality(U0) + Cardinality(B1) - Cardinality(B2)
    BY <1>2 DEF CountersExact, Broken
  <2> HIDE DEF U0, B1, B2, U1, U2
  <2>8. /\ Cardinality(U0) \in Nat /\ Cardinality(B1) \in Nat
        /\ Cardinality(U1) \in Nat /\ Cardinality(B2) \in Nat
    BY <2>1, FS_CardinalityType
  <2>5. Cardinality(U1) = Cardinality(U0) + Cardinality(B1)
    <3>1. Cardinality(U0 \union B1) = Cardinality(U0) + Cardinality(B1) - Cardinality(U0 \intersect B1)
      BY <2>1, FS_Union
    <3>2. Cardinality(U0 \intersect B1) = 0
      BY <2>2, FS_EmptySet
    <3> QED BY <2>2, <2>8, <3>1, <3>2
  <2>6. Cardinality(U2) = Cardinality(U1) - Cardinality(B2)
    BY <2>1, <2>3, FS_Difference
  <2>7. nUnsat'[k] = Cardinality(U2)
    BY <2>4, <2>5, <2>6, <2>8
  <2> QED BY <2>7 DEF U2
<1>5. CountersExact'
  BY <1>2, <1>3, <1>4 DEF CountersExact, AllCands, SelectedAlts
<1>6. nSelected' \in [deps' -> Nat]
  BY <1>2, <1>3 DEF Gain
<1>7. nUnsat' \in [AllCands -> Nat]
  <2>1. \A k \in AllCands : IsFiniteSet({d \in deps : d.cand = k /\ n2[d] = 0})
    BY FS_Subset DEF FiniteDeps
  <2> QED BY <1>2, <1>4, <2>1, FS_CardinalityType
<1>8. \A s \in Seat : selected'[s] \in SeatCands(s)' /\ selected'[s] \in AllCands
  BY <1>1, <1>2 DEF TypeOK, SeatCands
<1>9. TypeOK'
  BY <1>1, <1>2, <1>6, <1>7, <1>8 DEF TypeOK, Select
<1> QED BY <1>2, <1>5, <1>9 DEF FiniteDeps, NoDepsYet, Select

-----------------------------------------------------------------------------
(***************************************************************************)
(* The counters                                                            *)
(***************************************************************************)
LEMMA StepIInv == IInv /\ [Next]_vars => IInv'
<1> SUFFICES ASSUME IInv, [Next]_vars PROVE IInv'
  OBVIOUS
<1>1. CASE \E v \in Ver : AddCand(v) \/ AddCandAndDeps(v)
  BY <1>1, AddStep
<1>2. CASE AddInstalled
  BY <1>2, AddInstalledStep
<1>3. CASE AddBest
  BY <1>3, AddBestStep
<1>4. CASE \E g \in Goals : SetGoal(g)
  BY <1>4, SetGoalStep
<1>5. CASE Start
  BY <1>5, StartStep
<1>6. CASE \E c \in Cands : Select(c)
  BY <1>6, SelectStep
<1>7. CASE UNCHANGED vars
  BY <1>7 DEF vars, IInv, TypeOK, SeatCands, Cands, FiniteDeps, NoDepsYet, CountersExact, SelectedAlts
<1> QED BY <1>1, <1>2, <1>3, <1>4, <1>5, <1>6, <1>7 DEF Next

THEOREM Invariance == Spec => []IInv
<1>1. Init => IInv
  BY InitIInv
<1>2. IInv /\ [Next]_vars => IInv'
  BY StepIInv
<1> QED BY <1>1, <1>2, PTL DEF Spec

\* Every variable keeps its type, whatever the database and the goal are; in
\* particular no counter of dpm_ws_select goes below zero.
THEOREM TypeCorrect == Spec => []TypeOK
<1>1. IInv => TypeOK
  BY DEF IInv
<1> QED BY <1>1, Invariance, PTL

\* The counters of dpm_ws_select never drift from what they count, for every
\* database, goal and order of selections: dpm_dep_satisfied and
\* dpm_cand_satisfied can be trusted.
THEOREM Counters == Spec => []CountersExact
<1>1. IInv => CountersExact
  BY DEF IInv
<1> QED BY <1>1, Invariance, PTL

-----------------------------------------------------------------------------
(***************************************************************************)
(* The deps of a started workspace                                         *)
(***************************************************************************)

\* The deps are the ones dpm_ws_start computed: nothing they are computed from
\* changes afterwards.
DepsComputed ==
  deps = IF started THEN ForwardDeps \union ReverseDeps(ForwardDeps) ELSE {}

\* A step computes them, or leaves them and all they are computed from alone.
LEMMA DepsComputedStep == DepsComputed /\ [Next]_vars => DepsComputed'
<1> SUFFICES ASSUME DepsComputed, [Next]_vars PROVE DepsComputed'
  OBVIOUS
<1>1. CASE ~started /\ ~started' /\ UNCHANGED deps
  BY <1>1 DEF DepsComputed
<1>2. CASE UNCHANGED <<db, goal, vers>> /\ (started => UNCHANGED <<started, deps>>)
           /\ (~started => Start)
  <2>1. ForwardDeps' = ForwardDeps
    BY <1>2 DEF ForwardDeps, Dep, Relations, AlwaysSatisfied, AltCands, Providers, SeatCands, Cands
  <2>2. ReverseDeps(ForwardDeps)' = ReverseDeps(ForwardDeps)
    <3> DEFINE F == ForwardDeps
    <3>1. ReverseDeps(F)' = ReverseDeps(F)
      BY <1>2, <2>1 DEF ReverseDeps, ReverseDep, SiblingDeps, SeatCands, Cands
    <3> QED BY <3>1
  <2> QED BY <1>2, <2>1, <2>2 DEF DepsComputed, Start
<1>3. CASE UNCHANGED <<db, goal, vers, started, deps>>
  <2>1. CASE started
    BY <1>2, <1>3, <2>1
  <2>2. CASE ~started
    BY <1>1, <1>3, <2>2
  <2> QED BY <2>1, <2>2
<1>4. CASE \E v \in Ver : AddCand(v) \/ AddCandAndDeps(v)
  BY <1>1, <1>4 DEF AddCand, AddCandAndDeps, NoDeps
<1>5. CASE AddInstalled \/ AddBest \/ \E g \in Goals : SetGoal(g)
  BY <1>1, <1>5 DEF AddInstalled, AddBest, SetGoal, NoDeps
<1>6. CASE Start
  BY <1>2, <1>6 DEF Start
<1>7. CASE \E c \in Cands : Select(c)
  BY <1>3, <1>7 DEF Select
<1>8. CASE UNCHANGED vars
  BY <1>3, <1>8 DEF vars
<1> QED BY <1>4, <1>5, <1>6, <1>7, <1>8 DEF Next

THEOREM DepsInvariance == Spec => []DepsComputed
<1>1. Init => DepsComputed
  BY DEF Init, DepsComputed
<1> QED BY <1>1, DepsComputedStep, PTL DEF Spec

-----------------------------------------------------------------------------
(***************************************************************************)
(* What deps mean                                                          *)
(***************************************************************************)

\* A selection has one candidate of each seat.
LEMMA SelectionSeated ==
  ASSUME NEW sel \in Selections, NEW s \in Seat
  PROVE  sel[s] \in SeatCands(s)
BY WorkspaceAssumption DEF Selections, SeatCands, Cands, Seat

\* The deps that stand for a relation: one, or none when it always holds.
LEMMA DepsOfRelation ==
  ASSUME started, DepsComputed, NEW v \in vers, v \in Ver, NEW r \in db.rels[v],
         NEW d
  PROVE  d \in deps /\ ~d.reversed /\ d.cand = Cand(v) /\ d.src = r
           <=> ~AlwaysSatisfied(r) /\ d = Dep(Cand(v), r)
<1>1. deps = ForwardDeps \union ReverseDeps(ForwardDeps)
  BY DEF DepsComputed
<1>2. \A x \in ReverseDeps(ForwardDeps) : x.reversed
  BY DEF ReverseDeps, ReverseDep
<1>3. \A c, q : Dep(c, q).cand = c /\ Dep(c, q).src = q /\ ~Dep(c, q).reversed
  BY DEF Dep
<1>4. d \in ForwardDeps <=> \E c \in Cands : \E q \in Relations(c) : ~AlwaysSatisfied(q) /\ d = Dep(c, q)
  BY DEF ForwardDeps
<1>5. Cand(v) \in Cands /\ Relations(Cand(v)) = db.rels[v]
  BY DEF Cands, Relations
<1> HIDE DEF Cand
<1>6. CASE d \in ForwardDeps
  BY <1>1, <1>3, <1>4, <1>5, <1>6
<1>7. CASE d \notin ForwardDeps
  BY <1>1, <1>2, <1>3, <1>4, <1>5, <1>7
<1> QED BY <1>6, <1>7

\* The test of a dependency, in which `#` is an exclusive or.
LEMMA SatisfiesDependency ==
  ASSUME NEW x, NEW a, ~a.null
  PROVE  Satisfies(x, a, FALSE) <=> x.ver \in a.vers
<1> DEFINE match == IF a.null THEN x.ver \notin Ver ELSE x.ver \in a.vers
<1>1. match \in BOOLEAN /\ (match <=> x.ver \in a.vers)
  OBVIOUS
<1>2. Satisfies(x, a, FALSE) <=> FALSE # match
  BY DEF Satisfies
<1> HIDE DEF match
<1>3. (FALSE # match) <=> match
  BY <1>1
<1> QED BY <1>1, <1>2, <1>3

\* A dependency holds when a selected candidate matches or provides, which are
\* the alternatives of its dep.
LEMMA DependencyMeans ==
  ASSUME TypeOK, NEW sel \in Selections, NEW c, NEW r,
         r.conf = FALSE, \A a \in r.alts : a.pkg \in Pkg /\ ~a.null
  PROVE  /\ Holds(r, sel) <=> Satisfied(Dep(c, r), sel)
         /\ AlwaysSatisfied(r) => Holds(r, sel)
<1>1. \A s \in Seat : sel[s] \in SeatCands(s) /\ sel[s].seat = s
  BY SelectionSeated DEF SeatCands
<1>2. Pkg \subseteq Seat /\ Ugly \in Seat
  BY DEF Seat
<1>3. \A x \in Cands : x.ver \in Ver => x.seat \in Pkg
  BY WorkspaceAssumption DEF Cands
<1>4. ASSUME NEW a \in r.alts
      PROVE  (\E x \in AltCands(a, FALSE) : sel[x.seat] = x)
               <=> \/ sel[a.pkg].ver \in a.vers
                   \/ \E s \in Pkg : sel[s].ver \in Ver /\ a.pkg \in db.provides[sel[s].ver]
  <2>1. AltCands(a, FALSE) = {x \in SeatCands(a.pkg) : x.ver \in a.vers} \union Providers(a.pkg)
    <3>1. \A x : Satisfies(x, a, FALSE) <=> x.ver \in a.vers
      BY SatisfiesDependency
    <3> QED BY <3>1 DEF AltCands
  <2>2. (\E x \in SeatCands(a.pkg) : x.ver \in a.vers /\ sel[x.seat] = x) <=> sel[a.pkg].ver \in a.vers
    BY <1>1, <1>2 DEF SeatCands
  <2>3. (\E x \in Providers(a.pkg) : sel[x.seat] = x)
          <=> \E s \in Pkg : sel[s].ver \in Ver /\ a.pkg \in db.provides[sel[s].ver]
    <3>1. \A s \in Pkg : sel[s] \in Cands /\ sel[s].seat = s
      BY <1>1, <1>2 DEF SeatCands
    <3> QED BY <1>3, <3>1 DEF Providers
  <2> QED BY <2>1, <2>2, <2>3
<1>5. Satisfied(Dep(c, r), sel)
        <=> \/ \E a \in r.alts : \E x \in AltCands(a, FALSE) : sel[x.seat] = x
            \/ r.type = "recommends" /\ sel[Ugly] = UglyCand
  <2>1. Dep(c, r).alts = (UNION {AltCands(a, FALSE) : a \in r.alts})
                           \union (IF r.type = "recommends" THEN {UglyCand} ELSE {})
    BY DEF Dep
  <2> DEFINE ugly == IF r.type = "recommends" THEN {UglyCand} ELSE {}
             of == UNION {AltCands(a, FALSE) : a \in r.alts}
  <2>2. (\E x \in ugly : sel[x.seat] = x) <=> r.type = "recommends" /\ sel[Ugly] = UglyCand
    OBVIOUS
  <2>3. (\E x \in of : sel[x.seat] = x) <=> \E a \in r.alts : \E x \in AltCands(a, FALSE) : sel[x.seat] = x
    OBVIOUS
  <2>4. Satisfied(Dep(c, r), sel) <=> \E x \in of \union ugly : sel[x.seat] = x
    BY <2>1 DEF Satisfied
  <2> HIDE DEF of, ugly
  <2> QED BY <2>2, <2>3, <2>4
<1>6. Holds(r, sel)
        <=> \/ \E a \in r.alts : sel[a.pkg].ver \in a.vers
            \/ \E a \in r.alts : \E s \in Pkg : sel[s].ver \in Ver /\ a.pkg \in db.provides[sel[s].ver]
            \/ r.type = "recommends" /\ sel[Ugly] = UglyCand
  BY DEF Holds
<1>7. Holds(r, sel) <=> Satisfied(Dep(c, r), sel)
  BY <1>4, <1>5, <1>6
<1>8. AlwaysSatisfied(r) => Holds(r, sel)
  <2>1. \A a \in r.alts : \A x : Satisfies(x, a, r.conf) <=> x.ver \in a.vers
    BY SatisfiesDependency
  <2> QED BY <1>1, <1>2, <1>6, <2>1 DEF AlwaysSatisfied
<1> QED BY <1>7, <1>8

\* A conflict holds when the one candidate that it is about is not selected.
LEMMA ConflictMeans ==
  ASSUME TypeOK, NEW sel \in Selections, NEW c, NEW r, NEW a,
         r.conf = TRUE, r.type # "recommends", r.alts = {a}, a.pkg \in Pkg, ~a.null
  PROVE  /\ Holds(r, sel) <=> Satisfied(Dep(c, r), sel)
         /\ AlwaysSatisfied(r) => Holds(r, sel)
<1>1. sel[a.pkg] \in SeatCands(a.pkg) /\ sel[a.pkg].seat = a.pkg
  BY SelectionSeated DEF SeatCands, Seat
<1>2. Holds(r, sel) <=> sel[a.pkg].ver \notin a.vers
  BY DEF Holds
<1>3. Dep(c, r).alts = {x \in SeatCands(a.pkg) : x.ver \notin a.vers}
  <2>1. AltCands(a, TRUE) = {x \in SeatCands(a.pkg) : x.ver \notin a.vers}
    BY DEF AltCands, Satisfies
  <2> QED BY <2>1 DEF Dep
<1>4. Satisfied(Dep(c, r), sel) <=> sel[a.pkg].ver \notin a.vers
  BY <1>1, <1>3 DEF Satisfied, SeatCands
<1>5. AlwaysSatisfied(r) => sel[a.pkg].ver \notin a.vers
  BY <1>1 DEF AlwaysSatisfied, Satisfies
<1> QED BY <1>2, <1>4, <1>5

LEMMA DepsMean == IInv /\ DepsComputed => DepsMeanRelations
<1> SUFFICES ASSUME IInv, DepsComputed, started,
                    NEW v \in vers, NEW r \in db.rels[v], NEW sel \in Selections
             PROVE  Holds(r, sel) <=>
                      \A d \in deps : ~d.reversed /\ d.cand = Cand(v) /\ d.src = r => Satisfied(d, sel)
  BY DEF DepsMeanRelations
<1> HIDE DEF Cand
<1>1. v \in Ver /\ TypeOK
  BY DEF IInv, TypeOK
<1>2. (\A d \in deps : ~d.reversed /\ d.cand = Cand(v) /\ d.src = r => Satisfied(d, sel))
        <=> (~AlwaysSatisfied(r) => Satisfied(Dep(Cand(v), r), sel))
  BY <1>1, DepsOfRelation
<1>3. /\ \A a \in r.alts : a.pkg \in Pkg /\ ~a.null
      /\ r.conf \in BOOLEAN
      /\ r.conf => r.type # "recommends" /\ \E a \in r.alts : r.alts = {a}
  BY <1>1, InputAssumption DEF TypeOK, IsDatabase, IsRelation
<1>4. /\ Holds(r, sel) <=> Satisfied(Dep(Cand(v), r), sel)
      /\ AlwaysSatisfied(r) => Holds(r, sel)
  <2>1. CASE r.conf = FALSE
    BY <1>1, <1>3, <2>1, DependencyMeans
  <2>2. CASE r.conf
    BY <1>1, <1>3, <2>2, ConflictMeans
  <2> QED BY <1>3, <2>1, <2>2
<1> QED BY <1>2, <1>4

\* In every selection the deps that dpm_ws_start makes of a version's relation,
\* if it makes any, are satisfied just when the relation holds: by versions,
\* providers, or for a recommendation by the ugly seat.
THEOREM DepsSayRelations == Spec => []DepsMeanRelations
<1> QED BY DepsMean, Invariance, DepsInvariance, PTL

-----------------------------------------------------------------------------
(***************************************************************************)
(* The reversed deps                                                       *)
(***************************************************************************)

\* The candidate of seat s that is selected along with t either has no dep on
\* a sibling of t, and is an alternative itself, or what satisfies that dep is
\* one.
LEMMA ReverseDepSatisfied ==
  ASSUME NEW fwd, NEW sel \in Selections, NEW t, NEW s \in Seat,
         sel[t.seat] = t,
         \A d \in fwd : sel[d.cand.seat] = d.cand => Satisfied(d, sel)
  PROVE  Satisfied(ReverseDep(fwd, t, s), sel)
<1> DEFINE c == sel[s]
           r == ReverseDep(fwd, t, s)
<1>1. c \in SeatCands(s) /\ sel[c.seat] = c
  BY SelectionSeated DEF SeatCands
<1>2. CASE SiblingDeps(fwd, t, c) = {}
  <2>1. c \in r.alts
    BY <1>1, <1>2 DEF ReverseDep
  <2> QED BY <1>1, <2>1 DEF Satisfied
<1>3. CASE SiblingDeps(fwd, t, c) # {}
  <2>1. PICK d \in SiblingDeps(fwd, t, c) : TRUE
    BY <1>3
  <2>2. d \in fwd /\ d.cand = c /\ t \notin d.alts
    BY <2>1 DEF SiblingDeps
  <2>3. PICK a \in d.alts : sel[a.seat] = a
    BY <1>1, <2>2 DEF Satisfied
  <2>4. a.seat # t.seat
    BY <2>2, <2>3
  <2>5. a \in r.alts
    BY <1>1, <2>1, <2>3, <2>4 DEF ReverseDep
  <2> QED BY <2>3, <2>5 DEF Satisfied
<1> QED BY <1>2, <1>3

\* The reversed deps rule out nothing that the deps allow: an installation
\* where every selected candidate has what it depends on satisfies the reversed
\* deps of all of them, for every database.
THEOREM ReversedDepsSound == Spec => []ReversedDepsImplied
<1>1. DepsComputed => ReversedDepsImplied
  <2> SUFFICES ASSUME DepsComputed, NEW sel \in Selections, AllSatisfied(sel, FALSE),
                      NEW d \in deps, d.reversed = TRUE, sel[d.cand.seat] = d.cand
               PROVE  Satisfied(d, sel)
    BY DEF ReversedDepsImplied, AllSatisfied
  <2>1. started /\ deps = ForwardDeps \union ReverseDeps(ForwardDeps)
    BY DEF DepsComputed
  <2>2. d \in ReverseDeps(ForwardDeps)
    BY <2>1, ForwardDepsTyped
  <2>3. PICK t \in Cands, s \in Seat : d = ReverseDep(ForwardDeps, t, s)
    BY <2>2 DEF ReverseDeps
  <2>4. sel[t.seat] = t
    BY <2>3 DEF ReverseDep
  <2>5. \A x \in ForwardDeps : sel[x.cand.seat] = x.cand => Satisfied(x, sel)
    BY <2>1, ForwardDepsTyped DEF AllSatisfied
  <2> QED BY <2>3, <2>4, <2>5, ReverseDepSatisfied
<1> QED BY <1>1, DepsInvariance, PTL
=============================================================================

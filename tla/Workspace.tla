----------------------------- MODULE Workspace ------------------------------
(***************************************************************************)
(* The workspace (ws.c): candidates of seats, the deps of candidates on    *)
(* other candidates, and the counters that selecting keeps up to date.     *)
(*                                                                         *)
(* A seat has the null candidate and some versions of its package.  The    *)
(* goal and the ugly seat have a candidate of their own.  A dep is         *)
(* satisfied when one of its alternatives is selected; a relation of the   *)
(* database becomes a dep on the candidates that fulfill it, and a second, *)
(* reversed, family of deps says the same from the other side.             *)
(*                                                                         *)
(* Lists of candidates and deps are sets here: no property of the          *)
(* workspace itself depends on their order.                                *)
(***************************************************************************)
EXTENDS Integers, FiniteSets

CONSTANTS
  Pkg,        \* packages
  Ver,        \* versions
  NoVer,      \* the version of a null candidate
  Own,        \* the "version" of the goal and ugly candidates
  Goal, Ugly, \* the special seats
  PkgOf,      \* dpm_ver_package
  Rank,       \* the order of the versions of a package
  Databases,  \* what to build a workspace from, see below
  Goals       \* what to ask for: sets of relations

ASSUME WorkspaceAssumption ==
  /\ IsFiniteSet(Pkg) /\ IsFiniteSet(Ver)
  /\ NoVer \notin Ver /\ Own \notin Ver /\ NoVer # Own
  /\ Goal \notin Pkg /\ Ugly \notin Pkg /\ Goal # Ugly
  /\ PkgOf \in [Ver -> Pkg]
  /\ Rank \in [Ver -> Nat]
  /\ \A v, w \in Ver : PkgOf[v] = PkgOf[w] /\ Rank[v] = Rank[w] => v = w

(***************************************************************************)
(* A database has the relations of each version, the packages it provides, *)
(* the versions that origins offer, and the versions that are installed,   *)
(* at most one of each package.                                            *)
(*                                                                         *)
(* A relation has alternatives; each names a package and the versions of   *)
(* it that match, or asks for no version at all (`null`: DPM_EQ without a  *)
(* version, only in the relations of a goal).  A conflict of a version has *)
(* one alternative: control files have others only in dependencies.        *)
(***************************************************************************)
Types == {"pre-depends", "depends", "recommends", "conflicts", "breaks"}

IsRelation(r) ==
  /\ IsFiniteSet(r.alts)
  /\ \A a \in r.alts : a.pkg \in Pkg /\ a.vers \subseteq Ver /\ a.null \in BOOLEAN
  /\ r.conf \in BOOLEAN

IsDatabase(d) ==
  /\ \A v \in Ver : IsFiniteSet(d.rels[v]) /\ d.provides[v] \subseteq Pkg
  /\ \A v \in Ver : \A r \in d.rels[v] :
       /\ IsRelation(r) /\ r.type \in Types
       /\ r.conf <=> r.type \in {"conflicts", "breaks"}
       /\ r.conf => \E a \in r.alts : r.alts = {a}
       /\ \A a \in r.alts : ~a.null
  /\ d.offered \subseteq Ver
  /\ d.installed \subseteq Ver
  /\ \A v, w \in d.installed : PkgOf[v] = PkgOf[w] => v = w

ASSUME InputAssumption ==
  /\ \A d \in Databases : IsDatabase(d)
  /\ \A g \in Goals : IsFiniteSet(g) /\ \A r \in g : IsRelation(r) /\ r.type = "goal"

VARIABLES
  db,         \* the database
  goal,       \* ws->goal_spec
  vers,       \* the versions that are candidates: those with a seat
  started,    \* dpm_ws_start was called
  selected,   \* the selected candidate of each seat
  deps,       \* all deps, of all candidates
  nSelected,  \* n_selected of each dep
  nUnsat      \* n_unsatisfied of each candidate

vars == <<db, goal, vers, started, selected, deps, nSelected, nUnsat>>

Seat == Pkg \union {Goal, Ugly}
Null(s) == [seat |-> s, ver |-> NoVer]
Cand(v) == [seat |-> PkgOf[v], ver |-> v]
GoalCand == [seat |-> Goal, ver |-> Own]
UglyCand == [seat |-> Ugly, ver |-> Own]

AllCands == {Null(s) : s \in Seat} \union {GoalCand, UglyCand} \union {Cand(v) : v \in Ver}
Cands == {Null(s) : s \in Seat} \union {GoalCand, UglyCand} \union {Cand(v) : v \in vers}
SeatCands(s) == {c \in Cands : c.seat = s}

\* dpm_ws_create
Init ==
  /\ db \in Databases
  /\ goal = {}
  /\ vers = {}
  /\ started = FALSE
  /\ selected = [s \in Seat |-> IF s = Ugly THEN UglyCand ELSE Null(s)]
  /\ deps = {}
  /\ nSelected = [d \in {} |-> 0]
  /\ nUnsat = [c \in AllCands |-> 0]

-----------------------------------------------------------------------------
(***************************************************************************)
(* Adding candidates, before the workspace is started.                     *)
(***************************************************************************)

\* dpm_pol_get_best_version: the highest version on offer that is acceptable.
Best(acceptable) ==
  {v \in acceptable \intersect db.offered :
     \A w \in acceptable \intersect db.offered : Rank[w] <= Rank[v]}

\* For every package with a version that provides p, its best such version.
ProviderCands(p) ==
  LET provide == {v \in Ver : p \in db.provides[v]}
  IN UNION {Best({w \in provide : PkgOf[w] = PkgOf[v]}) : v \in provide}

\* add_relation_cands and add_candspec_relation_cands
RelationCands(r) ==
  UNION {(IF a.null THEN {} ELSE Best({v \in a.vers : PkgOf[v] = a.pkg}))
           \union ProviderCands(a.pkg) : a \in r.alts}

Followed == {"pre-depends", "depends", "recommends"}

\* What dpm_ws_add_cand_deps adds for a version, itself and for what it added;
\* the flags deps_added and providers_added only end the recursion.
DepCands(v) == UNION {RelationCands(r) : r \in {r \in db.rels[v] : r.type \in Followed}}
WithDeps(S) ==
  {v \in Ver : \A T \in SUBSET Ver :
                 S \subseteq T /\ (\A w \in T : DepCands(w) \subseteq T) => v \in T}

Add(S) == vers' = vers \union S
NoDeps == UNCHANGED <<db, started, deps, nSelected, nUnsat>>

AddCand(v) ==
  /\ ~started
  /\ Add({v})
  /\ NoDeps /\ UNCHANGED <<goal, selected>>

AddCandAndDeps(v) ==
  /\ ~started
  /\ Add(WithDeps({v}))
  /\ NoDeps /\ UNCHANGED <<goal, selected>>

\* Nothing has deps yet: dpm_ws_select has nothing to count.
AddAndSelect(S) ==
  /\ Add(S)
  /\ selected' = [s \in Seat |->
       IF \E v \in S : PkgOf[v] = s THEN Cand(CHOOSE v \in S : PkgOf[v] = s) ELSE selected[s]]

AddInstalled ==
  /\ ~started
  /\ AddAndSelect(db.installed)
  /\ NoDeps /\ UNCHANGED goal

AddBest ==
  /\ ~started
  /\ AddAndSelect(UNION {LET best == Best({w \in Ver : PkgOf[w] = PkgOf[v]})
                         IN IF best = {} THEN {v} ELSE best : v \in db.installed})
  /\ NoDeps /\ UNCHANGED goal

\* dpm_ws_set_goal_candspec, and dpm_ws_add_cand_deps for the goal candidate.
SetGoal(g) ==
  /\ ~started
  /\ goal = {}
  /\ goal' = g
  /\ Add(WithDeps(UNION {RelationCands(r) : r \in {r \in g : ~r.conf}}))
  /\ NoDeps /\ UNCHANGED selected

-----------------------------------------------------------------------------
(***************************************************************************)
(* dpm_ws_start: compute_deps, compute_goal_deps, compute_reverse_deps     *)
(***************************************************************************)

\* satisfies_rel and satisfies_rel_str
Satisfies(c, a, conf) ==
  conf # (IF a.null THEN c.ver \notin Ver ELSE c.ver \in a.vers)

\* find_providers, provides_rel and provides_rel_str: a provider is an
\* alternative of a dependency, and does not matter for a conflict.
Providers(p) == {c \in Cands : c.ver \in Ver /\ p \in db.provides[c.ver]}

AltCands(a, conf) ==
  {c \in SeatCands(a.pkg) : Satisfies(c, a, conf)}
    \union (IF conf THEN {} ELSE Providers(a.pkg))

\* Mutant: a dep that one candidate of a seat satisfies is not recorded.
SometimesSatisfied(r) ==
  \E a \in r.alts : \E c \in SeatCands(a.pkg) : Satisfies(c, a, r.conf)

\* A dep that all candidates of a seat satisfy is not recorded.
AlwaysSatisfied(r) ==
  \E a \in r.alts : \A c \in SeatCands(a.pkg) : Satisfies(c, a, r.conf)

Dep(c, r) ==
  [cand |-> c, src |-> r, reversed |-> FALSE, conflict |-> r.type = "conflicts",
   alts |-> (UNION {AltCands(a, r.conf) : a \in r.alts})
              \union (IF r.type = "recommends" THEN {UglyCand} ELSE {})]

\* The relations of a candidate: nothing for the null and the ugly one.
Relations(c) ==
  IF c.ver \in Ver THEN db.rels[c.ver] ELSE IF c = GoalCand THEN goal ELSE {}

ForwardDeps ==
  UNION {{Dep(c, r) : r \in {r \in Relations(c) : ~AlwaysSatisfied(r)}} : c \in Cands}

\* The deps of c that t does not satisfy, but a sibling of t does.
SiblingDeps(fwd, t, c) ==
  {d \in fwd : d.cand = c /\ t \notin d.alts /\ \E a \in d.alts : a.seat = t.seat}

\* Mutant: what else the candidates of the seat accept is left out.
ReverseDepCandsOnly(fwd, t, s) ==
  LET sibling == UNION {SiblingDeps(fwd, t, c) : c \in SeatCands(s)}
  IN [cand |-> t, src |-> s, reversed |-> TRUE,
      conflict |-> \E d \in sibling : d.conflict,
      alts |-> {c \in SeatCands(s) : SiblingDeps(fwd, t, c) = {}}]

\* What has to be selected along with t so that the candidate of seat s has
\* what it depends on: a candidate without such a dep, or what else it accepts.
ReverseDep(fwd, t, s) ==
  LET sibling == UNION {SiblingDeps(fwd, t, c) : c \in SeatCands(s)}
  IN [cand |-> t, src |-> s, reversed |-> TRUE,
      conflict |-> \E d \in sibling : d.conflict,
      alts |-> {c \in SeatCands(s) : SiblingDeps(fwd, t, c) = {}}
                 \union {a \in UNION {d.alts : d \in sibling} : a.seat # t.seat}]

ReverseDeps(fwd) ==
  UNION {{ReverseDep(fwd, t, s) :
            s \in {s \in Seat : \E c \in SeatCands(s) : SiblingDeps(fwd, t, c) # {}}}
         : t \in Cands}

\* depb_finish: the counters of the recorded deps.
SelectedAlts(d, sel) == {a \in d.alts : sel[a.seat] = a}

\* Mutant: nothing counts as selected yet.
StartUnselected ==
  /\ ~started
  /\ started' = TRUE
  /\ deps' = ForwardDeps \union ReverseDeps(ForwardDeps)
  /\ nSelected' = [d \in deps' |-> 0]
  /\ nUnsat' = [c \in AllCands |-> Cardinality({d \in deps' : d.cand = c})]
  /\ UNCHANGED <<db, goal, vers, selected>>

Start ==
  /\ ~started
  /\ started' = TRUE
  /\ deps' = ForwardDeps \union ReverseDeps(ForwardDeps)
  /\ nSelected' = [d \in deps' |-> Cardinality(SelectedAlts(d, selected))]
  /\ nUnsat' = [c \in AllCands |-> Cardinality({d \in deps' : d.cand = c /\ nSelected'[d] = 0})]
  /\ UNCHANGED <<db, goal, vers, selected>>

(***************************************************************************)
(* dpm_ws_select: first the deps that lose an alternative, then those that *)
(* gain one.                                                               *)
(***************************************************************************)
\* Mutant: alternatives that are selected now are not counted.
GainNothing(n, c) == [d \in deps |-> n[d]]

Lose(n, c) == [d \in deps |-> IF c \in d.alts THEN n[d] - 1 ELSE n[d]]
Gain(n, c) == [d \in deps |-> IF c \in d.alts THEN n[d] + 1 ELSE n[d]]
Broken(n, c, k) == Cardinality({d \in deps : d.cand = k /\ c \in d.alts /\ n[d] = 0})

Select(c) ==
  /\ selected[c.seat] # c
  /\ LET old == selected[c.seat]
         n == Lose(nSelected, old)
     IN /\ nSelected' = Gain(n, c)
        /\ nUnsat' = [k \in AllCands |-> nUnsat[k] + Broken(n, old, k) - Broken(n, c, k)]
  /\ selected' = [selected EXCEPT ![c.seat] = c]
  /\ UNCHANGED <<db, goal, vers, started, deps>>

Next ==
  \/ \E v \in Ver : AddCand(v) \/ AddCandAndDeps(v)
  \/ AddInstalled
  \/ AddBest
  \/ \E g \in Goals : SetGoal(g)
  \/ Start
  \/ \E c \in Cands : Select(c)

Spec == Init /\ [][Next]_vars
-----------------------------------------------------------------------------
(***************************************************************************)
(* Properties                                                              *)
(***************************************************************************)

Satisfied(d, sel) == \E a \in d.alts : sel[a.seat] = a
\* One candidate for each seat, by their versions.
Selections ==
  LET pkgs == {f \in [Pkg -> vers \union {NoVer}] : \A p \in Pkg : f[p] # NoVer => PkgOf[f[p]] = p}
      special == [{Goal, Ugly} -> {NoVer, Own}]
  IN {[s \in Seat |-> [seat |-> s, ver |-> IF s \in Pkg THEN f[s] ELSE g[s]]] :
        f \in pkgs, g \in special}

\* dpm_dep_satisfied and dpm_cand_satisfied
CandSatisfied(c) == nUnsat[c] = 0

TypeOK ==
  /\ db \in Databases
  /\ goal \in Goals \union {{}}
  /\ vers \subseteq Ver
  /\ started \in BOOLEAN
  /\ selected \in [Seat -> AllCands]
  /\ \A s \in Seat : selected[s] \in SeatCands(s)
  /\ \A d \in deps : d.cand \in Cands /\ d.alts \subseteq Cands
  /\ nSelected \in [deps -> Nat]
  /\ nUnsat \in [AllCands -> Nat]

\* The counters that dpm_ws_select updates incrementally are what one would
\* count, in whatever order candidates are selected: a dep counts as satisfied
\* when one of its alternatives is selected, a candidate when all its deps are.
CountersExact ==
  /\ \A d \in deps : nSelected[d] = Cardinality(SelectedAlts(d, selected))
  /\ \A c \in AllCands : nUnsat[c] = Cardinality({d \in deps : d.cand = c /\ nSelected[d] = 0})

\* A selected candidate of the package matches, or a selected one of any
\* package provides it; a conflict is that none of the package matches.
Holds(r, sel) ==
  LET match == \E a \in r.alts : sel[a.pkg].ver \in a.vers \/ (a.null /\ sel[a.pkg].ver \notin Ver)
  IN IF r.conf THEN ~match
     ELSE \/ match
          \/ \E a \in r.alts : \E s \in Pkg : sel[s].ver \in Ver /\ a.pkg \in db.provides[sel[s].ver]
          \/ r.type = "recommends" /\ sel[Ugly] = UglyCand

\* The deps mean what the relations mean, in every selection: those that are
\* recorded, and those that are dropped because they are always satisfied.
DepsMeanRelations ==
  started => \A v \in vers : \A r \in db.rels[v] : \A sel \in Selections :
    Holds(r, sel) <=>
      \A d \in deps : ~d.reversed /\ d.cand = Cand(v) /\ d.src = r => Satisfied(d, sel)

\* The reversed deps demand nothing new: where the selected candidates have
\* what they depend on, the reversed deps of all of them are satisfied too.
AllSatisfied(sel, reversed) ==
  \A d \in deps : d.reversed = reversed /\ sel[d.cand.seat] = d.cand => Satisfied(d, sel)
ReversedDepsImplied ==
  \A sel \in Selections : AllSatisfied(sel, FALSE) => AllSatisfied(sel, TRUE)
=============================================================================

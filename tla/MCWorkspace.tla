----------------------------- MODULE MCWorkspace ----------------------------
(***************************************************************************)
(* Workspaces of three packages: foo depends on, recommends, conflicts     *)
(* with, ... the two versions of bar and the one of baz.                   *)
(***************************************************************************)
EXTENDS Workspace

CONSTANTS foo, bar, baz, foo1, bar1, bar2, baz1

MCPkg == {foo, bar, baz}
MCVer == {foo1, bar1, bar2, baz1}
MCPkgOf == [v \in MCVer |-> CASE v = foo1 -> foo [] v \in {bar1, bar2} -> bar [] OTHER -> baz]
MCRank == [v \in MCVer |-> IF v = bar2 THEN 2 ELSE 1]

Alt(p, vs) == [pkg |-> p, vers |-> vs, null |-> FALSE]
Rel(type, alts) == [type |-> type, conf |-> type \in {"conflicts", "breaks"}, alts |-> alts]

DependsBar == Rel("depends", {Alt(bar, {bar1, bar2})})
DependsBar2 == Rel("pre-depends", {Alt(bar, {bar2})})
DependsEither == Rel("depends", {Alt(bar, {bar1}), Alt(baz, {baz1})})
RecommendsBaz == Rel("recommends", {Alt(baz, {baz1})})
ConflictsBar1 == Rel("conflicts", {Alt(bar, {bar1})})
BreaksBaz == Rel("breaks", {Alt(baz, {baz1})})
ConflictsFoo == Rel("conflicts", {Alt(foo, {foo1})})

Database(fooRels, barRels, bazProvides, installed) ==
  [rels |-> [v \in MCVer |-> CASE v = foo1 -> fooRels [] v = bar2 -> barRels [] OTHER -> {}],
   provides |-> [v \in MCVer |-> IF v = baz1 THEN bazProvides ELSE {}],
   offered |-> MCVer,
   installed |-> installed]

Install(p, vs) == Rel("goal", {Alt(p, vs)})
Remove(p) == Rel("goal", {[pkg |-> p, vers |-> {}, null |-> TRUE]})

\* Every pair of relations of foo, alone, and with a provider of bar and a
\* conflict in the other direction.
FooRels == {DependsBar, DependsBar2, DependsEither, RecommendsBaz, ConflictsBar1, BreaksBaz}
PairDatabases ==
  {Database({r, q}, {}, {}, {bar1}) : r, q \in FooRels}
  \union {Database({r, q}, {ConflictsFoo}, {bar}, {bar1}) : r, q \in FooRels}

\* And one with three.
AllDatabases ==
  PairDatabases
  \union {Database({DependsEither, RecommendsBaz, ConflictsBar1}, {ConflictsFoo}, {bar}, {foo1, bar1})}

AllGoals == {{Install(foo, {foo1})}, {Remove(bar)}, {Install(bar, {bar2}), Remove(foo)}}
=============================================================================

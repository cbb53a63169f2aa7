----------------------------- MODULE MCInstall ------------------------------
(***************************************************************************)
(* Small installations of three packages: a dependency, conflict or        *)
(* recommendation of foo, met by a bar that may depend on foo again, all   *)
(* packages new, to be upgraded, or there but unpacked only.               *)
(***************************************************************************)
EXTENDS Execute

CONSTANTS foo, bar, baz, foo1, bar1, bar2, baz1

MCPkg == {foo, bar, baz}
MCVer == {foo1, bar1, bar2, baz1}
MCPkgOf == [v \in MCVer |-> CASE v = foo1 -> foo [] v \in {bar1, bar2} -> bar [] OTHER -> baz]
MCRank == [v \in MCVer |-> IF v = bar2 THEN 2 ELSE 1]

Alt(p, vs) == [pkg |-> p, vers |-> vs, null |-> FALSE]
Rel(type, alts) == [type |-> type, conf |-> type \in {"conflicts", "breaks"}, alts |-> alts]

OnBar == {Alt(bar, {bar1, bar2})}
OnBar2 == {Alt(bar, {bar2})}
OnBaz == {Alt(baz, {baz1})}
OnFoo == {Alt(foo, {foo1})}
OnBar1OrBaz == {Alt(bar, {bar1}), Alt(baz, {baz1})}

Database(fooRels, bar1Rels, bar2Rels, bazRels, installed, manualPkgs, unpackedPkgs) ==
  [rels |-> [v \in MCVer |-> CASE v = foo1 -> fooRels [] v = bar1 -> bar1Rels
                               [] v = bar2 -> bar2Rels [] OTHER -> bazRels],
   provides |-> [v \in MCVer |-> {}],
   offered |-> MCVer, installed |-> installed, manual |-> manualPkgs,
   unpacked |-> unpackedPkgs]

Depends(alts) == Rel("depends", alts)
PreDepends(alts) == Rel("pre-depends", alts)
Recommends(alts) == Rel("recommends", alts)
Conflicts(alts) == Rel("conflicts", alts)
Breaks(alts) == Rel("breaks", alts)
OnBar1 == {Alt(bar, {bar1})}

FooRels == {{Depends(OnBar)}, {PreDepends(OnBar2)}, {Depends(OnBar1OrBaz)},
            {Recommends(OnBaz), Depends(OnBar2)}, {Conflicts(OnBar1)}, {Breaks(OnBar1), Depends(OnBaz)}}
Bar2Rels == {{}, {Depends(OnFoo)}, {PreDepends(OnFoo)}, {PreDepends(OnBaz)}, {Conflicts(OnBaz)}}
BazRels == {{}, {Depends(OnBar)}}

\* New, to be upgraded, and installed.
MainDatabases ==
  {Database(f, {}, b, z, {}, {}, {}) : f \in FooRels, b \in Bar2Rels, z \in BazRels}
  \union {Database(f, {}, b, z, {bar1, baz1}, {}, {}) : f \in FooRels, b \in Bar2Rels, z \in BazRels}
  \union {Database(f, {}, b, {}, {foo1, bar2}, {foo}, {}) : f \in FooRels, b \in Bar2Rels}

\* Left unpacked by an earlier command; and two deps of foo on bar that merge
\* into one reversed dep of what replaces bar.
OtherDatabases ==
  {Database(f, {}, b, {}, {foo1, bar2}, {}, u) : f \in FooRels, b \in {{}, {PreDepends(OnFoo)}},
                                                u \in {{foo}, {bar}, {foo, bar}}}
  \union {Database({PreDepends(OnBar2), Depends(OnBar \union OnBaz)}, {}, {}, {}, {foo1, bar2, baz1}, {foo}, {})}

\* baz provides bar, or is what the bar that is there needs.
BazDatabases ==
  {[Database(f, {}, b, {}, i, {}, {}) EXCEPT !.provides[baz1] = {bar}] :
     f \in FooRels, b \in Bar2Rels, i \in {{}, {bar1}}}
  \union {Database(f, {Depends(OnBaz)}, b, {}, {bar1, baz1}, {bar}, {}) : f \in FooRels, b \in Bar2Rels}

\* An alternative of what foo depends on is there, and cannot be satisfied.
BrokenDatabases ==
  {Database({Depends(OnBar1OrBaz)}, {}, b, {Depends({Alt(foo, {})})}, i, {}, {}) :
     b \in Bar2Rels, i \in {{baz1}, {bar2, baz1}}}

AllDatabases == MainDatabases \union OtherDatabases \union BazDatabases \union BrokenDatabases

Install(p, vs) == Rel("goal", {Alt(p, vs)})
Remove(p) == Rel("goal", {[pkg |-> p, vers |-> {}, null |-> TRUE]})
AllGoals == {{Install(foo, {foo1})}, {Remove(bar)}, {Install(foo, {foo1}), Install(bar, {bar1})},
             {Install(bar, {bar2})}}
=============================================================================

------------------------------ MODULE MCOrder -------------------------------
(***************************************************************************)
(* All graphs of three seats, and some of four: a cycle with a shortcut,   *)
(* two cycles that depend on each other, or one on the other.              *)
(***************************************************************************)
EXTENDS Order, TLC

CONSTANTS s1, s2, s3, s4

Edges(a, b, c, d) == s1 :> a @@ s2 :> b @@ s3 :> c @@ s4 :> d

SmallGraphs ==
  {Edges(a, b, c, {}) : a \in SUBSET {s2, s3}, b \in SUBSET {s1, s3}, c \in SUBSET {s1, s2}}

LargeGraphs ==
  {Edges({s2}, {s3}, {s4, s1}, {s1}),
   Edges({s2}, {s1, s3}, {s4}, {s3}),
   Edges({s2, s3}, {s1}, {s4}, {s3, s2})}

AllGraphs == SmallGraphs \union LargeGraphs
SomeRelevant == {{s1}, {s1, s2}, {s1, s2, s3}}
=============================================================================

----------------------------- MODULE MCDatabase -----------------------------
(***************************************************************************)
(* Two versions of foo, which depend on bar, of which there is no version. *)
(* The second one provides bar and has no checksum.                        *)
(***************************************************************************)
EXTENDS Database, TLC

CONSTANTS foo, bar, v1, v2, sum, tag, stable, testing

Foo(v, s, provides) ==
  [name |-> foo, ver |-> v, sum |-> s, rels |-> {bar}, provides |-> provides, tags |-> {tag}]

MCOrigin == {stable, testing}
OriginSymmetry == Permutations(MCOrigin)
MCName == {foo, bar}
MCStanzas == {Foo(v1, sum, {}), Foo(v2, None, {bar})}
=============================================================================

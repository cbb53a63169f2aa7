---------------------------- MODULE MCStoreFiles ----------------------------
(***************************************************************************)
(* Two processes and enough files for the database, a collection of each   *)
(* process and a file that lost its name.                                  *)
(***************************************************************************)
EXTENDS StoreFiles, TLC

CONSTANTS c1, c2, i1, i2, i3, i4
Symmetric == Permutations(Clients) \union Permutations(Inodes)

Use(atOnce, maxGc, maxFail) == [atOnce |-> atOnce, maxGc |-> maxGc, maxFail |-> maxFail]

\* One process after the other, with collections, and two at once without.
Kills == Use(1, 3, 0)
Shared == Use(2, 0, 2)
\* What goes wrong with collections.
Race == Use(2, 1, 0)

SafeUses == {Kills, Shared}
RaceUses == {Race}
=============================================================================

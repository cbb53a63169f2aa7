------------------------------- MODULE MCDict -------------------------------
(***************************************************************************)
(* Three keys of which two agree in the first part of their hashes; as     *)
(* members of a table these two have equal hashes.                         *)
(***************************************************************************)
EXTENDS Dict

CONSTANTS k1, k2, k3, m1, m2, v1, v2

MCDictHash == (k1 :> <<1, 1>>) @@ (k2 :> <<1, 2>>) @@ (k3 :> <<2, 1>>)
MCTableHash == (k1 :> <<1, 1>>) @@ (k2 :> <<1, 1>>) @@ (k3 :> <<1, 2>>)
MCKeysOf == [table |-> {k1, k2, k3}, dict |-> {k1, k2}, sets |-> {k1, k3}]
MCAddr == 1 .. 14
=============================================================================

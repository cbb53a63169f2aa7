----------------------------- MODULE MCVersions -----------------------------
(***************************************************************************)
(* All upstream versions of at most two of four characters, with revisions *)
(* none, empty, 0 and a tilde; and those of one character, with epochs 0   *)
(* and 1 as well.                                                          *)
(***************************************************************************)
EXTENDS Versions, SequencesExt

Upstreams(n) == BoundedSeq({"~", "0", "1", "a"}, n) \ {<<>>}
MCTexts ==
  {u \o r : u \in Upstreams(2), r \in {<<>>, <<"-">>, <<"-", "0">>, <<"-", "~">>}}
  \union {<<e, ":">> \o u \o r : e \in {"0", "1"}, u \in Upstreams(1), r \in {<<>>, <<"-", "0">>}}
MCAfter == {"", "~", "a", "0"}
=============================================================================

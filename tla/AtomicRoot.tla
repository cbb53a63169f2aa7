----------------------------- MODULE AtomicRoot -----------------------------
(***************************************************************************)
(* What a struct-store promises its client about values and the root       *)
(* (store.h:38-42), leaving out when exactly a root reaches the disk:      *)
(* values are only ever created, never changed; setting the root replaces  *)
(* the whole snapshot a reader sees in one step; and a power failure takes *)
(* the store back to one earlier snapshot with every value of it present.  *)
(*                                                                         *)
(* A snapshot is the root together with the words the store held when the  *)
(* root was set, so that "all referenced values are present" is equality   *)
(* of snapshots.                                                           *)
(***************************************************************************)
VARIABLES
  staged,   \* the words the running client can refer to
  visible,  \* the snapshot that opening the file yields while power lasts
  durable   \* the snapshot that opening the file yields after a power failure

vars == <<staged, visible, durable>>

NoWords == [w \in {} |-> w]
NullSnapshot == [root |-> 0, img |-> NoWords]

Extends(f, g) == /\ DOMAIN g \subseteq DOMAIN f
                 /\ \A w \in DOMAIN g : f[w] = g[w]

Init == /\ staged = NoWords
        /\ visible = NullSnapshot
        /\ durable = NullSnapshot

\* A client starts from what the file holds ...
Open == /\ Extends(staged', visible.img)
        /\ UNCHANGED <<visible, durable>>

\* ... and adds values to it.
Create == /\ Extends(staged', staged)
          /\ UNCHANGED <<visible, durable>>

SetRoot == /\ \E r \in {0} \union DOMAIN staged :
                visible' = [root |-> r, img |-> staged]
           /\ UNCHANGED <<staged, durable>>

\* The client ends, or is killed: only what it committed remains.
Exit == /\ staged' = NoWords
        /\ UNCHANGED <<visible, durable>>

Flush == /\ durable' = visible
         /\ UNCHANGED <<staged, visible>>

PowerFail == /\ staged' = NoWords
             /\ visible' = durable
             /\ UNCHANGED durable

Next == Open \/ Create \/ SetRoot \/ Exit \/ Flush \/ PowerFail

Spec == Init /\ [][Next]_vars
=============================================================================

----------------------------- MODULE Components -----------------------------
(***************************************************************************)
(* What dpm_alg_order promises (alg.h:92-102): a visitor is called with    *)
(* the strongly connected components of the seats that are not done yet, a *)
(* component after everything it depends on.  The visitor says which seats *)
(* of the component are done, at least one; the others are visited again.  *)
(***************************************************************************)
EXTENDS FiniteSets

CONSTANTS
  Seats,
  Graphs,  \* functions from seats to the seats they depend on
  Relevant \* sets of seats that may be the relevant ones

VARIABLES
  graph,   \* the seats of the selected alternatives of the deps of each seat
  roots,   \* the relevant seats
  done,    \* the seats that are done
  comp     \* the component that was visited last

vars == <<graph, roots, done, comp>>

Closed(S) == \A s \in S : graph[s] \subseteq S
Reachable == {s \in Seats : \A S \in SUBSET Seats : roots \subseteq S /\ Closed(S) => s \in S}

\* One can get from every seat of C to every other one inside of C.
StronglyConnected(C) ==
  \A S \in (SUBSET C) \ {{}, C} : \E s \in S : graph[s] \intersect (C \ S) # {}

\* A component of what is left, with nothing left to visit before it.
IsNext(C) ==
  /\ C # {}
  /\ \A s \in C : s \notin done /\ graph[s] \subseteq C \union done
  /\ StronglyConnected(C)
  /\ C \subseteq Reachable

Init ==
  /\ graph \in Graphs
  /\ roots \in Relevant
  /\ done = {}
  /\ comp = {}

Visit(C) ==
  /\ IsNext(C)
  /\ comp' = C
  /\ \E D \in (SUBSET C) \ {{}} : done' = done \union D
  /\ UNCHANGED <<graph, roots>>

Next == \E C \in SUBSET Seats : Visit(C)

Spec == Init /\ [][Next]_vars /\ WF_vars(Next)
=============================================================================

------------------------------- MODULE Order --------------------------------
(***************************************************************************)
(* dpm_alg_order (alg.c:456-534): a depth first search with one stack of   *)
(* seats, which visits a component again, above itself on that stack, as   *)
(* long as some of its seats are not done.                                 *)
(*                                                                         *)
(* A frame is an activation of the recursive function `visit`.  The order  *)
(* in which it meets deps and alternatives, and the order of the relevant  *)
(* seats, is left open.  What the visitor decides is left open, too.       *)
(***************************************************************************)
EXTENDS Integers, Sequences, FiniteSets

CONSTANTS Seats, Graphs, Relevant  \* see Components

ASSUME OrderAssumption ==
  /\ IsFiniteSet(Seats)
  /\ \A g \in Graphs : g \in [Seats -> SUBSET Seats]
  /\ Relevant \subseteq SUBSET Seats

VARIABLES
  graph, roots,  \* see Components; they do not change
  pending,       \* the relevant seats that the outer loop has still to visit
  tag,           \* the last tag that was given
  seatTag,       \* seat_tag: 0 is not visited, -1 is done
  stack,         \* stack[0..stack_top)
  frames,        \* the activations of visit, the innermost one last
  comp           \* the component that was visited last

vars == <<graph, roots, pending, tag, seatTag, stack, frames, comp>>

Done == -1

\* An activation: its seat, where that is on the stack, the least tag it has
\* met, the seats it has still to look at and, once its component has been
\* visited, the place on the stack it is at (0 before).
Frame(s, pos) == [seat |-> s, pos |-> pos, min |-> tag', todo |-> graph[s], at |-> 0]

Top == frames[Len(frames)]
Below == SubSeq(frames, 1, Len(frames) - 1)
SetTop(f) == frames' = Append(Below, f)

Init ==
  /\ graph \in Graphs
  /\ roots \in Relevant
  /\ pending = roots
  /\ tag = 0
  /\ seatTag = [s \in Seats |-> 0]
  /\ stack = <<>>
  /\ frames = <<>>
  /\ comp = {}

\* visit (s) for a seat without tag.
Enter(s, below) ==
  /\ tag' = tag + 1
  /\ seatTag' = [seatTag EXCEPT ![s] = tag']
  /\ stack' = Append(stack, s)
  /\ frames' = Append(below, Frame(s, Len(stack) + 1))

Least(m, t) == IF t > 0 /\ t < m THEN t ELSE m

\* The outer loop, over the relevant seats.
VisitRelevant ==
  /\ frames = <<>>
  /\ \E s \in pending :
       /\ pending' = pending \ {s}
       /\ IF seatTag[s] # 0 THEN UNCHANGED <<tag, seatTag, stack, frames>>
                            ELSE Enter(s, <<>>)
  /\ UNCHANGED <<graph, roots, comp>>

\* The next selected alternative of a dep.
VisitAlternative ==
  /\ frames # <<>> /\ Top.at = 0
  /\ \E a \in Top.todo :
       LET f == [Top EXCEPT !.todo = @ \ {a}] IN
       IF seatTag[a] # 0
       THEN SetTop([f EXCEPT !.min = Least(@, seatTag[a])]) /\ UNCHANGED <<tag, seatTag, stack>>
       ELSE Enter(a, Append(Below, f))
  /\ UNCHANGED <<graph, roots, pending, comp>>

\* The result of the innermost activation, for the one that called it.
Return(min) ==
  frames' = IF Len(frames) < 2 THEN <<>>
            ELSE LET g == Below[Len(Below)] IN
                 [Below EXCEPT ![Len(Below)].min = IF g.at = 0 THEN Least(@, min) ELSE @]

\* The seat belongs to a component that an outer activation has begun.
ReturnInner ==
  /\ frames # <<>> /\ Top.at = 0 /\ Top.todo = {}
  /\ Top.min # seatTag[Top.seat]
  /\ Return(Top.min)
  /\ UNCHANGED <<graph, roots, pending, tag, seatTag, stack, comp>>

OnStack(pos) == {stack[i] : i \in pos .. Len(stack)}

\* Mutant: the tags of the component are left as they are.
VisitTaggedComp ==
  /\ frames # <<>> /\ Top.at = 0 /\ Top.todo = {}
  /\ Top.min = seatTag[Top.seat]
  /\ comp' = OnStack(Top.pos)
  /\ \E D \in (SUBSET comp') \ {{}} :
       seatTag' = [s \in Seats |-> IF s \in D THEN Done ELSE seatTag[s]]
  /\ SetTop([Top EXCEPT !.at = Top.pos])
  /\ UNCHANGED <<graph, roots, pending, tag, stack>>

\* A component is complete: visit_comp, which calls dpm_alg_order_done.
VisitComp ==
  /\ frames # <<>> /\ Top.at = 0 /\ Top.todo = {}
  /\ Top.min = seatTag[Top.seat]
  /\ comp' = OnStack(Top.pos)
  /\ \E D \in (SUBSET comp') \ {{}} :
       seatTag' = [s \in Seats |-> IF s \in D THEN Done
                                   ELSE IF s \in comp' THEN 0 ELSE seatTag[s]]
  /\ SetTop([Top EXCEPT !.at = Top.pos])
  /\ UNCHANGED <<graph, roots, pending, tag, stack>>

\* while (!done (stack[i])) visit (stack[i])
VisitAgain ==
  /\ frames # <<>> /\ Top.at \in 1 .. Len(stack)
  /\ LET s == stack[Top.at] IN
     CASE seatTag[s] = Done -> SetTop([Top EXCEPT !.at = @ + 1]) /\ UNCHANGED <<tag, seatTag, stack>>
       [] seatTag[s] = 0 -> Enter(s, frames)
       [] OTHER -> UNCHANGED <<tag, seatTag, stack, frames>>
  /\ UNCHANGED <<graph, roots, pending, comp>>

\* Mutant: what was visited again stays on the stack.
LeaveFull ==
  /\ frames # <<>> /\ Top.at > Len(stack)
  /\ Return(Top.min)
  /\ UNCHANGED <<graph, roots, pending, tag, seatTag, stack, comp>>

\* All seats of the component are done.
Leave ==
  /\ frames # <<>> /\ Top.at > Len(stack)
  /\ stack' = SubSeq(stack, 1, Top.pos - 1)
  /\ Return(Top.min)
  /\ UNCHANGED <<graph, roots, pending, tag, seatTag, comp>>

Next ==
  \/ VisitRelevant \/ VisitAlternative \/ ReturnInner
  \/ VisitComp \/ VisitAgain \/ Leave

Spec == Init /\ [][Next]_vars /\ WF_vars(Next)
-----------------------------------------------------------------------------
(***************************************************************************)
(* Properties                                                              *)
(***************************************************************************)

\* alg.h:92-102: the visitor gets the strongly connected components, after what
\* they depend on, also when they are visited again; and in the end every seat
\* that a relevant one needs is done.
Abstract == INSTANCE Components WITH done <- {s \in Seats : seatTag[s] = Done}
ImplementsComponents == Abstract!Spec

\* The stack of 20000 seats (alg.c:479): a component is pushed again above
\* itself, less what is done, so that n seats need up to n(n+1)/2 places.
StackBounded ==
  LET n == Cardinality(Abstract!Reachable) IN 2 * Len(stack) <= n * (n + 1)

\* Nothing is left on the stack after a relevant seat, and no tag but Done.
NothingLeft ==
  frames = <<>> => stack = <<>> /\ \A s \in Seats : seatTag[s] \in {Done, 0}
=============================================================================

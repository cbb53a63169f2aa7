----------------------------- MODULE Plan_proofs -----------------------------
(***************************************************************************)
(* Proofs about the planner: what dpm_alg_cleanup_goal says about the goal *)
(* is exact, and reverting and sweeping keep what makes the goal ok, for   *)
(* every database and goal and whatever the walk selected.                 *)
(***************************************************************************)
EXTENDS Plan, Workspace_proofs

USE DEF Null, Cand, GoalCand, UglyCand, wsVars

-----------------------------------------------------------------------------
(***************************************************************************)
(* The inductive invariant                                                 *)
(***************************************************************************)
Filling == {"add", "best", "goal", "start"}
Phases == Filling \union {"walk", "judge", "revert", "broken", "sweep", "planned", "execute", "executed"}

CallRecord == [cand : AllCands, ugly : BOOLEAN, todo : SUBSET deps]

CallsOK ==
  /\ phase \in Phases
  /\ calls \in Seq(CallRecord)
  /\ phase # "walk" => calls = <<>>
  /\ calls # <<>> => visited # {}

\* The walk starts with the goal and never changes it again, and what is
\* initially selected are candidates.
GoalKept ==
  /\ phase \in Filling => visited = {}
  /\ phase \notin Filling \union {"walk"} => visited # {}
  /\ visited # {} => Goal \in changed /\ selected[Goal] = GoalCand
  /\ phase \notin Filling \union {"walk", "judge"} => Goal \in keep
  /\ phase # "add" => db.installed \subseteq vers
  /\ phase \in Filling \union {"walk"} => ok = {} /\ relevant = {}

\* While components are judged, what is ok is a consistent choice, and what is
\* done but not ok is part of none.  A component in which nothing was decided
\* so far has no dep that cannot be satisfied.
Judging ==
  phase = "judge" =>
    /\ graph = SelectedGraph
    /\ relevant = {Goal}
    /\ ok \subseteq done
    /\ Sound(ok)
    /\ \A S \in SUBSET Seat : Sound(S) => S \intersect (done \ ok) = {}
    /\ ~some => \A s \in comp \ left : ~DepsFalse(s)
    /\ \A s \in comp : graph[s] \subseteq comp \union done

\* What is not reverted is a consistent choice; what of it is not swept either
\* is firm.
Kept ==
  /\ phase = "revert" /\ GoalOk => Sound(keep)
  /\ phase \in {"sweep", "planned"} => \E S \in SUBSET keep : Goal \in S /\ Firm(S)

PlanIInv == IInv /\ DepsComputed /\ PlanTypeOK /\ CallsOK /\ GoalKept /\ Judging /\ Kept

THEOREM InitPlanIInv == PlanInit => PlanIInv
<1> SUFFICES ASSUME PlanInit PROVE PlanIInv
  OBVIOUS
<1>1. IInv
  BY InitIInv DEF PlanInit
<1>2. DepsComputed
  BY DEF PlanInit, Init, DepsComputed
<1>3. PlanTypeOK
  BY PlanAssumption DEF PlanInit, Init, PlanTypeOK
<1>4. CallsOK /\ GoalKept
  BY DEF PlanInit, CallsOK, GoalKept, Phases, Filling
<1>5. Judging /\ Kept
  BY DEF PlanInit, Judging, Kept
<1> QED BY <1>1, <1>2, <1>3, <1>4, <1>5 DEF PlanIInv

-----------------------------------------------------------------------------
(***************************************************************************)
(* Lemmas about deps, closures and seats                                   *)
(***************************************************************************)
LEMMA AlternativesSeated ==
  ASSUME TypeOK, NEW d \in deps
  PROVE  Alternatives(d) \subseteq Seat
<1>1. d.alts \subseteq Cands
  BY DEF TypeOK
<1>2. \A c \in Cands : c.seat \in Seat
  BY CandsSeated DEF TypeOK
<1> QED BY <1>1, <1>2 DEF Alternatives, SelectedAlts

LEMMA GraphTyped ==
  ASSUME TypeOK
  PROVE  SelectedGraph \in [Seat -> SUBSET Seat]
<1>1. \A s : UNION {SelectedAlts(d, selected) : d \in DepsOf(selected[s])} \subseteq Cands
  BY DEF DepsOf, SelectedAlts, TypeOK
<1>2. \A c \in Cands : c.seat \in Seat
  BY CandsSeated DEF TypeOK
<1> QED BY <1>1, <1>2 DEF SelectedGraph

LEMMA NeedsSeated ==
  ASSUME TypeOK, NEW s
  PROVE  Needs(s) \subseteq Seat /\ Marks(s) \subseteq Seat
<1>1. \A d \in DepsOf(selected[s]) : Alternatives(d) \subseteq Seat
  BY AlternativesSeated DEF DepsOf
<1>2. Needs(s) \subseteq Seat
  BY <1>1 DEF Needs
<1>3. Marks(s) \subseteq Seat
  BY <1>1 DEF Marks
<1> QED BY <1>2, <1>3

\* Closure is the least set that is closed.
LEMMA ClosureLeast ==
  ASSUME NEW from \in SUBSET Seat, NEW needs, \A s \in Seat : needs[s] \subseteq Seat
  PROVE  /\ Closure(from, needs) \subseteq Seat
         /\ from \subseteq Closure(from, needs)
         /\ \A t \in Closure(from, needs) : needs[t] \subseteq Closure(from, needs)
         /\ \A S \in SUBSET Seat :
              from \subseteq S /\ (\A t \in S : needs[t] \subseteq S) => Closure(from, needs) \subseteq S
BY DEF Closure

\* The goal and the ugly seat have special candidates; a package has versions.
LEMMA InitiallySeated ==
  ASSUME TypeOK, db.installed \subseteq vers, NEW s \in Seat
  PROVE  Initially(s) \in Cands /\ Initially(s).seat = s
<1>1. CASE \E v \in db.installed : PkgOf[v] = s
  <2> DEFINE w == CHOOSE v \in db.installed : PkgOf[v] = s
  <2>1. w \in db.installed /\ PkgOf[w] = s
    BY <1>1
  <2>2. Initially(s) = Cand(w)
    BY <1>1 DEF Initially
  <2> HIDE DEF w
  <2> QED BY <2>1, <2>2 DEF Cands
<1>2. CASE ~\E v \in db.installed : PkgOf[v] = s
  BY <1>2 DEF Initially, Cands
<1> QED BY <1>1, <1>2

LEMMA NullSeated ==
  ASSUME NEW s \in Seat
  PROVE  Null(s) \in Cands /\ Null(s).seat = s
BY DEF Cands

\* What a closed set of seats has to satisfy depends on their selection only.
LEMMA SoundFrame ==
  ASSUME UNCHANGED deps, NEW S, \A s \in S : selected'[s] = selected[s]
  PROVE  /\ Sound(S) => Sound(S)'
         /\ \A d : Alternatives(d)' \intersect S = Alternatives(d) \intersect S
<1>1. \A d : Alternatives(d)' \intersect S = Alternatives(d) \intersect S
  BY DEF Alternatives, SelectedAlts
<1>2. \A s \in S : DepsOf(selected[s])' = DepsOf(selected[s])
  BY DEF DepsOf
<1> QED BY <1>1, <1>2 DEF Sound

-----------------------------------------------------------------------------
(***************************************************************************)
(* Every step is one of the workspace, or leaves it alone                  *)
(***************************************************************************)
LEMMA WorkspaceStep ==
  ASSUME PlanIInv, PlanNext
  PROVE  [Next]_vars
<1> USE DEF PlanIInv, IInv
<1>1. CASE Fill
  BY <1>1 DEF Fill, Prepare, Next
<1>2. CASE WalkGoal
  <2>1. GoalCand \in Cands
    BY DEF Cands
  <2> QED BY <1>2, <2>1 DEF WalkGoal, Change, Next
<1>3. CASE WalkDep
  <2>1. PICK d \in Caller.todo :
          LET below == Append(Outer, [Caller EXCEPT !.todo = @ \ {d}])
              best == FindBest(d, Caller.ugly)
          IN IF best = {} THEN calls' = below /\ UNCHANGED <<wsVars, changed, visited>>
                          ELSE \E c \in best : Visit(c, below)
    BY <1>3 DEF WalkDep
  <2>2. d.alts \subseteq Cands
    <3>1. Caller \in CallRecord
      BY <1>3 DEF WalkDep, CallsOK, Caller
    <3> QED BY <3>1 DEF CallRecord, TypeOK
  <2>3. FindBest(d, Caller.ugly) \subseteq Cands
    BY <2>2 DEF FindBest
  <2> QED BY <2>1, <2>3 DEF Visit, Change, Next
<1>4. CASE Revert \/ Sweep
  <2>1. PICK s \in Seat : Select(IF phase = "revert" THEN Initially(s) ELSE Null(s))
    BY <1>4 DEF Revert, Sweep, Stale, Unmarked, ReplaceSeats
  <2>2. db.installed \subseteq vers
    BY <1>4 DEF GoalKept, Revert, Sweep
  <2>3. Initially(s) \in Cands /\ Null(s) \in Cands
    BY <2>2, InitiallySeated, NullSeated
  <2> QED BY <2>1, <2>3 DEF Next
<1>5. CASE WalkReturn \/ StartCleanup \/ JudgeComp \/ Judge \/ JudgedComp \/ StartRevert
  BY <1>5 DEF WalkReturn, StartCleanup, JudgeComp, Judge, JudgedComp, StartRevert
<1>6. CASE RevertEnds \/ StartSweep \/ SetManual
  BY <1>6 DEF RevertEnds, StartSweep, SetManual
<1> QED BY <1>1, <1>2, <1>3, <1>4, <1>5, <1>6 DEF PlanNext

-----------------------------------------------------------------------------
(***************************************************************************)
(* Filling the workspace and walking                                       *)
(***************************************************************************)
PlanPart == PlanTypeOK /\ CallsOK /\ GoalKept /\ Judging /\ Kept

\* There are no calls yet, whatever deps are computed.
LEMMA FillStep ==
  ASSUME PlanIInv, Fill
  PROVE  PlanPart'
<1> USE DEF PlanIInv, Filling
<1>1. /\ phase \in Filling
      /\ phase' \in {"best", "goal", "start", "walk"}
      /\ UNCHANGED <<walkVars, orderVars, ok, keep, manual>>
  BY DEF Fill, Prepare
<1>2. PlanTypeOK'
  BY <1>1 DEF PlanTypeOK, walkVars, orderVars
<1>3. calls = <<>> /\ calls' = <<>> /\ visited' = {}
  BY <1>1 DEF CallsOK, GoalKept, walkVars
<1>4. CallsOK'
  BY <1>1, <1>3 DEF CallsOK, Phases
<1>5. db.installed' \subseteq vers'
  <2>1. CASE AddInstalled
    BY <2>1 DEF AddInstalled, AddAndSelect, Add, NoDeps
  <2>2. CASE phase # "add"
    <3>1. db' = db /\ vers \subseteq vers'
      BY <2>2 DEF Fill, Prepare, AddBest, SetGoal, Start, AddAndSelect, Add, NoDeps, vars
    <3> QED BY <2>2, <3>1 DEF GoalKept
  <2> QED BY <2>1, <2>2 DEF Fill, Prepare
<1>6. GoalKept'
  BY <1>1, <1>3, <1>5 DEF GoalKept, orderVars
<1>7. Judging' /\ Kept'
  BY <1>1 DEF Judging, Kept
<1> QED BY <1>2, <1>4, <1>6, <1>7 DEF PlanPart

LEMMA Appending ==
  ASSUME NEW S, NEW q \in Seq(S), NEW x \in S
  PROVE  Append(q, x) \in Seq(S) /\ Append(q, x) # <<>>
<1>1. Append(q, x) \in Seq(S) /\ Len(Append(q, x)) = Len(q) + 1 /\ Len(q) \in Nat
  OBVIOUS
<1>2. Len(<<>>) = 0
  OBVIOUS
<1> QED BY <1>1, <1>2

\* An activation starts with all deps of its candidate.
LEMMA ChangeStep ==
  ASSUME TypeOK, NEW c \in Cands, NEW below, NEW cs, cs = CallRecord, below \in Seq(cs), Change(c, below)
  PROVE  /\ calls' \in Seq(CallRecord)' /\ calls' # <<>>
         /\ changed' = changed \union {c.seat} /\ visited' = visited \union {c.seat}
         /\ selected' = [selected EXCEPT ![c.seat] = c]
         /\ UNCHANGED <<db, vers, deps>>
<1>1. UNCHANGED <<db, vers, deps>> /\ calls' = Append(below, Call(c, FALSE))
  BY DEF Change, Select
<1>2. Call(c, FALSE) \in cs
  BY CandsSeated DEF Call, CallRecord, DepsOf, TypeOK
<1>3. CallRecord' = cs
  BY <1>1 DEF CallRecord, AllCands
<1>4. Append(below, Call(c, FALSE)) \in Seq(cs) /\ Append(below, Call(c, FALSE)) # <<>>
  BY <1>2, Appending
<1> QED BY <1>1, <1>3, <1>4 DEF Change, Select

LEMMA WalkGoalStep ==
  ASSUME PlanIInv, WalkGoal
  PROVE  PlanPart'
<1> USE DEF PlanIInv, IInv, Filling
<1>1. /\ phase = "walk" /\ phase' = "walk" /\ visited = {}
      /\ UNCHANGED <<orderVars, ok, keep, manual>>
      /\ Change(GoalCand, <<>>)
  BY DEF WalkGoal
<1> HIDE DEF GoalCand
<1>2. GoalCand \in Cands /\ GoalCand.seat = Goal /\ Goal \in Seat
  BY DEF Cands, GoalCand, Seat
<1>3. /\ calls' \in Seq(CallRecord)' /\ calls' # <<>>
      /\ changed' = changed \union {Goal} /\ visited' = visited \union {Goal}
      /\ selected' = [selected EXCEPT ![Goal] = GoalCand]
      /\ UNCHANGED <<db, vers, deps>>
  <2> DEFINE cs == CallRecord
  <2>1. <<>> \in Seq(cs)
    OBVIOUS
  <2>2. cs = CallRecord
    OBVIOUS
  <2> HIDE DEF cs
  <2> QED BY <1>1, <1>2, <2>1, <2>2, ChangeStep
<1>4. PlanTypeOK'
  BY <1>1, <1>2, <1>3 DEF PlanTypeOK, orderVars
<1>5. CallsOK'
  BY <1>1, <1>3 DEF CallsOK, Phases
<1>6. GoalKept'
  BY <1>1, <1>2, <1>3 DEF GoalKept, TypeOK, orderVars
<1>7. Judging' /\ Kept'
  BY <1>1 DEF Judging, Kept
<1> QED BY <1>4, <1>5, <1>6, <1>7 DEF PlanPart

LEMMA WalkDepStep ==
  ASSUME PlanIInv, WalkDep
  PROVE  PlanPart'
<1> USE DEF PlanIInv, IInv, Filling
<1> DEFINE cs == CallRecord
<1>1. /\ phase = "walk" /\ phase' = "walk" /\ calls # <<>> /\ visited # {}
      /\ UNCHANGED <<orderVars, ok, keep, manual>>
  BY DEF WalkDep, CallsOK
<1>2. calls \in Seq(cs) /\ Caller \in cs /\ Outer \in Seq(cs)
  BY <1>1 DEF CallsOK, Caller, Outer
<1>3. PICK d \in Caller.todo :
        LET below == Append(Outer, [Caller EXCEPT !.todo = @ \ {d}])
            best == FindBest(d, Caller.ugly)
        IN IF best = {} THEN calls' = below /\ UNCHANGED <<wsVars, changed, visited>>
                        ELSE \E c \in best : Visit(c, below)
  BY DEF WalkDep
<1> DEFINE below == Append(Outer, [Caller EXCEPT !.todo = @ \ {d}])
<1>4. below \in Seq(cs) /\ below # <<>>
  <2>1. [Caller EXCEPT !.todo = @ \ {d}] \in cs
    BY <1>2 DEF CallRecord
  <2> HIDE DEF cs
  <2> QED BY <1>2, <2>1, Appending
<1>5. FindBest(d, Caller.ugly) \subseteq Cands
  <2>1. d.alts \subseteq Cands
    BY <1>2 DEF CallRecord, TypeOK
  <2> QED BY <2>1 DEF FindBest
<1> HIDE DEF below, cs
<1>6. Goal \in changed /\ selected[Goal] = GoalCand
  BY <1>1 DEF GoalKept
<1>7. /\ calls' \in Seq(CallRecord)'
      /\ visited \subseteq visited' /\ visited' \subseteq Seat
      /\ changed \subseteq changed' /\ changed' \subseteq visited'
      /\ selected'[Goal] = GoalCand
      /\ UNCHANGED <<db, vers>>
  <2>1. CASE UNCHANGED <<wsVars, changed, visited>> /\ calls' = below
    <3>1. UNCHANGED <<db, vers, deps, selected>>
      BY <2>1 DEF vars
    <3>2. CallRecord' = cs
      BY <3>1 DEF CallRecord, AllCands, cs
    <3> QED BY <1>4, <1>6, <2>1, <3>1, <3>2 DEF PlanTypeOK
  <2>2. CASE \E c \in FindBest(d, Caller.ugly) : Visit(c, below)
    <3>1. PICK c \in Cands : Visit(c, below)
      BY <1>5, <2>2
    <3>2. c.seat \in Seat
      BY CandsSeated DEF TypeOK
    <3>3. CASE selected[c.seat] = c
      <4>1. /\ UNCHANGED <<db, vers, deps, selected, changed>>
            /\ visited' = visited \union {c.seat}
            /\ calls' = below \/ calls' = Append(below, Call(c, TRUE))
        BY <3>1, <3>3 DEF Visit, vars
      <4>2. CallRecord' = cs
        BY <4>1 DEF CallRecord, AllCands, cs
      <4>3. Call(c, TRUE) \in cs
        BY CandsSeated DEF Call, CallRecord, DepsOf, TypeOK, cs
      <4>4. calls' \in Seq(cs)
        BY <1>4, <4>1, <4>3, Appending
      <4> QED BY <1>6, <3>2, <4>1, <4>2, <4>4 DEF PlanTypeOK
    <3>4. CASE selected[c.seat] # c /\ c.seat \in changed
      BY <2>1, <3>1, <3>4 DEF Visit
    <3>5. CASE selected[c.seat] # c /\ c.seat \notin changed
      <4>1. Change(c, below)
        BY <3>1, <3>5 DEF Visit
      <4>2. /\ calls' \in Seq(CallRecord)'
            /\ changed' = changed \union {c.seat} /\ visited' = visited \union {c.seat}
            /\ selected' = [selected EXCEPT ![c.seat] = c]
            /\ UNCHANGED <<db, vers, deps>>
        BY <1>4, <4>1, ChangeStep DEF cs
      <4>3. c.seat # Goal
        BY <1>6, <3>5
      <4> QED BY <1>6, <3>2, <4>2, <4>3 DEF PlanTypeOK, TypeOK
    <3> QED BY <3>3, <3>4, <3>5
  <2> QED BY <1>3, <2>1, <2>2 DEF below
<1>8. PlanTypeOK'
  BY <1>1, <1>7 DEF PlanTypeOK, orderVars
<1>9. CallsOK'
  BY <1>1, <1>7 DEF CallsOK, Phases
<1>10. GoalKept'
  BY <1>1, <1>6, <1>7 DEF GoalKept, orderVars
<1>11. Judging' /\ Kept'
  BY <1>1 DEF Judging, Kept
<1> QED BY <1>8, <1>9, <1>10, <1>11 DEF PlanPart

LEMMA WalkReturnStep ==
  ASSUME PlanIInv, WalkReturn
  PROVE  PlanPart'
<1> USE DEF PlanIInv, Filling
<1>1. /\ phase = "walk" /\ phase' = "walk" /\ calls # <<>> /\ calls' = Outer
      /\ UNCHANGED <<vars, visited, changed, orderVars, ok, keep, manual>>
  BY DEF WalkReturn
<1>2. UNCHANGED <<db, vers, deps, selected>>
  BY <1>1 DEF vars
<1>3. PlanTypeOK'
  BY <1>1 DEF PlanTypeOK, orderVars
<1>4. CallsOK'
  <2> DEFINE cs == CallRecord
  <2>1. CallRecord' = cs
    BY <1>2 DEF CallRecord, AllCands
  <2>2. calls \in Seq(cs)
    BY DEF CallsOK
  <2> HIDE DEF cs
  <2>3. Outer \in Seq(cs)
    BY <1>1, <2>2 DEF Outer
  <2> QED BY <1>1, <2>1, <2>3 DEF CallsOK, Phases
<1>5. GoalKept'
  BY <1>1, <1>2 DEF GoalKept, orderVars
<1>6. Judging' /\ Kept'
  BY <1>1 DEF Judging, Kept
<1> QED BY <1>3, <1>4, <1>5, <1>6 DEF PlanPart

-----------------------------------------------------------------------------
(***************************************************************************)
(* Judging                                                                 *)
(***************************************************************************)

\* What these steps leave alone.
LEMMA SameSelection ==
  ASSUME UNCHANGED vars
  PROVE  /\ SelectedGraph' = SelectedGraph
         /\ \A S : Sound(S)' <=> Sound(S)
         /\ \A S : Firm(S)' <=> Firm(S)
         /\ \A s : DepsOf(selected[s])' = DepsOf(selected[s])
         /\ \A d : Alternatives(d)' = Alternatives(d)
         /\ UNCHANGED <<db, vers, deps, selected>>
         /\ CallRecord' = CallRecord
<1>1. UNCHANGED <<db, vers, deps, selected>>
  BY DEF vars
<1>2. \A d : Alternatives(d)' = Alternatives(d) /\ SelectedAlts(d, selected)' = SelectedAlts(d, selected)
  BY <1>1 DEF Alternatives, SelectedAlts
<1>3. \A s : DepsOf(selected[s])' = DepsOf(selected[s])
  BY <1>1 DEF DepsOf
<1>4. SelectedGraph' = SelectedGraph
  BY <1>1, <1>2, <1>3 DEF SelectedGraph
<1>5. \A S : Sound(S)' <=> Sound(S)
  BY <1>2, <1>3 DEF Sound
<1>6. \A S : Firm(S)' <=> Firm(S)
  BY <1>2, <1>3 DEF Firm, RequiredByTarget
<1>7. CallRecord' = CallRecord
  BY <1>1 DEF CallRecord, AllCands
<1> QED BY <1>1, <1>2, <1>3, <1>4, <1>5, <1>6, <1>7

\* Once the walk is over, nothing touches its variables.
LEMMA AfterWalk ==
  ASSUME PlanIInv, phase \notin Filling, phase' \in Phases \ (Filling \union {"walk"}), visited # {}, calls = <<>>,
         UNCHANGED walkVars, db' = db, vers' = vers, deps' = deps, selected'[Goal] = selected[Goal],
         phase' # "judge" => Goal \in keep'
  PROVE  CallsOK' /\ GoalKept'
<1> USE DEF PlanIInv, Filling
<1>1. UNCHANGED <<calls, visited, changed>>
  BY DEF walkVars
<1>2. CallsOK'
  BY <1>1 DEF CallsOK
<1>3. GoalKept'
  BY <1>1 DEF GoalKept
<1> QED BY <1>2, <1>3

LEMMA StartCleanupStep ==
  ASSUME PlanIInv, StartCleanup
  PROVE  PlanPart'
<1> USE DEF PlanIInv, IInv
<1>1. /\ phase = "walk" /\ phase' = "judge" /\ visited # {} /\ calls = <<>>
      /\ UNCHANGED <<vars, walkVars, ok, keep, manual>>
      /\ graph' = SelectedGraph /\ relevant' = relevant \union {Goal}
      /\ done' = {} /\ comp' = {} /\ left' = {} /\ some' = FALSE
  BY DEF StartCleanup, StartOrder
<1>2. CallsOK' /\ GoalKept'
  BY <1>1, SameSelection, AfterWalk DEF Filling, Phases
<1>3. ok = {} /\ relevant = {}
  BY <1>1 DEF GoalKept, Filling
<1>4. SelectedGraph \in [Seat -> SUBSET Seat]
  BY GraphTyped
<1>5. PlanTypeOK'
  BY <1>1, <1>3, <1>4 DEF PlanTypeOK, walkVars, Seat
<1>6. Judging'
  <2>1. SelectedGraph' = SelectedGraph
    BY <1>1, SameSelection
  <2>2. Sound(ok)'
    BY <1>1, <1>3 DEF Sound
  <2> QED BY <1>1, <1>3, <2>1, <2>2 DEF Judging
<1>7. Kept'
  BY <1>1 DEF Kept
<1> QED BY <1>2, <1>5, <1>6, <1>7 DEF PlanPart

LEMMA JudgeCompStep ==
  ASSUME PlanIInv, JudgeComp
  PROVE  PlanPart'
<1> USE DEF PlanIInv, IInv
<1>1. PICK C \in SUBSET Seat : VisitComp(C)
  BY DEF JudgeComp
<1>2. /\ phase = "judge" /\ phase' = "judge"
      /\ UNCHANGED <<vars, walkVars, ok, keep, manual, graph, relevant, done>>
      /\ comp' = C /\ left' = C /\ some' = FALSE
      /\ \A s \in C : graph[s] \subseteq C \union done
  BY <1>1 DEF JudgeComp, VisitComp, Ordering!IsNext
<1>3. visited # {} /\ calls = <<>>
  BY <1>2 DEF GoalKept, CallsOK, Filling
<1>4. CallsOK' /\ GoalKept'
  BY <1>2, <1>3, SameSelection, AfterWalk DEF Filling, Phases
<1>5. PlanTypeOK'
  BY <1>2 DEF PlanTypeOK, walkVars
<1>6. Judging'
  BY <1>2, SameSelection DEF Judging
<1>7. Kept'
  BY <1>2 DEF Kept
<1> QED BY <1>4, <1>5, <1>6, <1>7 DEF PlanPart

\* A seat is ok when its deps are satisfied by seats that are; it is done and
\* not ok when a dep can only be satisfied by such seats.
LEMMA JudgeStep ==
  ASSUME PlanIInv, Judge
  PROVE  PlanPart'
<1> USE DEF PlanIInv, IInv
<1>1. PICK s \in left :
        /\ left' = left \ {s}
        /\ ok' = IF DepsTrue(s) THEN ok \union {s} ELSE ok
        /\ IF DepsTrue(s) \/ DepsFalse(s) THEN done' = done \union {s} /\ some' = TRUE
                                          ELSE UNCHANGED <<done, some>>
  BY DEF Judge
<1>2. /\ phase = "judge" /\ phase' = "judge"
      /\ UNCHANGED <<vars, walkVars, keep, manual, graph, relevant, comp>>
  BY DEF Judge
<1>3. visited # {} /\ calls = <<>>
  BY <1>2 DEF GoalKept, CallsOK, Filling
<1>4. CallsOK' /\ GoalKept'
  BY <1>2, <1>3, SameSelection, AfterWalk DEF Filling, Phases
<1>5. s \in Seat /\ s \in comp
  BY DEF PlanTypeOK
<1>6. PlanTypeOK'
  BY <1>1, <1>2, <1>5 DEF PlanTypeOK, walkVars
<1>7. Judging'
  <2>1. /\ ok \subseteq done /\ Sound(ok)
        /\ \A S \in SUBSET Seat : Sound(S) => S \intersect (done \ ok) = {}
        /\ ~some => \A t \in comp \ left : ~DepsFalse(t)
        /\ \A t \in comp : graph[t] \subseteq comp \union done
    BY <1>2 DEF Judging
  <2>2. ok' \subseteq done'
    BY <1>1, <2>1
  <2>3. Sound(ok)'
    <3>1. Sound(ok')
      BY <1>1, <2>1 DEF Sound, DepsTrue
    <3>2. \A t : DepsOf(selected[t])' = DepsOf(selected[t])
      BY <1>2, SameSelection
    <3>3. \A d : Alternatives(d)' = Alternatives(d)
      BY <1>2, SameSelection
    <3> QED BY <3>1, <3>2, <3>3 DEF Sound
  <2>4. ASSUME NEW S \in SUBSET Seat, Sound(S)
        PROVE  S \intersect (done' \ ok') = {}
    <3>1. S \intersect (done \ ok) = {}
      BY <2>1, <2>4
    <3>2. CASE DepsTrue(s)
      BY <1>1, <3>1, <3>2
    <3>3. CASE ~DepsTrue(s) /\ DepsFalse(s)
      <4>1. s \notin S
        BY <2>4, <3>1, <3>3 DEF DepsFalse, Sound
      <4> QED BY <1>1, <3>1, <3>3, <4>1
    <3>4. CASE ~DepsTrue(s) /\ ~DepsFalse(s)
      BY <1>1, <3>1, <3>4
    <3> QED BY <3>2, <3>3, <3>4
  <2>5. ~some' => \A t \in comp' \ left' : ~DepsFalse(t)'
    <3> SUFFICES ASSUME ~some' PROVE \A t \in comp' \ left' : ~DepsFalse(t)'
      OBVIOUS
    <3>1. ~DepsTrue(s) /\ ~DepsFalse(s) /\ UNCHANGED <<done, ok, some>>
      BY <1>1
    <3>2. \A t : DepsFalse(t)' <=> DepsFalse(t)
      BY <1>2, <3>1, SameSelection DEF DepsFalse
    <3> QED BY <1>1, <1>2, <2>1, <3>1, <3>2
  <2>6. \A t \in comp' : graph'[t] \subseteq comp' \union done'
    BY <1>1, <1>2, <2>1
  <2> QED BY <1>2, <2>2, <2>3, <2>4, <2>5, <2>6, SameSelection DEF Judging
<1>8. Kept'
  BY <1>2 DEF Kept
<1> QED BY <1>4, <1>6, <1>7, <1>8 DEF PlanPart

\* Seats that only wait for each other are ok together.
LEMMA JudgedCompStep ==
  ASSUME PlanIInv, JudgedComp
  PROVE  PlanPart'
<1> USE DEF PlanIInv, IInv
<1>1. /\ phase = "judge" /\ phase' = "judge" /\ left = {}
      /\ UNCHANGED <<vars, walkVars, keep, manual, graph, relevant, left, some>>
      /\ comp' = {}
      /\ ok' = IF some THEN ok ELSE ok \union comp
      /\ done' = IF some THEN done ELSE done \union comp
  BY DEF JudgedComp
<1>2. visited # {} /\ calls = <<>>
  BY <1>1 DEF GoalKept, CallsOK, Filling
<1>3. CallsOK' /\ GoalKept'
  BY <1>1, <1>2, SameSelection, AfterWalk DEF Filling, Phases
<1>4. PlanTypeOK'
  BY <1>1 DEF PlanTypeOK, walkVars
<1>5. Judging'
  <2>1. /\ graph = SelectedGraph /\ ok \subseteq done /\ Sound(ok)
        /\ \A S \in SUBSET Seat : Sound(S) => S \intersect (done \ ok) = {}
        /\ ~some => \A t \in comp : ~DepsFalse(t)
        /\ \A t \in comp : graph[t] \subseteq comp \union done
    BY <1>1 DEF Judging
  <2>2. Sound(ok')
    <3>1. CASE some
      BY <1>1, <2>1, <3>1
    <3>2. CASE ~some
      <4>1. ASSUME NEW t \in comp, NEW d \in DepsOf(selected[t])
            PROVE  Alternatives(d) \intersect (ok \union comp) # {}
        <5>1. t \in Seat
          BY DEF PlanTypeOK
        <5>2. Alternatives(d) \subseteq graph[t]
          BY <2>1, <5>1 DEF SelectedGraph, Alternatives
        <5>3. PICK a \in Alternatives(d) : a \notin done \ ok
          BY <2>1, <3>2 DEF DepsFalse
        <5> QED BY <2>1, <5>2, <5>3
      <4>2. \A t \in ok : \A d \in DepsOf(selected[t]) : Alternatives(d) \intersect ok # {}
        BY <2>1 DEF Sound
      <4> QED BY <1>1, <3>2, <4>1, <4>2 DEF Sound
    <3> QED BY <3>1, <3>2
  <2>3. Sound(ok)'
    BY <1>1, <2>2, SameSelection DEF Sound
  <2>4. done' \ ok' \subseteq done \ ok /\ ok' \subseteq done'
    BY <1>1, <2>1
  <2> QED BY <1>1, <2>1, <2>3, <2>4, SameSelection DEF Judging
<1>6. Kept'
  BY <1>1 DEF Kept
<1> QED BY <1>3, <1>4, <1>5, <1>6 DEF PlanPart

-----------------------------------------------------------------------------
(***************************************************************************)
(* Reverting and sweeping                                                  *)
(***************************************************************************)
LEMMA ForwardOrReversed ==
  ASSUME DepsComputed, NEW d \in deps
  PROVE  \/ d.reversed = FALSE /\ \E c \in Cands : \E r \in Relations(c) : d = Dep(c, r)
         \/ d.reversed = TRUE /\ \E t \in Cands, s \in Seat :
              /\ \E c \in SeatCands(s) : SiblingDeps(ForwardDeps, t, c) # {}
              /\ d = ReverseDep(ForwardDeps, t, s)
<1>1. d \in ForwardDeps \/ d \in ReverseDeps(ForwardDeps)
  BY DEF DepsComputed
<1>2. CASE d \in ForwardDeps
  BY <1>2 DEF ForwardDeps, Dep
<1>3. CASE d \in ReverseDeps(ForwardDeps)
  BY <1>3 DEF ReverseDeps, ReverseDep
<1> QED BY <1>1, <1>2, <1>3

\* What the goal asks for are packages; no dep has the goal for an alternative.
LEMMA AlternativesOfDep ==
  ASSUME TypeOK, NEW c \in Cands, NEW r \in Relations(c)
  PROVE  \A a \in Dep(c, r).alts : a.seat \in Pkg \/ (a = UglyCand /\ c # GoalCand)
<1>1. IsRelation(r) /\ (c = GoalCand => r.type = "goal")
  <2>1. CASE c.ver \in Ver
    <3>1. c # GoalCand
      BY <2>1, WorkspaceAssumption
    <3> QED BY <2>1, <3>1, InputAssumption DEF Relations, TypeOK, IsDatabase
  <2>2. CASE c.ver \notin Ver
    <3>1. r \in goal
      BY <2>2 DEF Relations
    <3>2. r.type = "goal" /\ IsRelation(r)
      BY <3>1, InputAssumption DEF TypeOK
    <3> QED BY <3>2
  <2> QED BY <2>1, <2>2
<1>2. ASSUME NEW a \in r.alts, NEW x \in AltCands(a, r.conf)
      PROVE  x.seat \in Pkg
  <2>1. CASE x \in SeatCands(a.pkg)
    BY <1>1, <2>1 DEF IsRelation, SeatCands
  <2>2. CASE x \in Providers(a.pkg)
    BY <2>2, WorkspaceAssumption DEF Providers, Cands
  <2> QED BY <2>1, <2>2 DEF AltCands
<1> DEFINE ugly == IF r.type = "recommends" THEN {UglyCand} ELSE {}
           of == UNION {AltCands(a, r.conf) : a \in r.alts}
<1>3. Dep(c, r).alts = of \union ugly
  BY DEF Dep
<1>4. \A x \in of : x.seat \in Pkg
  BY <1>2
<1>5. \A x \in ugly : x = UglyCand /\ c # GoalCand
  BY <1>1
<1> HIDE DEF of, ugly
<1> QED BY <1>3, <1>4, <1>5

LEMMA GoalAsksForPackages ==
  ASSUME TypeOK, DepsComputed, NEW d \in DepsOf(GoalCand)
  PROVE  Alternatives(d) \subseteq Pkg
<1>1. d \in deps /\ d.cand = GoalCand
  BY DEF DepsOf
<1> HIDE DEF GoalCand, UglyCand
<1>2. CASE \E c \in Cands : \E r \in Relations(c) : d = Dep(c, r)
  <2>1. PICK c \in Cands : \E r \in Relations(c) : d = Dep(c, r)
    BY <1>2
  <2>2. PICK r \in Relations(c) : d = Dep(c, r)
    BY <2>1
  <2>3. c = GoalCand
    BY <1>1, <2>2 DEF Dep
  <2>4. \A a \in d.alts : a.seat \in Pkg
    BY <2>2, <2>3, AlternativesOfDep
  <2> QED BY <2>4 DEF Alternatives, SelectedAlts
<1>3. CASE \E t \in Cands, s \in Seat :
             /\ \E c \in SeatCands(s) : SiblingDeps(ForwardDeps, t, c) # {}
             /\ d = ReverseDep(ForwardDeps, t, s)
  <2>1. PICK t \in Cands, s \in Seat :
             /\ \E c \in SeatCands(s) : SiblingDeps(ForwardDeps, t, c) # {}
             /\ d = ReverseDep(ForwardDeps, t, s)
    BY <1>3
  <2>2. t.seat = Goal
    BY <1>1, <2>1 DEF ReverseDep, GoalCand
  <2>3. PICK e \in ForwardDeps : \E a \in e.alts : a.seat = Goal
    BY <2>1, <2>2 DEF SiblingDeps
  <2>4. PICK c \in Cands : \E r \in Relations(c) : e = Dep(c, r)
    BY DEF ForwardDeps
  <2>5. \A a \in e.alts : a.seat \in Pkg \/ a = UglyCand
    BY <2>4, AlternativesOfDep
  <2> QED BY <2>3, <2>5, WorkspaceAssumption DEF UglyCand
<1> QED BY <1>1, <1>2, <1>3, ForwardOrReversed

\* What breaks something is content when that is not there at all.
LEMMA BreaksAcceptsNull ==
  ASSUME TypeOK, DepsComputed, NEW d \in deps, d.reversed = FALSE, d.src.type = "breaks", NEW a \in d.alts
  PROVE  Null(a.seat) \in d.alts
<1>1. PICK c \in Cands : \E r \in Relations(c) : d = Dep(c, r)
  BY ForwardOrReversed
<1>2. PICK r \in Relations(c) : d = Dep(c, r)
  BY <1>1
<1>3. r.type = "breaks"
  BY <1>2 DEF Dep
<1>4. c.ver \in Ver /\ r \in db.rels[c.ver]
  <2>1. r \notin goal
    BY <1>3, InputAssumption DEF TypeOK
  <2> QED BY <2>1 DEF Relations
<1>5. r.conf = TRUE /\ IsRelation(r) /\ \A q \in r.alts : ~q.null
  <2>1. db \in Databases
    BY DEF TypeOK
  <2> QED BY <1>3, <1>4, <2>1, InputAssumption DEF IsDatabase, IsRelation
<1>6. \A x : x \in d.alts <=> \E q \in r.alts : x \in AltCands(q, TRUE)
  <2>1. d.alts = UNION {AltCands(q, TRUE) : q \in r.alts}
    BY <1>2, <1>3, <1>5 DEF Dep
  <2> QED BY <2>1
<1>7. PICK q \in r.alts : a \in AltCands(q, TRUE)
  BY <1>6
<1>8. a.seat = q.pkg /\ q.pkg \in Seat
  BY <1>5, <1>7 DEF AltCands, SeatCands, IsRelation, Seat
<1>9. Null(q.pkg) \in SeatCands(q.pkg)
  BY <1>8 DEF SeatCands, Cands
<1>10. Satisfies(Null(q.pkg), q, TRUE)
  <2>1. NoVer \notin q.vers /\ ~q.null
    BY <1>5, WorkspaceAssumption DEF IsRelation
  <2> QED BY <2>1 DEF Satisfies
<1> QED BY <1>6, <1>8, <1>9, <1>10 DEF AltCands

\* What is kept is a consistent choice when the goal is ok: it is what is
\* needed of what is ok.
LEMMA StartRevertStep ==
  ASSUME PlanIInv, StartRevert
  PROVE  PlanPart'
<1> USE DEF PlanIInv, IInv
<1> DEFINE needs == [s \in Seat |-> Needs(s)]
<1>1. /\ phase = "judge" /\ phase' = "revert"
      /\ UNCHANGED <<vars, walkVars, orderVars, ok, manual>>
  BY DEF StartRevert
<1>2. visited # {} /\ calls = <<>>
  BY <1>1 DEF GoalKept, CallsOK, Filling
<1>3. keep' = Closure({Goal}, needs)
  BY <1>2 DEF StartRevert, GoalKept
<1>4. {Goal} \in SUBSET Seat /\ \A s \in Seat : needs[s] = Needs(s) /\ needs[s] \subseteq Seat
  BY NeedsSeated DEF Seat
<1> HIDE DEF needs
<1>5. /\ keep' \subseteq Seat /\ Goal \in keep'
      /\ \A t \in keep' : Needs(t) \subseteq keep'
      /\ \A S \in SUBSET Seat : Goal \in S /\ (\A t \in S : Needs(t) \subseteq S) => keep' \subseteq S
  BY <1>3, <1>4, ClosureLeast
<1>6. CallsOK' /\ GoalKept'
  BY <1>1, <1>2, <1>5, SameSelection, AfterWalk DEF Filling, Phases
<1>7. PlanTypeOK'
  BY <1>1, <1>5 DEF PlanTypeOK, walkVars, orderVars
<1>8. Judging'
  BY <1>1 DEF Judging
<1>9. ASSUME GoalOk
      PROVE  Sound(keep')
  <2>1. Sound(ok) /\ ok \in SUBSET Seat /\ Goal \in ok
    BY <1>1, <1>9 DEF Judging, PlanTypeOK, GoalOk
  <2>2. ASSUME NEW t \in ok, NEW d \in DepsOf(selected[t])
        PROVE  /\ Alternatives(d) \intersect ok # {}
               /\ \E a \in d.alts : a.seat \in ok
    BY <2>1 DEF Sound, Alternatives, SelectedAlts
  <2>3. ASSUME NEW t \in ok
        PROVE  /\ Needs(t) \subseteq ok
               /\ \A d \in DepsOf(selected[t]) : Alternatives(d) \intersect ok \subseteq Needs(t)
    BY <2>2 DEF Needs
  <2>4. keep' \subseteq ok
    BY <1>5, <2>1, <2>3
  <2>5. ASSUME NEW t \in keep', NEW d \in DepsOf(selected[t])
        PROVE  Alternatives(d) \intersect keep' # {}
    <3>1. Alternatives(d) \intersect ok # {} /\ Alternatives(d) \intersect ok \subseteq Needs(t)
      BY <2>2, <2>3, <2>4, <2>5
    <3> QED BY <1>5, <3>1
  <2> QED BY <2>5 DEF Sound
<1>10. Kept'
  <2>1. GoalOk' <=> GoalOk
    BY <1>1 DEF GoalOk
  <2>2. Sound(keep)' <=> Sound(keep')
    BY <1>1, SameSelection DEF Sound
  <2> QED BY <1>1, <1>9, <2>1, <2>2 DEF Kept
<1> QED BY <1>6, <1>7, <1>8, <1>10 DEF PlanPart

LEMMA RevertStep ==
  ASSUME PlanIInv, Revert
  PROVE  PlanPart'
<1> USE DEF PlanIInv, IInv
<1>1. /\ phase = "revert" /\ phase' = "revert"
      /\ UNCHANGED <<walkVars, orderVars, ok, keep, manual>>
  BY DEF Revert, ReplaceSeats
<1>2. PICK s \in Seat \ keep : Select(Initially(s))
  BY <1>1 DEF Revert, ReplaceSeats, Stale
<1>3. Initially(s).seat = s
  BY <1>1, InitiallySeated DEF GoalKept
<1>4. /\ selected' = [selected EXCEPT ![s] = Initially(s)]
      /\ UNCHANGED <<db, vers, deps>>
  BY <1>2, <1>3 DEF Select
<1>5. visited # {} /\ calls = <<>> /\ Goal \in keep
  BY <1>1 DEF GoalKept, CallsOK, Filling
<1>6. \A t \in keep : selected'[t] = selected[t]
  BY <1>4 DEF PlanTypeOK, TypeOK
<1>7. CallsOK' /\ GoalKept'
  BY <1>1, <1>4, <1>5, <1>6, AfterWalk DEF Filling, Phases
<1>8. PlanTypeOK'
  BY <1>1 DEF PlanTypeOK, walkVars, orderVars
<1>9. Kept'
  <2>1. PICK K : K = keep
    OBVIOUS
  <2>2. Sound(K) => Sound(K)'
    BY <1>4, <1>6, <2>1, SoundFrame
  <2>3. Sound(keep) => Sound(keep)'
    BY <1>1, <2>1, <2>2 DEF Sound
  <2> QED BY <1>1, <2>3 DEF Kept, GoalOk
<1>10. Judging'
  BY <1>1 DEF Judging
<1> QED BY <1>7, <1>8, <1>9, <1>10 DEF PlanPart

LEMMA RevertEndsStep ==
  ASSUME PlanIInv, RevertEnds
  PROVE  PlanPart'
<1> USE DEF PlanIInv
<1>1. /\ phase = "revert" /\ phase' = "broken"
      /\ UNCHANGED <<vars, walkVars, orderVars, ok, keep, manual>>
  BY DEF RevertEnds
<1>2. visited # {} /\ calls = <<>> /\ Goal \in keep
  BY <1>1 DEF GoalKept, CallsOK, Filling
<1>3. CallsOK' /\ GoalKept'
  BY <1>1, <1>2, SameSelection, AfterWalk DEF Filling, Phases
<1>4. PlanTypeOK'
  BY <1>1 DEF PlanTypeOK, walkVars, orderVars
<1>5. Judging' /\ Kept'
  BY <1>1 DEF Judging, Kept
<1> QED BY <1>3, <1>4, <1>5 DEF PlanPart

\* All alternatives of what is marked are marked, so that the seats that were
\* kept and are marked satisfy each other.
LEMMA StartSweepStep ==
  ASSUME PlanIInv, StartSweep
  PROVE  PlanPart'
<1> USE DEF PlanIInv, IInv
<1> DEFINE needs == [s \in Seat |-> Marks(s)]
<1>1. /\ phase = "revert" /\ phase' = "sweep" /\ GoalOk
      /\ UNCHANGED <<vars, walkVars, graph, done, comp, left, some, ok, manual>>
      /\ keep' = Closure({Goal} \union manual, needs)
      /\ relevant' = relevant \union (Seat \ keep')
  BY DEF StartSweep
<1>2. visited # {} /\ calls = <<>> /\ Goal \in keep
  BY <1>1 DEF GoalKept, CallsOK, Filling
<1>3. /\ {Goal} \union manual \in SUBSET Seat
      /\ \A s \in Seat : needs[s] = Marks(s) /\ needs[s] \subseteq Seat
  BY NeedsSeated DEF Seat, PlanTypeOK
<1> HIDE DEF needs
<1>4. /\ keep' \subseteq Seat /\ Goal \in keep'
      /\ \A t \in keep' : Marks(t) \subseteq keep'
  BY <1>1, <1>3, ClosureLeast
<1>5. CallsOK' /\ GoalKept'
  BY <1>1, <1>2, <1>4, SameSelection, AfterWalk DEF Filling, Phases
<1>6. PlanTypeOK'
  BY <1>1, <1>4 DEF PlanTypeOK, walkVars
<1>7. Judging'
  BY <1>1 DEF Judging
<1>8. Sound(keep)
  BY <1>1 DEF Kept
<1>9. PICK S : S = keep \intersect keep'
  OBVIOUS
<1>10. Firm(S)
  <2>1. ASSUME NEW s \in S, NEW d \in DepsOf(selected[s])
        PROVE  /\ Alternatives(d) \intersect keep # {}
               /\ ~RequiredByTarget(d) => Alternatives(d) \subseteq keep'
    <3>1. ~RequiredByTarget(d) => Alternatives(d) \subseteq Marks(s)
      BY <2>1 DEF Marks
    <3> QED BY <1>4, <1>8, <1>9, <2>1, <3>1 DEF Sound
  <2> QED BY <1>9, <2>1 DEF Firm
<1>11. Firm(S)'
  BY <1>1, <1>10, SameSelection
<1>12. Kept'
  BY <1>1, <1>2, <1>4, <1>9, <1>11 DEF Kept
<1> QED BY <1>5, <1>6, <1>7, <1>12 DEF PlanPart

\* Nothing that is firm is swept, and what is swept becomes null, which is what
\* those that break it ask for.
LEMMA SweepStep ==
  ASSUME PlanIInv, Sweep
  PROVE  PlanPart'
<1> USE DEF PlanIInv, IInv
<1>1. /\ phase = "sweep" /\ phase' = "sweep"
      /\ UNCHANGED <<walkVars, orderVars, ok, keep, manual>>
  BY DEF Sweep, ReplaceSeats
<1>2. PICK s \in Seat \ keep : Select(Null(s))
  BY <1>1 DEF Sweep, ReplaceSeats, Unmarked
<1>3. /\ selected' = [selected EXCEPT ![s] = Null(s)]
      /\ UNCHANGED <<db, vers, deps>>
  BY <1>2 DEF Select
<1>4. visited # {} /\ calls = <<>> /\ Goal \in keep
  BY <1>1 DEF GoalKept, CallsOK, Filling
<1>5. \A t \in Seat : t # s => selected'[t] = selected[t]
  BY <1>3 DEF TypeOK
<1>6. CallsOK' /\ GoalKept'
  BY <1>1, <1>2, <1>3, <1>4, <1>5, AfterWalk DEF Filling, Phases, Seat
<1>7. PlanTypeOK'
  BY <1>1 DEF PlanTypeOK, walkVars, orderVars
<1>8. PICK S \in SUBSET keep : Goal \in S /\ Firm(S)
  BY <1>1 DEF Kept
<1>9. S \subseteq Seat /\ s \notin S
  BY <1>2 DEF PlanTypeOK
<1>10. \A d : Alternatives(d)' \intersect S = Alternatives(d) \intersect S
  BY <1>3, <1>5, <1>9, SoundFrame
<1>11. Firm(S)'
  <2>1. ASSUME NEW t \in S, NEW d \in DepsOf(selected[t])
        PROVE  IF RequiredByTarget(d) THEN d.reversed \/ Alternatives(d)' # {}
                                      ELSE Alternatives(d)' \intersect S # {}
    <3>1. CASE ~RequiredByTarget(d)
      BY <1>8, <1>10, <2>1, <3>1 DEF Firm
    <3>2. CASE RequiredByTarget(d) /\ ~d.reversed
      <4>1. PICK a \in d.alts : selected[a.seat] = a
        BY <1>8, <2>1, <3>2 DEF Firm, Alternatives, SelectedAlts
      <4>2. d \in deps
        BY <2>1 DEF DepsOf
      <4>3. d.src.type = "breaks" /\ d.reversed = FALSE
        BY <3>2, <4>2, ForwardOrReversed DEF RequiredByTarget
      <4>4. a.seat \in Seat
        BY <4>2, CandsSeated DEF TypeOK
      <4>5. CASE a.seat = s
        <5>1. Null(s) \in d.alts
          BY <4>2, <4>3, <4>5, BreaksAcceptsNull
        <5>2. selected'[s] = Null(s)
          BY <1>2, <1>3 DEF TypeOK
        <5>3. Null(s) \in SelectedAlts(d, selected)'
          BY <5>1, <5>2 DEF SelectedAlts
        <5> QED BY <3>2, <5>3 DEF Alternatives
      <4>6. CASE a.seat # s
        <5>1. selected'[a.seat] = a
          BY <1>5, <4>1, <4>4, <4>6
        <5>2. a \in SelectedAlts(d, selected)'
          BY <4>1, <5>1 DEF SelectedAlts
        <5> QED BY <3>2, <5>2 DEF Alternatives
      <4> QED BY <4>5, <4>6
    <3>3. CASE RequiredByTarget(d) /\ d.reversed
      BY <3>3
    <3> QED BY <3>1, <3>2, <3>3
  <2>2. \A t \in S : DepsOf(selected[t])' = DepsOf(selected[t])
    BY <1>3, <1>5, <1>9 DEF DepsOf
  <2> QED BY <2>1, <2>2 DEF Firm, RequiredByTarget
<1>12. Kept'
  BY <1>1, <1>8, <1>11 DEF Kept
<1>13. Judging'
  BY <1>1 DEF Judging
<1> QED BY <1>6, <1>7, <1>12, <1>13 DEF PlanPart

LEMMA SetManualStep ==
  ASSUME PlanIInv, SetManual
  PROVE  PlanPart'
<1> USE DEF PlanIInv, IInv
<1>1. /\ phase = "sweep" /\ phase' = "planned"
      /\ UNCHANGED <<vars, walkVars, orderVars, ok, keep>>
      /\ manual' = manual \union UNION {Alternatives(d) : d \in DepsOf(GoalCand)}
  BY DEF SetManual
<1>2. visited # {} /\ calls = <<>> /\ Goal \in keep
  BY <1>1 DEF GoalKept, CallsOK, Filling
<1>3. CallsOK' /\ GoalKept'
  BY <1>1, <1>2, SameSelection, AfterWalk DEF Filling, Phases
<1>4. manual' \subseteq Pkg
  BY <1>1, GoalAsksForPackages DEF PlanTypeOK
<1>5. PlanTypeOK'
  BY <1>1, <1>4 DEF PlanTypeOK, walkVars, orderVars
<1>6. PICK S \in SUBSET keep : Goal \in S /\ Firm(S)
  BY <1>1 DEF Kept
<1>7. Firm(S)'
  BY <1>1, <1>6, SameSelection
<1>8. Kept'
  BY <1>1, <1>6, <1>7 DEF Kept
<1>9. Judging'
  BY <1>1 DEF Judging
<1> QED BY <1>3, <1>5, <1>8, <1>9 DEF PlanPart

-----------------------------------------------------------------------------
(***************************************************************************)
(* The theorems                                                            *)
(***************************************************************************)
LEMMA StutterPlanIInv == PlanIInv /\ UNCHANGED planVars => PlanIInv'
<1> SUFFICES ASSUME PlanIInv, UNCHANGED planVars PROVE PlanIInv'
  OBVIOUS
<1> USE DEF PlanIInv
<1>1. UNCHANGED <<vars, phase, walkVars, orderVars, ok, keep, manual>>
  BY DEF planVars
<1>2. IInv' /\ DepsComputed'
  BY <1>1, StepIInv, DepsComputedStep
<1>3. PlanTypeOK'
  BY <1>1 DEF PlanTypeOK, walkVars, orderVars
<1>4. CallsOK' /\ GoalKept'
  BY <1>1, SameSelection DEF CallsOK, GoalKept, walkVars, orderVars
<1>5. Judging'
  BY <1>1, SameSelection DEF Judging, DepsFalse, orderVars
<1>6. Kept'
  BY <1>1, SameSelection DEF Kept, GoalOk
<1> QED BY <1>2, <1>3, <1>4, <1>5, <1>6

LEMMA StepPlanIInv == PlanIInv /\ [PlanNext]_planVars => PlanIInv'
<1> SUFFICES ASSUME PlanIInv, PlanNext PROVE PlanIInv'
  BY StutterPlanIInv
<1>1. [Next]_vars
  BY WorkspaceStep
<1>2. IInv' /\ DepsComputed'
  BY <1>1, StepIInv, DepsComputedStep DEF PlanIInv
<1>3. PlanPart'
  <2>1. CASE Fill
    BY <2>1, FillStep
  <2>2. CASE WalkGoal
    BY <2>2, WalkGoalStep
  <2>3. CASE WalkDep
    BY <2>3, WalkDepStep
  <2>4. CASE WalkReturn
    BY <2>4, WalkReturnStep
  <2>5. CASE StartCleanup
    BY <2>5, StartCleanupStep
  <2>6. CASE JudgeComp
    BY <2>6, JudgeCompStep
  <2>7. CASE Judge
    BY <2>7, JudgeStep
  <2>8. CASE JudgedComp
    BY <2>8, JudgedCompStep
  <2>9. CASE StartRevert
    BY <2>9, StartRevertStep
  <2>10. CASE Revert
    BY <2>10, RevertStep
  <2>11. CASE RevertEnds
    BY <2>11, RevertEndsStep
  <2>12. CASE StartSweep
    BY <2>12, StartSweepStep
  <2>13. CASE Sweep
    BY <2>13, SweepStep
  <2>14. CASE SetManual
    BY <2>14, SetManualStep
  <2> QED
    BY <2>1, <2>2, <2>3, <2>4, <2>5, <2>6, <2>7, <2>8, <2>9, <2>10, <2>11, <2>12, <2>13, <2>14 DEF PlanNext
<1> QED BY <1>2, <1>3 DEF PlanIInv, PlanPart

\* What the visitor leaves undecided last is ok together; what is done and not
\* ok is part of no consistent choice.
LEMMA GoalOkWhenJudged == PlanIInv => GoalOkExact
<1> SUFFICES ASSUME PlanIInv, phase = "judge", OrderEnds
             PROVE  GoalOk <=> \E S \in SUBSET Seat : Goal \in S /\ Sound(S)
  BY DEF GoalOkExact
<1> USE DEF PlanIInv
<1>1. /\ relevant = {Goal} /\ Sound(ok) /\ ok \in SUBSET Seat
      /\ \A S \in SUBSET Seat : Sound(S) => S \intersect (done \ ok) = {}
  BY DEF Judging, PlanTypeOK
<1>2. Goal \in done
  <2>1. Goal \in Ordering!Reachable
    BY <1>1 DEF Ordering!Reachable, Seat
  <2> QED BY <2>1 DEF OrderEnds
<1>3. GoalOk => \E S \in SUBSET Seat : Goal \in S /\ Sound(S)
  BY <1>1 DEF GoalOk
<1>4. ASSUME NEW S \in SUBSET Seat, Goal \in S, Sound(S)
      PROVE  GoalOk
  BY <1>1, <1>2, <1>4 DEF GoalOk
<1> QED BY <1>3, <1>4

LEMMA PlanHoldsWhenPlanned == PlanIInv => PlanHolds
<1> SUFFICES ASSUME PlanIInv, phase = "planned"
             PROVE  /\ selected[Goal] = GoalCand
                    /\ \E S \in SUBSET Seat : Goal \in S /\ Firm(S)
  BY DEF PlanHolds
<1>1. selected[Goal] = GoalCand
  BY DEF PlanIInv, GoalKept, Filling
<1>2. keep \subseteq Seat /\ \E S \in SUBSET keep : Goal \in S /\ Firm(S)
  BY DEF PlanIInv, Kept, PlanTypeOK
<1> QED BY <1>1, <1>2

THEOREM PlanInvariance == PlanSpec => []PlanIInv
<1> QED BY InitPlanIInv, StepPlanIInv, PTL DEF PlanSpec

\* dpm_alg_cleanup_goal calls the goal ok exactly when what is selected has a
\* consistent choice for it, for every database, goal, order of deps and
\* order of components: cycles of deps are neither rejected nor do they hide
\* what is missing.
THEOREM GoalOkIsExact == PlanSpec => []GoalOkExact
<1> QED BY PlanInvariance, GoalOkWhenJudged, PTL

\* When dpm_alg_remove_unused returns, the goal is selected and what it needs
\* is too: neither reverting what is not needed nor sweeping what is not used
\* undoes what made it ok, whatever the walk left behind.
THEOREM PlanIsKept == PlanSpec => []PlanHolds
<1> QED BY PlanInvariance, PlanHoldsWhenPlanned, PTL

-----------------------------------------------------------------------------
(***************************************************************************)
(* Sound selections                                                        *)
(***************************************************************************)

\* The deps of versions that have to be satisfied.
Demand(d) == d.reversed = FALSE /\ d.src.type # "recommends" /\ d.cand.ver \in Ver
Met(sel) == \A d \in deps : Demand(d) /\ sel[d.cand.seat] = d.cand => Satisfied(d, sel)

Before == [s \in Seat |-> Initially(s)]

\* A candidate is a version of a package, the null candidate of a seat or special.
LEMMA CandShape ==
  ASSUME TypeOK, NEW c \in Cands
  PROVE  /\ c = [seat |-> c.seat, ver |-> c.ver]
         /\ c.seat \in Pkg => c.ver \in vers \union {NoVer} /\ (c.ver # NoVer => PkgOf[c.ver] = c.seat)
         /\ c.seat \in {Goal, Ugly} => c.ver \in {NoVer, Own}
         /\ c.ver \in Ver => c.ver \in vers /\ c = Cand(c.ver) /\ c.seat = PkgOf[c.ver] /\ c.seat \in Pkg
<1>1. \/ \E s \in Seat : c = Null(s)
      \/ c = GoalCand \/ c = UglyCand
      \/ \E v \in vers : c = Cand(v)
  BY DEF Cands
<1>2. CASE \E s \in Seat : c = Null(s)
  BY <1>2, WorkspaceAssumption
<1>3. CASE c = GoalCand \/ c = UglyCand
  BY <1>3, WorkspaceAssumption
<1>4. CASE \E v \in vers : c = Cand(v)
  <2>1. PICK v \in vers : c = Cand(v)
    BY <1>4
  <2>2. v \in Ver /\ PkgOf[v] \in Pkg
    BY WorkspaceAssumption DEF TypeOK
  <2>3. c.seat = PkgOf[v] /\ c.ver = v
    BY <2>1
  <2> QED BY <2>1, <2>2, <2>3, WorkspaceAssumption
<1> QED BY <1>1, <1>2, <1>3, <1>4

LEMMA IsSelection ==
  ASSUME TypeOK, NEW sel, sel = [s \in Seat |-> sel[s]], \A s \in Seat : sel[s] \in SeatCands(s)
  PROVE  sel \in Selections
<1> DEFINE f == [p \in Pkg |-> sel[p].ver]
           g == [s \in {Goal, Ugly} |-> sel[s].ver]
<1>1. \A p \in Pkg : /\ sel[p] = [seat |-> p, ver |-> sel[p].ver]
                     /\ sel[p].ver \in vers \union {NoVer}
                     /\ sel[p].ver # NoVer => PkgOf[sel[p].ver] = p
  <2>1. \A p \in Pkg : sel[p] \in Cands /\ sel[p].seat = p
    BY DEF SeatCands, Seat
  <2> QED BY <2>1, CandShape
<1>2. \A s \in {Goal, Ugly} : sel[s] = [seat |-> s, ver |-> sel[s].ver] /\ sel[s].ver \in {NoVer, Own}
  <2>1. \A s \in {Goal, Ugly} : sel[s] \in Cands /\ sel[s].seat = s
    BY DEF SeatCands, Seat
  <2> QED BY <2>1, CandShape
<1>3. f \in [Pkg -> vers \union {NoVer}] /\ \A p \in Pkg : f[p] # NoVer => PkgOf[f[p]] = p
  BY <1>1
<1>4. g \in [{Goal, Ugly} -> {NoVer, Own}]
  BY <1>2
<1>5. \A s \in Seat : sel[s] = [seat |-> s, ver |-> IF s \in Pkg THEN f[s] ELSE g[s]]
  BY <1>1, <1>2 DEF Seat
<1> HIDE DEF f, g
<1>6. sel = [s \in Seat |-> [seat |-> s, ver |-> IF s \in Pkg THEN f[s] ELSE g[s]]]
  BY <1>5
<1> QED BY <1>3, <1>4, <1>6 DEF Selections

LEMMA DemandOf ==
  ASSUME IInv, DepsComputed, NEW d \in deps, Demand(d)
  PROVE  /\ started /\ d.cand \in Cands
         /\ \E v \in vers : /\ v \in Ver /\ d.cand = Cand(v) /\ d.src \in db.rels[v]
                            /\ d = Dep(Cand(v), d.src)
         /\ \A a \in d.alts : a \in Cands /\ a.seat \in Pkg
<1>1. started /\ TypeOK /\ d.cand \in Cands /\ d.alts \subseteq Cands
  BY DEF IInv, NoDepsYet, TypeOK
<1>2. PICK c \in Cands : \E r \in Relations(c) : d = Dep(c, r)
  BY ForwardOrReversed DEF Demand
<1>3. PICK r \in Relations(c) : d = Dep(c, r)
  BY <1>2
<1>4. c = d.cand /\ r = d.src /\ r.type # "recommends" /\ c.ver \in Ver
  BY <1>3 DEF Dep, Demand
<1>5. c.ver \in vers /\ c = Cand(c.ver)
  BY <1>1, <1>4, CandShape
<1>6. r \in db.rels[c.ver]
  BY <1>3, <1>4 DEF Relations
<1>7. \A a \in d.alts : a.seat \in Pkg
  <2>1. IsRelation(r)
    BY <1>1, <1>4, <1>6, InputAssumption DEF TypeOK, IsDatabase
  <2>2. d.alts = UNION {AltCands(a, r.conf) : a \in r.alts}
    BY <1>3, <1>4 DEF Dep
  <2>3. \A a \in r.alts : \A x \in AltCands(a, r.conf) : x.seat \in Pkg
    <3>1. \A a \in r.alts : \A x \in SeatCands(a.pkg) : x.seat \in Pkg
      BY <2>1 DEF IsRelation, SeatCands
    <3>2. \A a \in r.alts : \A x \in Providers(a.pkg) : x.seat \in Pkg
      BY <1>1, CandShape DEF Providers
    <3> QED BY <3>1, <3>2 DEF AltCands
  <2> QED BY <2>2, <2>3
<1> QED BY <1>1, <1>3, <1>4, <1>5, <1>6, <1>7

\* Every version has what it needs when all deps that ask for it are satisfied.
LEMMA SoundMeans ==
  ASSUME IInv, DepsComputed, started, NEW sel \in Selections
  PROVE  SoundSelection(sel) <=> Met(sel)
<1>0. TypeOK /\ vers \subseteq Ver
  BY DEF IInv, TypeOK
<1>1. DepsMeanRelations
  BY DepsMean
<1>2. \A s \in Seat : sel[s] \in SeatCands(s) /\ sel[s].seat = s
  BY SelectionSeated DEF SeatCands
<1>3. ASSUME Met(sel), NEW p \in Pkg, sel[p].ver \in Ver, NEW r \in db.rels[sel[p].ver], r.type # "recommends"
      PROVE  Holds(r, sel)
  <2>1. sel[p] \in Cands /\ sel[p].seat = p
    BY <1>2, <1>3 DEF SeatCands, Seat
  <2>2. PICK v \in vers : sel[p] = Cand(v)
    BY <1>0, <1>3, <2>1, CandShape
  <2>3. sel[p].ver = v
    BY <2>2
  <2>4. ASSUME NEW d \in deps, ~d.reversed, d.cand = Cand(v), d.src = r
        PROVE  Satisfied(d, sel)
    <3>1. d.reversed = FALSE
      BY <2>4, ForwardOrReversed
    <3>2. Demand(d) /\ sel[d.cand.seat] = d.cand
      BY <1>0, <1>3, <2>1, <2>2, <2>4, <3>1 DEF Demand
    <3> QED BY <1>3, <3>2 DEF Met
  <2> QED BY <1>1, <1>3, <2>3, <2>4 DEF DepsMeanRelations
<1>4. ASSUME SoundSelection(sel), NEW d \in deps, Demand(d), sel[d.cand.seat] = d.cand
      PROVE  Satisfied(d, sel)
  <2>1. PICK v \in vers : v \in Ver /\ d.cand = Cand(v) /\ d.src \in db.rels[v]
    BY <1>4, DemandOf
  <2>2. PkgOf[v] \in Pkg /\ sel[PkgOf[v]].ver = v
    <3>1. d.cand.seat = PkgOf[v] /\ d.cand.ver = v
      BY <2>1
    <3>2. PkgOf[v] \in Pkg
      BY <2>1, WorkspaceAssumption
    <3> QED BY <1>4, <3>1, <3>2
  <2>3. Holds(d.src, sel)
    BY <1>4, <2>1, <2>2 DEF SoundSelection, Demand
  <2>4. ~d.reversed
    BY <1>4 DEF Demand
  <2> QED BY <1>1, <2>1, <2>3, <2>4 DEF DepsMeanRelations
<1> QED BY <1>3, <1>4 DEF SoundSelection, Met

LEMMA BeforeIsSelection ==
  ASSUME TypeOK, db.installed \subseteq vers
  PROVE  Before \in Selections
<1>1. \A s \in Seat : Before[s] \in SeatCands(s)
  BY InitiallySeated DEF Before, SeatCands
<1>2. Before = [s \in Seat |-> Before[s]]
  BY DEF Before
<1> HIDE DEF Before
<1> QED BY <1>1, <1>2, IsSelection

LEMMA SelectedIsSelection ==
  ASSUME TypeOK
  PROVE  selected \in Selections
<1>1. \A s \in Seat : selected[s] \in SeatCands(s)
  BY DEF TypeOK
<1>2. selected = [s \in Seat |-> selected[s]]
  BY DEF TypeOK
<1> QED BY <1>1, <1>2, IsSelection

\* The dep of t for what is in the seat of c when it is a single dep of c that t
\* does not satisfy and a sibling of t does.
LEMMA ReverseOf ==
  ASSUME IInv, DepsComputed, ~Merged,
         NEW d \in deps, d.reversed = FALSE,
         NEW t \in Cands, t \notin d.alts, NEW a \in d.alts, a.seat = t.seat
  PROVE  \E rd \in deps :
           /\ rd.cand = t /\ rd.reversed = TRUE /\ (d.conflict => rd.conflict)
           /\ \A b \in rd.alts : \/ b \in SeatCands(d.cand.seat) /\ b # d.cand
                                 \/ b \in d.alts /\ b.seat # t.seat
           /\ \A b \in SeatCands(d.cand.seat) : b # d.cand => b \in rd.alts
           /\ \A b \in d.alts : b.seat # t.seat => b \in rd.alts
<1> DEFINE c == d.cand
           p == c.seat
           F == ForwardDeps
           sibling == UNION {SiblingDeps(F, t, x) : x \in SeatCands(p)}
           rd == ReverseDep(F, t, p)
<1>1. started /\ deps = F \union ReverseDeps(F) /\ c \in Cands /\ p \in Seat /\ IsFiniteSet(deps)
  <2>1. c \in Cands /\ p \in Seat
    BY CandsSeated DEF IInv, TypeOK
  <2> QED BY <2>1 DEF IInv, NoDepsYet, DepsComputed, FiniteDeps
<1>2. F = {e \in deps : ~e.reversed} /\ d \in F
  BY <1>1, ForwardDepsTyped, ReverseDepsTyped
<1>3. c \in SeatCands(p) /\ d \in SiblingDeps(F, t, c) /\ d \in sibling
  BY <1>1, <1>2 DEF SeatCands, SiblingDeps
<1>4. rd \in deps /\ rd.cand = t /\ rd.src = p /\ rd.reversed = TRUE
  <2>1. rd \in ReverseDeps(F)
    BY <1>1, <1>3 DEF ReverseDeps
  <2> QED BY <1>1, <2>1 DEF ReverseDep
<1>5. sibling \subseteq F /\ IsFiniteSet(sibling)
  <2>1. sibling \subseteq F
    BY DEF SiblingDeps
  <2>2. sibling \subseteq deps
    BY <1>1, <2>1
  <2> QED BY <1>1, <2>1, <2>2, FS_Subset
<1>6. ~(Cardinality(sibling) > 1)
  <2>1. SiblingDeps({e \in deps : ~e.reversed}, rd.cand, c) = SiblingDeps(F, t, c)
    BY <1>2, <1>4
  <2>2. UNION {SiblingDeps({e \in deps : ~e.reversed}, rd.cand, x) : x \in SeatCands(rd.src)} = sibling
    BY <1>2, <1>4
  <2> HIDE DEF sibling, rd
  <2> QED BY <1>4, <2>2 DEF Merged
<1>7. \A e \in sibling : e = d
  <2> SUFFICES ASSUME NEW e \in sibling, e # d PROVE FALSE
    OBVIOUS
  <2> HIDE DEF sibling
  <2>1. IsFiniteSet({d, e}) /\ Cardinality({d, e}) = 2
    <3>1. IsFiniteSet({d}) /\ Cardinality({d}) = 1
      BY FS_Singleton
    <3>2. {d, e} = {d} \union {e} /\ e \notin {d}
      OBVIOUS
    <3>3. IsFiniteSet({d} \union {e}) /\ Cardinality({d} \union {e}) = Cardinality({d}) + 1
      BY <3>1, <3>2, FS_AddElement
    <3> QED BY <3>1, <3>2, <3>3
  <2>2. {d, e} \subseteq sibling
    BY <1>3
  <2>3. Cardinality({d, e}) <= Cardinality(sibling)
    BY <1>5, <2>2, FS_Subset
  <2>4. Cardinality(sibling) \in Nat
    BY <1>5, FS_CardinalityType
  <2> QED BY <1>6, <2>1, <2>3, <2>4
<1>8. \A b \in SeatCands(p) : b # c <=> SiblingDeps(F, t, b) = {}
  <2>1. \A b \in SeatCands(p) : \A e \in SiblingDeps(F, t, b) : e = d
    BY <1>7
  <2>2. \A b : \A e \in SiblingDeps(F, t, b) : e.cand = b
    BY DEF SiblingDeps
  <2> QED BY <1>3, <2>1, <2>2
<1>9. rd.alts = {x \in SeatCands(p) : SiblingDeps(F, t, x) = {}}
                  \union {x \in UNION {e.alts : e \in sibling} : x.seat # t.seat}
  BY DEF ReverseDep
<1>10. UNION {e.alts : e \in sibling} = d.alts
  <2> HIDE DEF sibling
  <2> QED BY <1>3, <1>7
<1>11. d.conflict => rd.conflict
  BY <1>3 DEF ReverseDep
<1>12. /\ \A b \in rd.alts : \/ b \in SeatCands(d.cand.seat) /\ b # d.cand
                             \/ b \in d.alts /\ b.seat # t.seat
       /\ \A b \in SeatCands(d.cand.seat) : b # d.cand => b \in rd.alts
       /\ \A b \in d.alts : b.seat # t.seat => b \in rd.alts
  <2> HIDE DEF sibling, rd
  <2> QED BY <1>8, <1>9, <1>10
<1> HIDE DEF rd
<1> QED BY <1>4, <1>11, <1>12


\* A selection that is as before except for the seats in K is sound if the deps
\* in K are satisfied, and those of the others on seats in K.
LEMMA Mixed ==
  ASSUME IInv, DepsComputed, Met(Before), NEW sel \in Selections, NEW K,
         \A p \in Pkg \ K : sel[p] = Initially(p),
         \A d \in deps : Demand(d) /\ d.cand.seat \in K /\ sel[d.cand.seat] = d.cand => Satisfied(d, sel),
         \A d \in deps : \A a \in d.alts :
           Demand(d) /\ d.cand.seat \in Pkg \ K /\ Initially(d.cand.seat) = d.cand
             /\ a.seat \in K /\ sel[a.seat] \notin d.alts
             => Satisfied(d, sel)
  PROVE  Met(sel)
<1> SUFFICES ASSUME NEW d \in deps, Demand(d), sel[d.cand.seat] = d.cand
             PROVE  Satisfied(d, sel)
  BY DEF Met
<1>1. /\ d.cand.seat \in Pkg
      /\ \A a \in d.alts : a \in Cands /\ a.seat \in Pkg
  <2>1. d.cand.seat \in Pkg
    BY DemandOf, CandShape DEF IInv, Demand
  <2> QED BY <2>1, DemandOf
<1>2. CASE d.cand.seat \notin K
  <2>1. Initially(d.cand.seat) = d.cand
    BY <1>1, <1>2
  <2>2. PICK a \in d.alts : Before[a.seat] = a
    BY <1>1, <2>1 DEF Met, Before, Satisfied, Seat
  <2>3. a = Initially(a.seat)
    BY <1>1, <2>2 DEF Before, Seat
  <2>4. CASE a.seat \notin K
    BY <1>1, <2>3, <2>4 DEF Satisfied
  <2>5. CASE a.seat \in K /\ sel[a.seat] \in d.alts
    <3>1. sel[a.seat].seat = a.seat
      BY <1>1, SelectionSeated DEF SeatCands, Seat
    <3> QED BY <2>5, <3>1 DEF Satisfied
  <2>6. CASE a.seat \in K /\ sel[a.seat] \notin d.alts
    BY <1>1, <1>2, <2>1, <2>6
  <2> QED BY <2>4, <2>5, <2>6
<1> QED BY <1>2

-----------------------------------------------------------------------------
(***************************************************************************)
(* What is planned is sound                                                *)
(***************************************************************************)
Planned == {"planned", "execute", "executed"}

\* Sweeping keeps what the demands of the marked versions need.
PlanSound ==
  /\ phase \notin Filling => started
  /\ SoundSystem /\ ~Merged =>
       /\ phase = "sweep" =>
            \A d \in deps : Demand(d) /\ d.cand.seat \in keep /\ selected[d.cand.seat] = d.cand =>
              \E b \in d.alts : selected[b.seat] = b /\ (b.seat \in keep \/ d.src.type = "breaks")
       /\ phase \in Planned => Met(selected)

\* Neither the system as it was nor the way deps are merged depend on what is
\* selected.
LEMMA SameSystem ==
  ASSUME UNCHANGED <<db, vers, deps>>
  PROVE  (SoundSystem <=> SoundSystem') /\ (Merged <=> Merged')
<1>1. \A s \in Seat : Initially(s)' = Initially(s)
  BY DEF Initially
<1>2. Before' = Before
  BY <1>1 DEF Before
<1>3. ASSUME NEW sel, NEW r PROVE Holds(r, sel)' <=> Holds(r, sel)
  BY DEF Holds
<1>4. ASSUME NEW sel PROVE SoundSelection(sel)' <=> SoundSelection(sel)
  BY <1>3 DEF SoundSelection
<1>5. PICK sel : sel = Before
  OBVIOUS
<1>6. (SoundSystem <=> SoundSelection(sel)) /\ (SoundSystem' <=> SoundSelection(sel)')
  BY <1>2, <1>5 DEF SoundSystem, Before, SoundSelection
<1>7. \A s : SeatCands(s)' = SeatCands(s)
  BY DEF SeatCands, Cands
<1> DEFINE sibling(d) == UNION {SiblingDeps({e \in deps : ~e.reversed}, d.cand, c) : c \in SeatCands(d.src)}
<1>8. \A d : sibling(d)' = sibling(d)
  BY <1>7 DEF SiblingDeps
<1>9. Merged <=> \E d \in deps : d.reversed /\ Cardinality(sibling(d)) > 1
  BY DEF Merged
<1>10. Merged' <=> \E d \in deps' : d.reversed /\ Cardinality(sibling(d)') > 1
  BY DEF Merged
<1> HIDE DEF sibling
<1>11. Merged <=> Merged'
  BY <1>8, <1>9, <1>10
<1> QED BY <1>4, <1>6, <1>11

\* What reverting leaves is sound, if the system was.
LEMMA RevertedSound ==
  ASSUME PlanIInv, phase = "revert", Stale = {}, GoalOk, started, SoundSystem, ~Merged
  PROVE  Met(selected)
<1> USE DEF PlanIInv
<1>1. IInv /\ TypeOK /\ db.installed \subseteq vers /\ Sound(keep) /\ keep \subseteq Seat
  BY DEF IInv, GoalKept, Filling, Kept, PlanTypeOK
<1>2. Met(Before)
  BY <1>1, BeforeIsSelection, SoundMeans DEF SoundSystem, Before
<1>3. selected \in Selections
  BY <1>1, SelectedIsSelection
<1>4. \A p \in Pkg \ keep : selected[p] = Initially(p)
  BY DEF Stale, Seat
<1>5. ASSUME NEW d \in deps, NEW s \in keep, d.cand = selected[s]
      PROVE  \E b \in d.alts : selected[b.seat] = b /\ b.seat \in keep
  <2>1. d \in DepsOf(selected[s])
    BY <1>5 DEF DepsOf
  <2>2. Alternatives(d) \intersect keep # {}
    BY <1>1, <2>1 DEF Sound
  <2> QED BY <2>2 DEF Alternatives, SelectedAlts
<1>6. \A d \in deps : Demand(d) /\ d.cand.seat \in keep /\ selected[d.cand.seat] = d.cand => Satisfied(d, selected)
  BY <1>5 DEF Satisfied
<1>7. ASSUME NEW d \in deps, NEW a \in d.alts,
             Demand(d), d.cand.seat \in Pkg \ keep, Initially(d.cand.seat) = d.cand,
             a.seat \in keep, selected[a.seat] \notin d.alts
      PROVE  Satisfied(d, selected)
  <2>1. PICK t \in Cands : t = selected[a.seat] /\ t.seat = a.seat
    BY <1>1, <1>7 DEF TypeOK, SeatCands
  <2>2. PICK rd \in deps :
           /\ rd.cand = t
           /\ \A b \in rd.alts : b \in SeatCands(d.cand.seat) \/ b \in d.alts
    <3>1. d.reversed = FALSE /\ t \notin d.alts /\ a.seat = t.seat
      BY <1>7, <2>1 DEF Demand
    <3>2. \E rd \in deps :
           /\ rd.cand = t /\ rd.reversed = TRUE /\ (d.conflict => rd.conflict)
           /\ \A b \in rd.alts : \/ b \in SeatCands(d.cand.seat) /\ b # d.cand
                                 \/ b \in d.alts /\ b.seat # t.seat
           /\ \A b \in SeatCands(d.cand.seat) : b # d.cand => b \in rd.alts
           /\ \A b \in d.alts : b.seat # t.seat => b \in rd.alts
      BY <1>1, <3>1, ReverseOf
    <3> QED BY <3>2
  <2>3. PICK b \in rd.alts : selected[b.seat] = b /\ b.seat \in keep
    BY <1>5, <1>7, <2>1, <2>2
  <2>4. b \in d.alts
    BY <1>7, <2>2, <2>3 DEF SeatCands
  <2> QED BY <2>3, <2>4 DEF Satisfied
<1>8. \A d \in deps : \A a \in d.alts :
        Demand(d) /\ d.cand.seat \in Pkg \ keep /\ Initially(d.cand.seat) = d.cand
          /\ a.seat \in keep /\ selected[a.seat] \notin d.alts
          => Satisfied(d, selected)
  BY <1>7
<1> QED BY <1>1, <1>2, <1>3, <1>4, <1>6, <1>8, Mixed

LEMMA StartSweepSound ==
  ASSUME PlanIInv, PlanSound, StartSweep
  PROVE  PlanSound'
<1> USE DEF PlanIInv, IInv
<1> DEFINE needs == [s \in Seat |-> Marks(s)]
<1>1. /\ phase = "revert" /\ phase' = "sweep" /\ GoalOk /\ Stale = {}
      /\ UNCHANGED vars
      /\ keep' = Closure({Goal} \union manual, needs)
  BY DEF StartSweep
<1>2. UNCHANGED <<db, vers, deps, started, selected>>
  BY <1>1 DEF vars
<1>3. started
  BY <1>1 DEF PlanSound, Filling
<1>4. /\ {Goal} \union manual \in SUBSET Seat
      /\ \A s \in Seat : needs[s] = Marks(s) /\ needs[s] \subseteq Seat
  BY NeedsSeated DEF Seat, PlanTypeOK
<1> HIDE DEF needs
<1>5. keep' \subseteq Seat /\ \A t \in keep' : Marks(t) \subseteq keep'
  BY <1>1, <1>4, ClosureLeast
<1>6. (SoundSystem /\ ~Merged)' => SoundSystem /\ ~Merged
  BY <1>2, SameSystem
<1>7. ASSUME SoundSystem /\ ~Merged, NEW d \in deps, Demand(d), d.cand.seat \in keep',
             selected[d.cand.seat] = d.cand
      PROVE  \E b \in d.alts : selected[b.seat] = b /\ (b.seat \in keep' \/ d.src.type = "breaks")
  <2>1. PICK b \in d.alts : selected[b.seat] = b
    BY <1>1, <1>3, <1>7, RevertedSound DEF Met, Satisfied
  <2>2. CASE d.src.type # "breaks"
    <3>1. d \in DepsOf(selected[d.cand.seat]) /\ ~RequiredByTarget(d)
      BY <1>7, <2>2 DEF DepsOf, RequiredByTarget, Demand
    <3>2. b.seat \in Alternatives(d)
      BY <2>1 DEF Alternatives, SelectedAlts
    <3>3. b.seat \in Marks(d.cand.seat)
      BY <3>1, <3>2 DEF Marks
    <3> QED BY <1>5, <1>7, <2>1, <3>3
  <2> QED BY <2>1, <2>2
<1>8. \A d : Demand(d)' <=> Demand(d)
  BY DEF Demand
<1> QED BY <1>1, <1>2, <1>3, <1>6, <1>7, <1>8 DEF PlanSound, Planned

LEMMA SweepSound ==
  ASSUME PlanIInv, PlanSound, Sweep
  PROVE  PlanSound'
<1> USE DEF PlanIInv, IInv
<1>1. phase = "sweep" /\ phase' = "sweep" /\ UNCHANGED keep
  BY DEF Sweep, ReplaceSeats
<1>2. PICK s \in Seat \ keep : Select(Null(s))
  BY <1>1 DEF Sweep, ReplaceSeats, Unmarked
<1>3. /\ selected' = [selected EXCEPT ![s] = Null(s)]
      /\ UNCHANGED <<db, vers, deps, started>>
  BY <1>2 DEF Select
<1>4. selected'[s] = Null(s) /\ \A t \in Seat : t # s => selected'[t] = selected[t]
  BY <1>2, <1>3 DEF TypeOK
<1>5. (SoundSystem /\ ~Merged)' => SoundSystem /\ ~Merged
  BY <1>3, SameSystem
<1>6. ASSUME SoundSystem /\ ~Merged, NEW d \in deps, Demand(d), d.cand.seat \in keep,
             selected'[d.cand.seat] = d.cand
      PROVE  \E b \in d.alts : selected'[b.seat] = b /\ (b.seat \in keep \/ d.src.type = "breaks")
  <2>1. d.cand.seat \in Seat /\ \A b \in d.alts : b.seat \in Seat
    BY CandsSeated DEF TypeOK
  <2>2. selected[d.cand.seat] = d.cand
    BY <1>2, <1>4, <1>6, <2>1
  <2>3. PICK b \in d.alts : selected[b.seat] = b /\ (b.seat \in keep \/ d.src.type = "breaks")
    BY <1>1, <1>6, <2>2 DEF PlanSound
  <2>4. CASE b.seat # s
    BY <1>4, <2>1, <2>3, <2>4
  <2>5. CASE b.seat = s
    <3>1. d.src.type = "breaks" /\ d.reversed = FALSE
      BY <1>2, <1>6, <2>3, <2>5 DEF Demand
    <3>2. Null(s) \in d.alts /\ Null(s).seat = s
      BY <2>5, <3>1, BreaksAcceptsNull
    <3> HIDE DEF Null
    <3> QED BY <1>4, <3>1, <3>2
  <2> QED BY <2>4, <2>5
<1>7. \A d : Demand(d)' <=> Demand(d)
  BY DEF Demand
<1> QED BY <1>1, <1>3, <1>5, <1>6, <1>7 DEF PlanSound, Planned

LEMMA SetManualSound ==
  ASSUME PlanIInv, PlanSound, SetManual
  PROVE  PlanSound'
<1> USE DEF PlanIInv, IInv
<1>1. phase = "sweep" /\ phase' = "planned" /\ UNCHANGED vars /\ Unmarked = {}
  BY DEF SetManual
<1>2. UNCHANGED <<db, vers, deps, started, selected>>
  BY <1>1 DEF vars
<1>3. (SoundSystem /\ ~Merged)' => SoundSystem /\ ~Merged
  BY <1>2, SameSystem
<1>4. ASSUME SoundSystem /\ ~Merged PROVE Met(selected)
  <2> SUFFICES ASSUME NEW d \in deps, Demand(d), selected[d.cand.seat] = d.cand
               PROVE  Satisfied(d, selected)
    BY DEF Met
  <2>1. d.cand.seat \in Seat
    BY CandsSeated DEF TypeOK
  <2>2. d.cand.seat \in keep
    <3>1. d.cand.ver # NoVer
      BY WorkspaceAssumption DEF Demand
    <3>2. selected[d.cand.seat] # Null(d.cand.seat)
      BY <3>1
    <3> QED BY <1>1, <2>1, <3>2 DEF Unmarked
  <2> QED BY <1>1, <1>4, <2>2 DEF PlanSound, Satisfied
<1>5. Met(selected)' <=> Met(selected)
  BY <1>2 DEF Met, Demand, Satisfied
<1> QED BY <1>1, <1>2, <1>3, <1>4, <1>5 DEF PlanSound, Planned, Filling

LEMMA PlanSoundStep ==
  ASSUME PlanIInv, PlanSound, PlanNext
  PROVE  PlanSound'
<1>1. CASE StartSweep \/ Sweep \/ SetManual
  BY <1>1, StartSweepSound, SweepSound, SetManualSound
<1>2. CASE Fill
  <2>1. phase' \in {"best", "goal", "start", "walk"} /\ (phase' = "walk" => started')
    BY <1>2 DEF Fill, Prepare, Start
  <2> QED BY <2>1 DEF PlanSound, Filling, Planned
<1>3. CASE WalkGoal \/ WalkDep \/ WalkReturn
  <2>1. phase = "walk" /\ phase' = "walk" /\ started' = started
    BY <1>3 DEF WalkGoal, WalkDep, WalkReturn, Change, Visit, Select, vars
  <2> QED BY <2>1 DEF PlanSound, Filling, Planned
<1>4. CASE StartCleanup \/ JudgeComp \/ Judge \/ JudgedComp \/ StartRevert \/ RevertEnds
  <2>1. /\ phase \in {"walk", "judge", "revert"} /\ phase' \in {"judge", "revert", "broken"}
        /\ started' = started
    BY <1>4 DEF StartCleanup, JudgeComp, Judge, JudgedComp, StartRevert, RevertEnds, vars
  <2> QED BY <2>1 DEF PlanSound, Filling, Planned
<1>5. CASE Revert
  <2>1. phase = "revert" /\ phase' = "revert" /\ started' = started
    BY <1>5 DEF Revert, ReplaceSeats, Select
  <2> QED BY <2>1 DEF PlanSound, Filling, Planned
<1> QED BY <1>1, <1>2, <1>3, <1>4, <1>5 DEF PlanNext

LEMMA PlanSoundStays ==
  ASSUME PlanSound, phase' = phase \/ {phase, phase'} \subseteq Planned, UNCHANGED <<vars, keep>>
  PROVE  PlanSound'
<1>1. UNCHANGED <<db, vers, deps, started, selected>>
  BY DEF vars
<1>2. (SoundSystem /\ ~Merged)' => SoundSystem /\ ~Merged
  BY <1>1, SameSystem
<1>3. Met(selected)' <=> Met(selected)
  BY <1>1 DEF Met, Demand, Satisfied
<1> QED BY <1>1, <1>2, <1>3 DEF PlanSound, Demand, Planned, Filling

LEMMA StepPlanSound == PlanIInv /\ PlanSound /\ [PlanNext]_planVars => PlanSound'
<1> SUFFICES ASSUME PlanIInv, PlanSound, [PlanNext]_planVars PROVE PlanSound'
  OBVIOUS
<1>1. CASE UNCHANGED planVars
  BY <1>1, PlanSoundStays DEF planVars
<1> QED BY <1>1, PlanSoundStep

\* A plan breaks nothing that was not broken: when every version on the system
\* has what it needs, so has every version that is planned to be on it, unless
\* reversed deps have been merged.  What is not needed can be reverted to what
\* is installed although it was selected together with it.
THEOREM PlanIsSound ==
  PlanSpec => [](phase = "planned" /\ SoundSystem /\ ~Merged => SoundSelection(selected))
<1>1. PlanInit => PlanSound
  BY DEF PlanInit, PlanSound, Filling, Planned
<1>2. PlanIInv /\ PlanSound => (phase = "planned" /\ SoundSystem /\ ~Merged => SoundSelection(selected))
  BY SelectedIsSelection, SoundMeans DEF PlanIInv, IInv, PlanSound, Planned, Filling
<1>3. PlanSpec => [](PlanIInv /\ PlanSound)
  BY InitPlanIInv, StepPlanIInv, <1>1, StepPlanSound, PTL DEF PlanSpec
<1> QED BY <1>2, <1>3, PTL
=============================================================================

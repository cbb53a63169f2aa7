-------------------------------- MODULE Plan --------------------------------
(***************************************************************************)
(* `dpm install`, the planning half (tool.c: cmd_install; alg.c:           *)
(* dpm_alg_install_naively, dpm_alg_cleanup_goal, dpm_alg_remove_unused).  *)
(*                                                                         *)
(* A workspace is filled from the database and started.  Then a depth      *)
(* first walk selects candidates for the deps of the goal, each seat being *)
(* changed at most once; the components of what is selected are judged to  *)
(* be ok or not; what the goal does not need is reverted to what is        *)
(* installed; and if the goal is ok, what neither the goal nor a manual    *)
(* package needs is swept away.                                            *)
(*                                                                         *)
(* The lists of deps and alternatives are sets here, so that the walk      *)
(* takes them in any order.  The actions of Workspace are steps of this    *)
(* one; a workspace is only used in the order the tool uses it.            *)
(***************************************************************************)
EXTENDS Workspace, Sequences

(***************************************************************************)
(* What the planner reads of the status of a package: the installed        *)
(* version (db.installed), and whether the package is manual.              *)
(***************************************************************************)
ASSUME PlanAssumption == \A d \in Databases : d.manual \subseteq Pkg

VARIABLES
  phase,    \* how far the command is
  calls,    \* the activations of visit, the innermost one last
  visited, changed,  \* the seats the walk came by, and those it changed
  graph,    \* the seats of the selected alternatives of a seat's deps
  relevant, \* the seats marked relevant
  done,     \* dpm_alg_order_is_done
  comp,     \* the component that is being visited
  left,     \* its seats that the visitor has still to look at
  some,     \* some_done
  ok,       \* seat_info.ok
  keep,     \* the seats that are needed (reverting) or marked (sweeping)
  manual    \* DPM_STAT_MANUAL

wsVars == vars
walkVars == <<calls, visited, changed>>
orderVars == <<graph, relevant, done, comp, left, some>>
planVars == <<wsVars, phase, walkVars, orderVars, ok, keep, manual>>

PlanInit ==
  /\ Init
  /\ phase = "add"
  /\ calls = <<>> /\ visited = {} /\ changed = {}
  /\ graph = [s \in Seat |-> {}]
  /\ relevant = {} /\ done = {} /\ comp = {} /\ left = {} /\ some = FALSE
  /\ ok = {} /\ keep = {}
  /\ manual = db.manual

-----------------------------------------------------------------------------
(***************************************************************************)
(* cmd_install until dpm_ws_start                                          *)
(***************************************************************************)
Prepare(now, then, action) ==
  /\ phase = now
  /\ phase' = then
  /\ action
  /\ UNCHANGED <<walkVars, orderVars, ok, keep, manual>>

Fill ==
  \/ Prepare("add", "best", AddInstalled)
  \/ Prepare("best", "goal", AddBest \/ UNCHANGED wsVars)
  \/ \E g \in Goals : Prepare("goal", "start", SetGoal(g))
  \/ Prepare("start", "walk", Start)

-----------------------------------------------------------------------------
(***************************************************************************)
(* dpm_alg_install_naively                                                 *)
(***************************************************************************)
DepsOf(c) == {d \in deps : d.cand = c}

\* An activation of visit: its candidate, accept_ugly, and the deps to look at.
Call(c, ugly) == [cand |-> c, ugly |-> ugly, todo |-> DepsOf(c)]
Caller == calls[Len(calls)]
Outer == SubSeq(calls, 1, Len(calls) - 1)

VerRank(c) == IF c.ver \in Ver THEN Rank[c.ver] + 1 ELSE 0

\* find_best: what is selected and satisfied, or the highest version of the
\* seat of the first alternative.
FindBest(d, ugly) ==
  LET good == {a \in d.alts : /\ selected[a.seat] = a /\ CandSatisfied(a)
                              /\ ugly \/ a # UglyCand}
  IN IF good # {} THEN good
     ELSE {a \in d.alts : \A b \in d.alts : b.seat = a.seat => VerRank(b) <= VerRank(a)}

\* Mutant: a seat that is changed does not count as visited.
ChangeOnly(c, below) ==
  /\ Select(c)
  /\ changed' = changed \union {c.seat}
  /\ UNCHANGED visited
  /\ calls' = Append(below, Call(c, FALSE))

Change(c, below) ==
  /\ Select(c)
  /\ changed' = changed \union {c.seat}
  /\ visited' = visited \union {c.seat}
  /\ calls' = Append(below, Call(c, FALSE))

\* visit (goal_cand, NULL)
WalkGoal ==
  /\ phase = "walk" /\ visited = {}
  /\ Change(GoalCand, <<>>)
  /\ UNCHANGED <<phase, orderVars, ok, keep, manual>>

\* visit (c, s)
Visit(c, below) ==
  IF selected[c.seat] = c
  THEN /\ UNCHANGED <<wsVars, changed>>
       /\ visited' = visited \union {c.seat}
       /\ calls' = IF c.seat \in visited THEN below ELSE Append(below, Call(c, TRUE))
  ELSE IF c.seat \in changed
  THEN UNCHANGED <<wsVars, changed, visited>> /\ calls' = below
  ELSE Change(c, below)

\* The next dep of the innermost activation, as long as its candidate stays
\* selected.  A dep without alternatives has no best candidate.
WalkDep ==
  /\ phase = "walk" /\ calls # <<>>
  /\ selected[Caller.cand.seat] = Caller.cand
  /\ \E d \in Caller.todo :
       LET below == Append(Outer, [Caller EXCEPT !.todo = @ \ {d}])
           best == FindBest(d, Caller.ugly)
       IN IF best = {} THEN calls' = below /\ UNCHANGED <<wsVars, changed, visited>>
                       ELSE \E c \in best : Visit(c, below)
  /\ UNCHANGED <<phase, orderVars, ok, keep, manual>>

WalkReturn ==
  /\ phase = "walk" /\ calls # <<>>
  /\ Caller.todo = {} \/ selected[Caller.cand.seat] # Caller.cand
  /\ calls' = Outer
  /\ UNCHANGED <<wsVars, phase, visited, changed, orderVars, ok, keep, manual>>

-----------------------------------------------------------------------------
(***************************************************************************)
(* dpm_alg_cleanup_goal                                                    *)
(***************************************************************************)
Ordering == INSTANCE Components WITH
  Seats <- Seat, Graphs <- {}, Relevant <- {}, roots <- relevant

\* dpm_alg_order: the selection stays as it is meanwhile.
SelectedGraph == [s \in Seat |-> {a.seat : a \in UNION {SelectedAlts(d, selected) : d \in DepsOf(selected[s])}}]

StartOrder(seats) ==
  /\ graph' = SelectedGraph
  /\ relevant' = relevant \union seats
  /\ done' = {} /\ comp' = {} /\ left' = {} /\ some' = FALSE

OrderEnds == comp = {} /\ Ordering!Reachable \subseteq done

StartCleanup ==
  /\ phase = "walk" /\ visited # {} /\ calls = <<>>
  /\ phase' = "judge"
  /\ StartOrder({Goal})
  /\ UNCHANGED <<wsVars, walkVars, ok, keep, manual>>

VisitComp(C) ==
  /\ comp = {}
  /\ Ordering!IsNext(C)
  /\ comp' = C /\ left' = C /\ some' = FALSE
  /\ UNCHANGED <<graph, relevant, done>>

JudgeComp ==
  /\ phase = "judge"
  /\ \E C \in SUBSET Seat : VisitComp(C)
  /\ UNCHANGED <<wsVars, phase, walkVars, ok, keep, manual>>

\* deps_ok is T, F, or U: of the selected alternatives of each dep one is ok;
\* a dep has none that is or may be; or neither.
Alternatives(d) == {a.seat : a \in SelectedAlts(d, selected)}
DepsTrue(s) == \A d \in DepsOf(selected[s]) : Alternatives(d) \intersect done \intersect ok # {}
DepsFalse(s) == \E d \in DepsOf(selected[s]) : Alternatives(d) \subseteq done \ ok

\* Mutant: a dep that may yet be satisfied counts as one that is not.
JudgeEarly ==
  /\ phase = "judge"
  /\ \E s \in left :
       /\ left' = left \ {s}
       /\ ok' = IF DepsTrue(s) THEN ok \union {s} ELSE ok
       /\ done' = done \union {s} /\ some' = TRUE
  /\ UNCHANGED <<wsVars, phase, walkVars, graph, relevant, comp, keep, manual>>

Judge ==
  /\ phase = "judge"
  /\ \E s \in left :
       /\ left' = left \ {s}
       /\ ok' = IF DepsTrue(s) THEN ok \union {s} ELSE ok
       /\ IF DepsTrue(s) \/ DepsFalse(s) THEN done' = done \union {s} /\ some' = TRUE
                                         ELSE UNCHANGED <<done, some>>
  /\ UNCHANGED <<wsVars, phase, walkVars, graph, relevant, comp, keep, manual>>

\* Mutant: a component in which nothing is decided is left as it is.
JudgedUndecided ==
  /\ phase = "judge" /\ comp # {} /\ left = {}
  /\ comp' = {}
  /\ UNCHANGED <<wsVars, phase, walkVars, graph, relevant, ok, done, left, some, keep, manual>>

\* When nothing is decided, the seats only wait for each other: all are ok.
JudgedComp ==
  /\ phase = "judge" /\ comp # {} /\ left = {}
  /\ comp' = {}
  /\ ok' = IF some THEN ok ELSE ok \union comp
  /\ done' = IF some THEN done ELSE done \union comp
  /\ UNCHANGED <<wsVars, phase, walkVars, graph, relevant, left, some, keep, manual>>

\* The least set of seats with `from` that `needs` leads out of nowhere.
Closure(from, needs) ==
  {s \in Seat : \A S \in SUBSET Seat :
     from \subseteq S /\ (\A t \in S : needs[t] \subseteq S) => s \in S}

\* Mutant: reversed deps are not followed.
NeedsForward(s) ==
  UNION {IF \E a \in d.alts : a.seat \in ok THEN Alternatives(d) \intersect ok ELSE Alternatives(d)
           : d \in {d \in DepsOf(selected[s]) : ~d.reversed}}

\* visit_needed: the selected alternatives that are ok.  When no alternative
\* has such a seat, selected or not, all that are selected.
Needs(s) ==
  UNION {IF \E a \in d.alts : a.seat \in ok THEN Alternatives(d) \intersect ok ELSE Alternatives(d)
           : d \in DepsOf(selected[s])}

StartRevert ==
  /\ phase = "judge" /\ OrderEnds
  /\ phase' = "revert"
  /\ keep' = Closure(IF selected[Goal] = GoalCand THEN {Goal} ELSE {}, [s \in Seat |-> Needs(s)])
  /\ UNCHANGED <<wsVars, walkVars, orderVars, ok, manual>>

\* initially_selected
Initially(s) == IF \E v \in db.installed : PkgOf[v] = s
                THEN Cand(CHOOSE v \in db.installed : PkgOf[v] = s) ELSE Null(s)

ReplaceSeats(stale) ==
  /\ \E s \in stale : Select(IF phase = "revert" THEN Initially(s) ELSE Null(s))
  /\ UNCHANGED <<phase, walkVars, orderVars, ok, keep, manual>>

\* unused, for each seat that is not needed.
Stale == {s \in Seat \ keep : selected[s] # Initially(s)}
Revert == phase = "revert" /\ ReplaceSeats(Stale)

GoalOk == Goal \in ok

RevertEnds ==
  /\ phase = "revert" /\ Stale = {}
  /\ ~GoalOk
  /\ phase' = "broken"  \* dpm_ws_show_broken
  /\ UNCHANGED <<wsVars, walkVars, orderVars, ok, keep, manual>>

-----------------------------------------------------------------------------
(***************************************************************************)
(* dpm_alg_remove_unused                                                   *)
(***************************************************************************)
\* dpm_dep_is_required_by_target
RequiredByTarget(d) == IF d.reversed THEN ~d.conflict ELSE d.src.type = "breaks"

\* Mutant: pre-depends are not followed.
MarksDepends(s) ==
  UNION {Alternatives(d) : d \in {d \in DepsOf(selected[s]) : ~RequiredByTarget(d) /\ (d.reversed \/ d.src.type # "pre-depends")}}

\* mark
Marks(s) == UNION {Alternatives(d) : d \in {d \in DepsOf(selected[s]) : ~RequiredByTarget(d)}}

StartSweep ==
  /\ phase = "revert" /\ Stale = {}
  /\ GoalOk
  /\ phase' = "sweep"
  /\ keep' = Closure({Goal} \union manual, [s \in Seat |-> Marks(s)])
  /\ relevant' = relevant \union (Seat \ keep')
  /\ UNCHANGED <<wsVars, walkVars, graph, done, comp, left, some, ok, manual>>

Unmarked == {s \in Seat \ keep : selected[s] # Null(s)}
Sweep == phase = "sweep" /\ ReplaceSeats(Unmarked)

\* dpm_inst_set_manual for what the goal asked for.
SetManual ==
  /\ phase = "sweep" /\ Unmarked = {}
  /\ phase' = "planned"
  /\ manual' = manual \union UNION {Alternatives(d) : d \in DepsOf(GoalCand)}
  /\ UNCHANGED <<wsVars, walkVars, orderVars, ok, keep>>

PlanNext ==
  \/ Fill
  \/ WalkGoal \/ WalkDep \/ WalkReturn
  \/ StartCleanup \/ JudgeComp \/ Judge \/ JudgedComp
  \/ StartRevert \/ Revert \/ RevertEnds
  \/ StartSweep \/ Sweep \/ SetManual

PlanSpec == PlanInit /\ [][PlanNext]_planVars
-----------------------------------------------------------------------------
(***************************************************************************)
(* Properties                                                              *)
(***************************************************************************)
\* What Workspace!TypeOK says is an invariant of these steps too, as every one
\* of them leaves the workspace alone or is an action of Workspace.
PlanTypeOK ==
  /\ visited \subseteq Seat /\ changed \subseteq visited
  /\ graph \in [Seat -> SUBSET Seat]
  /\ relevant \subseteq Seat /\ keep \subseteq Seat
  /\ comp \subseteq Seat /\ left \subseteq comp
  /\ ok \subseteq Seat
  /\ manual \subseteq Pkg

\* The seats that a consistent choice can be made of: every dep of a selected
\* candidate has a selected alternative with such a seat.
Sound(S) == \A s \in S : \A d \in DepsOf(selected[s]) : Alternatives(d) \intersect S # {}

\* alg.h:111-113: the goal is ok iff all its direct and indirect dependencies
\* are satisfied by what is selected, cycles included.
GoalOkExact ==
  phase = "judge" /\ OrderEnds =>
    (GoalOk <=> \E S \in SUBSET Seat : Goal \in S /\ Sound(S))

\* Every selected version has what it needs; a recommendation may be ignored.
SoundSelection(sel) ==
  \A p \in Pkg : sel[p].ver \in Ver => \A r \in db.rels[sel[p].ver] : r.type = "recommends" \/ Holds(r, sel)
SoundSystem == SoundSelection([s \in Seat |-> Initially(s)])

\* Several deps of one seat have been merged into a reversed dep, which may be
\* satisfied when only one of them is (ws.c:1018-1023).
Merged ==
  \E d \in deps : d.reversed /\
    Cardinality(UNION {SiblingDeps({e \in deps : ~e.reversed}, d.cand, c) : c \in SeatCands(d.src)}) > 1

\* Seats that stay as they are: what sweeping follows from one of them leads to
\* another, and something satisfies what it breaks.
Firm(S) ==
  \A s \in S : \A d \in DepsOf(selected[s]) :
    IF RequiredByTarget(d) THEN d.reversed \/ Alternatives(d) # {}
                           ELSE Alternatives(d) \intersect S # {}

\* Reverting and sweeping do not undo the plan: when the goal is ok, whatever
\* the walk rejected, it ends up selected, and satisfied together with all that
\* was chosen for it.  Another alternative of the same dep, which is marked as
\* well, need not be satisfied.
PlanHolds ==
  phase = "planned" =>
    /\ selected[Goal] = GoalCand
    /\ \E S \in SUBSET Seat : Goal \in S /\ Firm(S)
=============================================================================

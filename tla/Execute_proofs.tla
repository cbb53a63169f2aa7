---------------------------- MODULE Execute_proofs ----------------------------
(***************************************************************************)
(* Proofs about the execution of a plan: what is done and was not given up *)
(* is set up as planned, packages that conflict are kept apart, and a      *)
(* system that was sound is sound again in the end, for every database and *)
(* goal, whatever cycles of deps have to be broken up.                     *)
(***************************************************************************)
EXTENDS Execute, Plan_proofs

USE DEF Null, Cand, GoalCand, UglyCand, wsVars

-----------------------------------------------------------------------------
(***************************************************************************)
(* The inductive invariant                                                 *)
(***************************************************************************)
Executing == phase \in {"execute", "executed"}

\* What is done is set up, unless the component was given up.
Progress ==
  /\ done \subseteq Seat
  /\ ~Executing => gaveUp = {}
  /\ Executing => \A s \in done \ gaveUp : Installed(selected[s])

ExecIInv == PlanIInv /\ ExecTypeOK /\ Progress

LEMMA InitExecIInv == ExecInit => ExecIInv
<1> SUFFICES ASSUME ExecInit PROVE ExecIInv
  OBVIOUS
<1>1. PlanIInv
  BY InitPlanIInv DEF ExecInit
<1>2. \A p \in Pkg : Initially(p).ver \in Ver \union {NoVer}
  <2>1. \A p \in Pkg : \A v \in db.installed : v \in Ver
    BY <1>1, InputAssumption DEF PlanIInv, IInv, TypeOK, IsDatabase
  <2>2. ASSUME NEW p \in Pkg
        PROVE  Initially(p).ver \in Ver \union {NoVer}
    <3>1. CASE \E v \in db.installed : PkgOf[v] = p
      <4> DEFINE w == CHOOSE v \in db.installed : PkgOf[v] = p
      <4>1. w \in db.installed
        BY <3>1
      <4>2. Initially(p).ver = w
        BY <3>1 DEF Initially
      <4> HIDE DEF w
      <4> QED BY <2>1, <4>1, <4>2
    <3>2. CASE ~\E v \in db.installed : PkgOf[v] = p
      BY <3>2 DEF Initially
    <3> QED BY <3>1, <3>2
  <2> QED BY <2>2
<1>3. ExecTypeOK
  <2>1. status \in [Pkg -> [ver : Ver \union {NoVer}, st : {"ok", "unpacked"}]]
    BY <1>2 DEF ExecInit, InitialStatus, Is
  <2> QED BY <1>1, <2>1 DEF ExecTypeOK, ExecInit, PlanIInv
<1>4. Progress
  BY DEF ExecInit, PlanInit, Progress, Executing
<1> QED BY <1>1, <1>3, <1>4 DEF ExecIInv

-----------------------------------------------------------------------------
(***************************************************************************)
(* The steps                                                               *)
(***************************************************************************)

\* Executing leaves the plan alone.
LEMMA PlanStays ==
  ASSUME PlanIInv, phase \in {"planned", "execute", "executed"}, Executing',
         UNCHANGED <<vars, walkVars, ok, keep, manual, relevant>>,
         graph' \in [Seat -> SUBSET Seat], comp' \subseteq Seat, left' \subseteq comp'
  PROVE  PlanIInv' /\ UNCHANGED <<db, vers, deps, selected>>
<1> USE DEF PlanIInv
<1>1. UNCHANGED <<db, vers, deps, selected>>
  BY DEF vars
<1>2. IInv' /\ DepsComputed'
  BY StepIInv, DepsComputedStep
<1>3. PlanTypeOK'
  BY DEF PlanTypeOK, walkVars
<1>4. visited # {} /\ calls = <<>> /\ Goal \in keep
  BY DEF GoalKept, CallsOK, Filling
<1>5. CallsOK' /\ GoalKept'
  BY <1>1, <1>4, AfterWalk DEF Executing, Filling, Phases
<1>6. Judging' /\ Kept'
  BY DEF Judging, Kept, Executing
<1> QED BY <1>1, <1>2, <1>3, <1>5, <1>6

\* The selected candidate of a package is a version of it, or null.
LEMMA SelectedVersion ==
  ASSUME TypeOK, NEW s \in Seat
  PROVE  /\ selected[s].seat = s
         /\ s \in Pkg => selected[s].ver \in Ver \union {NoVer}
BY WorkspaceAssumption DEF TypeOK, SeatCands, Cands

StatusOK == status \in [Pkg -> [ver : Ver \union {NoVer}, st : {"ok", "unpacked"}]]

\* Installing the candidate of one seat leaves the others as they are.
LEMMA BecomeOk ==
  ASSUME TypeOK, StatusOK, UNCHANGED selected, NEW s \in Seat, Become(selected[s], "ok")
  PROVE  /\ StatusOK'
         /\ Installed(selected[s])'
         /\ \A t \in Seat : Installed(selected[t]) => Installed(selected[t])'
<1>1. \A t \in Seat : selected[t].seat = t /\ (t \in Pkg => selected[t].ver \in Ver \union {NoVer})
  BY SelectedVersion
<1>2. CASE s \in Pkg
  <2>1. status' = [status EXCEPT ![s] = Is(selected[s].ver, "ok")]
    BY <1>1, <1>2 DEF Become
  <2> QED BY <1>1, <1>2, <2>1 DEF StatusOK, Installed, Is
<1>3. CASE s \notin Pkg
  <2>1. status' = status
    BY <1>1, <1>3 DEF Become
  <2> QED BY <1>1, <1>3, <2>1 DEF StatusOK, Installed
<1> QED BY <1>2, <1>3

\* Unpacking one that was not even unpacked breaks none that is installed.
LEMMA BecomeUnpacked ==
  ASSUME TypeOK, StatusOK, UNCHANGED selected, NEW s \in Seat, Become(selected[s], "unpacked"),
         ~Unpacked(selected[s])
  PROVE  /\ StatusOK'
         /\ \A t \in Seat : Installed(selected[t]) => Installed(selected[t])'
<1>1. \A t \in Seat : selected[t].seat = t /\ (t \in Pkg => selected[t].ver \in Ver \union {NoVer})
  BY SelectedVersion
<1>2. CASE s \in Pkg
  <2>1. PICK st \in {"ok", "unpacked"} : status' = [status EXCEPT ![s] = Is(selected[s].ver, st)]
    BY <1>1, <1>2 DEF Become
  <2>2. StatusOK'
    BY <1>1, <1>2, <2>1 DEF StatusOK, Is
  <2>3. ~Installed(selected[s])
    BY <1>1, <1>2 DEF Installed, Unpacked, Is
  <2> QED BY <1>1, <1>2, <2>1, <2>2, <2>3 DEF StatusOK, Installed
<1>3. CASE s \notin Pkg
  <2>1. status' = status
    BY <1>1, <1>3 DEF Become
  <2> QED BY <1>1, <1>3, <2>1 DEF StatusOK, Installed
<1> QED BY <1>2, <1>3

\* A step that installs keeps what is installed, and adds seats that are
\* installed then or given up.
LEMMA Progressing ==
  ASSUME ExecIInv, phase = "execute", Executing', ExecUnchanged,
         StatusOK', comp' \subseteq Seat, left' \subseteq comp', done' \subseteq Seat,
         done \subseteq done', gaveUp \subseteq gaveUp', gaveUp' \subseteq done',
         \A t \in Seat : Installed(selected[t]) => Installed(selected[t])',
         \A s \in done' \ done : s \in gaveUp' \/ Installed(selected[s])'
  PROVE  ExecIInv'
<1> USE DEF ExecIInv
<1>1. PlanIInv' /\ UNCHANGED <<db, vers, deps, selected>>
  BY PlanStays DEF ExecUnchanged, ExecTypeOK, PlanTypeOK
<1>2. ExecTypeOK'
  BY <1>1 DEF ExecTypeOK, StatusOK, PlanIInv
<1>3. \A s \in done' \ gaveUp' : Installed(selected[s])'
  BY DEF Progress, Executing
<1> QED BY <1>1, <1>2, <1>3 DEF Progress

\* Before the execution, nothing is set up or given up.
LEMMA PlanningStep ==
  ASSUME ExecIInv, PlanNext \/ UNCHANGED planVars, UNCHANGED execVars
  PROVE  ExecIInv'
<1> USE DEF ExecIInv
<1>1. PlanIInv'
  BY StepPlanIInv
<1>2. UNCHANGED <<status, gaveUp>>
  BY DEF execVars
<1>3. CASE PlanNext
  <2>1. ~Executing /\ ~Executing'
    BY <1>3 DEF PlanNext, Executing, Fill, Prepare, WalkGoal, WalkDep, WalkReturn, StartCleanup, JudgeComp,
                Judge, JudgedComp, StartRevert, Revert, RevertEnds, StartSweep, Sweep, SetManual, ReplaceSeats
  <2>2. gaveUp' = {}
    BY <1>2, <2>1 DEF Progress
  <2>3. ExecTypeOK'
    BY <1>1, <1>2, <2>2 DEF ExecTypeOK, PlanIInv
  <2>4. done' \subseteq Seat
    <3>1. CASE UNCHANGED done
      BY <3>1 DEF Progress
    <3>2. CASE StartCleanup
      BY <3>2 DEF StartCleanup, StartOrder
    <3>3. CASE Judge \/ JudgedComp
      BY <3>3 DEF Judge, JudgedComp, Progress, ExecTypeOK, PlanTypeOK
    <3> QED
      BY <1>3, <3>1, <3>2, <3>3 DEF PlanNext, Fill, Prepare, WalkGoal, WalkDep, WalkReturn, JudgeComp, VisitComp,
           StartRevert, Revert, RevertEnds, StartSweep, Sweep, SetManual, ReplaceSeats, orderVars
  <2> QED BY <1>1, <2>1, <2>2, <2>3, <2>4 DEF Progress
<1>4. CASE UNCHANGED planVars
  <2>1. UNCHANGED <<phase, vars, done>>
    BY <1>4 DEF planVars, orderVars
  <2>2. UNCHANGED selected
    BY <2>1 DEF vars
  <2>3. ExecTypeOK'
    BY <1>1, <1>2, <2>1 DEF ExecTypeOK, PlanIInv
  <2>4. Progress'
    BY <1>2, <2>1, <2>2 DEF Progress, Executing, Installed
  <2> QED BY <1>1, <2>3, <2>4
<1> QED BY <1>3, <1>4

LEMMA StartExecuteStep ==
  ASSUME ExecIInv, StartExecute
  PROVE  ExecIInv'
<1> USE DEF ExecIInv
<1>1. /\ phase = "planned" /\ phase' = "execute"
      /\ UNCHANGED <<vars, walkVars, ok, keep, manual, execVars, relevant>>
      /\ graph' = SelectedGraph /\ done' = {} /\ comp' = {} /\ left' = {}
  <2>1. relevant' = relevant
    BY DEF StartExecute, StartOrder, ExecTypeOK, PlanTypeOK
  <2> QED BY <2>1 DEF StartExecute, StartOrder
<1>2. SelectedGraph \in [Seat -> SUBSET Seat]
  BY GraphTyped DEF PlanIInv, IInv
<1>3. PlanIInv'
  BY <1>1, <1>2, PlanStays DEF Executing
<1>4. gaveUp' = {} /\ status' = status
  BY <1>1 DEF execVars, Progress, Executing
<1>5. ExecTypeOK'
  BY <1>3, <1>4 DEF ExecTypeOK, PlanIInv
<1> QED BY <1>1, <1>3, <1>4, <1>5 DEF Progress

LEMMA ExecuteEndsStep ==
  ASSUME ExecIInv, ExecuteEnds
  PROVE  ExecIInv'
<1> USE DEF ExecIInv
<1>1. /\ phase = "execute" /\ phase' = "executed"
      /\ UNCHANGED <<vars, walkVars, orderVars, ok, keep, manual, execVars>>
  BY DEF ExecuteEnds
<1>2. UNCHANGED <<graph, relevant, done, comp, left, status, gaveUp>>
  BY <1>1 DEF orderVars, execVars
<1>3. PlanIInv' /\ UNCHANGED selected
  BY <1>1, <1>2, PlanStays DEF Executing, ExecTypeOK, PlanTypeOK
<1>4. ExecTypeOK'
  BY <1>2, <1>3 DEF ExecTypeOK, PlanIInv
<1>5. Progress'
  BY <1>1, <1>2, <1>3 DEF Progress, Executing, Installed
<1> QED BY <1>3, <1>4, <1>5

LEMMA HandleStep ==
  ASSUME ExecIInv,
         \/ HandleComp \/ InstallSome \/ InstallSatisfied \/ InstallSatisfiedEnds
         \/ Hope \/ Unpack \/ UnpackEnds \/ InstallOne
  PROVE  ExecIInv'
<1> USE DEF ExecIInv
<1>1. phase = "execute" /\ Executing' /\ ExecUnchanged
  BY DEF HandleComp, VisitComp, InstallSome, InstallSatisfied, InstallSatisfiedEnds, Hope, Unpack, UnpackEnds,
         InstallOne, At, ExecUnchanged, Executing
<1>2. /\ comp \subseteq Seat /\ left \subseteq comp /\ done \subseteq Seat /\ gaveUp \subseteq done
      /\ TypeOK /\ StatusOK
  BY DEF ExecTypeOK, PlanTypeOK, Progress, PlanIInv, IInv, StatusOK
<1>3. UNCHANGED <<vars, selected>>
  BY <1>1 DEF ExecUnchanged, vars
<1>4. ASSUME UNCHANGED status
      PROVE  StatusOK' /\ \A t : Installed(selected[t])' <=> Installed(selected[t])
  BY <1>2, <1>3, <1>4 DEF StatusOK, Installed
<1>5. CASE HandleComp
  <2>1. PICK C \in SUBSET Seat : VisitComp(C)
    BY <1>5 DEF HandleComp
  <2>2. UNCHANGED <<status, gaveUp, done>> /\ comp' = C /\ left' = C
    BY <1>5, <2>1 DEF HandleComp, VisitComp
  <2> QED BY <1>1, <1>2, <1>4, <2>2, Progressing
<1>6. CASE InstallSome
  <2> DEFINE installed == {s \in comp : Installed(selected[s])}
  <2>1. /\ UNCHANGED <<status, gaveUp>>
        /\ \/ done' = done \union installed /\ comp' = {} /\ left' = {}
           \/ done' = done /\ comp' = comp /\ left' = comp
    BY <1>6 DEF InstallSome, Handled, Try
  <2> QED BY <1>1, <1>2, <1>4, <2>1, Progressing
<1>7. CASE InstallSatisfied
  <2>1. PICK s \in left :
          /\ left' = left \ {s}
          /\ \/ Become(selected[s], "ok") /\ done' = done \union {s}
             \/ UNCHANGED <<status, done>>
    BY <1>7 DEF InstallSatisfied
  <2>2. UNCHANGED <<comp, gaveUp>>
    BY <1>7 DEF InstallSatisfied
  <2>3. CASE Become(selected[s], "ok") /\ done' = done \union {s}
    BY <1>1, <1>2, <1>3, <2>1, <2>2, <2>3, BecomeOk, Progressing
  <2>4. CASE UNCHANGED <<status, done>>
    BY <1>1, <1>2, <1>4, <2>1, <2>2, <2>4, Progressing
  <2> QED BY <2>1, <2>3, <2>4
<1>8. CASE InstallSatisfiedEnds \/ UnpackEnds \/ Hope
  <2>1. /\ UNCHANGED status
        /\ \/ gaveUp' = gaveUp /\ done' = done
           \/ gaveUp' = gaveUp \union comp /\ done' = done \union comp
        /\ comp' \subseteq comp /\ left' \subseteq comp'
    BY <1>8 DEF InstallSatisfiedEnds, UnpackEnds, Hope, Handled, Try, GiveUp
  <2> QED BY <1>1, <1>2, <1>4, <2>1, Progressing
<1>9. CASE Unpack
  <2>1. PICK s \in left :
          /\ left' = left \ {s}
          /\ \/ ~Unpacked(selected[s]) /\ Become(selected[s], "unpacked")
             \/ UNCHANGED status
    BY <1>9 DEF Unpack
  <2>2. UNCHANGED <<comp, gaveUp, done>>
    BY <1>9 DEF Unpack
  <2>3. CASE ~Unpacked(selected[s]) /\ Become(selected[s], "unpacked")
    BY <1>1, <1>2, <1>3, <2>1, <2>2, <2>3, BecomeUnpacked, Progressing
  <2>4. CASE UNCHANGED status
    BY <1>1, <1>2, <1>4, <2>1, <2>2, <2>4, Progressing
  <2> QED BY <2>1, <2>3, <2>4
<1>10. CASE InstallOne
  <2>1. \/ /\ UNCHANGED status /\ gaveUp' = gaveUp \union comp /\ done' = done \union comp
           /\ comp' = {} /\ left' = {}
        \/ \E s \in comp : /\ Become(selected[s], "ok") /\ done' = done \union {s}
                           /\ gaveUp' = gaveUp /\ comp' = {} /\ left' = {}
    BY <1>10 DEF InstallOne, GiveUp, Handled
  <2>2. CASE /\ UNCHANGED status /\ gaveUp' = gaveUp \union comp /\ done' = done \union comp
             /\ comp' = {} /\ left' = {}
    BY <1>1, <1>2, <1>4, <2>2, Progressing
  <2>3. CASE \E s \in comp : /\ Become(selected[s], "ok") /\ done' = done \union {s}
                             /\ gaveUp' = gaveUp /\ comp' = {} /\ left' = {}
    <3>1. PICK s \in comp : /\ Become(selected[s], "ok") /\ done' = done \union {s}
                            /\ gaveUp' = gaveUp /\ comp' = {} /\ left' = {}
      BY <2>3
    <3> QED BY <1>1, <1>2, <1>3, <3>1, BecomeOk, Progressing
  <2> QED BY <2>1, <2>2, <2>3
<1> QED BY <1>5, <1>6, <1>7, <1>8, <1>9, <1>10

LEMMA StepExecIInv == ExecIInv /\ [ExecNext]_allVars => ExecIInv'
<1> SUFFICES ASSUME ExecIInv, [ExecNext]_allVars PROVE ExecIInv'
  OBVIOUS
<1>1. CASE PlanNext /\ UNCHANGED execVars
  BY <1>1, PlanningStep
<1>2. CASE StartExecute
  BY <1>2, StartExecuteStep
<1>3. CASE HandleComp \/ InstallSome \/ InstallSatisfied \/ InstallSatisfiedEnds
  BY <1>3, HandleStep
<1>4. CASE Hope \/ Unpack \/ UnpackEnds \/ InstallOne
  BY <1>4, HandleStep
<1>5. CASE ExecuteEnds
  BY <1>5, ExecuteEndsStep
<1>6. CASE UNCHANGED allVars
  BY <1>6, PlanningStep DEF allVars
<1> QED BY <1>1, <1>2, <1>3, <1>4, <1>5, <1>6 DEF ExecNext

-----------------------------------------------------------------------------
(***************************************************************************)
(* Packages that conflict                                                  *)
(***************************************************************************)

\* What is on the system are candidates.
Placed == \A p \in Pkg : [seat |-> p, ver |-> status[p].ver] \in Cands

Apart ==
  \A p, q \in Pkg : p # q /\ status[p].ver # NoVer =>
    \A r \in db.rels[status[p].ver] : r.type = "conflicts" =>
      \A a \in r.alts : a.pkg = q => status[q].ver \notin a.vers

\* The deps that stand for conflicts are satisfied by what is on the system.
Checked(c) ==
  \A d \in DepsOf(c) :
    (IF d.reversed THEN d.conflict ELSE d.src.type = "conflicts") => UnpackIsEnough(d)

\* What is left of a package when an alternative of a conflict is not.
Others(a) == {y \in SeatCands(a.pkg) : y.ver \notin a.vers}

\* The dep of a conflict that a candidate of the other package would violate.
LEMMA ConflictDep ==
  ASSUME TypeOK, DepsComputed, started, NEW v \in vers, NEW r \in db.rels[v], r.type = "conflicts",
         NEW a \in r.alts, NEW x \in SeatCands(a.pkg), x.ver \in a.vers
  PROVE  /\ a.pkg \in Pkg
         /\ \E d \in deps : /\ d.reversed = FALSE /\ d.conflict = TRUE /\ d.src = r /\ d.cand = Cand(v)
                            /\ d.alts = Others(a)
                            /\ Null(a.pkg) \in Others(a)
<1>1. v \in Ver /\ IsDatabase(db)
  BY InputAssumption DEF TypeOK
<1>2. r.alts = {a} /\ r.conf = TRUE /\ a.pkg \in Pkg /\ a.vers \subseteq Ver /\ ~a.null
  BY <1>1 DEF IsDatabase, IsRelation
<1>3. \A y : Satisfies(y, a, TRUE) <=> y.ver \notin a.vers
  BY <1>2 DEF Satisfies
<1>4. ~AlwaysSatisfied(r)
  BY <1>2, <1>3 DEF AlwaysSatisfied
<1> DEFINE d == Dep(Cand(v), r)
<1>5. d \in deps /\ ~d.reversed /\ d.cand = Cand(v) /\ d.src = r
  BY <1>1, <1>4, DepsOfRelation
<1>6. d.reversed = FALSE /\ d.conflict = TRUE
  BY DEF Dep
<1>7. d.alts = Others(a)
  <2>1. AltCands(a, TRUE) = Others(a)
    BY <1>3 DEF AltCands, Others
  <2>2. d.alts = UNION {AltCands(b, TRUE) : b \in {a}}
    BY <1>2 DEF Dep
  <2> QED BY <2>1, <2>2
<1>8. Null(a.pkg) \in Others(a)
  BY <1>2, NullSeated, WorkspaceAssumption DEF SeatCands, Seat, Others
<1> HIDE DEF d, Null, Cand
<1> QED BY <1>2, <1>5, <1>6, <1>7, <1>8

\* Whatever a stage of handle_comp asks for, it respects conflicts.
LEMMA StagesCheck ==
  ASSUME DepsComputed, StatusOK, NEW c,
         \A d \in DepsOf(c) : ForInstall(d) \/ AllowBreaks(d) \/ ForUnpack(d) \/ UnpackIsEnough(d)
  PROVE  Checked(c)
<1> SUFFICES ASSUME NEW d \in DepsOf(c), IF d.reversed THEN d.conflict ELSE d.src.type = "conflicts"
             PROVE  UnpackIsEnough(d)
  BY DEF Checked
<1>1. d \in deps /\ d.reversed \in BOOLEAN
  BY ForwardOrReversed DEF DepsOf
<1>2. ForInstall(d) => UnpackIsEnough(d)
  BY DEF ForInstall, UnpackIsEnough, Installed, Unpacked, Is, StatusOK
<1>3. ~RequiredByTarget(d)
  BY <1>1 DEF RequiredByTarget
<1>4. MustBeSatisfiedForUnpack(d)
  BY <1>1 DEF MustBeSatisfiedForUnpack, HasRelation
<1> QED BY <1>2, <1>3, <1>4 DEF AllowBreaks, ForUnpack

LEMMA StaysApart ==
  ASSUME IInv, DepsComputed, started, StatusOK, Placed, Apart, ~Merged, UNCHANGED db,
         NEW s \in Pkg, NEW c \in SeatCands(s), Checked(c),
         NEW x, status' = [status EXCEPT ![s] = Is(c.ver, x)]
  PROVE  Apart'
<1>0. TypeOK /\ c \in Cands /\ c.seat = s
  BY DEF IInv, SeatCands
<1>1. status'[s].ver = c.ver /\ \A p \in Pkg : p # s => status'[p] = status[p]
  BY DEF StatusOK, Is
<1> SUFFICES ASSUME NEW p \in Pkg, NEW q \in Pkg, p # q, status'[p].ver # NoVer,
                    NEW r \in db.rels[status'[p].ver], r.type = "conflicts",
                    NEW a \in r.alts, a.pkg = q, status'[q].ver \in a.vers
             PROVE  FALSE
  BY DEF Apart
<1>2. CASE p = s
  <2>1. c.ver \in vers /\ c = Cand(c.ver)
    BY <1>0, <1>1, <1>2, CandShape DEF TypeOK
  <2> DEFINE y == [seat |-> q, ver |-> status[q].ver]
  <2>2. y \in SeatCands(q) /\ y.ver \in a.vers
    BY <1>1, <1>2 DEF Placed, SeatCands
  <2> HIDE DEF y
  <2>3. PICK d \in deps : d.reversed = FALSE /\ d.src = r /\ d.cand = Cand(c.ver) /\ d.alts = Others(a)
    <3> HIDE DEF Cand, Null
    <3>1. c.ver \in vers /\ r \in db.rels[c.ver] /\ y \in SeatCands(a.pkg) /\ y.ver \in a.vers
      BY <1>1, <1>2, <2>1, <2>2
    <3>2. \E d \in deps : /\ d.reversed = FALSE /\ d.conflict = TRUE /\ d.src = r /\ d.cand = Cand(c.ver)
                          /\ d.alts = Others(a) /\ Null(a.pkg) \in Others(a)
      BY <1>0, <3>1, ConflictDep
    <3> QED BY <3>2
  <2>4. d \in DepsOf(c)
    BY <2>1, <2>3 DEF DepsOf
  <2>5. PICK z \in d.alts : Unpacked(z)
    BY <2>3, <2>4 DEF Checked, UnpackIsEnough
  <2>6. z.seat = q /\ z.ver \notin a.vers /\ status[q].ver = z.ver
    BY <2>3, <2>5 DEF SeatCands, Unpacked, Others
  <2> QED BY <1>1, <1>2, <2>6
<1>3. CASE q = s
  <2> DEFINE w == status[p].ver
             y == [seat |-> p, ver |-> w]
  <2>1. status'[p].ver = w /\ y \in Cands /\ y.seat = p /\ y.ver = w /\ w # NoVer
    BY <1>1, <1>3 DEF Placed
  <2> HIDE DEF w
  <2>2. w \in vers /\ w \in Ver
    BY <1>0, <2>1, CandShape DEF TypeOK
  <2>3. y = Cand(w)
    BY <1>0, <2>1, <2>2, CandShape
  <2> HIDE DEF y
  <2>4. c \in SeatCands(a.pkg) /\ c.ver \in a.vers
    BY <1>1, <1>3
  <2>5. PICK d \in deps : /\ d.reversed = FALSE /\ d.conflict = TRUE /\ d.cand = y
                          /\ d.alts = Others(a) /\ Null(s) \in Others(a)
    <3> HIDE DEF Cand, Null
    <3>1. w \in vers /\ r \in db.rels[w]
      BY <2>1, <2>2
    <3>2. \E d \in deps : /\ d.reversed = FALSE /\ d.conflict = TRUE /\ d.src = r /\ d.cand = Cand(w)
                          /\ d.alts = Others(a) /\ Null(a.pkg) \in Others(a)
      BY <1>0, <2>4, <3>1, ConflictDep
    <3> QED BY <1>3, <2>3, <3>2
  <2>6. c \notin d.alts /\ Null(s).seat = c.seat
    BY <1>0, <2>4, <2>5 DEF Others
  <2>7. PICK rd \in deps :
           /\ rd.cand = c /\ rd.reversed = TRUE /\ (d.conflict => rd.conflict)
           /\ \A b \in rd.alts : \/ b \in SeatCands(d.cand.seat) /\ b # d.cand
                                 \/ b \in d.alts /\ b.seat # c.seat
    <3>1. PICK n \in d.alts : n.seat = c.seat
      BY <2>5, <2>6
    <3>2. \E rd \in deps :
           /\ rd.cand = c /\ rd.reversed = TRUE /\ (d.conflict => rd.conflict)
           /\ \A b \in rd.alts : \/ b \in SeatCands(d.cand.seat) /\ b # d.cand
                                 \/ b \in d.alts /\ b.seat # c.seat
           /\ \A b \in SeatCands(d.cand.seat) : b # d.cand => b \in rd.alts
           /\ \A b \in d.alts : b.seat # c.seat => b \in rd.alts
      BY <1>0, <2>5, <2>6, <3>1, ReverseOf
    <3> QED BY <3>2
  <2>8. rd \in DepsOf(c) /\ rd.conflict
    BY <2>5, <2>7 DEF DepsOf
  <2>9. PICK b \in rd.alts : Unpacked(b)
    BY <2>7, <2>8 DEF Checked, UnpackIsEnough
  <2>10. CASE b \in SeatCands(p) /\ b # y
    <3>1. b.seat = p /\ b.ver = w /\ b \in Cands
      BY <2>9, <2>10 DEF SeatCands, Unpacked, w
    <3>2. b = [seat |-> p, ver |-> w]
      BY <1>0, <3>1, CandShape
    <3> QED BY <2>10, <3>2 DEF y
  <2>11. CASE b \in d.alts /\ b.seat # c.seat
    BY <1>0, <1>3, <2>5, <2>11 DEF SeatCands, Others
  <2> QED BY <2>1, <2>5, <2>7, <2>10, <2>11
<1>4. CASE p # s /\ q # s
  BY <1>1, <1>4 DEF Apart
<1> QED BY <1>2, <1>3, <1>4

\* Nothing conflicts at first, in a system that is sound.
LEMMA PlacedBefore ==
  ASSUME TypeOK, db.installed \subseteq vers, status = InitialStatus
  PROVE  /\ Placed
         /\ \A p \in Pkg : Initially(p) = [seat |-> p, ver |-> status[p].ver]
<1>1. \A p \in Pkg : status[p].ver = Initially(p).ver
  BY DEF InitialStatus, Is
<1>2. \A p \in Pkg : Initially(p) \in Cands /\ Initially(p).seat = p
  BY InitiallySeated DEF Seat
<1>3. \A p \in Pkg : Initially(p) = [seat |-> p, ver |-> status[p].ver]
  BY <1>1, <1>2, CandShape
<1> QED BY <1>2, <1>3 DEF Placed

LEMMA ApartBefore ==
  ASSUME TypeOK, db.installed \subseteq vers, SoundSystem, status = InitialStatus
  PROVE  Apart
<1> SUFFICES ASSUME NEW p \in Pkg, NEW q \in Pkg, status[p].ver # NoVer,
                    NEW r \in db.rels[status[p].ver], r.type = "conflicts",
                    NEW a \in r.alts, a.pkg = q
             PROVE  status[q].ver \notin a.vers
  BY DEF Apart
<1>1. /\ \A s \in Pkg : status[s].ver = Before[s].ver
      /\ Initially(p) \in Cands /\ Initially(p).ver = status[p].ver /\ Initially(p).seat = p
  BY InitiallySeated DEF Before, Seat, InitialStatus, Is
<1>2. status[p].ver \in Ver
  BY <1>1, CandShape DEF TypeOK
<1>3. Holds(r, Before)
  BY <1>1, <1>2 DEF SoundSystem, SoundSelection, Before
<1>4. r.conf
  BY <1>2, InputAssumption DEF TypeOK, IsDatabase
<1>5. Before[q].ver \notin a.vers
  BY <1>3, <1>4 DEF Holds
<1> QED BY <1>1, <1>5

-----------------------------------------------------------------------------
(***************************************************************************)
(* What executing does to the system                                       *)
(***************************************************************************)

\* The order is that of what is selected, and everything relevant is done in
\* the end.
Ordered ==
  Executing =>
    /\ graph = SelectedGraph
    /\ comp \subseteq Ordering!Reachable
    /\ phase = "executed" => Ordering!Reachable \subseteq done

\* What is not relevant stays as it was.
Untouched ==
  /\ ~Executing => status = InitialStatus
  /\ Executing => /\ Placed
                  /\ \A p \in Pkg \ Ordering!Reachable : status[p] = InitialStatus[p]

SysIInv ==
  /\ ExecIInv
  /\ PlanSound
  /\ Ordered
  /\ Untouched
  /\ Executing /\ SoundSystem /\ ~Merged => Apart

LEMMA InitSysIInv == ExecInit => SysIInv
<1> SUFFICES ASSUME ExecInit PROVE SysIInv
  OBVIOUS
<1>1. phase = "add" /\ status = InitialStatus
  BY DEF ExecInit, PlanInit
<1> QED BY <1>1, InitExecIInv DEF SysIInv, PlanSound, Ordered, Untouched, Executing, Filling, Planned

LEMMA WhatIsReachable ==
  /\ Ordering!Reachable \subseteq Seat
  /\ \A s \in Ordering!Reachable : graph[s] \cap Seat \subseteq Ordering!Reachable
<1>1. Ordering!Reachable \subseteq Seat
  BY DEF Ordering!Reachable
<1>2. ASSUME NEW s \in Ordering!Reachable, NEW t \in graph[s] \cap Seat
      PROVE  t \in Ordering!Reachable
  BY <1>2 DEF Ordering!Reachable, Ordering!Closed
<1> QED BY <1>1, <1>2

\* A seat that a selected candidate needs is next to its own in the graph.
LEMMA InGraph ==
  ASSUME TypeOK, NEW s \in Seat, NEW d \in deps, d.cand = selected[s], NEW a \in d.alts, selected[a.seat] = a
  PROVE  a.seat \in SelectedGraph[s] /\ a.seat \in Seat
<1>1. a \in SelectedAlts(d, selected) /\ d \in DepsOf(selected[s])
  BY DEF SelectedAlts, DepsOf
<1>2. a.seat \in Seat
  BY CandsSeated DEF TypeOK
<1> QED BY <1>1, <1>2 DEF SelectedGraph

LEMMA SameBeginning ==
  ASSUME UNCHANGED db
  PROVE  InitialStatus' = InitialStatus
<1>1. \A p : Initially(p)' = Initially(p)
  BY DEF Initially
<1> QED BY <1>1 DEF InitialStatus

LEMMA AtFirst ==
  ASSUME NEW p \in Pkg
  PROVE  /\ InitialStatus[p].ver = Initially(p).ver
         /\ db.unpacked = {} => InitialStatus[p].st = "ok"
<1> HIDE DEF Null, Cand
<1>1. InitialStatus[p] = IF Initially(p).ver = NoVer THEN Is(NoVer, "ok")
                         ELSE Is(Initially(p).ver, IF p \in db.unpacked THEN "unpacked" ELSE "ok")
  BY DEF InitialStatus
<1> QED BY <1>1 DEF Is

\* A step of the handler that respects conflicts.
LEMMA Handling ==
  ASSUME SysIInv, ExecIInv', phase = "execute", phase' \in {"execute", "executed"},
         UNCHANGED <<vars, graph, relevant, keep>>,
         comp' \subseteq Ordering!Reachable,
         phase' = "executed" => Ordering!Reachable \subseteq done',
         \/ UNCHANGED status
         \/ \E s \in comp, st \in {"ok", "unpacked"} :
              /\ Become(selected[s], st)
              /\ \A d \in DepsOf(selected[s]) : ForInstall(d) \/ AllowBreaks(d) \/ ForUnpack(d) \/ UnpackIsEnough(d)
  PROVE  SysIInv'
<1> USE DEF SysIInv
<1>1. UNCHANGED <<db, vers, deps, started, selected>>
  BY DEF vars
<1>2. /\ TypeOK /\ IInv /\ DepsComputed /\ started /\ StatusOK
      /\ Executing /\ Executing' /\ Placed /\ graph = SelectedGraph
      /\ comp \subseteq Ordering!Reachable
  BY DEF ExecIInv, PlanIInv, IInv, PlanSound, Filling, ExecTypeOK, StatusOK, Executing, Untouched, Ordered
<1>3. (SoundSystem /\ ~Merged)' => SoundSystem /\ ~Merged
  BY <1>1, SameSystem
<1>4. PlanSound'
  BY PlanSoundStays DEF Planned, SysIInv, ExecIInv, PlanIInv
<1>5. Ordering!Reachable' = Ordering!Reachable
  BY DEF Ordering!Reachable, Ordering!Closed
<1>6. Ordered'
  <2>1. SelectedGraph' = SelectedGraph
    BY SameSelection
  <2> QED BY <1>2, <1>5, <2>1 DEF Ordered, Executing
<1>7. InitialStatus' = InitialStatus /\ Cands' = Cands
  BY <1>1, SameBeginning DEF Cands
<1>8. CASE UNCHANGED status
  <2>1. Untouched'
    BY <1>2, <1>5, <1>7, <1>8 DEF Untouched, Placed
  <2>2. Apart => Apart'
    BY <1>1, <1>8 DEF Apart
  <2> QED BY <1>2, <1>3, <1>4, <1>6, <2>1, <2>2
<1>9. ASSUME NEW s \in comp, NEW st \in {"ok", "unpacked"}, Become(selected[s], st),
             \A d \in DepsOf(selected[s]) : ForInstall(d) \/ AllowBreaks(d) \/ ForUnpack(d) \/ UnpackIsEnough(d),
             s \in Pkg
      PROVE  SysIInv'
  <2> DEFINE c == selected[s]
             x == IF c.ver = NoVer THEN "ok" ELSE st
  <2>1. s \in Ordering!Reachable /\ c \in SeatCands(s) /\ c \in Cands /\ c.seat = s
    BY <1>2, <1>9, WhatIsReachable DEF TypeOK, SeatCands
  <2>2. status' = [status EXCEPT ![s] = Is(c.ver, x)]
    BY <1>9, <2>1 DEF Become
  <2>3. Checked(c)
    BY <1>2, <1>9, StagesCheck
  <2>4. c = [seat |-> s, ver |-> c.ver]
    BY <1>2, <2>1, CandShape
  <2> HIDE DEF c, x
  <2>5. status'[s].ver = c.ver /\ \A p \in Pkg : p # s => status'[p] = status[p]
    BY <1>2, <1>9, <2>2 DEF StatusOK, Is
  <2>6. Untouched'
    <3>1. Placed'
      BY <1>2, <1>7, <2>1, <2>4, <2>5 DEF Placed
    <3> QED BY <1>2, <1>5, <1>7, <2>1, <2>5, <3>1 DEF Untouched
  <2>7. SoundSystem /\ ~Merged => Apart'
    BY <1>1, <1>2, <1>9, <2>1, <2>2, <2>3, StaysApart
  <2> QED BY <1>3, <1>4, <1>6, <2>6, <2>7
<1>10. ASSUME NEW s \in comp, NEW st, Become(selected[s], st), s \notin Pkg
       PROVE  UNCHANGED status
  BY <1>2, <1>10, WhatIsReachable DEF TypeOK, SeatCands, Become
<1> QED BY <1>8, <1>9, <1>10

LEMMA HandlingStep ==
  ASSUME SysIInv,
         \/ HandleComp \/ InstallSome \/ InstallSatisfied \/ InstallSatisfiedEnds
         \/ Hope \/ Unpack \/ UnpackEnds \/ InstallOne
  PROVE  SysIInv'
<1> DEFINE respects(s) == \A d \in DepsOf(selected[s]) : ForInstall(d) \/ AllowBreaks(d) \/ ForUnpack(d) \/ UnpackIsEnough(d)
           becomes == \E s \in comp, st \in {"ok", "unpacked"} : Become(selected[s], st) /\ respects(s)
<1>1. ExecIInv'
  BY HandleStep DEF SysIInv
<1>2. phase = "execute" /\ phase' = "execute" /\ UNCHANGED <<vars, graph, relevant, keep>>
  BY DEF HandleComp, VisitComp, InstallSome, InstallSatisfied, InstallSatisfiedEnds, Hope, Unpack, UnpackEnds,
         InstallOne, At, ExecUnchanged
<1>3. comp \subseteq Ordering!Reachable /\ left \subseteq comp
  BY <1>2 DEF SysIInv, Ordered, Executing, ExecIInv, ExecTypeOK, PlanTypeOK
<1>4. comp' \subseteq Ordering!Reachable /\ (UNCHANGED status \/ becomes)
  <2>1. CASE HandleComp
    BY <2>1 DEF HandleComp, VisitComp, Ordering!IsNext
  <2>2. CASE InstallSome \/ InstallSatisfiedEnds \/ Hope \/ UnpackEnds
    BY <1>3, <2>2 DEF InstallSome, InstallSatisfiedEnds, Hope, UnpackEnds, Handled, Try, GiveUp
  <2>3. CASE InstallSatisfied
    <3>1. PICK s \in left : (Become(selected[s], "ok") /\ respects(s)) \/ UNCHANGED status
      BY <2>3 DEF InstallSatisfied, AllDeps
    <3>2. comp' = comp
      BY <2>3 DEF InstallSatisfied
    <3> HIDE DEF respects
    <3> QED BY <1>3, <3>1, <3>2
  <2>4. CASE Unpack
    <3>1. PICK s \in left : (Become(selected[s], "unpacked") /\ respects(s)) \/ UNCHANGED status
      BY <2>4 DEF Unpack, AllDeps
    <3>2. comp' = comp
      BY <2>4 DEF Unpack
    <3> HIDE DEF respects
    <3> QED BY <1>3, <3>1, <3>2
  <2>5. CASE InstallOne
    <3>1. UNCHANGED status \/ \E s \in comp : Become(selected[s], "ok") /\ respects(s)
      BY <2>5 DEF InstallOne, AllDeps
    <3>2. comp' = {}
      BY <2>5 DEF InstallOne, GiveUp, Handled
    <3> HIDE DEF respects
    <3> QED BY <3>1, <3>2
  <2> QED BY <2>1, <2>2, <2>3, <2>4, <2>5
<1> QED BY <1>1, <1>2, <1>4, Handling

LEMMA PlanningSys ==
  ASSUME SysIInv, PlanNext /\ UNCHANGED execVars
  PROVE  SysIInv'
<1> USE DEF SysIInv
<1>1. ExecIInv' /\ PlanSound'
  BY PlanningStep, PlanSoundStep DEF ExecIInv
<1>2. ~Executing /\ ~Executing'
  BY DEF PlanNext, Executing, Fill, Prepare, WalkGoal, WalkDep, WalkReturn, StartCleanup, JudgeComp,
         Judge, JudgedComp, StartRevert, Revert, RevertEnds, StartSweep, Sweep, SetManual, ReplaceSeats
<1>3. db' = db
  <2>1. [Next]_vars
    BY WorkspaceStep DEF ExecIInv
  <2> QED BY <2>1 DEF Next, vars, AddCand, AddCandAndDeps, AddInstalled, AddBest, SetGoal, NoDeps, Start, Select
<1>4. status' = status
  BY DEF execVars
<1> QED BY <1>1, <1>2, <1>3, <1>4, SameBeginning DEF Ordered, Untouched

LEMMA StartingSys ==
  ASSUME SysIInv, StartExecute
  PROVE  SysIInv'
<1> USE DEF SysIInv
<1>1. /\ phase = "planned" /\ phase' = "execute" /\ UNCHANGED <<vars, keep, status>>
      /\ graph' = SelectedGraph /\ comp' = {}
  BY DEF StartExecute, StartOrder, execVars
<1>2. UNCHANGED <<db, vers, deps, started, selected>>
  BY <1>1 DEF vars
<1>3. ExecIInv' /\ PlanSound'
  BY <1>1, StartExecuteStep, PlanSoundStays DEF Planned
<1>4. TypeOK /\ db.installed \subseteq vers /\ status = InitialStatus
  BY <1>1 DEF ExecIInv, PlanIInv, IInv, Kept, GoalKept, Filling, Untouched, Executing
<1>5. Ordered'
  <2>1. SelectedGraph' = SelectedGraph
    BY <1>1, SameSelection
  <2> QED BY <1>1, <2>1 DEF Ordered
<1>6. InitialStatus' = InitialStatus /\ Cands' = Cands
  BY <1>2, SameBeginning DEF Cands
<1>7. Untouched'
  <2>1. Placed'
    BY <1>1, <1>4, <1>6, PlacedBefore DEF Placed
  <2> QED BY <1>1, <1>4, <1>6, <2>1 DEF Untouched, Executing
<1>8. (SoundSystem /\ ~Merged)' => Apart'
  <2>1. (SoundSystem /\ ~Merged)' => SoundSystem
    BY <1>2, SameSystem
  <2>2. SoundSystem => Apart
    BY <1>4, ApartBefore
  <2>3. Apart => Apart'
    BY <1>1, <1>2 DEF Apart
  <2> QED BY <2>1, <2>2, <2>3
<1> QED BY <1>3, <1>5, <1>7, <1>8

LEMMA EndingSys ==
  ASSUME SysIInv, ExecuteEnds
  PROVE  SysIInv'
<1>1. /\ phase = "execute" /\ phase' = "executed" /\ comp = {}
      /\ Ordering!Reachable \subseteq done
      /\ UNCHANGED <<vars, graph, relevant, keep, comp, done, status>>
  BY DEF ExecuteEnds, OrderEnds, orderVars, execVars
<1> QED BY <1>1, ExecuteEndsStep, Handling DEF SysIInv

LEMMA StutterSys ==
  ASSUME SysIInv, UNCHANGED allVars
  PROVE  SysIInv'
<1> USE DEF SysIInv
<1>1. ExecIInv'
  BY PlanningStep DEF allVars
<1>2. UNCHANGED <<vars, phase, graph, relevant, comp, done, keep, status>>
  BY DEF allVars, planVars, orderVars, execVars
<1>3. UNCHANGED <<db, vers, deps, started, selected>>
  BY <1>2 DEF vars
<1>4. (SoundSystem /\ ~Merged)' => SoundSystem /\ ~Merged
  BY <1>3, SameSystem
<1>5. PlanSound'
  BY <1>2, PlanSoundStays
<1>6. Ordering!Reachable' = Ordering!Reachable
  BY <1>2 DEF Ordering!Reachable, Ordering!Closed
<1>7. Executing' <=> Executing
  BY <1>2 DEF Executing
<1>8. Ordered'
  BY <1>2, <1>6, <1>7, SameSelection DEF Ordered
<1>9. Untouched'
  <2>1. Cands' = Cands
    BY <1>3 DEF Cands
  <2> QED BY <1>2, <1>3, <1>6, <1>7, <2>1, SameBeginning DEF Untouched, Placed
<1>10. Apart => Apart'
  BY <1>2, <1>3 DEF Apart
<1> QED BY <1>1, <1>4, <1>5, <1>7, <1>8, <1>9, <1>10

LEMMA StepSysIInv == SysIInv /\ [ExecNext]_allVars => SysIInv'
<1> SUFFICES ASSUME SysIInv, [ExecNext]_allVars PROVE SysIInv'
  OBVIOUS
<1>1. CASE PlanNext /\ UNCHANGED execVars
  BY <1>1, PlanningSys
<1>2. CASE StartExecute
  BY <1>2, StartingSys
<1>3. CASE HandleComp \/ InstallSome \/ InstallSatisfied \/ InstallSatisfiedEnds
  BY <1>3, HandlingStep
<1>4. CASE Hope \/ Unpack \/ UnpackEnds \/ InstallOne
  BY <1>4, HandlingStep
<1>5. CASE ExecuteEnds
  BY <1>5, EndingSys
<1>6. CASE UNCHANGED allVars
  BY <1>6, StutterSys
<1> QED BY <1>1, <1>2, <1>3, <1>4, <1>5, <1>6 DEF ExecNext

\* What was not visited still has what it needs: a reversed dep of what took the
\* place of an alternative leads to it.
LEMMA NothingBroken == SysIInv => NothingBrokenAfter
<1> SUFFICES ASSUME SysIInv, phase = "executed", gaveUp = {}, SoundSystem, ~Merged, db.unpacked = {}
             PROVE  (\A p \in Pkg : status[p].st = "ok") /\ SoundSelection(Present)
  BY DEF NothingBrokenAfter
<1> DEFINE R == Ordering!Reachable
<1>1. /\ TypeOK /\ IInv /\ DepsComputed /\ started /\ Executing
      /\ db.installed \subseteq vers /\ Met(selected) /\ graph = SelectedGraph
      /\ Placed /\ \A p \in Pkg \ R : status[p] = InitialStatus[p]
  BY DEF SysIInv, ExecIInv, PlanIInv, IInv, PlanSound, Filling, Planned, Executing, Ordered, Untouched,
         Kept, GoalKept
<1>2. \A s \in R : Installed(selected[s])
  BY <1>1 DEF SysIInv, ExecIInv, Progress, Ordered
<1>3. R \subseteq Seat /\ \A s \in R : graph[s] \cap Seat \subseteq R
  BY WhatIsReachable
<1> HIDE DEF R
<1>4. \A s \in Seat : selected[s] \in SeatCands(s) /\ selected[s] \in Cands /\ selected[s].seat = s
  BY <1>1 DEF TypeOK, SeatCands
<1>5. \A p \in Pkg : /\ p \in R => status[p] = Is(selected[p].ver, "ok")
                     /\ status[p].st = "ok"
  <2>1. \A p \in Pkg : p \in R => status[p] = Is(selected[p].ver, "ok")
    BY <1>2, <1>4 DEF Installed, Seat
  <2>2. \A p \in Pkg : p \notin R => status[p].st = "ok"
    BY <1>1, AtFirst
  <2> QED BY <2>1, <2>2 DEF Is
<1>6. \A s \in R : Present[s] = selected[s]
  <2>1. \A p \in Pkg : p \in R => Present[p] = [seat |-> p, ver |-> selected[p].ver]
    <3>1. \A p \in Pkg : Present[p] = [seat |-> p, ver |-> status[p].ver]
      BY DEF Present, Seat
    <3>2. \A p \in Pkg : p \in R => status[p].ver = selected[p].ver
      <4>1. \A v, st : Is(v, st).ver = v
        BY DEF Is
      <4> QED BY <1>5, <4>1
    <3> QED BY <3>1, <3>2
  <2>2. \A p \in Pkg : selected[p] = [seat |-> p, ver |-> selected[p].ver]
    BY <1>1, <1>4, CandShape DEF Seat
  <2> QED BY <1>3, <2>1, <2>2 DEF Present
<1>7. \A p \in Pkg \ R : Present[p] = Initially(p)
  <2> SUFFICES ASSUME NEW p \in Pkg \ R PROVE Present[p] = Initially(p)
    OBVIOUS
  <2>1. status[p].ver = Initially(p).ver
    BY <1>1, AtFirst
  <2>2. Initially(p) \in Cands /\ Initially(p).seat = p
    BY <1>1, InitiallySeated DEF Seat
  <2>3. Initially(p) = [seat |-> p, ver |-> Initially(p).ver]
    BY <1>1, <2>2, CandShape
  <2> QED BY <2>1, <2>3 DEF Present, Seat
<1>8. Present \in Selections
  <2>1. \A s \in Seat : Present[s] \in SeatCands(s)
    BY <1>1, <1>4 DEF Present, Placed, SeatCands
  <2>2. Present = [s \in Seat |-> Present[s]]
    BY DEF Present
  <2> HIDE DEF Present
  <2> QED BY <1>1, <2>1, <2>2, IsSelection
<1> HIDE DEF Present
<1>9. Met(Before)
  BY <1>1, BeforeIsSelection, SoundMeans DEF SoundSystem, Before
<1>10. ASSUME NEW d \in deps, NEW s \in R, d.cand = selected[s], NEW b \in d.alts, selected[b.seat] = b
       PROVE  b.seat \in R /\ Present[b.seat] = b
  BY <1>1, <1>3, <1>6, <1>10, InGraph
<1>11. ASSUME NEW d \in deps, Demand(d), d.cand.seat \in R, Present[d.cand.seat] = d.cand
       PROVE  Satisfied(d, Present)
  <2>1. d.cand = selected[d.cand.seat]
    BY <1>6, <1>11
  <2>2. PICK b \in d.alts : selected[b.seat] = b
    BY <1>1, <1>11, <2>1 DEF Met, Satisfied
  <2> QED BY <1>10, <1>11, <2>1, <2>2 DEF Satisfied
<1>12. ASSUME NEW d \in deps, NEW a \in d.alts,
              Demand(d), d.cand.seat \in Pkg \ R, Initially(d.cand.seat) = d.cand,
              a.seat \in R, Present[a.seat] \notin d.alts
       PROVE  Satisfied(d, Present)
  <2> DEFINE p == d.cand.seat
  <2>1. PICK t \in Cands : t = selected[a.seat] /\ t.seat = a.seat /\ t \notin d.alts
    BY <1>3, <1>4, <1>6, <1>12
  <2>2. PICK rd \in deps :
           /\ rd.cand = t
           /\ \A b \in SeatCands(p) : b # d.cand => b \in rd.alts
           /\ \A b \in d.alts : b.seat # t.seat => b \in rd.alts
    <3>1. d.reversed = FALSE /\ t \notin d.alts /\ a.seat = t.seat
      BY <1>12, <2>1 DEF Demand
    <3>2. \E rd \in deps :
           /\ rd.cand = t /\ rd.reversed = TRUE /\ (d.conflict => rd.conflict)
           /\ \A b \in rd.alts : \/ b \in SeatCands(d.cand.seat) /\ b # d.cand
                                 \/ b \in d.alts /\ b.seat # t.seat
           /\ \A b \in SeatCands(d.cand.seat) : b # d.cand => b \in rd.alts
           /\ \A b \in d.alts : b.seat # t.seat => b \in rd.alts
      BY <1>1, <3>1, ReverseOf
    <3> QED BY <3>2
  <2>3. p \in Seat /\ selected[p] \in SeatCands(p) /\ selected[p].seat = p
    BY <1>4, <1>12 DEF Seat
  <2>4. selected[p] = d.cand
    <3> SUFFICES ASSUME selected[p] # d.cand PROVE FALSE
      OBVIOUS
    <3>1. selected[p] \in rd.alts /\ selected[selected[p].seat] = selected[p]
      BY <2>2, <2>3
    <3>2. p \in R
      BY <1>10, <1>12, <2>1, <2>2, <2>3, <3>1
    <3> QED BY <1>12, <3>2
  <2>5. PICK b \in d.alts : selected[b.seat] = b
    BY <1>1, <1>12, <2>4 DEF Met, Satisfied
  <2>6. b \in rd.alts
    BY <2>1, <2>2, <2>5
  <2> QED BY <1>10, <1>12, <2>1, <2>2, <2>5, <2>6 DEF Satisfied
<1>13. Met(Present)
  <2>1. \A d \in deps : Demand(d) /\ d.cand.seat \in R /\ Present[d.cand.seat] = d.cand => Satisfied(d, Present)
    BY <1>11
  <2>2. \A d \in deps : \A a \in d.alts :
          Demand(d) /\ d.cand.seat \in Pkg \ R /\ Initially(d.cand.seat) = d.cand
            /\ a.seat \in R /\ Present[a.seat] \notin d.alts
            => Satisfied(d, Present)
    BY <1>12
  <2> QED BY <1>1, <1>7, <1>8, <1>9, <2>1, <2>2, Mixed
<1> QED BY <1>1, <1>5, <1>8, <1>13, SoundMeans

-----------------------------------------------------------------------------
(***************************************************************************)
(* The theorems                                                            *)
(***************************************************************************)
THEOREM ExecInvariance == ExecSpec => []ExecIInv
<1> QED BY InitExecIInv, StepExecIInv, PTL DEF ExecSpec

\* Every variable of the planner and the executor keeps its type, and only
\* seats that are done were given up.
THEOREM ExecTypeCorrect == ExecSpec => []ExecTypeOK
<1>1. ExecIInv => ExecTypeOK
  BY DEF ExecIInv
<1> QED BY <1>1, ExecInvariance, PTL

\* The plan is as good as the planner says when it is executed, too.
THEOREM PlanOfCommand == ExecSpec => [](GoalOkExact /\ PlanHolds)
<1>1. ExecIInv => GoalOkExact /\ PlanHolds
  BY GoalOkWhenJudged, PlanHoldsWhenPlanned DEF ExecIInv
<1> QED BY <1>1, ExecInvariance, PTL

\* When dpm_alg_execute gave nothing up, every package that it visited is set
\* up in the version that was planned: breaking a cycle by unpacking undoes
\* nothing that was done before, and no seat is reported as done too early.
THEOREM PlanIsExecuted == ExecSpec => []PlanExecuted
<1>1. ExecIInv => PlanExecuted
  BY DEF ExecIInv, Progress, Executing, PlanExecuted
<1> QED BY <1>1, ExecInvariance, PTL

THEOREM SysInvariance == ExecSpec => []SysIInv
<1> QED BY InitSysIInv, StepSysIInv, PTL DEF ExecSpec

\* Packages that conflict are never on the system together while a plan is
\* executed, in whatever order components are visited and even while cycles of
\* them are unpacked, if they were not before.
THEOREM ConflictsAreKeptApart == ExecSpec => []NoConflicts
<1>1. SysIInv => NoConflicts
  BY DEF SysIInv, Executing, Apart, NoConflicts
<1> QED BY <1>1, SysInvariance, PTL

\* After a plan was executed without giving anything up, everything on the
\* system is set up and has what it depends on, if that was so before: what
\* the order never came to depends on nothing that was replaced.
THEOREM NothingIsBroken == ExecSpec => []NothingBrokenAfter
<1> QED BY NothingBroken, SysInvariance, PTL
=============================================================================

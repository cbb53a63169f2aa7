------------------------------- MODULE Execute ------------------------------
(***************************************************************************)
(* `dpm install`, the second half (alg.c: dpm_alg_execute; inst.c; what    *)
(* ws.c says about the candidates and deps of a plan).                     *)
(*                                                                         *)
(* The components of the plan are visited in the order of their deps.  A   *)
(* visit looks for something that can be done for some of the seats:       *)
(* nothing, install, install and break others, unpack and look again,      *)
(* install one that has what it needs unpacked.  When there is nothing, it *)
(* gives the component up.                                                 *)
(***************************************************************************)
EXTENDS Plan

VARIABLES
  status,   \* of each package: the version and "ok" or "unpacked"
  stage,    \* what handle_comp tries
  again,    \* install_some is called for the second time
  unpacked, \* some_are_unpacked
  gaveUp    \* the seats of components that were given up

execVars == <<status, stage, again, unpacked, gaveUp>>
allVars == <<planVars, execVars>>

Is(v, st) == [ver |-> v, st |-> st]

InitialStatus ==
  [p \in Pkg |-> IF Initially(p).ver = NoVer THEN Is(NoVer, "ok")
                 ELSE Is(Initially(p).ver, IF p \in db.unpacked THEN "unpacked" ELSE "ok")]

ExecInit ==
  /\ PlanInit
  /\ status = InitialStatus
  /\ stage = "none"
  /\ again = FALSE /\ unpacked = FALSE
  /\ gaveUp = {}

-----------------------------------------------------------------------------
(***************************************************************************)
(* Candidates and deps, by what is installed (ws.c)                        *)
(***************************************************************************)
\* dpm_cand_is_installed and dpm_cand_is_unpacked
Installed(c) == IF c.seat \in Pkg THEN status[c.seat] = Is(c.ver, "ok") ELSE selected[c.seat] = c
Unpacked(c) == IF c.seat \in Pkg THEN status[c.seat].ver = c.ver ELSE selected[c.seat] = c

\* dpm_cand_install and dpm_cand_unpack, dpm_inst_install, _unpack and _remove
Become(c, st) ==
  status' = IF c.seat \in Pkg
            THEN [status EXCEPT ![c.seat] = Is(c.ver, IF c.ver = NoVer THEN "ok" ELSE st)]
            ELSE status

\* dpm_dep_relation: the deps of the goal have none, and neither do reversed ones.
HasRelation(d) == ~d.reversed /\ d.src.type # "goal"

SatisfiedByUnpacked(d) == HasRelation(d) => d.src.type \in {"conflicts", "breaks"}

\* Mutant: conflicts need not be satisfied.
OnlyPreDepends(d) == HasRelation(d) /\ d.src.type = "pre-depends"

MustBeSatisfiedForUnpack(d) ==
  IF HasRelation(d) THEN d.src.type \in {"pre-depends", "conflicts"} ELSE d.reversed /\ d.conflict

\* satisfied_for_install; ..._optimistic; ..._allow_breaks; ...for_unpack;
\* ..._unpack_is_enough
ForInstall(d) == \E a \in d.alts : Installed(a) \/ (SatisfiedByUnpacked(d) /\ Unpacked(a))
Optimistic(d) == ForInstall(d) \/ \E a \in d.alts : selected[a.seat] = a /\ a.seat \notin done
AllowBreaks(d) == RequiredByTarget(d) \/ ForInstall(d)
ForUnpack(d) == MustBeSatisfiedForUnpack(d) => ForInstall(d)
UnpackIsEnough(d) == \E a \in d.alts : Unpacked(a)

AllDeps(s, pred(_)) == \A d \in DepsOf(selected[s]) : pred(d)

-----------------------------------------------------------------------------
(***************************************************************************)
(* handle_comp                                                             *)
(***************************************************************************)
ExecUnchanged == UNCHANGED <<wsVars, walkVars, ok, keep, manual, graph, relevant>>

StartExecute ==
  /\ phase = "planned"
  /\ phase' = "execute"
  /\ StartOrder({})
  /\ UNCHANGED <<wsVars, walkVars, ok, keep, manual, execVars>>

HandleComp ==
  /\ phase = "execute"
  /\ \E C \in SUBSET Seat : VisitComp(C)
  /\ stage' = "some" /\ again' = FALSE /\ unpacked' = FALSE
  /\ UNCHANGED <<wsVars, phase, walkVars, ok, keep, manual, status, gaveUp>>

At(st) == phase = "execute" /\ stage = st
Try(st) == stage' = st /\ left' = comp /\ some' = FALSE /\ UNCHANGED comp
Handled == stage' = "none" /\ comp' = {} /\ left' = {} /\ some' = FALSE
GiveUp == gaveUp' = gaveUp \union comp /\ done' = done \union comp /\ Handled

\* Mutant: what is unpacked needs no work.
InstallSomeUnpacked ==
  /\ At("some")
  /\ LET installed == {s \in comp : Unpacked(selected[s])} IN
     IF installed # {} THEN done' = done \union installed /\ Handled
                       ELSE Try("install") /\ UNCHANGED done
  /\ UNCHANGED <<phase, status, again, unpacked, gaveUp>> /\ ExecUnchanged

\* install_some: those that need no work.
InstallSome ==
  /\ At("some")
  /\ LET installed == {s \in comp : Installed(selected[s])} IN
     IF installed # {} THEN done' = done \union installed /\ Handled
                       ELSE Try("install") /\ UNCHANGED done
  /\ UNCHANGED <<phase, status, again, unpacked, gaveUp>> /\ ExecUnchanged

\* install_satisfied, with everything satisfied, or everything that a
\* candidate needs itself.
InstallSatisfied ==
  /\ \/ At("install")
     \/ At("break")
  /\ \E s \in left :
       /\ left' = left \ {s}
       /\ IF \/ At("install") /\ AllDeps(s, ForInstall)
             \/ At("break") /\ AllDeps(s, AllowBreaks)
          THEN Become(selected[s], "ok") /\ done' = done \union {s} /\ some' = TRUE
          ELSE UNCHANGED <<status, done, some>>
  /\ UNCHANGED <<phase, comp, stage, again, unpacked, gaveUp>> /\ ExecUnchanged

InstallSatisfiedEnds ==
  /\ \/ At("install")
     \/ At("break")
  /\ left = {}
  /\ IF some THEN Handled
     ELSE Try(IF At("install") THEN "break" ELSE IF again THEN "one" ELSE "hope")
  /\ UNCHANGED <<phase, status, done, again, unpacked, gaveUp>> /\ ExecUnchanged

\* Could all be installed if the others were?
Hope ==
  /\ At("hope")
  /\ IF \A s \in comp : AllDeps(s, Optimistic) THEN Try("unpack") /\ UNCHANGED <<done, gaveUp>>
                                               ELSE GiveUp
  /\ UNCHANGED <<phase, status, again, unpacked>> /\ ExecUnchanged

\* One round over the component.
Unpack ==
  /\ At("unpack")
  /\ \E s \in left :
       /\ left' = left \ {s}
       /\ IF Unpacked(selected[s]) THEN unpacked' = TRUE /\ UNCHANGED <<status, some>>
          ELSE /\ UNCHANGED unpacked
               /\ IF AllDeps(s, ForUnpack) THEN Become(selected[s], "unpacked") /\ some' = TRUE
                                           ELSE UNCHANGED <<status, some>>
  /\ UNCHANGED <<phase, comp, done, stage, again, gaveUp>> /\ ExecUnchanged

\* As long as a round makes progress.
UnpackEnds ==
  /\ At("unpack") /\ left = {}
  /\ IF some THEN Try("unpack") /\ UNCHANGED <<done, again, gaveUp>>
     ELSE IF unpacked THEN Try("some") /\ again' = TRUE /\ UNCHANGED <<done, gaveUp>>
     ELSE GiveUp /\ UNCHANGED again
  /\ UNCHANGED <<phase, status, unpacked>> /\ ExecUnchanged

\* One by one; or there is no way to break the cycle.
InstallOne ==
  /\ At("one")
  /\ LET enough == {s \in comp : AllDeps(s, UnpackIsEnough)} IN
     IF enough = {} THEN GiveUp /\ UNCHANGED status
     ELSE \E s \in enough :
            /\ Become(selected[s], "ok") /\ done' = done \union {s}
            /\ Handled /\ UNCHANGED gaveUp
  /\ UNCHANGED <<phase, again, unpacked>> /\ ExecUnchanged

ExecuteEnds ==
  /\ phase = "execute" /\ OrderEnds
  /\ phase' = "executed"
  /\ UNCHANGED <<wsVars, walkVars, orderVars, ok, keep, manual, execVars>>

ExecNext ==
  \/ PlanNext /\ UNCHANGED execVars
  \/ StartExecute \/ HandleComp
  \/ InstallSome \/ InstallSatisfied \/ InstallSatisfiedEnds \/ Hope
  \/ Unpack \/ UnpackEnds \/ InstallOne
  \/ ExecuteEnds

ExecSpec == ExecInit /\ [][ExecNext]_allVars /\ WF_allVars(ExecNext)
-----------------------------------------------------------------------------
(***************************************************************************)
(* Properties                                                              *)
(***************************************************************************)
ExecTypeOK ==
  /\ PlanTypeOK
  /\ status \in [Pkg -> [ver : Ver \union {NoVer}, st : {"ok", "unpacked"}]]
  /\ gaveUp \subseteq done

\* The system as it is, whether or not everything is set up.
Present == [s \in Seat |-> IF s \in Pkg THEN [seat |-> s, ver |-> status[s].ver] ELSE selected[s]]

\* No package is on the system together with another one that it conflicts
\* with, not even while cycles are broken up.
NoConflicts ==
  phase = "execute" /\ SoundSystem /\ ~Merged =>
    \A p, q \in Pkg : p # q /\ status[p].ver # NoVer =>
      \A r \in db.rels[status[p].ver] : r.type = "conflicts" =>
        \A a \in r.alts : a.pkg = q => status[q].ver \notin a.vers

\* What is executed without giving up is the plan: every relevant seat, and all
\* it needs, is set up as planned.
PlanExecuted ==
  phase = "executed" /\ gaveUp = {} =>
    \A s \in done : Installed(selected[s])

\* In the end nothing is broken that was not: every version on the system has
\* what it depends on, and everything is set up.
NothingBrokenAfter ==
  phase = "executed" /\ gaveUp = {} /\ SoundSystem /\ ~Merged /\ db.unpacked = {} =>
    (\A p \in Pkg : status[p].st = "ok") /\ SoundSelection(Present)

\* The command comes to an end.
Ends == <>(phase \in {"broken", "executed"})
=============================================================================

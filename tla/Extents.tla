------------------------------ MODULE Extents -------------------------------
(***************************************************************************)
(* Dynamic extents, variables, values, catch and throw (dyn.c:135-653):    *)
(* one list of unwind items (`windlist`), variables that are bound by      *)
(* overwriting them (shallow binding), and reference counts.               *)
(*                                                                         *)
(* The program that uses them is any program that nests its calls: it ends *)
(* the extents it has begun, throws to a catch that has not returned, and  *)
(* passes values that have an owner (dyn.h:51-53).  Unwinding functions    *)
(* only do things outside of this module, as unwind_free (484) does.       *)
(***************************************************************************)
EXTENDS Integers, Sequences, FiniteSets, SequencesExt, FiniteSetsExt

CONSTANTS
  Var, Val, Fun, Handler, None,  \* see Scopes
  MaxItems, MaxCalls             \* bounds of the checks: items, nested calls

ASSUME ExtentsAssumption ==
  /\ IsFiniteSet(Val) /\ IsFiniteSet(Var) /\ Handler \in Var /\ None \notin Val
  /\ MaxItems \in Nat /\ MaxCalls \in Nat
  /\ Val \intersect (1 .. MaxCalls) = {}

VARIABLES
  windlist,  \* the innermost item last
  var,       \* the val of each dyn_var
  refs,      \* the reference counts, 0 for memory that is free
  content,   \* what a value has a reference to: a value, or the target of a handler
  calls,     \* the program's dyn_block and dyn_catch it is in, the innermost last
  caught, ran, over  \* see Scopes

vars == <<windlist, var, refs, content, calls, caught, ran, over>>

Target == 1 .. MaxCalls  \* the address of a dyn_target: how deep the stack is

Extent == [kind |-> "extent"]
FuncItem(f) == [kind |-> "func", func |-> f]
VarItem(v, x) == [kind |-> "var", var |-> v, oldval |-> x]
UnrefItem(x) == [kind |-> "unref", val |-> x]
TargetItem(t) == [kind |-> "target", target |-> t, value |-> None]

\* The state of memory while values come and go.
Memory == [refs |-> refs, content |-> content, var |-> var, ran |-> <<>>]

\* What is free already is not referenced again.
Ref(m, x) == IF x = None THEN m ELSE [m EXCEPT !.refs[x] = IF @ = 0 THEN 0 ELSE @ + 1]

\* One value loses a reference; what it has a reference to is next when it is freed.
UnrefOne(m, x) ==
  IF m.refs[x] > 1 THEN [mem |-> [m EXCEPT !.refs[x] = @ - 1], next |-> None]
  ELSE [mem |-> [m EXCEPT !.refs[x] = 0, !.content[x] = None],
        next |-> IF m.content[x] \in Val THEN m.content[x] ELSE None]

UnrefNext(a) == IF a.next = None THEN a ELSE UnrefOne(a.mem, a.next)

Unref(m, x) ==
  LET after[n \in 0 .. Cardinality(Val)] ==
        IF n = 0 THEN [mem |-> m, next |-> x] ELSE UnrefNext(after[n - 1])
  IN after[Cardinality(Val)].mem

\* dyn_alloc, without its item.
Alloc(m, x, c) == [m EXCEPT !.refs[x] = 1, !.content[x] = c]

\* What dyn_unwind does for an item.
Undo(m, item, for_throw) ==
  CASE item.kind = "extent" -> m
    [] item.kind = "func" -> [m EXCEPT !.ran = Append(@, <<item.func, for_throw>>)]
    [] item.kind = "var" -> [Unref(m, m.var[item.var]) EXCEPT !.var[item.var] = item.oldval]
    [] item.kind = "unref" -> Unref(m, item.val)
    [] item.kind = "target" -> Unref(m, item.value)

\* dyn_unwind (goal, for_throw): all items above the goal-th one.
Unwind(m, goal, for_throw) ==
  LET above[i \in goal .. Len(windlist)] ==
        IF i = Len(windlist) THEN m ELSE Undo(above[i + 1], windlist[i + 1], for_throw)
  IN above[goal]

Become(m) == refs' = m.refs /\ content' = m.content /\ var' = m.var /\ ran' = m.ran
BindsHandler(i) == i <= Len(windlist) /\ windlist[i].kind = "var" /\ windlist[i].var = Handler

\* The bound counts the three items of a condition's catch as one.
Add(items) ==
  /\ windlist' = windlist \o items
  /\ Len(windlist) + 1 - 2 * Cardinality({i \in 1 .. Len(windlist) : BindsHandler(i)}) <= MaxItems
DropTo(goal) == windlist' = SubSeq(windlist, 1, goal)

Alive == {x \in Val : refs[x] > 0}

Init ==
  /\ windlist = <<>>
  /\ var = [v \in Var |-> None]
  /\ refs = [x \in Val |-> 0]
  /\ content = [x \in Val |-> None]
  /\ calls = <<>> /\ caught = None /\ ran = <<>> /\ over = FALSE

Quiet == caught' = None /\ UNCHANGED over
Stay == UNCHANGED calls /\ Quiet

\* A constructor: the new value may have a reference to y.
New(x, y) ==
  /\ x \notin Alive
  /\ Become(Ref(Alloc(Memory, x, y), y)) /\ Add(<<UnrefItem(x)>>) /\ Stay

\* dyn_ref and dyn_unref_on_unwind.
Retain(x) == Become(Ref(Memory, x)) /\ Add(<<UnrefItem(x)>>) /\ Stay

OnUnwind(f) == Become(Memory) /\ Add(<<FuncItem(f)>>) /\ Stay

Set(v, x) ==
  /\ Become([Unref(Ref(Memory, x), var[v]) EXCEPT !.var[v] = x])
  /\ UNCHANGED windlist /\ Stay

\* Mutant: the new value is not referenced.
LetUncounted(v, x) ==
  /\ Become([Memory EXCEPT !.var[v] = x])
  /\ Add(<<VarItem(v, var[v])>>) /\ Stay

Let(v, x) ==
  /\ Become([Ref(Memory, x) EXCEPT !.var[v] = x])
  /\ Add(<<VarItem(v, var[v])>>) /\ Stay

Enter(call) == Len(calls) < MaxCalls /\ calls' = Append(calls, call) /\ Quiet
Leave == calls' = SubSeq(calls, 1, Len(calls) - 1) /\ Quiet
InCall(call) == calls # <<>> /\ calls[Len(calls)] = call

Begin == Enter("block") /\ Become(Memory) /\ Add(<<Extent>>)

\* The item below the innermost extent.
ExtentEnd == Max({i \in 1 .. Len(windlist) : windlist[i].kind = "extent"}) - 1

End ==
  /\ InCall("block") /\ Leave
  /\ Become(Unwind(Memory, ExtentEnd, FALSE)) /\ DropTo(ExtentEnd)

\* Mutant: the value is referenced when the extent has ended.
EndThenRef(x) ==
  /\ InCall("block") /\ Leave
  /\ Become(Ref(Unwind(Memory, ExtentEnd, FALSE), x))
  /\ windlist' = Append(SubSeq(windlist, 1, ExtentEnd), UnrefItem(x))

EndWith(x) ==
  /\ InCall("block") /\ Leave
  /\ Become(Unwind(Ref(Memory, x), ExtentEnd, FALSE))
  /\ windlist' = Append(SubSeq(windlist, 1, ExtentEnd), UnrefItem(x))

Catch == Enter("catch") /\ Become(Memory) /\ Add(<<TargetItem(Len(calls'))>>)

\* dyn_catch with call_with_cond_handler; h is the function that throws.
CatchCondition(h) ==
  /\ h \notin Alive
  /\ Enter("catch")
  /\ LET t == Len(calls') IN
     /\ Become([Ref(Alloc(Memory, h, t), h) EXCEPT !.var[Handler] = h])
     /\ Add(<<TargetItem(t), UnrefItem(h), VarItem(Handler, var[Handler])>>)

\* The function that dyn_catch has called returns; its item is the last one
\* with its target.
CatchReturns ==
  /\ InCall("catch") /\ Leave
  /\ LET item == Max({i \in 1 .. Len(windlist) : windlist[i].kind = "target" /\ windlist[i].target = Len(calls)}) IN
     Become(Unwind(Memory, item - 1, FALSE)) /\ DropTo(item - 1)

\* dyn_throw and the second return of setjmp; without an item, the program ends.
Throw(t, x) ==
  LET found == {i \in 1 .. Len(windlist) :
                  /\ windlist[i].kind = "target" /\ windlist[i].target = t
                  /\ windlist[i].value = None}
      w == Max(found) IN
  IF found = {} THEN over' = TRUE /\ UNCHANGED <<windlist, var, refs, content, calls, caught, ran>>
  ELSE /\ Become(Unwind(Ref(Memory, x), w, TRUE))
       /\ windlist' = [SubSeq(windlist, 1, w) EXCEPT ![w].value = x]
       /\ calls' = SubSeq(calls, 1, t - 1)
       /\ caught' = x /\ UNCHANGED over

ThrowTo(x) == \E t \in 1 .. Len(calls) : calls[t] = "catch" /\ Throw(t, x)

\* dyn_signal; cond_handler throws to its target.
Signal(x) ==
  IF var[Handler] = None
  THEN over' = TRUE /\ UNCHANGED <<windlist, var, refs, content, calls, caught, ran>>
  ELSE Throw(content[var[Handler]], x)

Next ==
  /\ ~over
  /\ \/ Begin \/ End \/ Catch \/ CatchReturns
     \/ \E f \in Fun : OnUnwind(f)
     \/ \E x \in Val : \E y \in Alive \union {None} : New(x, y)
     \/ \E x \in Val : CatchCondition(x)
     \/ \E x \in Alive : Retain(x)
     \/ \E x \in Alive \union {None} :
          \/ EndWith(x) \/ ThrowTo(x) \/ Signal(x)
          \/ \E v \in Var \ {Handler} : Let(v, x) \/ Set(v, x)

Spec == Init /\ [][Next]_vars
-----------------------------------------------------------------------------
(***************************************************************************)
(* The environment that the list stands for                                *)
(***************************************************************************)
\* What v was bound to by the items up to the i-th.
BoundUpTo(v, i) ==
  LET later == {j \in i + 1 .. Len(windlist) : windlist[j].kind = "var" /\ windlist[j].var = v} IN
  IF later = {} THEN var[v] ELSE windlist[Min(later)].oldval

\* The item of a catch that has not returned.
IsActive(i) ==
  /\ windlist[i].target <= Len(calls) /\ calls[windlist[i].target] = "catch"
  /\ \A j \in i + 1 .. Len(windlist) : windlist[j].kind = "target" => windlist[j].target # windlist[i].target

Entry(i) ==
  LET w == windlist[i] IN
  CASE w.kind = "extent" -> w
    [] w.kind = "func" -> [kind |-> "todo", func |-> w.func]
    [] w.kind = "var" -> [kind |-> "bind", var |-> w.var, val |-> BoundUpTo(w.var, i)]
    [] w.kind = "unref" -> [kind |-> "own", val |-> w.val]
    [] w.kind = "target" -> IF IsActive(i) THEN [kind |-> "catch", condition |-> BindsHandler(i + 2)]
                                           ELSE [kind |-> "own", val |-> w.value]

Promise == INSTANCE Scopes WITH
  env <- [i \in 1 .. Len(windlist) |-> Entry(i)],
  global <- [v \in Var |-> BoundUpTo(v, 0)],
  content <- [x \in Val |-> IF content[x] \in Val THEN content[x] ELSE None],
  alive <- Alive
-----------------------------------------------------------------------------
(***************************************************************************)
(* Properties                                                              *)
(***************************************************************************)
\* Every reference that is counted has an owner that will drop it, and every
\* owner's reference is counted: items, variables, variables that are bound
\* again, caught values and values that contain others.  (dyn.h:48-53)
RefsExact ==
  \A x \in Val : refs[x] =
       Cardinality({i \in 1 .. Len(windlist) :
         \/ windlist[i].kind = "unref" /\ windlist[i].val = x
         \/ windlist[i].kind = "var" /\ windlist[i].oldval = x
         \/ windlist[i].kind = "target" /\ windlist[i].value = x})
     + Cardinality({v \in Var : var[v] = x})
     + Cardinality({y \in Val : content[y] = x})

\* Shallow binding, the list and the counts implement scopes: whatever way a
\* scope ends, its actions run once and in order, its variables revert, its
\* values go and the others stay, and an error gets to the innermost catch.
ImplementsScopes == Promise!Spec
=============================================================================

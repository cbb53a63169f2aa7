------------------------------- MODULE Scopes -------------------------------
(***************************************************************************)
(* What dyn.h:30-72 promises: extents and catches that are nested and can  *)
(* be left in the middle with a throw, variables that revert when that     *)
(* happens, actions that are carried out then, and values that live as     *)
(* long as somebody owns them.                                             *)
(*                                                                         *)
(* The environment lists what was done since the extents began.  A         *)
(* variable is looked up in it (deep binding), a value is alive when it    *)
(* can be reached from it, and nothing counts references.                  *)
(***************************************************************************)
EXTENDS Integers, Sequences, FiniteSets

CONSTANTS
  Var, Val, Fun,
  Handler,  \* the variable that holds the handler of a condition
  None      \* NULL

VARIABLES
  env,      \* entries, the innermost one last
  global,   \* what the variables are bound to outside of all
  content,  \* the value that a value owns
  alive,    \* the values that are not freed
  caught,   \* what dyn_catch has returned
  ran,      \* the actions that the last step has carried out, with for_throw
  over      \* the program has ended with an error

vars == <<env, global, content, alive, caught, ran, over>>

Extent == [kind |-> "extent"]
CatchMark(condition) == [kind |-> "catch", condition |-> condition]
Own(x) == [kind |-> "own", val |-> x]
Bind(v, x) == [kind |-> "bind", var |-> v, val |-> x]
Todo(f) == [kind |-> "todo", func |-> f]

\* The innermost extent or catch, which is the next one to end.
Marks == {i \in 1 .. Len(env) : env[i].kind \in {"extent", "catch"}}
IsInnermost(i) == i \in Marks /\ \A j \in Marks : j <= i
Below(i) == SubSeq(env, 1, i - 1)

\* The values that are owned, directly or by others.
Roots(e, g) ==
  ({e[i].val : i \in {i \in 1 .. Len(e) : e[i].kind \in {"own", "bind"}}} \union {g[v] : v \in Var}) \ {None}
Owned(e, g, c) ==
  {x \in Val : \A S \in SUBSET Val :
     Roots(e, g) \subseteq S /\ (\A y \in S : c[y] \in S \union {None}) => x \in S}

\* The environment has become e; what nobody owns any more is freed.
Become(e, g, c) ==
  /\ env' = e
  /\ global' = g
  /\ alive' = Owned(e, g, c)
  /\ content' = [x \in Val |-> IF x \in alive' THEN c[x] ELSE None]

Add(entries) == Become(env \o entries, global, content)
Quiet == caught' = None /\ ran' = <<>> /\ UNCHANGED over

\* The i-th entry and all above end: their actions are carried out in reverse
\* order, as the n-th of them the one that has n - 1 others above it.
Actions(i) == {j \in i .. Len(env) : env[j].kind = "todo"}
Nth(i, n) == {j \in Actions(i) : Cardinality({k \in Actions(i) : k >= j}) = n}
Only(S) == CHOOSE x \in S : TRUE
Carried(i, for_throw) ==
  [n \in 1 .. Cardinality(Actions(i)) |-> <<env[Only(Nth(i, n))].func, for_throw>>]

Init ==
  /\ env = <<>>
  /\ global = [v \in Var |-> None]
  /\ content = [x \in Val |-> None]
  /\ alive = {} /\ caught = None /\ ran = <<>> /\ over = FALSE

New(x, y) ==
  /\ x \notin alive /\ y \in alive \union {None}
  /\ Become(Append(env, Own(x)), global, [content EXCEPT ![x] = y]) /\ Quiet

Retain(x) == Add(<<Own(x)>>) /\ Quiet
OnUnwind(f) == Add(<<Todo(f)>>) /\ Quiet
Let(v, x) == Add(<<Bind(v, x)>>) /\ Quiet

Binders(v) == {i \in 1 .. Len(env) : env[i].kind = "bind" /\ env[i].var = v}
Set(v, x) ==
  /\ IF Binders(v) = {} THEN Become(env, [global EXCEPT ![v] = x], content)
     ELSE \E i \in Binders(v) : (\A j \in Binders(v) : j <= i) /\ Become([env EXCEPT ![i].val = x], global, content)
  /\ Quiet

Begin == Add(<<Extent>>) /\ Quiet

\* x is kept by what is around the extent, if it is a value.
End(x) ==
  \E i \in Marks :
    /\ IsInnermost(i) /\ env[i].kind = "extent"
    /\ \/ x = None /\ Become(Below(i), global, content)
       \/ Become(Append(Below(i), Own(x)), global, content)
    /\ ran' = Carried(i, FALSE) /\ caught' = None /\ UNCHANGED over

Catch == Add(<<CatchMark(FALSE)>>) /\ Quiet

\* dyn_catch_condition; h is its handler.
CatchCondition(h) == h \notin alive /\ Add(<<CatchMark(TRUE), Own(h), Bind(Handler, h)>>) /\ Quiet

CatchReturns ==
  \E i \in Marks :
    /\ IsInnermost(i) /\ env[i].kind = "catch"
    /\ Become(Below(i), global, content)
    /\ ran' = Carried(i, FALSE) /\ caught' = None /\ UNCHANGED over

\* A catch ends with everything in it; what was thrown is kept by what is around it.
Throw(i, x) ==
  /\ Become(Append(Below(i), Own(x)), global, content)
  /\ ran' = Carried(i, TRUE) /\ caught' = x /\ UNCHANGED over

ThrowTo(x) == \E i \in Marks : env[i].kind = "catch" /\ Throw(i, x)

\* The innermost catch of the condition gets it.
Signal(x) ==
  LET catches == {i \in Marks : env[i].kind = "catch" /\ env[i].condition} IN
  IF catches = {} THEN over' = TRUE /\ UNCHANGED <<env, global, content, alive, caught, ran>>
  ELSE \E i \in catches : (\A j \in catches : j <= i) /\ Throw(i, x)

Next ==
  /\ ~over
  /\ \/ Begin \/ Catch \/ CatchReturns
     \/ \E f \in Fun : OnUnwind(f)
     \/ \E x \in Val : \E y \in Val \union {None} : New(x, y)
     \/ \E x \in Val : CatchCondition(x)
     \/ \E x \in alive : Retain(x)
     \/ \E x \in alive \union {None} :
          \/ End(x) \/ ThrowTo(x) \/ Signal(x)
          \/ \E v \in Var \ {Handler} : Let(v, x) \/ Set(v, x)

Spec == Init /\ [][Next]_vars
=============================================================================

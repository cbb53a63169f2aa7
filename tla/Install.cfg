SPECIFICATION ExecSpec
CONSTANTS
  foo = foo
  bar = bar
  baz = baz
  foo1 = foo1
  bar1 = bar1
  bar2 = bar2
  baz1 = baz1
  NoVer = NoVer
  Own = Own
  Goal = Goal
  Ugly = Ugly
  Pkg <- MCPkg
  Ver <- MCVer
  PkgOf <- MCPkgOf
  Rank <- MCRank
  Databases <- AllDatabases
  Goals <- AllGoals
INVARIANTS ExecTypeOK GoalOkExact PlanHolds NoConflicts PlanExecuted NothingBrokenAfter
PROPERTY Ends
CHECK_DEADLOCK FALSE

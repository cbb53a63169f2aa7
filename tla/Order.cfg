CONSTANTS
  s1 = s1
  s2 = s2
  s3 = s3
  s4 = s4
  Seats = {s1, s2, s3, s4}
  Graphs <- AllGraphs
  Relevant <- SomeRelevant
SPECIFICATION Spec
INVARIANTS StackBounded NothingLeft
PROPERTY ImplementsComponents
CHECK_DEADLOCK FALSE

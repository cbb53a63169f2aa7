CONSTANTS
  r1 = r1
  a1 = a1
  b1 = b1
  c1 = c1
  d1 = d1
  e1 = e1
  Null = Null
  Root = r1
  Obj = {r1, a1, b1, c1, d1, e1}
  Heaps <- AllHeaps
  MaxDelayed = 2
SPECIFICATION Spec
INVARIANTS NothingDangles ReachableKept OnlyLiveCopied ReachableKeysKeepEntries NumbersDense RoundsSettle
CHECK_DEADLOCK FALSE

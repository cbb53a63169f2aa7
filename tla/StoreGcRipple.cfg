CONSTANTS
  r1 = r1
  a1 = a1
  b1 = b1
  c1 = c1
  d1 = d1
  e1 = e1
  Null = Null
  Root = r1
  Obj = {r1, a1, b1, c1, d1, e1}
  Heaps <- DictHeaps
  MaxDelayed = 1024
SPECIFICATION Spec
INVARIANT EntriesOfCopiedKeysKept
CHECK_DEADLOCK FALSE

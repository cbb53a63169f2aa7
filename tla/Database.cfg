SPECIFICATION Spec
CONSTANTS
  foo = foo
  bar = bar
  v1 = v1
  v2 = v2
  sum = sum
  tag = tag
  stable = stable
  testing = testing
  Origin <- MCOrigin
  None = None
  Name <- MCName
  Stanzas <- MCStanzas
  MaxObjects = 2
  MaxSaves = 1
SYMMETRY OriginSymmetry
INVARIANTS TypeOK PackagesUnique VersionsShared IndexesExact
PROPERTY ImplementsOrigins

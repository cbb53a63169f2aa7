SPECIFICATION Spec
CONSTANTS
  k1 = k1
  k2 = k2
  k3 = k3
  m1 = m1
  m2 = m2
  v1 = v1
  v2 = v2
  Keys = {k1, k2, k3}
  KeysOf <- MCKeysOf
  Values = {v1, v2}
  Members = {m1, m2}
  NSlots = 2
  DictHash <- MCDictHash
  TableHash <- MCTableHash
  Addr <- MCAddr
  Nil = Nil
  MaxNodes = 7
INVARIANTS TypeOK UnstoredOwned IteratorsVisitAll
PROPERTY ImplementsSharedMap

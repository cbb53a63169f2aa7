CONSTANTS
  Zero = Zero
  v1 = v1
  v2 = v2
  Val = {v1}
  PageWords = 2
  HeaderWords = 1
  MaxWords = 6
  MaxAlloced = 1
  MaxNumber = 2
  Numbered = {v1}
SPECIFICATION Spec
INVARIANTS TypeOK SyncedBelowLen Recoverable
PROPERTY ImplementsAtomicRoot

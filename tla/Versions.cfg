SPECIFICATION Spec
CONSTANTS
  None = None
  Crash = Crash
  Texts <- MCTexts
  After <- MCAfter
CHECK_DEADLOCK FALSE
INVARIANTS OrderIsApt

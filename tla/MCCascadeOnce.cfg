SPECIFICATION Spec
CONSTANTS
  NoOne = NoOne
  Ann = Ann
  Limits <- MCOnce
INVARIANTS
  UtteranceOnce
CHECK_DEADLOCK FALSE

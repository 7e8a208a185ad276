SPECIFICATION Spec
CONSTANTS
  TimerMod = 2
  Timeout = 1
  Essences <- MCEssences
INVARIANTS
  ReadingShowsAll
  MovesAreInverse
  PageMatchesOutput
PROPERTIES
  KeepsReview
CHECK_DEADLOCK FALSE

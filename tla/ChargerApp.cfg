CONSTANTS
  Levels = {1, 2, 3}
  Limits = {2, 3}
  Full = 3
SPECIFICATION Spec
INVARIANTS
  SuspendedForAReason
  HspcIsWanted
PROPERTY
  LimitTakesEffect

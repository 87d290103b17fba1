CONSTANTS
  Callers = {c1, c2}
SPECIFICATION Spec
INVARIANTS
  EventMatchesRequest
  PauseIsExclusive
  TimeoutOnlyAfterShortSession
PROPERTIES
  NoOverrideWhileWaiting
  CallsReturn
  ImplementsMailbox

CONSTANTS
  Levels = {60, 75}
  Limits = {40, 75, 100}
  kMaxConsecutiveErrors = 2
  Refusals = TRUE
SPECIFICATION Spec
INVARIANTS
  NodeFollowsReason
  ForceFollowsClient
  LimitFollowsLevel
PROPERTY EventsAreHandled

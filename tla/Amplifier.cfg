CONSTANTS
  Devices = {speaker}
  Detectors = {d1, d2}
  Builds = {"TA", "file"}
  NoOne = NoOne
SPECIFICATION Spec
INVARIANTS
  PlaybackIsProtected
  AwakeUntilProtected
  CriticalSectionsExclude
PROPERTIES
  ImplementsProtection
  CalibrationEnds
CHECK_DEADLOCK FALSE

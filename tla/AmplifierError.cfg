CONSTANTS
  Devices = {speaker}
  Detectors = {d1}
  Builds = {"TA"}
  NoOne = NoOne
SPECIFICATION Spec
INVARIANT NoErrorIsIgnored
CHECK_DEADLOCK FALSE

CONSTANTS
  Builds = {"loire", "yoshino", "nile", "tama"}
  MaxTries = 2
  MaxRestarts = 2
  MaxFailures = 2
SPECIFICATION Spec
INVARIANTS
  CommandsOwnTheDevice
  PoweredWhileSensing
  UnpoweredAtRest
  BuffersReturned
PROPERTY
  RequestServed

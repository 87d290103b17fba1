CONSTANTS
  Challenges = {ch1}
  Groups = {g1, g2}
  None = None
SPECIFICATION Spec
INVARIANTS
  PausedCallsOwnTheTz
  PausedOnlyByFailedCall
  AuthenticatorIdFresh
  StoredInItsGroup
PROPERTIES
  SuccessNamesItsSession
  ImplementsSession
  CallsReturn

CONSTANTS
  Challenges = {ch1, ch2}
  Groups = {g1, g2}
  NoChallenge = NoChallenge
SPECIFICATION Spec
INVARIANTS
  AuthenticatorIdFresh
PROPERTIES
  ImplementsSession
  SuccessComesFirst
  SuccessNamesItsSession
  RequestServed

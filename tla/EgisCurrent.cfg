CONSTANTS
  Challenges = {ch1}
  Prints = {p1}
  Groups = {g1, g2}
  None = None
  ReImageLimit = 1
SPECIFICATION Spec
INVARIANTS
  TypeOK
PROPERTIES
  PrintSavedAsReported
  ImplementsSession
  SuccessNamesItsSession
  RequestServed

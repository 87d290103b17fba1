CONSTANTS
  Challenges = {ch1}
  Groups = {g1}
  NoChallenge = NoChallenge
SPECIFICATION Spec
INVARIANT NoLockCycle

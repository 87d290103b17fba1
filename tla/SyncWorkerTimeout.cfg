CONSTANTS
  Callers = {c1, c2}
SPECIFICATION Spec
INVARIANT EnteredStateIsSeen
SYMMETRY Symmetry

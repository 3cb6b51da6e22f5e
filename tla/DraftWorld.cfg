SPECIFICATION Spec
CONSTANTS
  Run = {r1, r2, r3}
  NoRun = NoRun
  Request = {q1, q2}
  Loader = {l1, l2}
SYMMETRY MCSymmetry
INVARIANTS
  TypeOK
  WorldIsWhole
  LookupsFindOne
  ClashOnlyIfEarly
PROPERTIES
  BuiltAtOnce
  CanonicalKept
  EditsKept

SPECIFICATION Spec
CONSTANTS
  Program = {p1, p2}
  NoProgram = NoProgram
  Curriculum = {u1, u2}
  Course = {c1, c2}
  Nowhere = Nowhere
  Run = {r1, r2}
  ExternalKey = {x1}
  NoKey = NoKey
  Writer = {w1, w2}
SYMMETRY MCSymmetry
INVARIANTS
  TypeOK
  NoCircularPrograms
  KeysAreUnique

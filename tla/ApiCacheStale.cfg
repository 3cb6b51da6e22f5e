SPECIFICATION Spec
CONSTANTS
  r1 = r1
  r2 = r2
  request = request
  command = command
  refresh = refresh
  Reader <- MCReader
  Transactional <- MCTransactional
  Autocommit <- NoWriter
  Loader <- NoWriter
  MaxVersion = 3
  MaxClock = 3
SYMMETRY Symmetry
INVARIANTS CachedIsCurrent
CHECK_DEADLOCK FALSE

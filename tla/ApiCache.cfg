SPECIFICATION Spec
CONSTANTS
  r1 = r1
  r2 = r2
  request = request
  command = command
  refresh = refresh
  Reader <- MCReader
  Transactional <- MCTransactional
  Autocommit <- MCAutocommit
  Loader <- MCLoader
  MaxVersion = 3
  MaxClock = 3
SYMMETRY Symmetry
INVARIANTS TypeOK NothingBeforeInvalidation AnnouncedIsCurrent
CHECK_DEADLOCK FALSE

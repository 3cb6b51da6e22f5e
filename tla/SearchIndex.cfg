SPECIFICATION Spec
CONSTANTS
  j1 = j1
  j2 = j2
  Job <- MCJob
  Unchecked <- MCUnchecked
  Retention = 1
  Percent = 60
  MaxTime = 3
  MaxRecords = 2
INVARIANTS
  TypeOK
PROPERTIES
  ServesWhatItWrote
  ChangesLittle
  NeverGoesBack
  PurgeSparesCurrent

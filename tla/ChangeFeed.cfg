SPECIFICATION Spec
CONSTANTS
  MaxTime = 2
  Edits <- MCEdits
  Followed = {}
INVARIANTS TypeOK FeedMissesNothing
CONSTRAINT MCBound

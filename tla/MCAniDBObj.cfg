SPECIFICATION FairSpec
CONSTANTS
  Readers = {r1, r2}
  Objects = {o1}
  Fetches = {f1, f2}
  LAST_DAY = 1
  NoRow = NoRow
  NoOne = NoOne
INVARIANTS TypeOK ExclusionEnds NoConcurrentFetches RefreshFailsNoRead
PROPERTIES CallsReturn
CHECK_DEADLOCK FALSE

SPECIFICATION FairSpec
CONSTANTS
  None = None
  s1 = s1
  s2 = s2
  w1 = w1
  w2 = w2
  j1 = j1
  f1 = f1
  f2 = f2
  Statuses = {s1, s2}
  Watchers = {w1, w2}
  Jobs = {j1}
  Loops = {f1, f2}
  MaxChanges = 1
  MaxFaults = 1
INVARIANTS TypeOK PollerFollowsWatchers NothingMissed
PROPERTIES WatchersLearn
CHECK_DEADLOCK FALSE

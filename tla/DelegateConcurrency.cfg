\* Three delegates and a teardown; abandoned runs hold at most their own
\* directory level, so that a sweep can remove them.
SPECIFICATION FairSpec
CONSTANTS
  d1 = d1
  d2 = d2
  d3 = d3
  t1 = t1
  Delegates = {d1, d2, d3}
  Teardowns = {t1}
  Leftovers = {"bare", "phase"}
  MaxSubtrees = 2
INVARIANTS
  TypeOK
  YoungRunsAreSafeOnOneSubtree
  SweepIsComplete
PROPERTIES
  HelpersGetThrough

\* A teardown removes the subtree while one delegate waits for its lock.
SPECIFICATION Spec
CONSTANTS
  d1 = d1
  d2 = d2
  t1 = t1
  Delegates = {d1, d2}
  Teardowns = {t1}
  Leftovers = {}
  MaxSubtrees = 2
INVARIANTS
  YoungRunsAreSafe

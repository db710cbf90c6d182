\* What a babysitter leaves whose verifier died: run/phase/leaf.
SPECIFICATION Spec
CONSTANTS
  d1 = d1
  d2 = d2
  Delegates = {d1, d2}
  Teardowns = {}
  Leftovers = {"leaf"}
  MaxSubtrees = 1
INVARIANTS
  SweepIsComplete

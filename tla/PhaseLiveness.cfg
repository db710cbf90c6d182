\* An ample budget: the parties' time limits do not meet, phases end, orphans die.
SPECIFICATION FairSpec
CONSTANTS
  Timeout = 1
  Grace = 1
  Margin = 2
  Budgets = {9}
  Lag = 1
  MaxTime = 5
  Disturbances = {"crash", "lost"}
PROPERTIES
  PhaseSettles
  OrphansDie
  FullGrace

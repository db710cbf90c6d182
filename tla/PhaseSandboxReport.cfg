\* No disturbance and an ample budget: bwrap's report races the launcher's exit.
SPECIFICATION Spec
CONSTANTS
  Timeout = 1
  Grace = 1
  Margin = 2
  Budgets = {9}
  Lag = 0
  MaxTime = 4
  Disturbances = {}
INVARIANTS
  SandboxFailureIsReal

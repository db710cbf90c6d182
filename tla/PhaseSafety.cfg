\* Every disturbance, ample and scarce budgets: what the verdicts mean and what
\* survives the phase.
SPECIFICATION Spec
CONSTANTS
  Timeout = 1
  Grace = 1
  Margin = 2
  Budgets = {1, 2, 9}
  Lag = 1
  MaxTime = 5
  Disturbances = {"crash", "lost", "stop"}
INVARIANTS
  TypeOK
  SuccessIsEarned
  BlameIsEarned
  NothingSurvives
  LauncherLeashed
PROPERTIES
  KeepsContract

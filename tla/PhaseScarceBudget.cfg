\* The budget covers the deadline and no more; nothing else goes wrong and the
\* launch takes no time.
SPECIFICATION Spec
CONSTANTS
  Timeout = 1
  Grace = 1
  Margin = 2
  Budgets = {1}
  Lag = 0
  MaxTime = 5
  Disturbances = {}
PROPERTIES
  FullGrace

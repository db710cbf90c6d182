\* Submissions in whose preparation the ORCID Registry cannot be reached.
SPECIFICATION Spec
CONSTANTS
  Modes = {"preflight"}
  Validity = {TRUE}
  MAX_DIAGNOSTICS = 4
  Subjects <- CrowdedOutage
  Trouble = {}
INVARIANT
  OutageNeverRejects

\* A full verification of valid inputs in which a trusted tool changes.
SPECIFICATION Spec
CONSTANTS
  Modes = {"full"}
  Validity = {TRUE}
  MAX_DIAGNOSTICS = 4
  Subjects <- GoodSubject
  Trouble = {"changed"}
INVARIANT
  ToolTroubleIsPalomars

\* Every mode, valid and invalid inputs, and everything that may go wrong.
SPECIFICATION FairSpec
CONSTANTS
  Modes = {"full", "preflight", "correction"}
  Validity = {TRUE, FALSE}
  MAX_DIAGNOSTICS = 4
  Subjects <- AllSubjects
  Trouble = {"crash", "disk", "changed", "unreadable"}
INVARIANTS
  Typed
  BlameIsRejection
  ReturnLeavesVerdict
  SoundIsNotRejected
  GreenMeansVerified
  DeliveredIsConclusive
  ReportIsDelivered
  RecordedOutageNeverRejects
  FieldsAreNamed
PROPERTIES
  PassNeedsIntactTools
  VerdictSurvives
  JobConcludes

SPECIFICATION Spec
CONSTANTS
  Roots <- RootsForMC
  History <- HistoryForMC
  Pins <- PinsForMC
  Projects <- ProjectsForMC
  Sidecars = {"olean", "private", "server", "ir"}
INVARIANTS
  TypeOK
  StatementRestsOnPinned
  TrustLevelIsHonest
  CompiledFromTrustedState
  PromotedIsValidated
  StatementIsCanonical
PROPERTIES
  AvailabilityIsHonest
  TrustedStateIsFrozen
  BuildsReadTrustedState
CHECK_DEADLOCK FALSE

SPECIFICATION Spec
CONSTANTS
  Roots <- RootsForMC
  History <- HistoryForMC
  Pins <- PinsForMC
  VersoTags <- TagsForMC
  VersoAt <- VersoForMC
  Identical = {"main", "late"}
  Budgets = {0, 16, 60}
  Hints = {0, 3, 40}
  Requests <- RequestsForMC
INVARIANTS
  TypeOK
  PassIsWhole
  RenderedAsVerified
  AnchorsAloneAreBlamed
  RenderToolsAreAuthentic
  DownloadIsBounded
CHECK_DEADLOCK FALSE

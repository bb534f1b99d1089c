CONSTANTS
  Emails = {"ana", "bia"}
  Browsers = {"office"}
  AccessTTL = 1
  RefreshTTL = 2
  MaxTime = 4
  MaxTokens = 2
  Names = {"n1", "n2"}
  Requests = {"r1", "r2"}
  RawBaskets <- MCRawBaskets
  RawLayouts <- MCRawLayouts
  Upper <- MCUpper
  Canonical <- MCCanonical
  Outputs <- MCOutputs
  PaletteSlots = 2
  MaxIndicators = 2
  MaxSymbols = 2
  MaxRows = 1
  MaxWrites = 3
SPECIFICATION Spec
CHECK_DEADLOCK FALSE
INVARIANTS
  SavedListsAreWhole
  SavedListsReplay
PROPERTY SessionsEndWithTheirRow

SPECIFICATION ListingSpec
CONSTANTS
  Items = {1, 2, 3}
  MaxTime = 4
  MaxStops = 1
  MaxDelay = 1
  Overlap = 2
  Lookback = 2
  PerPage = 1
  MaxPages = 2
  MinWindow = 1
  FullSweep = 2
INVARIANTS
  NothingIsLeftBehind
PROPERTIES
  EverythingIsStored

SPECIFICATION Spec
CONSTANTS
  MaxRows = 3
  PageSizes = {1, 2}
  Views <- EveryView
  Decisions = {"pending", "resolved"}
  MaxDepartures = 2
INVARIANTS TypeOK WalkComplete MissesExplained RateIsPercentage

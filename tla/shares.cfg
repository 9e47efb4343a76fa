\* Up to five positions with balances up to five.
SPECIFICATION Spec
CONSTANTS
  MaxPositions = 5
  MaxBalance = 5
INVARIANTS DistributesPot Proportional

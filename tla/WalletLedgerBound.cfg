\* A verified sale whose fee exceeds its proceeds, then an unknown one.
CONSTANTS
  Units = {sol}
  Native = sol
  Amounts = {1, 2}
  Costs = {5}
  Gross = {1}
  Fee = 2
  MaxTrades = 3
SPECIFICATION Spec
INVARIANTS LowerBoundHolds
CHECK_DEADLOCK FALSE

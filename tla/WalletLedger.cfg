\* A cost that does not divide by the amounts, two quote units.
CONSTANTS
  Units = {sol, usdc}
  Native = sol
  Amounts = {1, 3}
  Costs = {5}
  Gross = {7}
  Fee = 2
  MaxTrades = 5
SPECIFICATION Spec
INVARIANTS InventoryKept KnownIsCashFlow BoundIsPrice
CHECK_DEADLOCK FALSE

\* Two forward passes race each other and one backfill.
CONSTANTS
  Forward = {f1, f2}
  Backfill = {b1}
  Tokens = {t1}
  NoFact = NoFact
  Confirmations = 1
  StartBack = 2
  Span = 4
  StepCap = 2
  MinStep = 1
  MaxLag = 1
  InitHead = 3
  MaxHead = 4
  MaxFailures = 1
SPECIFICATION Spec
INVARIANTS LiveBlocksStored NoHoleBelowCursor FactsAreFinal
SYMMETRY ForwardSymmetry
CHECK_DEADLOCK FALSE

\* Two days of two seconds, pages of one row, an offset cap of two rows.
CONSTANTS
  Order <- ThreeTokens
  Created <- ThreeTimes
  Days = 2
  DayLength = 2
  PageSize = 1
  MaxOffset = 2
  MaxStack = 2
  MaxRetries = 1
  Launches = {"a", "c"}
  Others = {"c"}
  Processes = {"p1", "p2"}
  Scenarios <- FourScenarios
  MaxFaults = 1
  Mints = 2
  Bodies = {"x"}
  Plans <- TwoPlans
  Invocations = {"i1", "i2"}
SPECIFICATION FairSpec
INVARIANTS CompleteIsCovered AllocationKept EvidenceKept
PROPERTIES DaysAreComplete Resumes
CHECK_DEADLOCK FALSE

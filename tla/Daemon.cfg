\* A doomed key and one that is not; two lists in two formats; two schedules.
CONSTANTS
  Keys = {k1, k2}
  Doomed = {k1}
  After = 1
  Settings = {TRUE, FALSE}
  MaxPasses = 2
  Lists = {l1, l2}
  Formats = {f1, f2}
  Contents = {empty, a, b}
  Empty = empty
  MaxChanges = 3
  Configs <- TwoConfigs
  Slack = 1
  MaxMissed = 1
  Cap = 6
  MaxFaults = 3
SPECIFICATION FairSpec
INVARIANTS AlertsBounded NoticeHonest RowsAreShown NoFalseAlarm PingFresh
PROPERTIES DoomedIsAlerted ChangesArrive StuckIsAlerted
CHECK_DEADLOCK FALSE

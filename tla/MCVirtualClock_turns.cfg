SPECIFICATION FairSpec
CONSTANTS
  a1 = a1
  a2 = a2
  a3 = a3
  Agents = {a1, a2}
  BaseLatency = 1
  Generations = {0, 2}
  Deadlines = {2}
  CraftDuration = 2
  MaxTurns = 2
  MaxSwaps = 1
  CancelsGated = FALSE
INVARIANTS OneActs HeldForAReason
PROPERTIES OnTime OwnTimelineInOrder GatesOpen OrderKept
CHECK_DEADLOCK FALSE

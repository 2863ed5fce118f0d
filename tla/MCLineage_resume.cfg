SPECIFICATION Spec
CONSTANTS
  alice = alice  link = link  pm = pm
  Nobody = Nobody  NoChannel = NoChannel
  Seats = {alice}
  Channels = {link, pm}
  Blocked = {pm}
  Swaps <- SwapInTwo
  Views <- OneView
  SourceRounds = 2  DerivedRounds = {2}
  Avoided <- AllButResumes
  MaxRuns = 1  MaxRounds = 2  MaxCalls = 1  MaxLaunches = 3
INVARIANTS
  EachGetsItsHistoryBack
CHECK_DEADLOCK FALSE

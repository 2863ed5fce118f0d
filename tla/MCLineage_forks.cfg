SPECIFICATION Spec
CONSTANTS
  alice = alice  link = link  pm = pm
  Nobody = Nobody  NoChannel = NoChannel
  Seats = {alice}
  Channels = {link, pm}
  Blocked = {pm}
  Swaps <- SwapInThree
  Views <- OneView
  SourceRounds = 1  DerivedRounds = {3}
  Avoided <- Everything
  MaxRuns = 3  MaxRounds = 3  MaxCalls = 1  MaxLaunches = 5
INVARIANTS
  EachGetsItsHistoryBack
  KeepsItsView
  PlaysEachRoundOnce
  EndIsForgotten
CHECK_DEADLOCK FALSE

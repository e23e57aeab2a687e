SPECIFICATION Spec
CONSTANTS
  Boards <- MCBoards
  MaxRanges = 2
  Freqs = {1, 2}
  RangeLists <- MCRangeLists
  PortPairs <- MCPortPairs
  Presence <- MCPresence
  Programs <- MCPrograms
  CounterMod = 4
  MaxRequests = 5
CHECK_DEADLOCK FALSE
INVARIANT BoardsAsCommanded
 

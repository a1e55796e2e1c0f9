CONSTANTS
  Meta = {m1, m2}
  PathLimit = 10
  MaxChunks = 3
  MaxAdded = 2
  MaxMessages = 5
  MaxFaults = 2
SPECIFICATION DiskSpec
INVARIANTS DiskTypeOK LoadsWhatWasHeld
 
CHECK_DEADLOCK FALSE

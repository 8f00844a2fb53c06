SPECIFICATION MCSpec
CONSTANTS
  CanFail = TRUE
  MaxRuns = 3
  MaxRequests = 3
  MaxOpens = 2
  MaxEvents = 2
  MaxWrites = 4
  MaxPacket = 6
  Bytes = {0, 2, 3, 4, 5, 64}
  MaxChunk = 3
  MaxStream = 8
  UartBytes = {0, 4, 64}
  MaxArrivals = 5
  Sizes = {1, 2}
  MaxSends = 2
  MaxSessions = 2
  Timers = {t1, t2, t3}
  Nil = Nil
  MaxTime = 2
CHECK_DEADLOCK FALSE
INVARIANT TypeOK
INVARIANT IoIsAccounted
INVARIANT FramerExact
INVARIANT WritesWholePackets
PROPERTY CallsAreConclusive
PROPERTY CallsAreServed
PROPERTY WriteRecovers
PROPERTY TimersInOrder

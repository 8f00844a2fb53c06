SPECIFICATION MCSpec
CONSTANTS
  MaxChannels = 2
  FixedCids = {4}
  FirstCid = 64
  LastCid = 65
  LastId = 3
  L2capSendFails = TRUE
  MaxOpens = 2
  HeaderLen = 4
  Capacity = 8
  FragSizes = {1, 3, 4, 5, 8, 9}
  Lengths = {0, 1, 4, 5}
  TxSlots = 5
  MaxSends = 4
  LastHandle = 2
  MaxResults = 1
  MaxValue = 4
  Values = {0, 2, 3, 5}
  DefaultMtu = 3
  RequestMtu = 4
  ServerMtus = {2, 5}
  GattSendFails = TRUE
  AbortConnect = FALSE
  GattMaxRequests = 2
  GattMaxConnects = 2
  Tids = 16
  Sizes = {0, 2, 3}
  MaxResult = 2
  ConnectEarly = FALSE
  SdpMaxRequests = 3
  SdpMaxConnects = 2
CHECK_DEADLOCK FALSE
INVARIANT TypeOK
INVARIANT ExactlyTheSent
INVARIANT AnswersAndValuesMatch
INVARIANT ResultIsWhole
PROPERTY AnswerMatches
PROPERTY ImplementsServices
PROPERTY EveryRequestEnds

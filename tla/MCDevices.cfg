SPECIFICATION MCSpec
CONSTANTS
  MaxChars = 4
  HogpMaxReports = 3
  MaxRequests = 2
  Modifiers = {"LCTRL", "RCTRL"}
  Keys1 = {"A", "B", "C"}
  Chords = {{}, {"A"}, {"B"}, {"A", "B"}, {"A", "B", "C"}}
  Keys2 = {"PLAY"}
  MaxArray = 2
  Failing = {1, 2}
  MaxWheel = 1
  Sizes = {3, 5, 18}
  Counts = {2, 5, 15}
  ParserIds = {1, 2}
  MaxBits = 14
  MaxSize = 4
  MaxFields = 4
  MaxUsages = 1
  ParserMaxReports = 2
  StackMax = 1
  MaxItems = 7
  Adapters = {"a", "b", "c"}
  Peers = {"p"}
  BondKeys = {"k", "invalid"}
  MaxEntries = 2
  MaxSaves = 2
  Stable = {"s"}
  Rotating = {"r", "q"}
  MaxDevices = 2
  RegistryMaxReports = 2
  Names = {"n", ""}
CHECK_DEADLOCK FALSE
INVARIANT TypeOK
INVARIANT InputsEnabled
 
INVARIANT FieldsAreExact
INVARIANT RegistryIsExact
PROPERTY ImplementsServices
PROPERTY NothingForgotten

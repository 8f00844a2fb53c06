SPECIFICATION LiveManagerSpec
CONSTANTS
  MaxPending = 3
  Opcodes = {"RESET", "VERSION", "FEATURES", "BUFFER_SIZE", "INQUIRY_MODE", "INQUIRY", "SCAN_PARAMS", "SCAN_ENABLE"}
  Nop = "NOP"
  Outcomes = {"good", "bare", "error"}
  CreditMod = 2
  Timeout = 2
  Epoch = 4
  MaxGap = 1
  Horizon = 16
  MaxSubmit = 7
  FailAfterReply = FALSE
  MaxSessions = 1
CHECK_DEADLOCK FALSE
PROPERTY BringUpEnds
PROPERTY FailureIsNoticed

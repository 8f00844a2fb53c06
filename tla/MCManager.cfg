SPECIFICATION ManagerSpec
CONSTANTS
  MaxPending = 3
  Opcodes = {"RESET", "VERSION", "FEATURES", "BUFFER_SIZE", "INQUIRY_MODE", "INQUIRY", "SCAN_PARAMS", "SCAN_ENABLE"}
  Nop = "NOP"
  Outcomes = {"good", "bare", "error"}
  CreditMod = 2
  Timeout = 2
  Epoch = 4
  MaxGap = 1
  Horizon = 6
  MaxSubmit = 8
  FailAfterReply = FALSE
  MaxSessions = 2
CHECK_DEADLOCK FALSE
INVARIANT BringUpHasItsCommand
INVARIANT ReadyMeansBroughtUp

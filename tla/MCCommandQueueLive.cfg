SPECIFICATION LiveSpec
CONSTANTS
  MaxPending = 2
  Opcodes = {a}
  Nop = nop
  Outcomes = {"ok"}
  CreditMod = 3
  Timeout = 2
  Epoch = 4
  MaxGap = 1
  Horizon = 11
  MaxSubmit = 3
  FailAfterReply = FALSE

PROPERTY ServiceLive

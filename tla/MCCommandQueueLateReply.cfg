SPECIFICATION Spec
CONSTANTS
  MaxPending = 2
  Opcodes = {a}
  Nop = nop
  Outcomes = {"ok"}
  CreditMod = 3
  Timeout = 2
  Epoch = 4
  MaxGap = 1
  Horizon = 8
  MaxSubmit = 2
  FailAfterReply = FALSE
INVARIANT ReplyIsForOutstanding

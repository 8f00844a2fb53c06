SPECIFICATION Spec
CONSTANTS
  MaxPending = 2
  Opcodes = {a, b}
  Nop = nop
  Outcomes = {"ok"}
  CreditMod = 3
  Timeout = 2
  Epoch = 4
  MaxGap = 1
  Horizon = 8
  MaxSubmit = 3
  FailAfterReply = TRUE
SYMMETRY OpcodeSymmetry
INVARIANT TypeOK
INVARIANT SlotsAccounted
INVARIANT TimerTracksCommand
INVARIANT Ledger
INVARIANT MismatchOnlyAfterTimeout
PROPERTY NothingSendableLeft
PROPERTY NoEarlyTimeout
PROPERTY ImplementsService

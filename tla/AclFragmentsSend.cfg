SPECIFICATION AclSpec
CONSTANTS
  HeaderLen = 4
  Capacity = 8
  FragSizes = {1, 3, 4, 5, 8, 9}
  Lengths = {0, 1, 4, 5}
  TxSlots = 1
  MaxSends = 4
PROPERTY SendFragmentsAsNeeded
CHECK_DEADLOCK FALSE

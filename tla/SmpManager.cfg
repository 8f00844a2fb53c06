SPECIFICATION Spec
CONSTANTS
  OurKeys = {"enc", "id", "sign", "link"}
  MaxNested = 1
CHECK_DEADLOCK FALSE
INVARIANT EndsOnceAndIsTimed
INVARIANT SuccessIsEarned
INVARIANT KeysStaySecret
INVARIANT MethodIsOfTheTable
PROPERTY PairingConcludes

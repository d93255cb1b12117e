SPECIFICATION FairSpec
CONSTANTS
  FifoDepth = 3
  ByteSize = 16
  Irqs = {33}
  MaxInterrupts = 3
  HalfWord = 64
  StubBase = 165
  Message = 2
  Welcome = 1
  WelcomeLimit = 2
  EnabledText = 1
  ReadyText = 1
CHECK_DEADLOCK FALSE
INVARIANTS
  TypeOK
  HandlerToldVector
  NothingLost
  LineSpeed
  LogReadable
PROPERTIES
  ReturnsRestore
  TextArrives

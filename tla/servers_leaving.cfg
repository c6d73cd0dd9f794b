SPECIFICATION Spec
CONSTANTS
  Blocks = 2
  FifoSize = 2
  RxSize = 1
  TxSize = 1
  LineSize = 1
  Chars = {"G", "cr", "nl"}
  Replies <- HeaderAndFile
  TimerSize = 1
  XipOut = {"OK", "NONE"}
  Leavers = {"http", "timer"}
  NoBlock = NoBlock
VIEW Significant
INVARIANTS
  TypeOK
  NoneForgotten
PROPERTY
  FirstComeFirstServed

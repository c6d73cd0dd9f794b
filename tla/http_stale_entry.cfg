SPECIFICATION Spec
CONSTANTS
  Blocks = 2
  FifoSize = 2
  RxSize = 1
  TxSize = 1
  LineSize = 1
  Chars = {"G", "nl"}
  Replies <- HeaderAndFile
  TimerSize = 1
  XipOut = {"OK"}
  Leavers = {"http", "timer"}
  NoBlock = NoBlock
PROPERTY
  ReadsOwn

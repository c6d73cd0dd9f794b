SPECIFICATION FairSpec
CONSTANTS
  Blocks = 1
  FifoSize = 1
  RxSize = 1
  TxSize = 1
  LineSize = 1
  Chars = {"G", "nl"}
  Replies <- HeaderAndFile
  TimerSize = 1
  XipOut = {"OK"}
  Leavers = {"http", "timer"}
  NoBlock = NoBlock
PROPERTY
  LineReturns

SPECIFICATION FairSpec
CONSTANTS
  Blocks = 2
  FifoSize = 2
  RxSize = 1
  TxSize = 1
  LineSize = 2
  Chars = {"G", "nl"}
  Replies <- HeaderAndFile
  TimerSize = 1
  XipOut = {"OK"}
  Leavers = {"timer"}
  NoBlock = NoBlock
INVARIANTS
  TimerTarget
PROPERTIES
  ServesOwn
  EachServed

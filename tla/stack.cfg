SPECIFICATION StackFairSpec
CONSTANTS
  Ip = {ip1, ip2}
  Mac = {m1, m2}
  NoIp = NoIp
  NoMac = NoMac
  OkTmo = 3
  PendingTmo = 2
  MaxRetries = 2
  CounterMax = 255
  Period = 1
  MaxBehind = 2
  Base = 65536
  Us = us
  Broadcast = all
  Pinger = ip1
  Datagrams <- SomeDatagrams
  SegmentSizes = {0, 4, 4096}
  TimeSizes = {0, 40, 128}
INVARIANTS
  TypeOK
  RetryBudget
  AnswerFresh
  FrameWhole
  AnswerOrAsk
  PayloadExact
PROPERTIES
  SendFits
  StackSettles
CHECK_DEADLOCK FALSE

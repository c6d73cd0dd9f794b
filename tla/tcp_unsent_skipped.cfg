SPECIFICATION Spec
CONSTANTS
  SeqSpace = 4
  BufSize = 2
  MaxTcp = 2
  Peer = {p1}
  NoPeer = NoPeer
  Port = {80}
  App = {http}
  NoApp = NoApp
  MaxWin = 2
  MssDefault = 2
  DataMax = 2
  OptSize = 0
  InitSeq = {3}
  XipOut = {"OK", "NONE"}
  SegAcks = {0, 1, 2, 3}
  SegFlags <- PeerFlags
  SegWindows = {0, 2}
  SegMss = {2}
  SegLens = {0, 2}
  WriteSizes = {1, 2}
  ReadSizes = {1}
INVARIANT TxStreamOrder
CHECK_DEADLOCK FALSE

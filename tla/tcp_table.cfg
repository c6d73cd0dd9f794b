SPECIFICATION Spec
CONSTANTS
  SeqSpace = 3
  BufSize = 1
  MaxTcp = 3
  Peer = {p1, p2}
  NoPeer = NoPeer
  Port = {80}
  App = {http, timer}
  NoApp = NoApp
  MaxWin = 1
  MssDefault = 1
  DataMax = 1
  OptSize = 0
  InitSeq = {0}
  XipOut = {"OK", "NONE"}
  SegAcks = {0}
  SegFlags <- PeerFlags
  SegWindows = {1}
  SegMss = {1}
  SegLens = {0}
  WriteSizes = {}
  ReadSizes = {}
VIEW Significant
INVARIANTS
  SeqAccounting
  TupleUnique
  ListenerUnique
PROPERTIES
  NoSteal
  ServiceSpec
CHECK_DEADLOCK FALSE

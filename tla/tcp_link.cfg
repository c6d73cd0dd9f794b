SPECIFICATION LinkFairSpec
CONSTANTS
  SeqSpace = 16
  BufSize = 2
  MaxTcp = 2
  Peer = {p1}
  NoPeer = NoPeer
  Port = {80}
  App = {http}
  NoApp = NoApp
  MaxWin = 65535
  MssDefault = 2
  DataMax = 2
  OptSize = 0
  InitSeq = {1}
  XipOut = {"OK"}
  SegAcks <- AllSeqs
  SegFlags = {{"SYN"}, {"ACK"}, {"FIN", "ACK"}}
  SegWindows = {2}
  SegMss <- AllMss
  SegLens = {0, 1, 2, 3}
  WriteSizes = {1, 2}
  ReadSizes = {2}
  Client = p1
  ServerPort = 80
  Server = http
  ClientIss = 1
  ServerIss = 1
  ClientWin = 2
  SynOptions <- ClientOptions
  ToSend = 3
  ToWrite = 3
  Capacity = 2
  Upsets = {"lose", "repeat", "early", "hasty"}
  MaxUpsets = 1
INVARIANTS
  AckedMeansReceived
  MssRespected
PROPERTIES
  OutStream
  InStream
  AllArrives
  BlockReturns
CHECK_DEADLOCK FALSE

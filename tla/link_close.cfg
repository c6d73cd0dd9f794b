SPECIFICATION LinkSpec
CONSTANTS
  SeqSpace = 16
  BufSize = 2
  MaxTcp = 2
  Peer = {p1}
  NoPeer = NoPeer
  Port = {80}
  App = {http}
  NoApp = NoApp
  MaxWin = 65535
  MssDefault = 2
  DataMax = 2
  OptSize = 0
  InitSeq = {1}
  XipOut = {"OK"}
  SegAcks <- AllSeqs
  SegFlags = {{"SYN"}, {"ACK"}, {"FIN", "ACK"}}
  SegWindows = {1}
  SegMss <- AllMss
  SegLens = {0, 1}
  WriteSizes = {1, 2}
  ReadSizes = {2}
  Client = p1
  ServerPort = 80
  Server = http
  ClientIss = 1
  ServerIss = 1
  ClientWin = 1
  SynOptions <- ClientOptions
  ToSend = 1
  ToWrite = 2
  Capacity = 2
  Upsets = {"hasty"}
  MaxUpsets = 1
INVARIANT
  EndIsEnd
CHECK_DEADLOCK FALSE

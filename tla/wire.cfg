SPECIFICATION WireSpec
CONSTANTS
  Base = 8
  Here <- HereWords
  There <- ThereWords
  Tcp = 6
  Udp = 2
  MaxWords = 2
  MaxChanges = 1
  MaxPad = 2
INVARIANTS
  TypeOK
  IntactAccepted
  NothingForeign

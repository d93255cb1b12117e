SPECIFICATION Spec
CONSTANTS
  Width = 3
  Height = 3
  ByteSize = 4
  m = m
  n = n
  k = k
  r = r
  Blank = Blank
  Bar = Bar
  Newline = Newline
  NoMessage = NoMessage
  Glyphs = {Blank, Bar, m, n, k, r}
  Title <- MCTitle
  TitleColumn = 1
  PrefixOf <- MCPrefixOf
  Messages <- MCMessages
  SetLevels = {0, 3, 5}
  SetPlaces <- MCSetPlaces
  MaxCalls = 7
  MaxSerial = 3
  Blinks = 1
  MaxColumn = 5
CHECK_DEADLOCK FALSE
INVARIANTS
  TypeOK
  MessageStands
  SinksAgree
  StatusLineStands

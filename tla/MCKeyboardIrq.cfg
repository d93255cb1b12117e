SPECIFICATION FairSpec
CONSTANTS
  Width = 2
  Height = 3
  ByteSize = 3
  a = a
  p = p
  t = t
  Blank = Blank
  Glyphs = {Blank, a, p, t}
  Backspace = Backspace
  Enter = Enter
  Ignored = Ignored
  Typed = {a, Enter}
  MaxKeys = 3
  ReplyCode = Ignored
  Setups <- MCSetups
  BootText <- MCBootText
  Prompt <- MCPrompt
  PromptPos = 2
CHECK_DEADLOCK FALSE
INVARIANTS
  KeysHandledInOrder
  PendingByteIsSignalled
PROPERTIES
  EveryKeyHandled
  ReadBytesNotHandled

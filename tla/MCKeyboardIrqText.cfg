SPECIFICATION Spec
CONSTANTS
  Width = 2
  Height = 3
  ByteSize = 3
  a = a
  p = p
  t = t
  Blank = Blank
  Glyphs = {Blank, a, p, t}
  Backspace = Backspace
  Enter = Enter
  Ignored = Ignored
  Typed = {a}
  MaxKeys = 2
  ReplyCode = Ignored
  Setups <- MCForgetful
  BootText <- MCBootText
  Prompt <- MCPrompt
  PromptPos = 2
CHECK_DEADLOCK FALSE
INVARIANTS
  BootTextIntact

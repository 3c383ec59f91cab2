SPECIFICATION Spec
CONSTANTS
  l = l
  s = s
  Letters = {l, s}
  Digits = {digit}
  Symbols = {symbol}
  Functions = {function}
  SPACE = space
  SHIFT = shift
  UNSHIFT = unshift
  BACKSPACE = backspace
  RETURN = return
  NOKEY = nokey
  OUTPUT = output
  PROMPT = prompt
  StringLength = 4
  NameLength = 3
  Columns = 3
  Rows = 4
  PromptLength = 2
  Commands <- TwoCommands
  MaxRows = 2
INVARIANT SavedInBuffer
CHECK_DEADLOCK FALSE
VIEW Observed

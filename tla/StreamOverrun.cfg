SPECIFICATION StreamSpec
CONSTANTS
  x = x
  y = y
  STREAM_BUFF = 4
  Byte <- TwoBytes
  Junk = Junk
  MaxSize = 3
  Word = 16
  Writers = {FALSE}
INVARIANT WriteBounded

SPECIFICATION StreamSpec
CONSTANTS
  x = x
  y = y
  STREAM_BUFF = 3
  Byte <- TwoBytes
  Junk = Junk
  MaxSize = 4
  Word = 11
  Writers = {TRUE, FALSE}
SYMMETRY Sym
INVARIANTS StreamTypeOK WriteReturns RingSafe
PROPERTY IsFifo

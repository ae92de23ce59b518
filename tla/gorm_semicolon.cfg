SPECIFICATION MCSpec
CONSTANTS
  AnyName <- MCName
  AnyDefault <- MCDefault
  AnyTable <- MCTable
  AnyComment <- MCComment
  Symbol <- MCSymbol
  Lower <- MCLower
  Upper <- MCUpper
  Width <- MCWidth
  Letter <- MCLetter
  Digit <- MCDigit
  Space <- MCSpace
  Break <- MCBreak
  LetterByte <- MCLetterByte
  Initialisms <- MCInitialisms
  White <- MCWhite
  Control <- MCControl
  MaxDefault = 2
  MaxName = 2
  MaxWord = 3
  MaxComment = 1
  LeftOut = {}
CHECK_DEADLOCK FALSE
INVARIANT EscapedDefaultsAreReadBack

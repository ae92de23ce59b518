SPECIFICATION MCSpec
CONSTANTS
  AnyName <- MCName
  AnyDefault <- MCDefault
  AnyTable <- MCTable
  AnyComment <- MCComment
  Symbol <- MCSymbol
  Lower <- MCLower
  Upper <- MCUpper
  Width <- MCWidth
  Letter <- MCLetter
  Digit <- MCDigit
  Space <- MCSpace
  Break <- MCBreak
  LetterByte <- MCLetterByte
  Initialisms <- MCInitialisms
  White <- MCWhite
  Control <- MCControl
  MaxDefault = 4
  MaxName = 3
  MaxWord = 4
  MaxComment = 4
  LeftOut = {}
CHECK_DEADLOCK FALSE
INVARIANTS
  PlainColumnsAreReadBack
  NoDefaultMakesAnOption
  SteadyNamesDoNotPanic
  PlainNamesAreDecided
  NamesKeepTheirLetters
  CommentsStayComments
  AcceptedNamesAreReadBack

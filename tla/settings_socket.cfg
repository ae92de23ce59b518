SPECIFICATION LineSpec
CONSTANTS
  db = db
  structable = structable
  gorm = gorm
  json = json
  sqlx = sqlx
  stbl = stbl
  blank = blank
  bad = bad
  NoKey = NoKey
  Value <- MCValue
  Key <- MCKey
  KeyOf <- MCKeyOf
  BadKey <- MCBadKey
  Folded <- MCFolded
  Number <- MCNumber
  Letter <- MCLetter
  Schematic <- MCSchematic
  IPv6 <- MCIPv6
  Symbol <- MCSymbol
  CommandLines <- MCCommandLines
  Configurations <- MCConfigurations
  MaxCalls = 4
  MaxTagFlags = 0
  MaxFlags = 0
  MaxPassword = 0
CHECK_DEADLOCK FALSE
INVARIANTS
  SocketTakesPrecedence

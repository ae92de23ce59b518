SPECIFICATION Spec
CONSTANTS
  user_id = user_id
  UserID = UserID
  born = born
  dashed = dashed
  model = model
  recorder = recorder
  NoIdent = NoIdent
  Name <- MCName
  GoName <- MCGoName
  users = users
  Users = Users
  Aerzte = Aerzte
  TableName <- MCTableName
  GoLower <- MCGoLower
  DbLower <- MCDbLower
  Queries <- MCQueries
  AnySettings <- MCSettings
CHECK_DEADLOCK FALSE
INVARIANT EveryGivenTableIsRead

SPECIFICATION FairSpec
CONSTANTS
  user_roles = user_roles
  User_Roles = User_Roles
  logs = logs
  userRolesGo = userRolesGo
  logsGo = logsGo
  v1 = v1
  v2 = v2
  NoTable = NoTable
  NoLayout = NoLayout
  Table <- MCTable
  Lower <- MCLower
  File <- MCFile
  FileName <- MCFileName
  Layout = {v1, v2}
  Rejected <- MCRejected
  Malformed <- MCMalformed
  Settings <- MCSettings
  Leftovers = {"torn"}
  MaxDDL = 1
CHECK_DEADLOCK FALSE
INVARIANTS
  TypeOK
  PromptCancellation
  TornFileIsReported
  OneSnapshot
  SwallowedOnlyWhenNothingIsLeft
  EveryTableAccountedFor
PROPERTIES
  OnlySoundStructsReachDisk
  KeepsItsPromise

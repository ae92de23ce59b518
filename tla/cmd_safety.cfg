SPECIFICATION CmdFairSpec
CONSTANTS
  users = users
  logs = logs
  usersGo = usersGo
  logsGo = logsGo
  v1 = v1
  NoTable = NoTable
  NoLayout = NoLayout
  Table <- MCTable
  Lower <- MCLower
  File = {usersGo, logsGo}
  FileName <- MCFileName
  Layout = {v1}
  Rejected <- MCRejected
  Malformed <- MCMalformed
  Settings <- MCSettings
  Leftovers = {"none"}
  MaxDDL = 1
  CommandLines <- MCCommandLines
CHECK_DEADLOCK FALSE
INVARIANTS
  CmdTypeOK
  ConnectionIsClosed
  FailuresAreToldOnce
PROPERTIES
  SignalEndsTheProcess

------------------------------- MODULE MCApp -------------------------------
(* App for TLC: three tables.  user_roles and User_Roles are both named    *)
(* UserRoles.go by camelCaseString, and Postgres does not tell them apart  *)
(* in -table; the struct of user_roles is refused when it has columns in   *)
(* layout v2, that of logs does not format without columns.  MySQL differs *)
(* from Postgres in what -table names only.                                *)
EXTENDS App, TLC

CONSTANTS user_roles, User_Roles, logs, userRolesGo, logsGo, v1, v2

MCTable == {user_roles, User_Roles, logs}
MCFile == {userRolesGo, logsGo}
MCFileName ==
  (user_roles :> userRolesGo) @@ (User_Roles :> userRolesGo) @@ (logs :> logsGo)
MCLower == (user_roles :> "user_roles") @@ (User_Roles :> "user_roles") @@ (logs :> "logs")
MCRejected == {<<user_roles, v2>>}
MCMalformed == {<<logs, NoLayout>>}
MCSettings ==
  {s \in AnySettings : (s.Tables = {} /\ s.DbType # "mysql") \/ s.Tables = {user_roles, logs}}
=============================================================================

------------------------------- MODULE MCCmd -------------------------------
(* Cmd for TLC: two tables, and command lines that differ from a good one  *)
(* in one way, or ask for both help and version.                           *)
EXTENDS Cmd, TLC

CONSTANTS users, logs, usersGo, logsGo, v1

MCTable == {users, logs}
MCFileName == (users :> usersGo) @@ (logs :> logsGo)
MCLower == (users :> "users") @@ (logs :> "logs")
MCRejected == {<<logs, v1>>}
MCMalformed == {<<logs, NoLayout>>}
MCSettings == {s \in AnySettings : s.Tables = {}}

Good == [parses |-> TRUE, help |-> FALSE, version |-> FALSE, path |-> "dir", valid |-> TRUE]
MCCommandLines ==
  {Good,
   [Good EXCEPT !.parses = FALSE],
   [Good EXCEPT !.help = TRUE, !.version = TRUE],
   [Good EXCEPT !.version = TRUE, !.path = "unreadable"],
   [Good EXCEPT !.valid = FALSE]}
  \cup {[Good EXCEPT !.path = p] : p \in Paths}
=============================================================================

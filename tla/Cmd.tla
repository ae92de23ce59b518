-------------------------------- MODULE Cmd --------------------------------
(***************************************************************************)
(* The life of the process: main, Cmd.Run of internal/cmd and the calls it *)
(* makes in order (parse the flags, verify the settings, connect, run the  *)
(* App, close), with the signal context that covers them and the deferred  *)
(* Close.  App is composed in: its steps are the steps of phase "Run".     *)
(***************************************************************************)
EXTENDS App, Integers

CONSTANT CommandLines  \* the command lines the process may be started with

(* What the phases branch on.  `parses': the flag package accepts the      *)
(* arguments.  `path': what os.Stat makes of -of, "unreadable" being an    *)
(* error other than "does not exist" (a component that is a file, or that  *)
(* may not be searched).  `valid': -pn is not empty and the tag keys are.  *)
Paths == {"dir", "file", "missing", "unreadable"}
AnyCommandLine == [parses : BOOLEAN, help : BOOLEAN, version : BOOLEAN,
                   path : Paths, valid : BOOLEAN]

ASSUME CommandLineAssumption == CommandLines \subseteq AnyCommandLine

VARIABLES
  cmdline,  \* the arguments; fixed
  silent,   \* the server may leave unanswered what it is asked from now on
  phase,    \* which call of Cmd.Run or main is next
  conn,     \* the *sql.DB: "none", "open", "closed"
  err,      \* what the error that Run is returning wraps; {} is nil
  stderr,   \* the failures printed, by how often
  code,     \* exit code; -1 while the process runs
  faults    \* history: everything that failed and ought to be told

cmdVars == <<cmdline, silent, phase, conn, err, stderr, code, faults>>
allVars == <<vars, cmdVars>>

PhaseNames == {"NewArgs", "Verify", "Connect", "Ping", "Run", "Close", "main", "exit"}
Causes == {"flags", "settings", "connect", "close"} \cup (Results \ {"none", "ok"})

CmdTypeOK ==
  /\ cmdline \in CommandLines
  /\ silent \in BOOLEAN
  /\ phase \in PhaseNames
  /\ conn \in {"none", "open", "closed"}
  /\ err \subseteq Causes
  /\ stderr \in [Causes -> 0..2]
  /\ code \in -1..2
  /\ faults \subseteq Causes

CmdInit ==
  /\ Init /\ ~cancelled
  /\ cmdline \in CommandLines
  /\ silent = FALSE
  /\ phase = "NewArgs"
  /\ conn = "none"
  /\ err = {}
  /\ stderr = [c \in Causes |-> 0]
  /\ code = -1
  /\ faults = {}

-----------------------------------------------------------------------------
(* Returning from Cmd.Run.                                                 *)

To(p) == phase' = p /\ UNCHANGED <<err, faults>>

Fails(c, p) ==
  /\ phase' = p
  /\ err' = err \cup {c}
  /\ faults' = faults \cup {c}

Printed(cs) == stderr' = [c \in Causes |-> IF c \in cs THEN stderr[c] + 1 ELSE stderr[c]]

(* flag.ContinueOnError: the flag package has printed what is wrong.       *)
NewArgs ==
  /\ phase = "NewArgs"
  /\ \/ /\ ~cmdline.parses
        /\ Printed({"flags"})
        /\ Fails("flags", "main")
     \/ /\ cmdline.parses
        /\ To(IF cmdline.help \/ cmdline.version THEN "main" ELSE "Verify")
        /\ UNCHANGED stderr
  /\ UNCHANGED <<vars, cmdline, silent, conn, code>>

Verify ==
  /\ phase = "Verify"
  /\ cmdline.path # "unreadable"
  /\ IF cmdline.path = "dir" /\ cmdline.valid THEN To("Connect") ELSE Fails("settings", "main")
  /\ UNCHANGED <<vars, cmdline, silent, conn, stderr, code>>

(* verifyOutputPath: os.Stat failed and gave no FileInfo, but only "does   *)
(* not exist" is looked at before info.Mode().  The runtime prints the     *)
(* panic and exits with code 2.                                            *)
VerifyPanics ==
  /\ phase = "Verify"
  /\ cmdline.path = "unreadable"
  /\ Printed({"settings"})
  /\ Fails("settings", "exit")
  /\ code' = 2
  /\ UNCHANGED <<vars, cmdline, silent, conn>>

(* Connect: the data source name is built and a handle opened, ...         *)
Connect ==
  /\ phase = "Connect"
  /\ \/ conn' = "open" /\ To("Ping")
     \/ conn' = "none" /\ Fails("connect", "main")
  /\ UNCHANGED <<vars, cmdline, silent, stderr, code>>

(* ... then the database is pinged under the context; sqlx returns the     *)
(* handle along with the error, and GeneralDatabase.Connect closes it.     *)
(* What that Close returns is dropped, and is no failure here.             *)
Ping ==
  /\ phase = "Ping"
  /\ ~cancelled
  /\ To("Run")
  /\ UNCHANGED <<vars, cmdline, silent, conn, stderr, code>>

PingLeaks ==  \* a slip: the handle of a failed ping is dropped, not closed
  /\ phase = "Ping"
  /\ Fails("connect", "main")
  /\ UNCHANGED <<vars, cmdline, silent, conn, stderr, code>>

PingFails ==
  /\ phase = "Ping"
  /\ conn' = "closed"
  /\ Fails("connect", "main")
  /\ UNCHANGED <<vars, cmdline, silent, stderr, code>>

RunApp ==
  /\ phase = "Run"
  /\ Run
  /\ UNCHANGED cmdVars

WrapsNil ==  \* a slip: "run error: %w" around every result
  /\ phase = "Run"
  /\ pc = "Returned"
  /\ Fails(result, "Close")
  /\ UNCHANGED <<vars, cmdline, silent, conn, stderr, code>>

AppReturns ==
  /\ phase = "Run"
  /\ pc = "Returned"
  /\ IF result = "ok" THEN To("Close") ELSE Fails(result, "Close")
  /\ UNCHANGED <<vars, cmdline, silent, conn, stderr, code>>

(* The deferred Close: its error is returned too, with the one before it.  *)
(* DB.Close waits for no query.                                            *)
Close ==
  /\ phase = "Close"
  /\ conn' = "closed"
  /\ To("main") \/ Fails("close", "main")
  /\ UNCHANGED <<vars, cmdline, silent, stderr, code>>

(* main prints the error, except the sentinel of a failed flag parse.      *)
PrintsTheSentinel ==  \* a slip: main does not look for ErrFlagParse
  /\ phase = "main"
  /\ Printed(err)
  /\ code' = IF err = {} THEN 0 ELSE 1
  /\ To("exit")
  /\ UNCHANGED <<vars, cmdline, silent, conn>>

Main ==
  /\ phase = "main"
  /\ Printed(IF "flags" \in err THEN {} ELSE err)
  /\ code' = IF err = {} THEN 0 ELSE 1
  /\ To("exit")
  /\ UNCHANGED <<vars, cmdline, silent, conn>>

-----------------------------------------------------------------------------
(* The environment: a signal is caught from the start of Cmd.Run to its    *)
(* return, other sessions alter tables, and the server may fall silent: it *)
(* does not have to answer any more, a request to cancel a query included. *)

Signal ==
  /\ phase \notin {"main", "exit"}
  /\ ~cancelled
  /\ cancelled' = TRUE
  /\ UNCHANGED <<settings, catalog, ddl, ctlVars, dataVars, history, cmdVars>>

SchemaChange ==
  /\ phase \in {"Connect", "Ping", "Run"}
  /\ AlterTable
  /\ UNCHANGED cmdVars

FallsSilent ==
  /\ phase \in {"Connect", "Ping", "Run"}
  /\ ~silent
  /\ silent' = TRUE
  /\ UNCHANGED <<vars, cmdline, phase, conn, err, stderr, code, faults>>

-----------------------------------------------------------------------------
(* Calls that wait for the database; the others end by themselves.         *)
AppWaits ==
  \/ pc \in {"GetTables", "ForceGetColumns"}
  \/ pc = "GetColumns" /\ pending # {}

AtDatabase == phase = "Ping" \/ (phase = "Run" /\ AppWaits)

(* Those of them that are given the context of Cmd.Run.                    *)
PingsWithoutContext == AtDatabase /\ phase # "Ping"  \* a slip: sqlx.Connect

TakesContext == AtDatabase

(* What the driver makes of a context that is done.  That of MySQL closes  *)
(* the connection and SQLite interrupts the statement, so that the call    *)
(* returns.  lib/pq asks the server to cancel the query and waits for what *)
(* the server says, and until the connection has started it asks nothing:  *)
(* the call returns if the server does answer.                             *)
Heeds == settings.DbType # "pg" \/ ~silent

Program ==
  \/ NewArgs \/ Verify \/ VerifyPanics
  \/ Connect \/ Ping \/ PingFails
  \/ RunApp \/ AppReturns
  \/ Close \/ Main

CmdNext == Program \/ Signal \/ SchemaChange \/ FallsSilent

CmdSpec == CmdInit /\ [][CmdNext]_allVars

(* The process is scheduled, and a call that was given the context comes   *)
(* back once the context is done, if the driver heeds it.  A database that *)
(* is never done waiting may hang for as long as no signal arrives.        *)
CmdFairSpec ==
  /\ CmdSpec
  /\ WF_allVars(~AtDatabase /\ Program)
  /\ WF_allVars(cancelled /\ TakesContext /\ Heeds /\ Program)

-----------------------------------------------------------------------------
(* Properties.                                                             *)

(* Whatever fails, and wherever the signal hits, no handle to the database *)
(* is left open, and none is used before it is open or after it is closed. *)
ConnectionIsClosed ==
  /\ phase \in {"main", "exit"} => conn # "open"
  /\ AtDatabase => conn = "open"

(* The exit code tells whether anything failed, and each failure is on     *)
(* stderr exactly once: the flag package's by itself, that of the App and  *)
(* that of Close in one error.  (With -f, what App reported and skipped is *)
(* no failure of the run.)                                                 *)
FailuresAreToldOnce ==
  phase = "exit" =>
    /\ code = 0 <=> faults = {}
    /\ \A c \in Causes : stderr[c] = IF c \in faults THEN 1 ELSE 0

(* A signal ends the process, even while the database does not answer; but *)
(* for a silent Postgres server, for which lib/pq waits for ever, in one   *)
(* call: signal or not, nothing of tables-to-go bounds it.                 *)
SignalEndsTheProcess ==
  cancelled ~> \/ phase = "exit"
               \/ [](silent /\ settings.DbType = "pg" /\ AtDatabase)

-----------------------------------------------------------------------------
(* A property the code does not have.                                      *)

(* Verify "checks the given output paths": a path that cannot be used is   *)
(* returned as an error.                                                   *)
OutputPathIsChecked == code # 2
=============================================================================

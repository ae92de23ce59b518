-------------------------------- MODULE App --------------------------------
(***************************************************************************)
(* App.Run of internal/cli: the loop that lists the tables, fetches their  *)
(* columns, builds a struct per table and writes it to a file, together    *)
(* with the calls it makes (the database package, the FileWriter) and the  *)
(* world around it: the signal context may be cancelled between any two    *)
(* steps, other sessions may alter or drop tables, every query and every   *)
(* write may fail, and a struct may be rejected before it reaches a file.  *)
(*                                                                         *)
(* The order in which tables come out of a query is not fixed here (sqlite *)
(* has no ORDER BY), so the loops take any table that is still pending.    *)
(***************************************************************************)
EXTENDS Naturals, FiniteSets

CONSTANTS
  Table,      \* names of tables the database may hold
  NoTable,
  Lower,      \* the names in lower case, as Postgres compares them
  Layout,     \* the columns a table may have
  NoLayout,   \* no columns: what a query finds of a table that is gone
  File,       \* names of output files, one directory
  FileName,   \* the file a table's struct goes to (a naming function)
  Rejected,   \* <<table, columns>> that createTableStructString refuses
  Malformed,  \* <<table, columns>> whose text go/format cannot parse
  Settings,   \* the settings a run may be started with
  Leftovers,  \* what earlier runs may have left of a file
  MaxDDL      \* bound: ALTER or DROP TABLEs by other sessions during the run

Columns == Layout \cup {NoLayout}

ASSUME NamesAssumption ==
  /\ NoTable \notin Table
  /\ NoLayout \notin Layout
ASSUME NamingAssumption == FileName \in [Table -> File] /\ DOMAIN Lower = Table
ASSUME StructAssumption ==
  /\ Rejected \subseteq Table \X Columns
  /\ Malformed \subseteq Table \X Columns
ASSUME BoundAssumption == MaxDDL \in Nat

Drivers == {"pg", "mysql", "sqlite3"}

(* The part of settings.Settings that App.Run and the queries branch on;   *)
(* no -table flag, Tables = {}, means all tables.                          *)
AnySettings == [Force : BOOLEAN, DbType : Drivers, Tables : SUBSET Table]

ASSUME SettingsAssumption == Settings \subseteq AnySettings

Kinds == {"none", "torn", "whole"}

ASSUME LeftoverAssumption == Leftovers \subseteq Kinds

VARIABLES
  \* the environment
  settings,   \* fixed for a run
  catalog,    \* the columns of every table now; NoLayout when there is none
  ddl,        \* how many times the catalog has changed
  cancelled,  \* ctx.Done() is closed: SIGINT or SIGTERM arrived
  \* App.Run
  pc,         \* where Run is
  result,     \* how Run returned: "none", "ok", or what its error is about
  listed,     \* the tables GetTables returned
  pending,    \* those the current loop has not come to
  kept,       \* those handed to the write loop (tablesToProcess)
  cur,        \* the table of the current iteration
  loaded,     \* Table.Columns in memory, by table
  report,     \* what stderr says went wrong with a table that was skipped
  \* the output directory
  disk,
  \* history, for the properties only
  written,     \* tables whose Write returned nil
  interrupted, \* tables whose fetch failed after the cancellation
  late         \* queries and writes begun after the cancellation

envVars  == <<settings, catalog, ddl, cancelled>>
ctlVars  == <<pc, result, listed, pending, kept, cur>>
dataVars == <<loaded, report, disk>>
history  == <<written, interrupted, late>>
vars     == <<envVars, ctlVars, dataVars, history>>

PCs == {"GetTables", "GetColumns", "ForceLoop", "ForceGetColumns", "Loop",
        "Create", "Write", "WriteContent", "Returned"}
Results == {"none", "ok", "tables", "columns", "create", "write", "cancelled"}
Clock == 0..MaxDDL

(* In-memory columns of a table: not asked for, some rows of a query that  *)
(* failed, or all the rows of one that succeeded, and when they were read. *)
InMemory == [state : {"unread", "partial", "whole"}, columns : Columns, read : Clock]

(* A file: absent, truncated or complete; written for `table' by this run, *)
(* or left by an earlier one (NoTable), which may have been killed.        *)
Content == [kind : Kinds, table : Table \cup {NoTable},
            columns : Columns, read : Clock]
Leftover(k) == [kind |-> k, table |-> NoTable, columns |-> NoLayout, read |-> 0]

TypeOK ==
  /\ settings \in Settings
  /\ catalog \in [Table -> Columns]
  /\ ddl \in Clock
  /\ cancelled \in BOOLEAN
  /\ pc \in PCs
  /\ result \in Results
  /\ listed \subseteq Table
  /\ pending \subseteq Table
  /\ kept \subseteq Table
  /\ cur \in Table \cup {NoTable}
  /\ loaded \in [Table -> InMemory]
  /\ report \in [Table -> {"", "columns", "create", "write"}]
  /\ disk \in [File -> Content]
  /\ written \subseteq Table
  /\ interrupted \subseteq Table
  /\ late \in Nat

Init ==
  /\ settings \in Settings
  /\ catalog \in [Table -> Columns]
  /\ ddl = 0
  /\ cancelled \in BOOLEAN
  /\ pc = "GetTables"
  /\ result = "none"
  /\ listed = {} /\ pending = {} /\ kept = {}
  /\ cur = NoTable
  /\ loaded = [t \in Table |-> [state |-> "unread", columns |-> NoLayout, read |-> 0]]
  /\ report = [t \in Table |-> ""]
  /\ disk \in [File -> {Leftover(k) : k \in Leftovers}]
  /\ written = {} /\ interrupted = {}
  /\ late = 0

-----------------------------------------------------------------------------
(* Steps of control.                                                       *)

Goto(l) == pc' = l /\ UNCHANGED result

Return(r) == pc' = "Returned" /\ result' = r

(* A query or a write begins: after the cancellation it is a late one.     *)
Begin == late' = IF cancelled THEN late + 1 ELSE late

-----------------------------------------------------------------------------
(* The database.  A query whose context is done fails before it is sent;   *)
(* any other one succeeds, or fails for a reason of its own.  It sees the  *)
(* catalog at one instant: so do Postgres, SQLite and MySQL from version 8 *)
(* on; older ones open the tables one after the other to answer.           *)

MaySucceed == ~cancelled

Read(t) == [state |-> "whole", columns |-> catalog[t], read |-> ddl]

(* Table.Columns after a query over ts that went well.                     *)
ReadAll(ts) == [t \in Table |-> IF t \in ts THEN Read(t) ELSE loaded[t]]

(* Table.Columns after one that failed between two rows: any part of them. *)
ReadSome(ts) ==
  [t \in Table |-> IF t \in ts THEN [Read(t) EXCEPT !.state = "partial"] ELSE loaded[t]]

Fetch(ts) ==
  /\ MaySucceed
  /\ loaded' = ReadAll(ts)
  /\ UNCHANGED interrupted

FailToFetch(ts) ==
  /\ loaded' = ReadSome(ts)
  /\ interrupted' = IF cancelled THEN interrupted \cup ts ELSE interrupted

(* Whether -table names the table.  Postgres compares in lower case; the   *)
(* collation of MySQL is taken to tell case apart, as SQLite does here.    *)
Named(t) ==
  \/ t \in settings.Tables
  \/ settings.DbType = "pg" /\ \E n \in settings.Tables : Lower[n] = Lower[t]

(* The tables that are there, or those of them the -table filter names.    *)
Matching == {t \in Table : catalog[t] # NoLayout /\ (settings.Tables = {} \/ Named(t))}

GetTables ==
  /\ pc = "GetTables"
  /\ MaySucceed
  /\ Begin
  /\ listed' = Matching
  /\ pending' = Matching
  /\ Goto(IF settings.Force THEN "ForceLoop" ELSE "GetColumns")
  /\ UNCHANGED <<envVars, kept, cur, dataVars, written, interrupted>>

GetTablesFails ==
  /\ pc = "GetTables"
  /\ Begin
  /\ Return("tables")
  /\ UNCHANGED <<envVars, listed, pending, kept, cur, dataVars, written, interrupted>>

-----------------------------------------------------------------------------
(* getColumnsOfTables without -f: one call for all the tables.  Postgres   *)
(* and MySQL send one query; SQLite sends one per table and gives up at    *)
(* the first that fails.                                                   *)

OneByOne == {{t} : t \in pending}  \* a slip: a query per table everywhere

Batch == IF settings.DbType = "sqlite3" THEN {{t} : t \in pending} ELSE {pending}

GetColumnsOfTables ==
  /\ pc = "GetColumns"
  /\ pending # {}
  /\ \E ts \in Batch :
       /\ Fetch(ts)
       /\ pending' = pending \ ts
  /\ Begin
  /\ UNCHANGED <<envVars, pc, result, listed, kept, cur, report, disk, written>>

GetColumnsOfTablesFails ==
  /\ pc = "GetColumns"
  /\ pending # {}
  /\ \E ts \in Batch : FailToFetch(ts)
  /\ Begin
  /\ Return("columns")
  /\ UNCHANGED <<envVars, listed, pending, kept, cur, report, disk, written>>

ColumnsFetched ==
  /\ pc = "GetColumns"
  /\ pending = {}
  /\ kept' = listed
  /\ pending' = listed
  /\ Goto("Loop")
  /\ UNCHANGED <<envVars, listed, cur, dataVars, history>>

-----------------------------------------------------------------------------
(* getColumnsOfTables with -f: a call per table, and the tables whose      *)
(* columns cannot be fetched are reported and left out.                    *)

(* The next iteration of a loop over the tables: it polls the context,     *)
(* then takes a table.                                                     *)
NoPoll == TRUE  \* a slip: the select is missing

Poll == ~cancelled

NextTable(l) ==
  /\ Poll
  /\ \E t \in pending : cur' = t /\ pending' = pending \ {t}
  /\ Goto(l)
  /\ UNCHANGED <<envVars, listed, kept, dataVars, history>>

StopAtTable ==
  /\ pending # {}
  /\ cancelled
  /\ Return("cancelled")
  /\ UNCHANGED <<envVars, listed, pending, kept, cur, dataVars, history>>

ForceLoop == pc = "ForceLoop" /\ NextTable("ForceGetColumns")

ForceLoopCancelled == pc = "ForceLoop" /\ StopAtTable

TakesOneTooMany ==  \* a slip: the slice reaches one past its end
  /\ pc = "ForceLoop"
  /\ pending = {}
  /\ pending' = kept \cup {cur}
  /\ Goto("Loop")
  /\ UNCHANGED <<envVars, listed, kept, cur, dataVars, history>>

ForceLoopEnds ==
  /\ pc = "ForceLoop"
  /\ pending = {}
  /\ pending' = kept
  /\ Goto("Loop")
  /\ UNCHANGED <<envVars, listed, kept, cur, dataVars, history>>

KeepsOnlyTheLast ==  \* a slip: append to an empty slice
  /\ pc = "ForceGetColumns"
  /\ Fetch({cur})
  /\ Begin
  /\ kept' = {cur}
  /\ Goto("ForceLoop")
  /\ UNCHANGED <<envVars, listed, pending, cur, report, disk, written>>

ForceGetColumns ==
  /\ pc = "ForceGetColumns"
  /\ Fetch({cur})
  /\ Begin
  /\ kept' = kept \cup {cur}
  /\ Goto("ForceLoop")
  /\ UNCHANGED <<envVars, listed, pending, cur, report, disk, written>>

FailsAndKeeps ==  \* a slip: no continue after the report
  /\ pc = "ForceGetColumns"
  /\ FailToFetch({cur})
  /\ Begin
  /\ report' = [report EXCEPT ![cur] = "columns"]
  /\ kept' = kept \cup {cur}
  /\ Goto("ForceLoop")
  /\ UNCHANGED <<envVars, listed, pending, cur, disk, written>>

ForceGetColumnsFails ==
  /\ pc = "ForceGetColumns"
  /\ FailToFetch({cur})
  /\ Begin
  /\ report' = [report EXCEPT ![cur] = "columns"]
  /\ Goto("ForceLoop")
  /\ UNCHANGED <<envVars, listed, pending, kept, cur, disk, written>>

-----------------------------------------------------------------------------
(* The loop that writes a struct per table.                                *)

LoopWithoutPoll ==  \* a slip: only the fetching loop polls
  /\ pc = "Loop"
  /\ \E t \in pending : cur' = t /\ pending' = pending \ {t}
  /\ Goto("Create")
  /\ UNCHANGED <<envVars, listed, kept, dataVars, history>>

Loop == pc = "Loop" /\ NextTable("Create")

LoopCancelled == pc = "Loop" /\ StopAtTable

LoopEnds ==
  /\ pc = "Loop"
  /\ pending = {}
  /\ Return("ok")
  /\ UNCHANGED <<envVars, listed, pending, kept, cur, dataVars, history>>

(* A step of the iteration failed: -f reports it and goes on, otherwise    *)
(* Run returns the error.  Slips: go on without a word, or without -f.     *)
SkipsInSilence(what) ==
  IF settings.Force THEN Goto("Loop") /\ UNCHANGED report ELSE Return(what) /\ UNCHANGED report

SkipsWithoutForce(what) == report' = [report EXCEPT ![cur] = what] /\ Goto("Loop")

Skip(what) ==
  \/ /\ settings.Force
     /\ report' = [report EXCEPT ![cur] = what]
     /\ Goto("Loop")
  \/ /\ ~settings.Force
     /\ Return(what)
     /\ UNCHANGED report

Struct == <<cur, loaded[cur].columns>>

CreateTableStruct ==
  /\ pc = "Create"
  /\ Struct \notin Rejected
  /\ Goto("Write")
  /\ UNCHANGED <<envVars, listed, pending, kept, cur, dataVars, history>>

CreateTableStructFails ==
  /\ pc = "Create"
  /\ Struct \in Rejected
  /\ Skip("create")
  /\ UNCHANGED <<envVars, listed, pending, kept, cur, loaded, disk, history>>

(* FileWriter.Write: format the text, open the file (which truncates it),  *)
(* write the content and close.                                            *)
OutFile == FileName[cur]

Truncated == [kind |-> "torn", table |-> cur, columns |-> loaded[cur].columns,
              read |-> loaded[cur].read]

Completed == [Truncated EXCEPT !.kind = "whole"]

Open ==
  /\ pc = "Write"
  /\ Struct \notin Malformed
  /\ Begin
  /\ disk' = [disk EXCEPT ![OutFile] = Truncated]
  /\ Goto("WriteContent")
  /\ UNCHANGED <<envVars, listed, pending, kept, cur, loaded, report, written, interrupted>>

(* The text does not format, or the file does not open: nothing is touched. *)
WriteRefused ==
  /\ pc = "Write"
  /\ Begin
  /\ Skip("write")
  /\ UNCHANGED <<envVars, listed, pending, kept, cur, loaded, disk, written, interrupted>>

WriteContent ==
  /\ pc = "WriteContent"
  /\ disk' = [disk EXCEPT ![OutFile] = Completed]
  /\ written' = written \cup {cur}
  /\ Goto("Loop")
  /\ UNCHANGED <<envVars, listed, pending, kept, cur, loaded, report, interrupted, late>>

(* Writing or closing failed: the file stays short, or it is complete but  *)
(* nobody can tell.                                                        *)
WriteContentFails ==
  /\ pc = "WriteContent"
  /\ \E c \in {Truncated, Completed} : disk' = [disk EXCEPT ![OutFile] = c]
  /\ Skip("write")
  /\ UNCHANGED <<envVars, listed, pending, kept, cur, loaded, history>>

-----------------------------------------------------------------------------
(* The environment.                                                        *)

(* SIGINT or SIGTERM, at any point; signal.NotifyContext closes Done once. *)
Cancel ==
  /\ ~cancelled
  /\ cancelled' = TRUE
  /\ UNCHANGED <<settings, catalog, ddl, ctlVars, dataVars, history>>

(* Another session creates, alters or drops a table.                       *)
AlterTable ==
  /\ pc # "Returned"
  /\ ddl < MaxDDL
  /\ ddl' = ddl + 1
  /\ \E t \in Table, c \in Columns : c # catalog[t] /\ catalog' = [catalog EXCEPT ![t] = c]
  /\ UNCHANGED <<settings, cancelled, ctlVars, dataVars, history>>

-----------------------------------------------------------------------------
GetColumns ==
  \/ GetColumnsOfTables \/ GetColumnsOfTablesFails \/ ColumnsFetched
  \/ ForceLoop \/ ForceLoopCancelled \/ ForceLoopEnds
  \/ ForceGetColumns \/ ForceGetColumnsFails

WriteStructs ==
  \/ Loop \/ LoopCancelled \/ LoopEnds
  \/ CreateTableStruct \/ CreateTableStructFails
  \/ Open \/ WriteRefused \/ WriteContent \/ WriteContentFails

Run == GetTables \/ GetTablesFails \/ GetColumns \/ WriteStructs

Environment == Cancel \/ AlterTable

Next == Run \/ Environment

Spec == Init /\ [][Next]_vars

(* Run is one goroutine, and the database is assumed to answer, be it with *)
(* an error: every call of Run returns then.  (Cmd does not assume that.)  *)
(* Nothing makes the environment act.                                      *)
FairSpec == Spec /\ WF_vars(Run)

-----------------------------------------------------------------------------
(* Properties.                                                             *)

(* After a signal the run starts at most one more query or write: the one  *)
(* it was about to issue when it last polled the context (the selects of   *)
(* App.Run and getColumnsOfTables).                                        *)
PromptCancellation == late <= 1

(* A file that this run left truncated never goes unnoticed: the write is  *)
(* still under way, or its failure was reported for the table or returned  *)
(* (os.WriteFile truncates before it writes).                              *)
TornFileIsReported ==
  \A f \in File : disk[f].kind = "torn" /\ disk[f].table # NoTable =>
    \/ pc = "WriteContent" /\ f = OutFile
    \/ report[disk[f].table] = "write"
    \/ result = "write"

(* Without -f, Postgres and MySQL read the columns of all tables in one    *)
(* query, so the structs of a run describe one state of the schema even    *)
(* when tables are altered meanwhile (MySQL from version 8 on: see Fetch). *)
OneSnapshot ==
  ~settings.Force /\ settings.DbType # "sqlite3" =>
    \A f, g \in File : disk[f].table # NoTable /\ disk[g].table # NoTable =>
      disk[f].read = disk[g].read

(* A run that was interrupted while fetching columns and still says        *)
(* "done!" was left with no table to process: the -f fallback swallows the *)
(* cancellation only then, since the write loop polls the context.         *)
SwallowedOnlyWhenNothingIsLeft ==
  result = "ok" /\ interrupted # {} => settings.Force /\ kept = {} /\ written = {}

(* When the run says "done!", every table it listed was reported or has    *)
(* its struct, complete and as it was read, in the file it is named after; *)
(* or another table of the run took that file (see EveryTableKeepsItsFile).*)
EveryTableAccountedFor ==
  result = "ok" => \A t \in listed :
    \/ report[t] # ""
    \/ LET c == disk[FileName[t]]
       IN \/ c.kind = "whole" /\ c.table = t /\ c.columns = loaded[t].columns
          \/ c.table \in listed \ {t} /\ FileName[c.table] = FileName[t]

(* A file changes only for the table at hand, and only with columns that   *)
(* were read to the end and make a struct that is accepted and formats:    *)
(* whatever fails before the write leaves the directory alone.             *)
OnlySoundStructsReachDisk ==
  [][\A f \in File : disk'[f] # disk[f] =>
       /\ f = OutFile
       /\ loaded[cur].state = "whole"
       /\ Struct \notin Rejected \cup Malformed]_vars

(* What the run promises: it settles the tables as Contract says and ends. *)
Outcome == [t \in Table |-> IF t \in written THEN "written"
                            ELSE IF report[t] # "" THEN "reported" ELSE "open"]

Promise == INSTANCE Contract WITH
  force <- settings.Force,
  outcome <- Outcome,
  result <- CASE result = "none" -> "none" [] result = "ok" -> "ok" [] OTHER -> "failed"

KeepsItsPromise == Promise!FairSpec

-----------------------------------------------------------------------------
(* Properties the code does not have.                                      *)

(* A run whose column queries were interrupted returns the cancellation,   *)
(* with or without -f, as the test "context canceled while fetching        *)
(* columns in force mode" has it.                                          *)
CancellationReported == result = "ok" => interrupted = {}

(* When the run says "done!", every table that was not reported has its    *)
(* struct in the output directory.                                         *)
EveryTableKeepsItsFile ==
  result = "ok" => \A t \in listed : report[t] = "" => disk[FileName[t]].table = t
=============================================================================

----------------------------- MODULE AppProofs -----------------------------
(***************************************************************************)
(* Theorems about App, for every set of tables, naming function, set of    *)
(* refused structs, and every bound, and then about Cmd: the App within    *)
(* the process is that App, the handle is closed on every way out, and     *)
(* every failure is told once.                                             *)
(***************************************************************************)
EXTENDS Cmd, TLAPS

USE NamesAssumption, NamingAssumption, StructAssumption, BoundAssumption,
    SettingsAssumption, LeftoverAssumption

-----------------------------------------------------------------------------
(* Typing.                                                                 *)

(* A query leaves well-formed columns in memory, whether it succeeds or    *)
(* not.                                                                    *)
LEMMA ReadTyped ==
  ASSUME TypeOK, NEW ts \in SUBSET Table
  PROVE  /\ ReadAll(ts) \in [Table -> InMemory]
         /\ ReadSome(ts) \in [Table -> InMemory]
<1>1. \A t \in Table : Read(t) \in InMemory
  BY DEF TypeOK, Read, InMemory
<1>2. \A t \in Table : [Read(t) EXCEPT !.state = "partial"] \in InMemory
  BY DEF TypeOK, Read, InMemory
<1> QED
  BY <1>1, <1>2 DEF TypeOK, ReadAll, ReadSome

(* The count of late calls only grows.                                     *)
LEMMA BeginTyped == late \in Nat /\ Begin => late' \in Nat
BY DEF Begin

(* Below the bound the clock may tick.                                     *)
LEMMA ClockTicks == ddl \in Clock /\ ddl < MaxDDL => ddl + 1 \in Clock
BY DEF Clock

(* The tables of one column query are among those still to be read.        *)
LEMMA BatchPending == \A ts \in Batch : ts \subseteq pending
<1> CASE settings.DbType = "sqlite3"
  BY DEF Batch
<1> CASE settings.DbType # "sqlite3"
  BY DEF Batch
<1> QED
  OBVIOUS

(* What a write leaves in a file is well-formed when there is a table at   *)
(* hand.                                                                   *)
LEMMA ContentTyped ==
  ASSUME TypeOK, cur \in Table
  PROVE  /\ Truncated \in Content /\ Completed \in Content /\ OutFile \in File
         /\ Truncated.kind = "torn" /\ Completed.kind = "whole"
         /\ Truncated.table = cur /\ Completed.table = cur
         /\ Completed.columns = loaded[cur].columns
         /\ Truncated.read = loaded[cur].read /\ Completed.read = loaded[cur].read
BY DEF TypeOK, Truncated, Completed, Content, InMemory, Kinds, OutFile

(* In the body of a loop there is a table at hand.                         *)
HasTable == pc \in {"ForceGetColumns", "Create", "Write", "WriteContent"} => cur \in Table

Typed == TypeOK /\ HasTable

(* Every variable keeps its type, and the steps that work on a table have  *)
(* one.                                                                    *)
LEMMA TypedInv == Spec => []Typed
<1>1. Init => Typed
  <2> SUFFICES ASSUME Init PROVE Typed
    OBVIOUS
  <2>1. 0 \in Clock
    BY DEF Clock
  <2>2. \A t \in Table : loaded[t] \in InMemory
    BY <2>1 DEF Init, InMemory, Columns
  <2>3. \A k \in Leftovers : Leftover(k) \in Content
    BY <2>1 DEF Leftover, Content, Columns, Kinds
  <2>4. disk \in [File -> Content]
    <3>1. \A f \in File : disk[f] \in {Leftover(k) : k \in Leftovers}
      BY DEF Init
    <3>2. \A f \in File : disk[f] \in Content
      BY <2>3, <3>1
    <3> QED
      BY <3>2 DEF Init
  <2>5. loaded \in [Table -> InMemory]
    BY <2>2 DEF Init
  <2> QED
    BY <2>1, <2>4, <2>5 DEF Init, Typed, TypeOK, HasTable, PCs, Results
<1>2. Typed /\ [Next]_vars => Typed'
  <2> SUFFICES ASSUME Typed, [Next]_vars PROVE Typed'
    OBVIOUS
  <2> USE DEF Typed, TypeOK, HasTable, PCs, Results, Goto, Return, envVars,
              dataVars, history, ctlVars
  <2>1. CASE GetTables
    BY <2>1, BeginTyped DEF GetTables, Matching, MaySucceed
  <2>2. CASE GetTablesFails
    BY <2>2, BeginTyped DEF GetTablesFails
  <2>3. CASE GetColumns
    <3>1. CASE GetColumnsOfTables
      <4>1. PICK ts \in Batch : Fetch(ts) /\ pending' = pending \ ts
        BY <3>1 DEF GetColumnsOfTables
      <4>2. ts \in SUBSET Table
        BY <4>1, BatchPending
      <4> QED
        BY <3>1, <4>1, <4>2, ReadTyped, BeginTyped DEF GetColumnsOfTables, Fetch
    <3>2. CASE GetColumnsOfTablesFails
      <4>1. PICK ts \in Batch : FailToFetch(ts)
        BY <3>2 DEF GetColumnsOfTablesFails
      <4>2. ts \in SUBSET Table
        BY <4>1, BatchPending
      <4> QED
        BY <3>2, <4>1, <4>2, ReadTyped, BeginTyped DEF GetColumnsOfTablesFails, FailToFetch
    <3>3. CASE ColumnsFetched
      BY <3>3 DEF ColumnsFetched
    <3>4. CASE ForceLoop
      BY <3>4 DEF ForceLoop, NextTable
    <3>5. CASE ForceLoopCancelled
      BY <3>5 DEF ForceLoopCancelled, StopAtTable
    <3>6. CASE ForceLoopEnds
      BY <3>6 DEF ForceLoopEnds
    <3>7. CASE ForceGetColumns
      <4>1. cur \in Table
        BY <3>7 DEF ForceGetColumns
      <4> QED
        BY <3>7, <4>1, ReadTyped, BeginTyped DEF ForceGetColumns, Fetch
    <3>8. CASE ForceGetColumnsFails
      <4>1. cur \in Table
        BY <3>8 DEF ForceGetColumnsFails
      <4> QED
        BY <3>8, <4>1, ReadTyped, BeginTyped DEF ForceGetColumnsFails, FailToFetch
    <3> QED
      BY <2>3, <3>1, <3>2, <3>3, <3>4, <3>5, <3>6, <3>7, <3>8 DEF GetColumns
  <2>4. CASE WriteStructs
    <3>1. CASE Loop
      BY <3>1 DEF Loop, NextTable
    <3>2. CASE LoopCancelled
      BY <3>2 DEF LoopCancelled, StopAtTable
    <3>3. CASE LoopEnds
      BY <3>3 DEF LoopEnds
    <3>4. CASE CreateTableStruct
      BY <3>4 DEF CreateTableStruct
    <3>5. CASE CreateTableStructFails
      BY <3>5 DEF CreateTableStructFails, Skip
    <3>6. CASE Open
      BY <3>6, ContentTyped, BeginTyped DEF Open
    <3>7. CASE WriteRefused
      BY <3>7, BeginTyped DEF WriteRefused, Skip
    <3>8. CASE WriteContent
      BY <3>8, ContentTyped DEF WriteContent
    <3>9. CASE WriteContentFails
      <4>1. PICK c \in {Truncated, Completed} : disk' = [disk EXCEPT ![OutFile] = c]
        BY <3>9 DEF WriteContentFails
      <4>2. disk' \in [File -> Content]
        <5>1. c \in Content /\ OutFile \in File
          BY <3>9, <4>1, ContentTyped DEF WriteContentFails
        <5> QED
          BY <4>1, <5>1
      <4> QED
        BY <3>9, <4>2 DEF WriteContentFails, Skip
    <3> QED
      BY <2>4, <3>1, <3>2, <3>3, <3>4, <3>5, <3>6, <3>7, <3>8, <3>9 DEF WriteStructs
  <2>5. CASE Cancel
    BY <2>5 DEF Cancel
  <2>6. CASE AlterTable
    <3>1. PICK t \in Table, c \in Columns : catalog' = [catalog EXCEPT ![t] = c]
      BY <2>6 DEF AlterTable
    <3>2. ddl' \in Clock
      BY <2>6, ClockTicks DEF AlterTable
    <3> QED
      BY <2>6, <3>1, <3>2 DEF AlterTable
  <2>7. CASE UNCHANGED vars
    BY <2>7 DEF vars
  <2> QED
    BY <2>1, <2>2, <2>3, <2>4, <2>5, <2>6, <2>7 DEF Next, Run, Environment
<1> QED
  BY <1>1, <1>2, PTL DEF Spec

(* Every variable of the run keeps its type, whatever the settings and the *)
(* tables are.                                                             *)
THEOREM TypeCorrect == Spec => []TypeOK
<1>1. Typed => TypeOK
  BY DEF Typed
<1> QED
  BY <1>1, TypedInv, PTL

-----------------------------------------------------------------------------
(* The inductive invariant, in parts.                                      *)

Fetching == pc \in {"ForceLoop", "ForceGetColumns"}
Writing  == pc \in {"Loop", "Create", "Write", "WriteContent"}
InHand   == IF pc \in {"ForceGetColumns", "Create", "Write", "WriteContent"} THEN {cur} ELSE {}
Reported == {t \in Table : report[t] # ""}

(* What the place in the code says of the bookkeeping.                     *)
Phases ==
  /\ pc = "Returned" <=> result # "none"
  /\ pc = "GetTables" => listed = {}
  /\ pc \in {"GetTables", "GetColumns"} => kept = {} /\ Reported = {}
  /\ pc = "GetColumns" => ~settings.Force
  /\ Fetching => settings.Force
  /\ Fetching \/ pc \in {"GetTables", "GetColumns"} =>
       written = {} /\ \A f \in File : disk[f].table = NoTable

(* Every listed table is still to come, in hand, written or reported; and  *)
(* a table is settled only once.                                           *)
Accounts ==
  /\ pending \subseteq listed
  /\ kept \subseteq listed
  /\ InHand \subseteq listed \ pending
  /\ pc = "ForceGetColumns" => cur \notin kept
  /\ Fetching =>
       /\ pending \cap kept = {}
       /\ listed \subseteq pending \cup kept \cup InHand \cup Reported
       /\ (pending \cup kept \cup InHand) \cap Reported = {}
  /\ Writing =>
       /\ pending \cup InHand \subseteq kept
       /\ listed \subseteq pending \cup InHand \cup Reported \cup written
       /\ (pending \cup InHand) \cap (Reported \cup written) = {}
  /\ result = "ok" => listed \subseteq Reported \cup written

(* The columns in memory of every table that is kept are complete, and     *)
(* what is about to be written was accepted.                               *)
Sources ==
  /\ pc = "GetColumns" => \A t \in listed \ pending : loaded[t].state = "whole"
  /\ \A t \in kept : loaded[t].state = "whole"
  /\ pc \in {"Write", "WriteContent"} => Struct \notin Rejected
  /\ pc = "WriteContent" => Struct \notin Malformed

(* The signal stops the loops at their next poll; a column query it made   *)
(* fail leaves a run only a way out that writes nothing.                   *)
Interruption ==
  /\ late \in {0, 1}
  /\ late = 1 => cancelled /\ pc \in {"ForceLoop", "Loop", "WriteContent", "Returned"}
  /\ interrupted # {} =>
       /\ cancelled
       /\ written = {}
       /\ pc \in {"ForceLoop", "Loop", "Returned"}
       /\ pc = "Loop" => settings.Force /\ pending = kept
       /\ result = "ok" => settings.Force /\ kept = {}

(* One query for all tables leaves them with one date.                     *)
SameRead(ts) == \A t, u \in ts : loaded[t].read = loaded[u].read

(* What is on disk of this run comes from a kept table as it is in memory. *)
Snapshot ==
  /\ ~settings.Force /\ settings.DbType # "sqlite3" =>
       /\ SameRead(kept)
       /\ pc = "GetColumns" => pending = listed \/ (pending = {} /\ SameRead(listed))
  /\ \A f \in File : disk[f].table # NoTable =>
       disk[f].table \in kept /\ disk[f].read = loaded[disk[f].table].read

(* The file of a written table holds its struct, unless a table of the     *)
(* same file name came after it.                                           *)
HasFile(t) ==
  LET c == disk[FileName[t]]
  IN \/ c.kind = "whole" /\ c.table = t /\ c.columns = loaded[t].columns
     \/ c.table \in listed \ {t} /\ FileName[c.table] = FileName[t]

Files == \A t \in written : HasFile(t)

(* A report puts its table among the reported ones and moves no other.     *)
LEMMA ReportedGrows ==
  ASSUME TypeOK, NEW t \in Table, NEW what \in {"columns", "create", "write"},
         report' = [report EXCEPT ![t] = what]
  PROVE  Reported' = Reported \cup {t}
<1>1. report \in [Table -> {"", "columns", "create", "write"}]
  BY DEF TypeOK
<1>2. \A u \in Table : report'[u] = IF u = t THEN what ELSE report[u]
  BY <1>1
<1> QED
  BY <1>2 DEF Reported

(* A failed step of the write loop reports its table or ends the run.      *)
LEMMA SkipReports ==
  ASSUME Typed, NEW what \in {"create", "write"}, Skip(what), cur \in Table
  PROVE  \/ pc' = "Loop" /\ result' = result /\ Reported' = Reported \cup {cur}
         \/ pc' = "Returned" /\ result' = what /\ Reported' = Reported
<1>1. CASE settings.Force
  BY <1>1, ReportedGrows DEF Typed, Skip, Goto
<1>2. CASE ~settings.Force
  BY <1>2 DEF Skip, Return, Reported
<1> QED
  BY <1>1, <1>2

(* No file comes from this run before it has started.                      *)
LEMMA InitialFiles == Init => \A f \in File : disk[f].table = NoTable
<1> SUFFICES ASSUME Init, NEW f \in File PROVE disk[f].table = NoTable
  OBVIOUS
<1>1. disk[f] \in {Leftover(k) : k \in Leftovers}
  BY DEF Init
<1> QED
  BY <1>1 DEF Leftover

LEMMA PhasesInv == Spec => []Phases
<1>1. Init => Phases
  BY InitialFiles DEF Init, Phases, Fetching, Reported
<1>2. Typed /\ Phases /\ [Next]_vars => Phases'
  <2> SUFFICES ASSUME Typed, Phases, [Next]_vars PROVE Phases'
    OBVIOUS
  <2> USE DEF Typed, TypeOK, Phases, Fetching, Reported, Goto, Return, envVars, ctlVars,
              dataVars, history
  <2>1. CASE GetTables
    BY <2>1 DEF GetTables
  <2>2. CASE GetTablesFails
    BY <2>2 DEF GetTablesFails
  <2>3. CASE GetColumnsOfTables
    BY <2>3 DEF GetColumnsOfTables, Fetch
  <2>4. CASE GetColumnsOfTablesFails
    BY <2>4 DEF GetColumnsOfTablesFails, FailToFetch
  <2>5. CASE ColumnsFetched
    BY <2>5 DEF ColumnsFetched
  <2>6. CASE ForceLoop
    BY <2>6 DEF ForceLoop, NextTable
  <2>7. CASE ForceLoopCancelled
    BY <2>7 DEF ForceLoopCancelled, StopAtTable
  <2>8. CASE ForceLoopEnds
    BY <2>8 DEF ForceLoopEnds
  <2>9. CASE ForceGetColumns
    BY <2>9 DEF ForceGetColumns, Fetch
  <2>10. CASE ForceGetColumnsFails
    BY <2>10 DEF ForceGetColumnsFails, FailToFetch
  <2>11. CASE Loop
    BY <2>11 DEF Loop, NextTable
  <2>12. CASE LoopCancelled
    BY <2>12 DEF LoopCancelled, StopAtTable
  <2>13. CASE LoopEnds
    BY <2>13 DEF LoopEnds
  <2>14. CASE CreateTableStruct
    BY <2>14 DEF CreateTableStruct
  <2>15. CASE CreateTableStructFails
    BY <2>15 DEF CreateTableStructFails, Skip
  <2>16. CASE Open
    BY <2>16 DEF Open
  <2>17. CASE WriteRefused
    BY <2>17 DEF WriteRefused, Skip
  <2>18. CASE WriteContent
    BY <2>18 DEF WriteContent
  <2>19. CASE WriteContentFails
    BY <2>19 DEF WriteContentFails, Skip
  <2>20. CASE Cancel
    BY <2>20 DEF Cancel
  <2>21. CASE AlterTable
    BY <2>21 DEF AlterTable
  <2>22. CASE UNCHANGED vars
    BY <2>22 DEF vars
  <2> QED
    BY <2>1, <2>2, <2>3, <2>4, <2>5, <2>6, <2>7, <2>8, <2>9, <2>10, <2>11,
       <2>12, <2>13, <2>14, <2>15, <2>16, <2>17, <2>18, <2>19, <2>20, <2>21,
       <2>22
       DEF Next, Run, GetColumns, WriteStructs, Environment
<1> QED
  BY <1>1, <1>2, TypedInv, PTL DEF Spec

LEMMA AccountsInv == Spec => []Accounts
<1>1. Init => Accounts
  BY DEF Init, Accounts, Fetching, Writing, InHand
<1>2. Typed /\ Phases /\ Accounts /\ [Next]_vars => Accounts'
  <2> SUFFICES ASSUME Typed, Phases, Accounts, [Next]_vars PROVE Accounts'
    OBVIOUS
  <2> USE DEF HasTable, Phases, Accounts, Fetching, Writing, InHand, Goto, Return, envVars, ctlVars,
              dataVars, history
  <2>0. /\ listed \subseteq Table /\ HasTable
        /\ report' = report => Reported' = Reported
    <3>1. listed \subseteq Table /\ HasTable
      BY DEF Typed, TypeOK
    <3>2. report' = report => Reported' = Reported
      BY Zenon DEF Reported
    <3> QED
      BY <3>1, <3>2
  <2>1. CASE GetTables
    BY <2>1, <2>0 DEF GetTables
  <2>2. CASE GetTablesFails
    BY <2>2, <2>0 DEF GetTablesFails
  <2>3. CASE GetColumnsOfTables
    BY <2>3, <2>0 DEF GetColumnsOfTables, Fetch
  <2>4. CASE GetColumnsOfTablesFails
    BY <2>4, <2>0 DEF GetColumnsOfTablesFails, FailToFetch
  <2>5. CASE ColumnsFetched
    BY <2>5, <2>0 DEF ColumnsFetched
  <2>6. CASE ForceLoop
    <3>1. PICK t \in pending : cur' = t /\ pending' = pending \ {t}
      BY <2>6 DEF ForceLoop, NextTable
    <3> QED
      BY <2>6, <3>1, <2>0 DEF ForceLoop, NextTable
  <2>7. CASE ForceLoopCancelled
    BY <2>7, <2>0 DEF ForceLoopCancelled, StopAtTable
  <2>8. CASE ForceLoopEnds
    BY <2>8, <2>0 DEF ForceLoopEnds
  <2>9. CASE ForceGetColumns
    BY <2>9, <2>0 DEF ForceGetColumns, Fetch
  <2>10. CASE ForceGetColumnsFails
    <3>1. Reported' = Reported \cup {cur}
      BY <2>10, <2>0, ReportedGrows DEF ForceGetColumnsFails, Typed
    <3> QED
      BY <2>10, <3>1, <2>0 DEF ForceGetColumnsFails
  <2>11. CASE Loop
    <3>1. PICK t \in pending : cur' = t /\ pending' = pending \ {t}
      BY <2>11 DEF Loop, NextTable
    <3> QED
      BY <2>11, <3>1, <2>0 DEF Loop, NextTable
  <2>12. CASE LoopCancelled
    BY <2>12, <2>0 DEF LoopCancelled, StopAtTable
  <2>13. CASE LoopEnds
    BY <2>13, <2>0 DEF LoopEnds
  <2>14. CASE CreateTableStruct
    BY <2>14, <2>0 DEF CreateTableStruct
  <2>15. CASE CreateTableStructFails
    <3>1. cur \in Table /\ Skip("create")
      BY <2>15, <2>0 DEF CreateTableStructFails
    <3> QED
      BY <2>15, <3>1, <2>0, SkipReports DEF CreateTableStructFails
  <2>16. CASE Open
    BY <2>16, <2>0 DEF Open
  <2>17. CASE WriteRefused
    <3>1. cur \in Table /\ Skip("write")
      BY <2>17, <2>0 DEF WriteRefused
    <3> QED
      BY <2>17, <3>1, <2>0, SkipReports DEF WriteRefused
  <2>18. CASE WriteContent
    BY <2>18, <2>0 DEF WriteContent
  <2>19. CASE WriteContentFails
    <3>1. cur \in Table /\ Skip("write")
      BY <2>19, <2>0 DEF WriteContentFails
    <3> QED
      BY <2>19, <3>1, <2>0, SkipReports DEF WriteContentFails
  <2>20. CASE Cancel
    BY <2>20, <2>0 DEF Cancel
  <2>21. CASE AlterTable
    BY <2>21, <2>0 DEF AlterTable
  <2>22. CASE UNCHANGED vars
    BY <2>22, <2>0 DEF vars
  <2> QED
    BY <2>1, <2>2, <2>3, <2>4, <2>5, <2>6, <2>7, <2>8, <2>9, <2>10, <2>11,
       <2>12, <2>13, <2>14, <2>15, <2>16, <2>17, <2>18, <2>19, <2>20, <2>21,
       <2>22
       DEF Next, Run, GetColumns, WriteStructs, Environment
<1> QED
  BY <1>1, <1>2, TypedInv, PhasesInv, PTL DEF Spec

(* A query changes the columns of its own tables only; one that went well  *)
(* makes them complete, as of now.                                         *)
LEMMA FetchEffect ==
  ASSUME NEW ts \in SUBSET Table, Fetch(ts)
  PROVE  /\ ~cancelled /\ interrupted' = interrupted
         /\ \A t \in ts : loaded'[t].state = "whole" /\ loaded'[t].read = ddl
         /\ \A t \in Table \ ts : loaded'[t] = loaded[t]
BY DEF Fetch, MaySucceed, ReadAll, Read

LEMMA FailToFetchEffect ==
  ASSUME NEW ts \in SUBSET Table, FailToFetch(ts)
  PROVE  /\ ~cancelled => interrupted' = interrupted
         /\ \A t \in Table \ ts : loaded'[t] = loaded[t]
BY DEF FailToFetch, ReadSome

LEMMA SourcesInv == Spec => []Sources
<1>1. Init => Sources
  BY DEF Init, Sources
<1>2. Typed /\ Phases /\ Accounts /\ Sources /\ [Next]_vars => Sources'
  <2> SUFFICES ASSUME Typed, Phases, Accounts, Sources, [Next]_vars PROVE Sources'
    OBVIOUS
  <2> USE DEF Sources, Struct, Goto, Return, envVars, ctlVars, dataVars, history
  <2>0. /\ HasTable /\ listed \subseteq Table /\ pending \subseteq Table /\ kept \subseteq listed
        /\ pc \in {"GetTables", "GetColumns"} => kept = {}
        /\ pc = "ForceGetColumns" => cur \in Table \ kept
    BY DEF Typed, TypeOK, HasTable, Phases, Accounts
  <2>1. CASE GetTables
    BY <2>1, <2>0 DEF GetTables
  <2>2. CASE GetTablesFails
    BY <2>2, <2>0 DEF GetTablesFails
  <2>3. CASE GetColumnsOfTables
    <3>1. PICK ts \in Batch : Fetch(ts) /\ pending' = pending \ ts
      BY <2>3 DEF GetColumnsOfTables
    <3>2. ts \in SUBSET Table
      BY <3>1, <2>0, BatchPending
    <3> QED
      BY <2>3, <3>1, <3>2, <2>0, FetchEffect DEF GetColumnsOfTables
  <2>4. CASE GetColumnsOfTablesFails
    <3>1. PICK ts \in Batch : FailToFetch(ts)
      BY <2>4 DEF GetColumnsOfTablesFails
    <3>2. ts \in SUBSET Table
      BY <3>1, <2>0, BatchPending
    <3> QED
      BY <2>4, <3>1, <3>2, <2>0, FailToFetchEffect DEF GetColumnsOfTablesFails
  <2>5. CASE ColumnsFetched
    BY <2>5, <2>0 DEF ColumnsFetched
  <2>6. CASE ForceLoop
    <3>1. PICK t \in pending : cur' = t /\ pending' = pending \ {t}
      BY <2>6 DEF ForceLoop, NextTable
    <3> QED
      BY <2>6, <3>1, <2>0 DEF ForceLoop, NextTable
  <2>7. CASE ForceLoopCancelled
    BY <2>7, <2>0 DEF ForceLoopCancelled, StopAtTable
  <2>8. CASE ForceLoopEnds
    BY <2>8, <2>0 DEF ForceLoopEnds
  <2>9. CASE ForceGetColumns
    <3>1. cur \in Table \ kept /\ Fetch({cur})
      BY <2>9, <2>0 DEF ForceGetColumns
    <3> QED
      BY <2>9, <3>1, <2>0, FetchEffect DEF ForceGetColumns
  <2>10. CASE ForceGetColumnsFails
    <3>1. cur \in Table \ kept /\ FailToFetch({cur})
      BY <2>10, <2>0 DEF ForceGetColumnsFails
    <3> QED
      BY <2>10, <3>1, <2>0, FailToFetchEffect DEF ForceGetColumnsFails
  <2>11. CASE Loop
    <3>1. PICK t \in pending : cur' = t /\ pending' = pending \ {t}
      BY <2>11 DEF Loop, NextTable
    <3> QED
      BY <2>11, <3>1, <2>0 DEF Loop, NextTable
  <2>12. CASE LoopCancelled
    BY <2>12, <2>0 DEF LoopCancelled, StopAtTable
  <2>13. CASE LoopEnds
    BY <2>13, <2>0 DEF LoopEnds
  <2>14. CASE CreateTableStruct
    BY <2>14, <2>0 DEF CreateTableStruct
  <2>15. CASE CreateTableStructFails
    <3>1. pc' \in {"Loop", "Returned"}
      BY <2>15 DEF CreateTableStructFails, Skip
    <3> QED
      BY <2>15, <3>1, <2>0 DEF CreateTableStructFails
  <2>16. CASE Open
    BY <2>16, <2>0 DEF Open
  <2>17. CASE WriteRefused
    <3>1. pc' \in {"Loop", "Returned"}
      BY <2>17 DEF WriteRefused, Skip
    <3> QED
      BY <2>17, <3>1, <2>0 DEF WriteRefused
  <2>18. CASE WriteContent
    BY <2>18, <2>0 DEF WriteContent
  <2>19. CASE WriteContentFails
    <3>1. pc' \in {"Loop", "Returned"}
      BY <2>19 DEF WriteContentFails, Skip
    <3> QED
      BY <2>19, <3>1, <2>0 DEF WriteContentFails
  <2>20. CASE Cancel
    BY <2>20, <2>0 DEF Cancel
  <2>21. CASE AlterTable
    BY <2>21, <2>0 DEF AlterTable
  <2>22. CASE UNCHANGED vars
    BY <2>22, <2>0 DEF vars
  <2> QED
    BY <2>1, <2>2, <2>3, <2>4, <2>5, <2>6, <2>7, <2>8, <2>9, <2>10, <2>11,
       <2>12, <2>13, <2>14, <2>15, <2>16, <2>17, <2>18, <2>19, <2>20, <2>21,
       <2>22
       DEF Next, Run, GetColumns, WriteStructs, Environment
<1> QED
  BY <1>1, <1>2, TypedInv, PhasesInv, AccountsInv, PTL DEF Spec

LEMMA InterruptionInv == Spec => []Interruption
<1>1. Init => Interruption
  <2>1. Init => late = 0 /\ interrupted = {}
    BY DEF Init
  <2> QED
    BY <2>1 DEF Interruption
<1>2. Typed /\ Phases /\ Accounts /\ Interruption /\ [Next]_vars => Interruption'
  <2> SUFFICES ASSUME Typed, Phases, Accounts, Interruption, [Next]_vars PROVE Interruption'
    OBVIOUS
  <2> USE DEF Interruption, Begin, Goto, Return, envVars, ctlVars, dataVars, history
  <2>0. /\ HasTable /\ pending \subseteq Table
        /\ Fetching => settings.Force /\ written = {}
        /\ pc \in {"GetTables", "GetColumns"} => written = {}
        /\ pc = "Returned" <=> result # "none"
        /\ result \in Results
    BY DEF Typed, TypeOK, HasTable, Phases
  <2> USE DEF HasTable, Fetching
  <2>1. CASE GetTables
    BY <2>1, <2>0 DEF GetTables, MaySucceed
  <2>2. CASE GetTablesFails
    BY <2>2, <2>0 DEF GetTablesFails
  <2>3. CASE GetColumnsOfTables
    <3>1. PICK ts \in Batch : Fetch(ts) /\ pending' = pending \ ts
      BY <2>3 DEF GetColumnsOfTables
    <3>2. ts \in SUBSET Table
      BY <3>1, <2>0, BatchPending
    <3> QED
      BY <2>3, <3>1, <3>2, <2>0, FetchEffect DEF GetColumnsOfTables
  <2>4. CASE GetColumnsOfTablesFails
    <3>1. PICK ts \in Batch : FailToFetch(ts)
      BY <2>4 DEF GetColumnsOfTablesFails
    <3>2. ts \in SUBSET Table
      BY <3>1, <2>0, BatchPending
    <3> QED
      BY <2>4, <3>1, <3>2, <2>0, FailToFetchEffect DEF GetColumnsOfTablesFails
  <2>5. CASE ColumnsFetched
    BY <2>5, <2>0 DEF ColumnsFetched
  <2>6. CASE ForceLoop
    <3>1. ~cancelled
      BY <2>6 DEF ForceLoop, NextTable, Poll
    <3> QED
      BY <2>6, <3>1, <2>0 DEF ForceLoop, NextTable
  <2>7. CASE ForceLoopCancelled
    BY <2>7, <2>0 DEF ForceLoopCancelled, StopAtTable
  <2>8. CASE ForceLoopEnds
    BY <2>8, <2>0 DEF ForceLoopEnds
  <2>9. CASE ForceGetColumns
    <3>1. cur \in Table /\ Fetch({cur})
      BY <2>9, <2>0 DEF ForceGetColumns
    <3> QED
      BY <2>9, <3>1, <2>0, FetchEffect DEF ForceGetColumns
  <2>10. CASE ForceGetColumnsFails
    <3>1. cur \in Table /\ FailToFetch({cur})
      BY <2>10, <2>0 DEF ForceGetColumnsFails
    <3> QED
      BY <2>10, <3>1, <2>0, FailToFetchEffect DEF ForceGetColumnsFails
  <2>11. CASE Loop
    <3>1. ~cancelled
      BY <2>11 DEF Loop, NextTable, Poll
    <3> QED
      BY <2>11, <3>1, <2>0 DEF Loop, NextTable
  <2>12. CASE LoopCancelled
    BY <2>12, <2>0 DEF LoopCancelled, StopAtTable
  <2>13. CASE LoopEnds
    BY <2>13, <2>0 DEF LoopEnds
  <2>14. CASE CreateTableStruct
    BY <2>14, <2>0 DEF CreateTableStruct
  <2>15. CASE CreateTableStructFails
    <3>1. pc' \in {"Loop", "Returned"}
      BY <2>15 DEF CreateTableStructFails, Skip
    <3> QED
      BY <2>15, <3>1, <2>0 DEF CreateTableStructFails
  <2>16. CASE Open
    BY <2>16, <2>0 DEF Open
  <2>17. CASE WriteRefused
    <3>1. pc' \in {"Loop", "Returned"}
      BY <2>17 DEF WriteRefused, Skip
    <3> QED
      BY <2>17, <3>1, <2>0 DEF WriteRefused
  <2>18. CASE WriteContent
    BY <2>18, <2>0 DEF WriteContent
  <2>19. CASE WriteContentFails
    <3>1. pc' \in {"Loop", "Returned"}
      BY <2>19 DEF WriteContentFails, Skip
    <3> QED
      BY <2>19, <3>1, <2>0 DEF WriteContentFails
  <2>20. CASE Cancel
    BY <2>20, <2>0 DEF Cancel
  <2>21. CASE AlterTable
    BY <2>21, <2>0 DEF AlterTable
  <2>22. CASE UNCHANGED vars
    BY <2>22, <2>0 DEF vars
  <2> QED
    BY <2>1, <2>2, <2>3, <2>4, <2>5, <2>6, <2>7, <2>8, <2>9, <2>10, <2>11,
       <2>12, <2>13, <2>14, <2>15, <2>16, <2>17, <2>18, <2>19, <2>20, <2>21,
       <2>22
       DEF Next, Run, GetColumns, WriteStructs, Environment
<1> QED
  BY <1>1, <1>2, TypedInv, PhasesInv, AccountsInv, PTL DEF Spec

LEMMA SnapshotInv == Spec => []Snapshot
<1>1. Init => Snapshot
  <2>1. Init => kept = {} /\ pc = "GetTables"
    BY DEF Init
  <2>2. Init => \A f \in File : disk[f].table = NoTable
    BY InitialFiles
  <2> QED
    BY <2>1, <2>2 DEF Snapshot, SameRead
<1>2. Typed /\ Phases /\ Accounts /\ Snapshot /\ [Next]_vars => Snapshot'
  <2> SUFFICES ASSUME Typed, Phases, Accounts, Snapshot, [Next]_vars PROVE Snapshot'
    OBVIOUS
  <2> USE DEF Snapshot, SameRead, Goto, Return, envVars, ctlVars, dataVars, history
  <2>0. /\ TypeOK /\ HasTable /\ listed \subseteq Table /\ pending \subseteq Table
        /\ disk \in [File -> Content] /\ kept \subseteq listed
        /\ pc \in {"GetTables", "GetColumns"} => kept = {}
        /\ pc = "GetColumns" => ~settings.Force
        /\ pc \in {"ForceLoop", "ForceGetColumns"} => settings.Force
        /\ pc \in {"GetTables", "GetColumns", "ForceLoop", "ForceGetColumns"} =>
             \A f \in File : disk[f].table = NoTable
        /\ pc = "ForceGetColumns" => cur \in Table \ kept
        /\ pc \in {"Create", "Write", "WriteContent"} => cur \in kept /\ cur \in Table
    BY DEF Typed, TypeOK, HasTable, Phases, Accounts, Fetching, Writing, InHand
  <2>1. CASE GetTables
    BY <2>1, <2>0 DEF GetTables
  <2>2. CASE GetTablesFails
    BY <2>2, <2>0 DEF GetTablesFails
  <2>3. CASE GetColumnsOfTables
    <3>1. PICK ts \in Batch : Fetch(ts) /\ pending' = pending \ ts
      BY <2>3 DEF GetColumnsOfTables
    <3>2. ts \in SUBSET Table
      BY <3>1, <2>0, BatchPending
    <3>3. settings.DbType # "sqlite3" => ts = pending
      BY <3>1 DEF Batch
    <3> QED
      BY <2>3, <3>1, <3>2, <3>3, <2>0, FetchEffect DEF GetColumnsOfTables
  <2>4. CASE GetColumnsOfTablesFails
    <3>1. PICK ts \in Batch : FailToFetch(ts)
      BY <2>4 DEF GetColumnsOfTablesFails
    <3>2. ts \in SUBSET Table
      BY <3>1, <2>0, BatchPending
    <3> QED
      BY <2>4, <3>1, <3>2, <2>0, FailToFetchEffect DEF GetColumnsOfTablesFails
  <2>5. CASE ColumnsFetched
    BY <2>5, <2>0 DEF ColumnsFetched
  <2>6. CASE ForceLoop
    <3>1. PICK t \in pending : cur' = t /\ pending' = pending \ {t}
      BY <2>6 DEF ForceLoop, NextTable
    <3> QED
      BY <2>6, <3>1, <2>0 DEF ForceLoop, NextTable
  <2>7. CASE ForceLoopCancelled
    BY <2>7, <2>0 DEF ForceLoopCancelled, StopAtTable
  <2>8. CASE ForceLoopEnds
    BY <2>8, <2>0 DEF ForceLoopEnds
  <2>9. CASE ForceGetColumns
    <3>1. cur \in Table \ kept /\ Fetch({cur})
      BY <2>9, <2>0 DEF ForceGetColumns
    <3> QED
      BY <2>9, <3>1, <2>0, FetchEffect DEF ForceGetColumns
  <2>10. CASE ForceGetColumnsFails
    <3>1. cur \in Table \ kept /\ FailToFetch({cur})
      BY <2>10, <2>0 DEF ForceGetColumnsFails
    <3> QED
      BY <2>10, <3>1, <2>0, FailToFetchEffect DEF ForceGetColumnsFails
  <2>11. CASE Loop
    <3>1. PICK t \in pending : cur' = t /\ pending' = pending \ {t}
      BY <2>11 DEF Loop, NextTable
    <3> QED
      BY <2>11, <3>1, <2>0 DEF Loop, NextTable
  <2>12. CASE LoopCancelled
    BY <2>12, <2>0 DEF LoopCancelled, StopAtTable
  <2>13. CASE LoopEnds
    BY <2>13, <2>0 DEF LoopEnds
  <2>14. CASE CreateTableStruct
    BY <2>14, <2>0 DEF CreateTableStruct
  <2>15. CASE CreateTableStructFails
    <3>1. pc' \in {"Loop", "Returned"}
      BY <2>15 DEF CreateTableStructFails, Skip
    <3> QED
      BY <2>15, <3>1, <2>0 DEF CreateTableStructFails
  <2>16. CASE Open
    <3>1. cur \in kept /\ cur \in Table
      BY <2>16, <2>0 DEF Open
    <3> QED
      BY <2>16, <3>1, <2>0, ContentTyped DEF Open
  <2>17. CASE WriteRefused
    <3>1. pc' \in {"Loop", "Returned"}
      BY <2>17 DEF WriteRefused, Skip
    <3> QED
      BY <2>17, <3>1, <2>0 DEF WriteRefused
  <2>18. CASE WriteContent
    <3>1. cur \in kept /\ cur \in Table
      BY <2>18, <2>0 DEF WriteContent
    <3> QED
      BY <2>18, <3>1, <2>0, ContentTyped DEF WriteContent
  <2>19. CASE WriteContentFails
    <3>1. cur \in kept /\ cur \in Table
      BY <2>19, <2>0 DEF WriteContentFails
    <3>2. PICK c \in {Truncated, Completed} : disk' = [disk EXCEPT ![OutFile] = c]
      BY <2>19 DEF WriteContentFails
    <3>3. pc' \in {"Loop", "Returned"}
      BY <2>19 DEF WriteContentFails, Skip
    <3> QED
      BY <2>19, <3>1, <3>2, <3>3, <2>0, ContentTyped DEF WriteContentFails
  <2>20. CASE Cancel
    BY <2>20, <2>0 DEF Cancel
  <2>21. CASE AlterTable
    BY <2>21, <2>0 DEF AlterTable
  <2>22. CASE UNCHANGED vars
    BY <2>22, <2>0 DEF vars
  <2> QED
    BY <2>1, <2>2, <2>3, <2>4, <2>5, <2>6, <2>7, <2>8, <2>9, <2>10, <2>11,
       <2>12, <2>13, <2>14, <2>15, <2>16, <2>17, <2>18, <2>19, <2>20, <2>21,
       <2>22
       DEF Next, Run, GetColumns, WriteStructs, Environment
<1> QED
  BY <1>1, <1>2, TypedInv, PhasesInv, AccountsInv, PTL DEF Spec

(* The file of a table is not disturbed by steps that leave the disk, the  *)
(* memory and the list alone, and one that writes the table at hand takes  *)
(* it only when both have the same file name.                              *)
LEMMA HasFileStable ==
  ASSUME UNCHANGED <<disk, loaded, listed>>, NEW t \in Table, HasFile(t)
  PROVE  HasFile(t)'
BY DEF HasFile

LEMMA HasFileOverwritten ==
  ASSUME TypeOK, cur \in listed, cur \in Table, NEW c, c.table = cur,
         disk' = [disk EXCEPT ![OutFile] = c], UNCHANGED <<loaded, listed>>,
         NEW t \in Table \ {cur}, HasFile(t)
  PROVE  HasFile(t)'
<1>0. disk \in [File -> Content] /\ FileName[t] \in File /\ OutFile \in File
  BY DEF TypeOK, OutFile
<1>1. CASE FileName[t] = OutFile
  <2>1. disk'[FileName[t]] = c
    BY <1>0, <1>1
  <2> QED
    BY <1>1, <2>1 DEF HasFile, OutFile
<1>2. CASE FileName[t] # OutFile
  <2>1. disk'[FileName[t]] = disk[FileName[t]]
    BY <1>0, <1>2
  <2> QED
    BY <2>1 DEF HasFile
<1> QED
  BY <1>1, <1>2

LEMMA FilesInv == Spec => []Files
<1>1. Init => Files
  BY DEF Init, Files
<1>2. Typed /\ Phases /\ Accounts /\ Files /\ [Next]_vars => Files'
  <2> SUFFICES ASSUME Typed, Phases, Accounts, Files, [Next]_vars PROVE Files'
    OBVIOUS
  <2> USE DEF Files, Goto, Return, envVars, ctlVars, dataVars, history
  <2>0. /\ TypeOK /\ disk \in [File -> Content] /\ written \subseteq Table
        /\ pc \in {"GetTables", "GetColumns", "ForceLoop", "ForceGetColumns"} => written = {}
        /\ pc \in {"Create", "Write", "WriteContent"} => cur \in listed \ written /\ cur \in Table
    BY DEF Typed, TypeOK, HasTable, Phases, Accounts, Fetching, Writing, InHand
  <2>1. CASE GetTables
    BY <2>1, <2>0, HasFileStable DEF GetTables
  <2>2. CASE GetTablesFails
    BY <2>2, <2>0, HasFileStable DEF GetTablesFails
  <2>3. CASE GetColumnsOfTables
    BY <2>3, <2>0 DEF GetColumnsOfTables
  <2>4. CASE GetColumnsOfTablesFails
    BY <2>4, <2>0 DEF GetColumnsOfTablesFails
  <2>5. CASE ColumnsFetched
    BY <2>5, <2>0, HasFileStable DEF ColumnsFetched
  <2>6. CASE ForceLoop
    BY <2>6, <2>0, HasFileStable DEF ForceLoop, NextTable
  <2>7. CASE ForceLoopCancelled
    BY <2>7, <2>0, HasFileStable DEF ForceLoopCancelled, StopAtTable
  <2>8. CASE ForceLoopEnds
    BY <2>8, <2>0, HasFileStable DEF ForceLoopEnds
  <2>9. CASE ForceGetColumns
    BY <2>9, <2>0, HasFileStable DEF ForceGetColumns, Fetch
  <2>10. CASE ForceGetColumnsFails
    BY <2>10, <2>0, HasFileStable DEF ForceGetColumnsFails, FailToFetch
  <2>11. CASE Loop
    BY <2>11, <2>0, HasFileStable DEF Loop, NextTable
  <2>12. CASE LoopCancelled
    BY <2>12, <2>0, HasFileStable DEF LoopCancelled, StopAtTable
  <2>13. CASE LoopEnds
    BY <2>13, <2>0, HasFileStable DEF LoopEnds
  <2>14. CASE CreateTableStruct
    BY <2>14, <2>0, HasFileStable DEF CreateTableStruct
  <2>15. CASE CreateTableStructFails
    BY <2>15, <2>0, HasFileStable DEF CreateTableStructFails, Skip
  <2>16. CASE Open
    <3>1. PICK c \in {Truncated, Completed} : disk' = [disk EXCEPT ![OutFile] = c]
      BY <2>16 DEF Open
    <3>2. c.table = cur /\ cur \in listed \ written /\ cur \in Table
      BY <2>16, <3>1, <2>0, ContentTyped DEF Open
    <3> QED
      BY <2>16, <3>1, <3>2, <2>0, HasFileOverwritten DEF Open
  <2>17. CASE WriteRefused
    BY <2>17, <2>0, HasFileStable DEF WriteRefused, Skip
  <2>18. CASE WriteContent
    <3>1. /\ disk' = [disk EXCEPT ![OutFile] = Completed] /\ cur \in listed \ written
          /\ OutFile \in File /\ Completed.table = cur /\ Completed.kind = "whole"
          /\ Completed.columns = loaded[cur].columns /\ cur \in Table
          /\ UNCHANGED <<loaded, listed>>
      BY <2>18, <2>0, ContentTyped DEF WriteContent
    <3>2. \A t \in written : HasFile(t)'
      BY <3>1, <2>0, HasFileOverwritten
    <3>3. HasFile(cur)'
      <4>1. disk'[FileName[cur]] = Completed
        BY <3>1, <2>0 DEF OutFile
      <4> QED
        BY <2>18, <3>1, <4>1 DEF HasFile, WriteContent
    <3>4. written' = written \cup {cur}
      BY <2>18 DEF WriteContent
    <3> QED
      BY <2>18, <3>2, <3>3, <3>4 DEF WriteContent
  <2>19. CASE WriteContentFails
    <3>1. PICK c \in {Truncated, Completed} : disk' = [disk EXCEPT ![OutFile] = c]
      BY <2>19 DEF WriteContentFails
    <3>2. c.table = cur /\ cur \in listed \ written /\ cur \in Table
      BY <2>19, <3>1, <2>0, ContentTyped DEF WriteContentFails
    <3>3. UNCHANGED <<loaded, listed, written>>
      BY <2>19 DEF WriteContentFails
    <3> QED
      BY <3>1, <3>2, <3>3, <2>0, HasFileOverwritten
  <2>20. CASE Cancel
    BY <2>20, <2>0, HasFileStable DEF Cancel
  <2>21. CASE AlterTable
    BY <2>21, <2>0, HasFileStable DEF AlterTable
  <2>22. CASE UNCHANGED vars
    <3>1. UNCHANGED <<disk, loaded, listed, written>>
      BY <2>22 DEF vars
    <3> QED
      BY <3>1, <2>0, HasFileStable
  <2> QED
    BY <2>1, <2>2, <2>3, <2>4, <2>5, <2>6, <2>7, <2>8, <2>9, <2>10, <2>11,
       <2>12, <2>13, <2>14, <2>15, <2>16, <2>17, <2>18, <2>19, <2>20, <2>21,
       <2>22
       DEF Next, Run, GetColumns, WriteStructs, Environment
<1> QED
  BY <1>1, <1>2, TypedInv, PhasesInv, AccountsInv, PTL DEF Spec

(* A file torn by this run is the one being written, or its table's        *)
(* failure was reported or ended the run.                                  *)
THEOREM TornFilesAreReported == Spec => []TornFileIsReported
<1>1. Init => TornFileIsReported
  BY InitialFiles DEF TornFileIsReported
<1>2. Typed /\ Phases /\ Accounts /\ TornFileIsReported /\ [Next]_vars => TornFileIsReported'
  <2> SUFFICES ASSUME Typed, Phases, Accounts, TornFileIsReported, [Next]_vars PROVE TornFileIsReported'
    OBVIOUS
  <2> USE DEF TornFileIsReported, Goto, Return, OutFile, envVars, ctlVars, dataVars, history
  <2>0. /\ TypeOK /\ HasTable /\ disk \in [File -> Content]
        /\ \A f \in File : disk[f].table \in Table \cup {NoTable}
        /\ report \in [Table -> {"", "columns", "create", "write"}]
        /\ result # "none" <=> pc = "Returned"
        /\ pc \in {"GetTables", "GetColumns", "ForceLoop", "ForceGetColumns"} =>
             \A f \in File : disk[f].table = NoTable
        /\ pc \in {"Create", "Write", "WriteContent"} => report[cur] = "" /\ cur \in Table
    BY DEF Typed, TypeOK, HasTable, Content, Phases, Accounts, Fetching, Writing, InHand, Reported
  <2>1. CASE GetTables
    BY <2>1, <2>0 DEF GetTables
  <2>2. CASE GetTablesFails
    BY <2>2, <2>0 DEF GetTablesFails
  <2>3. CASE GetColumnsOfTables
    BY <2>3, <2>0 DEF GetColumnsOfTables, Fetch
  <2>4. CASE GetColumnsOfTablesFails
    BY <2>4, <2>0 DEF GetColumnsOfTablesFails, FailToFetch
  <2>5. CASE ColumnsFetched
    BY <2>5, <2>0 DEF ColumnsFetched
  <2>6. CASE ForceLoop
    BY <2>6, <2>0 DEF ForceLoop, NextTable
  <2>7. CASE ForceLoopCancelled
    BY <2>7, <2>0 DEF ForceLoopCancelled, StopAtTable
  <2>8. CASE ForceLoopEnds
    BY <2>8, <2>0 DEF ForceLoopEnds
  <2>9. CASE ForceGetColumns
    BY <2>9, <2>0 DEF ForceGetColumns, Fetch
  <2>10. CASE ForceGetColumnsFails
    BY <2>10, <2>0 DEF ForceGetColumnsFails, FailToFetch
  <2>11. CASE Loop
    BY <2>11, <2>0 DEF Loop, NextTable
  <2>12. CASE LoopCancelled
    BY <2>12, <2>0 DEF LoopCancelled, StopAtTable
  <2>13. CASE LoopEnds
    BY <2>13, <2>0 DEF LoopEnds
  <2>14. CASE CreateTableStruct
    BY <2>14, <2>0 DEF CreateTableStruct
  <2>15. CASE CreateTableStructFails
    <3>1. cur \in Table /\ Skip("create")
      BY <2>15, <2>0 DEF CreateTableStructFails
    <3>2. \A t \in Table \ {cur} : report'[t] = report[t]
      BY <2>15, <3>1, <2>0 DEF Skip
    <3>3. disk' = disk /\ pc # "WriteContent" /\ report[cur] = "" /\ result = "none"
      BY <2>15, <2>0 DEF CreateTableStructFails
    <3> QED
      BY <3>1, <3>2, <3>3, <2>0
  <2>16. CASE Open
    <3>1. disk' = [disk EXCEPT ![OutFile] = Truncated] /\ OutFile \in File /\ OutFile' = OutFile
      BY <2>16, <2>0, ContentTyped DEF Open
    <3>2. \A f \in File \ {OutFile} : disk'[f] = disk[f]
      BY <3>1, <2>0
    <3>3. pc' = "WriteContent" /\ pc = "Write" /\ report' = report /\ result' = result
      BY <2>16 DEF Open
    <3> SUFFICES ASSUME NEW f \in File \ {OutFile}, disk'[f].kind = "torn", disk'[f].table # NoTable
                 PROVE  report'[disk'[f].table] = "write" \/ result' = "write"
      BY <3>1, <3>3
    <3>4. disk[f].kind = "torn" /\ disk[f].table # NoTable /\ disk'[f] = disk[f]
      BY <3>2
    <3> QED
      BY <3>3, <3>4
  <2>17. CASE WriteRefused
    <3>1. cur \in Table /\ Skip("write")
      BY <2>17, <2>0 DEF WriteRefused
    <3>2. \A t \in Table \ {cur} : report'[t] = report[t]
      BY <2>17, <3>1, <2>0 DEF Skip
    <3>3. disk' = disk /\ pc # "WriteContent" /\ report[cur] = "" /\ result = "none"
      BY <2>17, <2>0 DEF WriteRefused
    <3> QED
      BY <3>1, <3>2, <3>3, <2>0
  <2>18. CASE WriteContent
    <3>1. /\ disk' = [disk EXCEPT ![OutFile] = Completed] /\ OutFile \in File
          /\ Completed.kind = "whole"
      BY <2>18, <2>0, ContentTyped DEF WriteContent
    <3>2. \A f \in File \ {OutFile} : disk'[f] = disk[f]
      BY <3>1, <2>0
    <3>3. disk'[OutFile].kind = "whole"
      BY <3>1, <2>0
    <3> QED
      BY <2>18, <3>2, <3>3, <2>0 DEF WriteContent
  <2>19. CASE WriteContentFails
    <3>1. PICK c \in {Truncated, Completed} : disk' = [disk EXCEPT ![OutFile] = c]
      BY <2>19 DEF WriteContentFails
    <3>2. c.table = cur /\ cur \in Table /\ OutFile \in File
      BY <2>19, <3>1, <2>0, ContentTyped DEF WriteContentFails
    <3>3. \/ report' = [report EXCEPT ![cur] = "write"] /\ result' = result
          \/ report' = report /\ result' = "write"
      BY <2>19 DEF WriteContentFails, Skip
    <3>4. result = "none"
      BY <2>19, <2>0 DEF WriteContentFails
    <3>5. \A f \in File \ {OutFile} : disk'[f] = disk[f]
      BY <3>1, <2>0
    <3>6. disk'[OutFile] = c
      BY <3>1, <3>2, <2>0
    <3> SUFFICES ASSUME NEW f \in File, disk'[f].kind = "torn", disk'[f].table # NoTable
                 PROVE  report'[disk'[f].table] = "write" \/ result' = "write"
      OBVIOUS
    <3>7. CASE f = OutFile
      BY <3>7, <3>2, <3>3, <3>6, <2>0
    <3>8. CASE f # OutFile
      <4>1. disk[f].table \in Table /\ report[disk[f].table] = "write" /\ disk'[f] = disk[f]
        BY <3>8, <3>4, <3>5, <2>0
      <4> DEFINE t == disk[f].table
      <4>2. t \in Table /\ report[t] = "write" /\ disk'[f].table = t
        BY <4>1
      <4> HIDE DEF t
      <4>3. report'[t] = "write"
        BY <4>2, <3>3, <2>0
      <4> QED
        BY <4>2, <4>3
    <3> QED
      BY <3>7, <3>8
  <2>20. CASE Cancel
    BY <2>20, <2>0 DEF Cancel
  <2>21. CASE AlterTable
    BY <2>21, <2>0 DEF AlterTable
  <2>22. CASE UNCHANGED vars
    BY <2>22, <2>0 DEF vars
  <2> QED
    BY <2>1, <2>2, <2>3, <2>4, <2>5, <2>6, <2>7, <2>8, <2>9, <2>10, <2>11,
       <2>12, <2>13, <2>14, <2>15, <2>16, <2>17, <2>18, <2>19, <2>20, <2>21,
       <2>22
       DEF Next, Run, GetColumns, WriteStructs, Environment
<1> QED
  BY <1>1, <1>2, TypedInv, PhasesInv, AccountsInv, PTL DEF Spec

-----------------------------------------------------------------------------
(* What follows for every run.                                             *)

(* After a signal at most one more query or write begins.                  *)
THEOREM PromptlyCancelled == Spec => []PromptCancellation
<1>1. Interruption => PromptCancellation
  BY DEF Interruption, PromptCancellation
<1> QED
  BY <1>1, InterruptionInv, PTL

(* A run that swallowed an interruption and says "done!" wrote nothing.    *)
THEOREM SwallowedOnlyThen == Spec => []SwallowedOnlyWhenNothingIsLeft
<1>1. Interruption => SwallowedOnlyWhenNothingIsLeft
  BY DEF Interruption, SwallowedOnlyWhenNothingIsLeft
<1> QED
  BY <1>1, InterruptionInv, PTL

(* Without -f, the structs that Postgres and MySQL give describe one state *)
(* of the schema.                                                          *)
THEOREM SchemaIsOneSnapshot == Spec => []OneSnapshot
<1>1. Snapshot => OneSnapshot
  BY DEF Snapshot, SameRead, OneSnapshot
<1> QED
  BY <1>1, SnapshotInv, PTL

(* After "done!" every listed table was reported or has its file, up to    *)
(* tables that share a file name.                                          *)
THEOREM TablesAreAccountedFor == Spec => []EveryTableAccountedFor
<1>1. Accounts /\ Files => EveryTableAccountedFor
  BY DEF Accounts, Files, HasFile, Reported, EveryTableAccountedFor
<1> QED
  BY <1>1, AccountsInv, FilesInv, PTL

(* A step that changes a file is a write of the table at hand, whose       *)
(* columns were read to the end and whose struct is accepted and formats.  *)
THEOREM SoundStructs == Spec => OnlySoundStructsReachDisk
<1> DEFINE Sound == \A f \in File : disk'[f] # disk[f] =>
              /\ f = OutFile
              /\ loaded[cur].state = "whole"
              /\ Struct \notin Rejected \cup Malformed
<1>1. Typed /\ Accounts /\ Sources /\ [Next]_vars => [Sound]_vars
  <2> SUFFICES ASSUME Typed, Accounts, Sources, [Next]_vars PROVE Sound
    OBVIOUS
  <2>0. /\ disk \in [File -> Content]
        /\ pc \in {"Create", "Write", "WriteContent"} => loaded[cur].state = "whole"
        /\ pc \in {"Write", "WriteContent"} => Struct \notin Rejected
        /\ pc = "WriteContent" => Struct \notin Malformed
    BY DEF Typed, TypeOK, Accounts, Sources, Writing, InHand
  <2>1. disk' = disk => Sound
    OBVIOUS
  <2>2. CASE Open
    BY <2>2, <2>0 DEF Open
  <2>3. CASE WriteContent
    BY <2>3, <2>0 DEF WriteContent
  <2>4. CASE WriteContentFails
    <3>1. PICK c \in {Truncated, Completed} : disk' = [disk EXCEPT ![OutFile] = c]
      BY <2>4 DEF WriteContentFails
    <3>2. pc = "WriteContent"
      BY <2>4 DEF WriteContentFails
    <3> QED
      BY <3>1, <3>2, <2>0
  <2>5. CASE GetTables \/ GetTablesFails
    BY <2>5, <2>1 DEF GetTables, GetTablesFails, dataVars
  <2>6. CASE GetColumns
    BY <2>6, <2>1 DEF GetColumns, GetColumnsOfTables, GetColumnsOfTablesFails, ColumnsFetched,
       ForceLoop, ForceLoopCancelled, ForceLoopEnds, ForceGetColumns, ForceGetColumnsFails,
       NextTable, StopAtTable, dataVars
  <2>7. CASE Loop \/ LoopCancelled \/ LoopEnds \/ CreateTableStruct \/ CreateTableStructFails
             \/ WriteRefused
    BY <2>7, <2>1 DEF Loop, LoopCancelled, LoopEnds, CreateTableStruct,
       CreateTableStructFails, WriteRefused, NextTable, StopAtTable, dataVars
  <2>8. CASE Environment \/ UNCHANGED vars
    BY <2>8, <2>1 DEF Environment, Cancel, AlterTable, dataVars, vars
  <2> QED
    BY <2>2, <2>3, <2>4, <2>5, <2>6, <2>7, <2>8 DEF Next, Run, WriteStructs
<1> QED
  BY <1>1, TypedInv, AccountsInv, SourcesInv, PTL DEF Spec, OnlySoundStructsReachDisk

-----------------------------------------------------------------------------
(* Refinement: a run settles the tables as Contract promises.              *)

LEMMA OutcomeStable == UNCHANGED <<written, report>> => Outcome' = Outcome
BY DEF Outcome

THEOREM Implements == Spec => Promise!Spec
<1>1. Init => Promise!Init
  <2> SUFFICES ASSUME Init PROVE Promise!Init
    OBVIOUS
  <2>1. settings.Force \in BOOLEAN
    BY DEF Init, AnySettings
  <2>2. Outcome = [t \in Table |-> "open"]
    BY DEF Init, Outcome
  <2> QED
    BY <2>1, <2>2 DEF Init, Promise!Init
<1>2. Typed /\ Phases /\ Accounts /\ [Next]_vars => [Promise!Next]_(Promise!vars)
  <2> SUFFICES ASSUME Typed, Phases, Accounts, [Next]_vars
               PROVE  Promise!Next \/ UNCHANGED Promise!vars
    OBVIOUS
  <2>0. /\ HasTable /\ listed \subseteq Table
        /\ result # "none" <=> pc = "Returned"
        /\ pc = "GetTables" => listed = {}
        /\ pc \in {"ForceLoop", "ForceGetColumns"} => written = {} /\ settings.Force
        /\ pc \in {"ForceGetColumns", "Create", "Write", "WriteContent"} =>
             cur \in listed /\ cur \notin written /\ report[cur] = ""
        /\ pc = "Loop" /\ pending = {} => listed \subseteq Reported \cup written
        /\ report \in [Table -> {"", "columns", "create", "write"}]
    BY DEF Typed, TypeOK, HasTable, Phases, Accounts, Fetching, Writing, InHand, Reported
  (* Steps that settle nothing. *)
  <2>1. ASSUME UNCHANGED <<settings, listed, written, report, result>>
        PROVE  UNCHANGED Promise!vars
    BY <2>1, OutcomeStable DEF Promise!vars
  (* Steps that end the run. *)
  <2>2. ASSUME UNCHANGED <<settings, listed, written, report>>, result = "none",
               result' \in Results \ {"none", "ok"}
        PROVE  Promise!Next
    BY <2>2, OutcomeStable DEF Promise!Next, Promise!Fail
  (* Steps that settle the table at hand. *)
  <2>3. ASSUME UNCHANGED <<settings, listed, written, result>>, result = "none", settings.Force,
               NEW what \in {"columns", "create", "write"},
               report' = [report EXCEPT ![cur] = what],
               cur \in listed, cur \in Table, cur \notin written, report[cur] = ""
        PROVE  Promise!Next
    <3>1. Outcome' = [Outcome EXCEPT ![cur] = "reported"]
      BY <2>0, <2>3 DEF Outcome
    <3>2. Outcome[cur] = "open"
      BY <2>3 DEF Outcome
    <3>3. Promise!Settle(cur, "reported")
      BY <2>3, <3>1, <3>2 DEF Promise!Settle
    <3> QED
      BY <2>3, <3>3 DEF Promise!Next
  <2>4. ASSUME cur \in Table, cur \in listed, cur \notin written, report[cur] = "",
               pc # "Returned", NEW what \in {"create", "write"}, Skip(what),
               UNCHANGED <<settings, listed, written>>
        PROVE  Promise!Next
    <3>1. CASE settings.Force
      BY <2>0, <2>3, <2>4, <3>1 DEF Skip, Goto
    <3>2. CASE ~settings.Force
      BY <2>0, <2>2, <2>4, <3>2 DEF Skip, Return, Results
    <3> QED
      BY <3>1, <3>2
  <2>5. CASE GetTables
    <3>1. listed' \in SUBSET Table /\ listed = {} /\ result = "none"
      BY <2>5, <2>0 DEF GetTables, Matching
    <3>2. UNCHANGED <<settings, written, report, result>>
      BY <2>5 DEF GetTables, Goto, envVars, dataVars
    <3>3. Promise!List
      BY <3>1, <3>2, OutcomeStable DEF Promise!List
    <3> QED
      BY <3>3 DEF Promise!Next
  <2>6. CASE GetTablesFails \/ GetColumnsOfTablesFails \/ ForceLoopCancelled \/ LoopCancelled
    BY <2>6, <2>0, <2>2 DEF GetTablesFails, GetColumnsOfTablesFails, ForceLoopCancelled,
       LoopCancelled, StopAtTable, Return, Results, envVars, dataVars, history
  <2>7. CASE GetColumnsOfTables \/ ColumnsFetched \/ ForceLoop \/ ForceLoopEnds \/ ForceGetColumns
    BY <2>7, <2>1 DEF GetColumnsOfTables, ColumnsFetched, ForceLoop, ForceLoopEnds,
       ForceGetColumns, NextTable, Goto, envVars, dataVars, history
  <2>8. CASE ForceGetColumnsFails
    BY <2>8, <2>0, <2>3 DEF ForceGetColumnsFails, HasTable, Goto, envVars
  <2>9. CASE Loop \/ CreateTableStruct \/ Open
    BY <2>9, <2>1 DEF Loop, CreateTableStruct, Open, NextTable, Goto, envVars, dataVars, history
  <2>10. CASE LoopEnds
    <3>1. UNCHANGED <<settings, listed, written, report>> /\ result = "none" /\ result' = "ok"
      BY <2>10, <2>0 DEF LoopEnds, Return, envVars, dataVars, history
    <3>2. \A t \in listed : Outcome[t] # "open"
      BY <2>10, <2>0 DEF LoopEnds, Outcome, Reported
    <3>3. Promise!Done
      BY <3>1, <3>2, OutcomeStable DEF Promise!Done
    <3> QED
      BY <3>3 DEF Promise!Next
  <2>11. CASE CreateTableStructFails
    BY <2>11, <2>0, <2>4 DEF CreateTableStructFails, HasTable, envVars, history
  <2>12. CASE WriteRefused
    BY <2>12, <2>0, <2>4 DEF WriteRefused, HasTable, envVars
  <2>13. CASE WriteContent
    <3>1. /\ UNCHANGED <<settings, listed, report, result>> /\ result = "none"
          /\ written' = written \cup {cur} /\ cur \in Table /\ cur \in listed
          /\ cur \notin written /\ report[cur] = ""
      BY <2>13, <2>0 DEF WriteContent, HasTable, Goto, envVars
    <3>2. Outcome' = [Outcome EXCEPT ![cur] = "written"]
      BY <3>1 DEF Outcome
    <3>3. Outcome[cur] = "open"
      BY <3>1 DEF Outcome
    <3>4. Promise!Settle(cur, "written")
      BY <3>1, <3>2, <3>3 DEF Promise!Settle
    <3> QED
      BY <3>1, <3>4 DEF Promise!Next
  <2>14. CASE WriteContentFails
    BY <2>14, <2>0, <2>4 DEF WriteContentFails, HasTable, envVars, history
  <2>15. CASE Environment
    BY <2>15, <2>1 DEF Environment, Cancel, AlterTable, ctlVars, dataVars, history
  <2>16. CASE UNCHANGED vars
    BY <2>16, <2>1 DEF vars, envVars, ctlVars, dataVars, history
  <2> QED
    BY <2>5, <2>6, <2>7, <2>8, <2>9, <2>10, <2>11, <2>12, <2>13, <2>14, <2>15, <2>16
       DEF Next, Run, GetColumns, WriteStructs
<1> QED
  BY <1>1, <1>2, TypedInv, PhasesInv, AccountsInv, PTL DEF Spec, Promise!Spec

-----------------------------------------------------------------------------
(* The process.                                                            *)

(* Every step of the process is one of App or leaves App alone, so that    *)
(* what is proved of App holds in the process.                             *)
THEOREM AppWithinCmd == CmdSpec => Spec
<1>1. CmdInit => Init
  BY DEF CmdInit
<1>2. [CmdNext]_allVars => [Next]_vars
  <2> SUFFICES ASSUME [CmdNext]_allVars PROVE [Next]_vars
    OBVIOUS
  <2>1. CASE RunApp
    BY <2>1 DEF RunApp, Next
  <2>2. CASE Signal
    BY <2>2 DEF Signal, Cancel, Next, Environment
  <2>3. CASE SchemaChange
    BY <2>3 DEF SchemaChange, Next, Environment
  <2>4. CASE UNCHANGED vars
    BY <2>4
  <2>5. CASE FallsSilent
    BY <2>5, <2>4 DEF FallsSilent
  <2>6. CASE Program /\ ~RunApp
    BY <2>6, <2>4 DEF Program, NewArgs, Verify, VerifyPanics, Connect, Ping, PingFails,
                      AppReturns, Close, Main
  <2> QED
    BY <2>1, <2>2, <2>3, <2>4, <2>5, <2>6 DEF CmdNext, allVars
<1> QED
  BY <1>1, <1>2, PTL DEF CmdSpec, Spec

-----------------------------------------------------------------------------
(* What is open and what has been told, by phase.  Until the first failure *)
(* the process goes from phase to phase; after it the handle, if there is  *)
(* one, is closed, which may fail as well.                                 *)
Lifecycle ==
  /\ cmdline \in CommandLines
  /\ silent \in BOOLEAN
  /\ phase \in PhaseNames
  /\ conn \in {"none", "open", "closed"}
  /\ phase \in {"NewArgs", "Verify", "Connect"} => conn = "none"
  /\ phase \in {"Ping", "Run", "Close"} => conn = "open"
  /\ phase \in {"main", "exit"} => conn # "open"

(* Before main, only the flag package has printed anything.                *)
Ledger ==
  /\ err = faults
  /\ faults \subseteq Causes
  /\ phase \in {"NewArgs", "Verify", "Connect", "Ping", "Run"} => faults = {}
  /\ phase = "Close" => "flags" \notin faults
  /\ "flags" \in faults => faults = {"flags"}
  /\ code \in -1..2
  /\ stderr \in [Causes -> 0..2]
  /\ phase # "exit" =>
       \A c \in Causes : stderr[c] = IF c = "flags" /\ c \in faults THEN 1 ELSE 0
  /\ phase = "exit" =>
       /\ code = 0 <=> faults = {}
       /\ \A c \in Causes : stderr[c] = IF c \in faults THEN 1 ELSE 0

LEMMA LifecycleInv == CmdSpec => []Lifecycle
<1>1. CmdInit => Lifecycle
  BY DEF CmdInit, Lifecycle, PhaseNames
<1>2. Lifecycle /\ [CmdNext]_allVars => Lifecycle'
  <2> SUFFICES ASSUME Lifecycle, [CmdNext]_allVars PROVE Lifecycle'
    OBVIOUS
  <2> USE DEF Lifecycle, PhaseNames, To, Fails
  <2>1. CASE NewArgs
    <3>1. phase' \in {"main", "Verify"} /\ conn' = conn /\ cmdline' = cmdline
      BY <2>1 DEF NewArgs
    <3> QED
      BY <2>1, <3>1 DEF NewArgs
  <2>2. CASE Verify \/ VerifyPanics
    <3>1. phase' \in {"main", "Connect", "exit"} /\ conn' = conn /\ cmdline' = cmdline
      BY <2>2 DEF Verify, VerifyPanics
    <3> QED
      BY <2>2, <3>1 DEF Verify, VerifyPanics
  <2>3. CASE Connect
    BY <2>3 DEF Connect
  <2>4. CASE Ping \/ PingFails
    BY <2>4 DEF Ping, PingFails
  <2>5. CASE AppReturns
    BY <2>5 DEF AppReturns
  <2>6. CASE Close
    BY <2>6 DEF Close
  <2>7. CASE Main
    BY <2>7 DEF Main
  <2>8. CASE FallsSilent
    BY <2>8 DEF FallsSilent
  <2>9. CASE UNCHANGED cmdVars
    BY <2>9 DEF cmdVars
  <2>10. RunApp \/ Signal \/ SchemaChange \/ UNCHANGED allVars => UNCHANGED cmdVars
    BY DEF RunApp, Signal, SchemaChange, allVars, cmdVars
  <2> QED
    BY <2>1, <2>2, <2>3, <2>4, <2>5, <2>6, <2>7, <2>8, <2>9, <2>10 DEF CmdNext, Program
<1> QED
  BY <1>1, <1>2, PTL DEF CmdSpec

(* Whatever fails, and wherever the signal hits, the handle is closed when *)
(* Cmd.Run returns, and it is open whenever the database is asked.         *)
THEOREM HandleIsClosed == CmdSpec => []ConnectionIsClosed
<1>1. Lifecycle => ConnectionIsClosed
  BY DEF Lifecycle, ConnectionIsClosed, AtDatabase
<1> QED
  BY <1>1, LifecycleInv, PTL

-----------------------------------------------------------------------------
(* An error of App is none of those the other calls return.                *)
LEMMA AppCause ==
  ASSUME Typed, Phases, pc = "Returned", result # "ok"
  PROVE  result \in Causes /\ result # "flags" /\ result # "close"
BY DEF Typed, TypeOK, Phases, Results, Causes

(* Once printed, a failure is counted.                                     *)
LEMMA PrintedTwice ==
  ASSUME stderr \in [Causes -> 0..2], NEW cs, \A c \in cs \cap Causes : stderr[c] = 0, Printed(cs)
  PROVE  /\ stderr' \in [Causes -> 0..2]
         /\ \A c \in Causes : stderr'[c] = IF c \in cs THEN 1 ELSE stderr[c]
BY DEF Printed

LEMMA LedgerInv == CmdSpec => []Ledger
<1>1. CmdInit => Ledger
  BY DEF CmdInit, Ledger
<1>2. Typed /\ Phases /\ Ledger /\ [CmdNext]_allVars => Ledger'
  <2> SUFFICES ASSUME Typed, Phases, Ledger, [CmdNext]_allVars PROVE Ledger'
    OBVIOUS
  <2>1. CASE NewArgs
    <3>1. CASE ~cmdline.parses
      <4>1. /\ stderr' \in [Causes -> 0..2]
            /\ \A c \in Causes : stderr'[c] = IF c \in {"flags"} THEN 1 ELSE stderr[c]
        BY <2>1, <3>1, PrintedTwice DEF NewArgs, Ledger
      <4>2. faults = {} /\ faults' = {"flags"} /\ err' = {"flags"} /\ phase' = "main"
        BY <2>1, <3>1 DEF NewArgs, Ledger, Fails
      <4> QED
        BY <2>1, <4>1, <4>2 DEF NewArgs, Ledger, Causes
    <3>2. CASE cmdline.parses
      BY <2>1, <3>2 DEF NewArgs, To, Ledger
    <3> QED
      BY <3>1, <3>2
  <2>2. CASE Verify
    BY <2>2 DEF Verify, To, Fails, Ledger, Causes
  <2>3. CASE VerifyPanics
    <3>1. /\ stderr' \in [Causes -> 0..2]
          /\ \A c \in Causes : stderr'[c] = IF c \in {"settings"} THEN 1 ELSE stderr[c]
      BY <2>3, PrintedTwice DEF VerifyPanics, Ledger
    <3>2. /\ faults = {} /\ faults' = {"settings"} /\ err' = {"settings"}
          /\ phase = "Verify" /\ phase' = "exit" /\ code' = 2
      BY <2>3 DEF VerifyPanics, Ledger, Fails
    <3> QED
      BY <3>1, <3>2 DEF Ledger, Causes
  <2>4. CASE Connect
    BY <2>4 DEF Connect, To, Fails, Ledger, Causes
  <2>5. CASE Ping \/ PingFails
    BY <2>5 DEF Ping, PingFails, To, Fails, Ledger, Causes
  <2>6. CASE AppReturns
    <3>1. CASE result = "ok"
      BY <2>6, <3>1 DEF AppReturns, To, Ledger
    <3>2. CASE result # "ok"
      <4>1. result \in Causes /\ result # "flags"
        BY <2>6, <3>2, AppCause DEF AppReturns
      <4> QED
        BY <2>6, <3>2, <4>1 DEF AppReturns, Fails, Ledger
    <3> QED
      BY <3>1, <3>2
  <2>7. CASE Close
    BY <2>7 DEF Close, To, Fails, Ledger, Causes
  <2>8. CASE Main
    <3>1. faults' = faults /\ err' = err /\ phase = "main" /\ phase' = "exit"
      BY <2>8 DEF Main, To
    <3>2. code' = IF faults = {} THEN 0 ELSE 1
      BY <2>8 DEF Main, Ledger
    <3>3. CASE "flags" \in faults
      <4>1. /\ stderr' \in [Causes -> 0..2]
            /\ \A c \in Causes : stderr'[c] = IF c \in {} THEN 1 ELSE stderr[c]
        BY <2>8, <3>3, PrintedTwice DEF Main, Ledger
      <4> QED
        BY <3>1, <3>2, <3>3, <4>1 DEF Ledger
    <3>4. CASE "flags" \notin faults
      <4>1. /\ stderr' \in [Causes -> 0..2]
            /\ \A c \in Causes : stderr'[c] = IF c \in faults THEN 1 ELSE stderr[c]
        <5>1. Printed(faults)
          BY <2>8, <3>4 DEF Main, Ledger
        <5> QED
          BY <3>1, <3>4, <5>1, PrintedTwice DEF Ledger
      <4> QED
        BY <3>1, <3>2, <3>4, <4>1 DEF Ledger
    <3> QED
      BY <3>3, <3>4
  <2>9. CASE FallsSilent
    BY <2>9 DEF FallsSilent, Ledger
  <2>10. CASE UNCHANGED cmdVars
    BY <2>10 DEF cmdVars, Ledger
  <2>11. RunApp \/ Signal \/ SchemaChange \/ UNCHANGED allVars => UNCHANGED cmdVars
    BY DEF RunApp, Signal, SchemaChange, allVars, cmdVars
  <2> QED
    BY <2>1, <2>2, <2>3, <2>4, <2>5, <2>6, <2>7, <2>8, <2>9, <2>10, <2>11 DEF CmdNext, Program
<1> QED
  BY <1>1, <1>2, AppWithinCmd, TypedInv, PhasesInv, PTL DEF CmdSpec

(* Every variable of the process keeps its type.                           *)
THEOREM CmdTypeCorrect == CmdSpec => []CmdTypeOK
<1>1. Lifecycle /\ Ledger => CmdTypeOK
  BY DEF Lifecycle, Ledger, CmdTypeOK
<1> QED
  BY <1>1, LifecycleInv, LedgerInv, PTL

(* When the process is over, its exit code says whether anything failed,   *)
(* and each failure is on stderr once, whatever failed before it.          *)
THEOREM ToldOnce == CmdSpec => []FailuresAreToldOnce
<1>1. Ledger => FailuresAreToldOnce
  BY DEF Ledger, FailuresAreToldOnce
<1> QED
  BY <1>1, LedgerInv, PTL

(* In the process, too, a signal lets App begin one more query or write.   *)
THEOREM ProcessPromptlyCancelled == CmdSpec => []PromptCancellation
BY AppWithinCmd, PromptlyCancelled, PTL
=============================================================================

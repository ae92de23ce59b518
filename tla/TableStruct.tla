---------------------------- MODULE TableStruct ----------------------------
(***************************************************************************)
(* How the columns of one table become the fields of its struct: the rows  *)
(* of the column query are scanned into Table.Columns (pkg/database, one   *)
(* dialect each), then createTableStructString turns every column into a   *)
(* field, notes which packages the field types need, and writes the        *)
(* imports.                                                                *)
(*                                                                         *)
(* The query is for several tables at once.  Postgres compares their names *)
(* in lower case, and so brings back the columns of tables nobody asked    *)
(* for; and it joins the columns with the constraints they take part in    *)
(* and orders by column only: a column of two constraints comes as two     *)
(* rows, in any order.                                                     *)
(***************************************************************************)
EXTENDS Naturals, Sequences, FiniteSets, Functions

CONSTANTS
  Name,        \* column names
  NoIdent,
  GoName,      \* formatColumnName: the field of a column name; NoIdent if refused
  TableName,
  GoLower,     \* strings.ToLower of a table name
  DbLower,     \* LOWER of a table name, in Postgres
  Queries,     \* the column queries to look at
  AnySettings  \* the settings to look at

Types == {"integer", "float", "temporal", "boolean", "string"}
Keys  == {"PRIMARY KEY", "FOREIGN KEY", "UNIQUE"}

(* A column as it is defined.  `serial': its default is a sequence, or the *)
(* table definition says auto_increment.                                   *)
Definition == [name : Name, type : Types, null : BOOLEAN, serial : BOOLEAN, keys : SUBSET Keys]

(* DbType; -null sql or native; -gorm-model, -structable-recorder.         *)
SettingsType == [driver : {"pg", "mysql", "sqlite3"}, sql : BOOLEAN,
                 gorm : BOOLEAN, recorder : BOOLEAN]

ASSUME GoNameAssumption == DOMAIN GoName = Name

(* A query: the tables of the schema, which of them GetColumnsOfTables is  *)
(* given, and the one of those that the struct is of.                      *)
ASSUME QueryAssumption == \A q \in Queries :
  /\ q.name \in q.given
  /\ q.given \subseteq TableName
  /\ DOMAIN q.schema \subseteq TableName
  /\ q.name \in DOMAIN q.schema
  /\ \A t \in DOMAIN q.schema :
       /\ q.schema[t] \in Seq(Definition)
       /\ \A i, j \in DOMAIN q.schema[t] : i # j => q.schema[t][i].name # q.schema[t][j].name

ASSUME SettingsAssumption == AnySettings \subseteq SettingsType

VARIABLES
  settings,
  query,
  rows,     \* rows of the result not scanned yet: <<table, ordinal position, constraint>>
  columns,  \* Table.Columns
  phase,    \* "scan", "build", "done", "failed"
  next,     \* index of the column to build a field of
  fields,   \* the fields of columns written so far, behind the embedded ones
  info,     \* columnInfo: types seen that need an import
  imports   \* the packages imported

vars == <<settings, query, rows, columns, phase, next, fields, info, imports>>

-----------------------------------------------------------------------------
(* The result of the column query.                                         *)

table == query.schema[query.name]

NoConstraint == ""

(* Postgres: LEFT JOIN over key_column_usage; MySQL and SQLite: a row per  *)
(* column.                                                                 *)
Constraints(def, driver) ==
  IF driver = "pg" /\ def.keys # {} THEN def.keys ELSE {NoConstraint}

(* The tables that the WHERE clause selects.  Postgres compares LOWER of   *)
(* the name, which by the collation of information_schema folds ASCII      *)
(* letters only, with what strings.ToLower made of the parameters; SQLite  *)
(* is asked for one table at a time.                                       *)
Answered(q, driver) ==
  {t \in DOMAIN q.schema :
     \/ driver = "pg" /\ DbLower[t] \in {GoLower[g] : g \in q.given}
     \/ driver = "mysql" /\ t \in q.given
     \/ driver = "sqlite3" /\ t = q.name}

RowsOf(t, def, driver) ==
  UNION {{t} \X {i} \X Constraints(def[i], driver) : i \in DOMAIN def}

ResultOf(q, driver) == UNION {RowsOf(t, q.schema[t], driver) : t \in Answered(q, driver)}

(* The column that a row is of.                                            *)
Defined(row) == query.schema[row[1]][row[2]]

(* What a scanned row says of the primary key: the constraint of this very *)
(* row for Postgres, column_key for MySQL, pk > 0 for SQLite.              *)
AnyConstraintMarks(row) == \* a slip: any constraint makes a key
  IF settings.driver = "pg" THEN row[3] # NoConstraint ELSE "PRIMARY KEY" \in Defined(row).keys

MarksKey(row) ==
  IF settings.driver = "pg" THEN row[3] = "PRIMARY KEY" ELSE "PRIMARY KEY" \in Defined(row).keys

(* Postgres finds nextval in the default, MySQL auto_increment in extra;   *)
(* SQLite decides when all columns are there.                              *)
MarksSerial(row) == settings.driver # "sqlite3" /\ Defined(row).serial

Column(row) ==
  [name |-> Defined(row).name, type |-> Defined(row).type, null |-> Defined(row).null,
   key |-> MarksKey(row), serial |-> MarksSerial(row)]

(* tableByName, whose keys are the names as the database has them.         *)
OfAnyCase(row) == \* a slip: the names in lower case
  GoLower[row[1]] = GoLower[query.name]

OfTable(row) == row[1] = query.name

(* Rows come table by table; which table is first depends on the collation.*)
Scan ==
  /\ phase = "scan"
  /\ \E row \in rows :
       /\ \A other \in rows : other[1] = row[1] => row[2] <= other[2]
       /\ rows' = rows \ {row}
       /\ columns' = IF OfTable(row) THEN Append(columns, Column(row)) ELSE columns
  /\ UNCHANGED <<settings, query, phase, next, fields, info, imports>>

(* SQLite: the one and only primary key column, if it is an integer, is    *)
(* taken for auto-incremented.                                             *)
KeyPositions == {i \in DOMAIN columns : columns[i].key}

MarkLast == \* a slip: the number of key columns is not looked at
  [i \in DOMAIN columns |->
     [columns[i] EXCEPT !.serial = @ \/ (/\ settings.driver = "sqlite3"
                                         /\ i \in KeyPositions
                                         /\ columns[i].type = "integer")]]

Marked ==
  [i \in DOMAIN columns |->
     [columns[i] EXCEPT !.serial = @ \/ (/\ settings.driver = "sqlite3"
                                         /\ KeyPositions = {i}
                                         /\ columns[i].type = "integer")]]

ScanBreaksOff == \* a slip: rows.Err is not looked at
  /\ phase = "scan"
  /\ columns' = Marked
  /\ phase' = "build"
  /\ UNCHANGED <<settings, query, rows, next, fields, info, imports>>

ScanFails ==
  /\ phase = "scan"
  /\ phase' = "failed"
  /\ UNCHANGED <<settings, query, rows, columns, next, fields, info, imports>>

ScanEnds ==
  /\ phase = "scan"
  /\ rows = {}
  /\ columns' = Marked
  /\ phase' = "build"
  /\ UNCHANGED <<settings, query, rows, next, fields, info, imports>>

-----------------------------------------------------------------------------
(* createTableStructString.                                                *)

(* mapDbColumnTypeToGoType: the Go type by kind, and the package it comes  *)
(* from.  A nullable column is a sql.Null* or a pointer.                   *)
GoType(c) ==
  [base |-> c.type,
   form |-> IF ~c.null THEN "plain" ELSE IF settings.sql THEN "sql.Null" ELSE "pointer"]

Package(type) ==
  IF type.form = "sql.Null" THEN {"database/sql"}
  ELSE IF type.base = "temporal" THEN {"time"} ELSE {}

(* A slip: time is noted for every temporal column.                        *)
InfoOfTemporal(c) ==
  [isNullable |-> c.null, isTemporal |-> c.type = "temporal"]

(* The columnInfo that mapDbColumnTypeToGoType returns: a nullable         *)
(* temporal column needs time only when it is a pointer.                   *)
InfoOf(c) ==
  [isNullable |-> c.null, isTemporal |-> c.type = "temporal" /\ (c.null => ~settings.sql)]

(* gorm.Model and structable.Recorder, if asked for, come first; an        *)
(* embedded field is named as its type.                                    *)
Embeds ==
  (IF settings.gorm THEN <<"Model">> ELSE <<>>)
  \o (IF settings.recorder THEN <<"Recorder">> ELSE <<>>)

Field(c) ==
  [ident |-> GoName[c.name], of |-> c.name, type |-> GoType(c), key |-> c.key, serial |-> c.serial]

Idents == {fields[i].ident : i \in DOMAIN fields}

Building == phase = "build" /\ next <= Len(columns)

(* A slip: a column whose name is refused is left out.                     *)
LeaveOut ==
  /\ Building
  /\ GoName[columns[next].name] = NoIdent
  /\ next' = next + 1
  /\ UNCHANGED <<settings, query, rows, columns, phase, fields, info, imports>>

(* The name holds a character no Go identifier has: the table fails.       *)
RefuseName ==
  /\ Building
  /\ GoName[columns[next].name] = NoIdent
  /\ phase' = "failed"
  /\ UNCHANGED <<settings, query, rows, columns, next, fields, info, imports>>

(* A column has that field name already; the embedded types are not looked *)
(* at.                                                                     *)
Known(c) == GoName[c.name] \in Idents

SkipKnown ==
  /\ Building
  /\ GoName[columns[next].name] # NoIdent
  /\ Known(columns[next])
  /\ next' = next + 1
  /\ UNCHANGED <<settings, query, rows, columns, phase, fields, info, imports>>

(* A slip: the name of the column is looked up, not that of the field.     *)
AddUnlessSameColumn ==
  /\ Building
  /\ LET c == columns[next]
     IN /\ GoName[c.name] # NoIdent
        /\ c.name \notin {fields[i].of : i \in DOMAIN fields}
        /\ fields' = Append(fields, Field(c))
        /\ info' = [isNullable |-> info.isNullable \/ InfoOf(c).isNullable,
                    isTemporal |-> info.isTemporal \/ InfoOf(c).isTemporal]
  /\ next' = next + 1
  /\ UNCHANGED <<settings, query, rows, columns, phase, imports>>

AddField ==
  /\ Building
  /\ LET c == columns[next]
     IN /\ GoName[c.name] # NoIdent
        /\ ~Known(c)
        /\ fields' = Append(fields, Field(c))
        /\ info' = [isNullable |-> info.isNullable \/ InfoOf(c).isNullable,
                    isTemporal |-> info.isTemporal \/ InfoOf(c).isTemporal]
  /\ next' = next + 1
  /\ UNCHANGED <<settings, query, rows, columns, phase, imports>>

(* generateImports.                                                        *)
Packages == {"database/sql", "time", "gorm.io/gorm", "github.com/Masterminds/structable"}

Embedded ==
  (IF settings.gorm THEN {"gorm.io/gorm"} ELSE {})
  \cup (IF settings.recorder THEN {"github.com/Masterminds/structable"} ELSE {})

GenerateImports ==
  /\ phase = "build"
  /\ next > Len(columns)
  /\ imports' = (IF info.isNullable /\ settings.sql THEN {"database/sql"} ELSE {})
                \cup (IF info.isTemporal THEN {"time"} ELSE {})
                \cup Embedded
  /\ phase' = "done"
  /\ UNCHANGED <<settings, query, rows, columns, next, fields, info>>

-----------------------------------------------------------------------------
(* A key column is NOT NULL, but not in SQLite.                            *)
Possible(t, driver) ==
  driver # "sqlite3" => \A i \in DOMAIN t : "PRIMARY KEY" \in t[i].keys => ~t[i].null

Init ==
  /\ settings \in AnySettings
  /\ query \in Queries
  /\ \A t \in DOMAIN query.schema : Possible(query.schema[t], settings.driver)
  /\ rows = ResultOf(query, settings.driver)
  /\ columns = <<>>
  /\ phase = "scan"
  /\ next = 1
  /\ fields = <<>>
  /\ info = [isNullable |-> FALSE, isTemporal |-> FALSE]
  /\ imports = {}

Next ==
  \/ Scan \/ ScanFails \/ ScanEnds
  \/ RefuseName \/ SkipKnown \/ AddField \/ GenerateImports

Spec == Init /\ [][Next]_vars

-----------------------------------------------------------------------------
(* Properties.                                                             *)

RowType    == TableName \X Nat \X (Keys \cup {NoConstraint})
ColumnType == [name : Name, type : Types, null : BOOLEAN, key : BOOLEAN, serial : BOOLEAN]
FieldType  == [ident : Range(GoName) \ {NoIdent}, of : Name, key : BOOLEAN, serial : BOOLEAN,
               type : [base : Types, form : {"plain", "sql.Null", "pointer"}]]

(* Types; every row is scanned before the first field is built.            *)
TypeOK ==
  /\ settings \in AnySettings
  /\ query.name \in DOMAIN query.schema
  /\ table \in Seq(Definition)
  /\ rows \subseteq RowType
  /\ \A row \in rows : row[1] = query.name => row[2] \in DOMAIN table
  /\ columns \in Seq(ColumnType)
  /\ phase \in {"scan", "build", "done", "failed"}
  /\ phase \in {"build", "done"} => rows = {}
  /\ next \in 1..(Len(columns) + 1)
  /\ fields \in Seq(FieldType)
  /\ info \in [isNullable : BOOLEAN, isTemporal : BOOLEAN]
  /\ imports \subseteq Packages

(* The names of all the fields of the struct.                              *)
FieldNames == Embeds \o [i \in DOMAIN fields |-> fields[i].ident]

(* The struct compiles as far as the names of its fields go, although rows *)
(* repeat and column names collide: no two fields have the same name, but  *)
(* for a column that is called as an embedded type (`model' with           *)
(* -gorm-model), which createTableStructString does not look for.          *)
FieldsDiffer ==
  \A i, j \in DOMAIN FieldNames :
    i < j /\ FieldNames[i] = FieldNames[j] => i <= Len(Embeds) /\ Len(Embeds) < j

(* Exactly the packages that the fields use are imported; Go rejects an    *)
(* unused import as it does a missing one (generateImports works from two  *)
(* flags gathered over the columns that were not skipped).                 *)
ImportsAreThoseUsed ==
  phase = "done" =>
    imports = Embedded \cup UNION {Package(fields[i].type) : i \in DOMAIN fields}

(* Every field is of a column of this table, not of another whose name     *)
(* folds to the same, and of its type.  No column gets lost other than to  *)
(* another column of the same field name, and the fields keep the order of *)
(* the columns; in Postgres, if it folds the name of the table as Go does. *)
Position(name) == CHOOSE i \in DOMAIN table : table[i].name = name

IsFoldedAlike == settings.driver = "pg" => DbLower[query.name] = GoLower[query.name]

ColumnsBecomeFields ==
  phase = "done" =>
    /\ \A j \in DOMAIN fields : \E i \in DOMAIN table :
         table[i].name = fields[j].of /\ table[i].type = fields[j].type.base
    /\ IsFoldedAlike => \A i \in DOMAIN table : \E j \in DOMAIN fields :
         fields[j].ident = GoName[table[i].name] /\ Position(fields[j].of) <= i
    /\ \A j, k \in DOMAIN fields : j < k => Position(fields[j].of) < Position(fields[k].of)

(* A field marked as primary key is one; and a key column is marked unless *)
(* another constraint of the column came first in the result of Postgres.  *)
KeysAreMarked ==
  phase = "done" => \A j \in DOMAIN fields :
    LET def == table[Position(fields[j].of)]
    IN /\ fields[j].key => "PRIMARY KEY" \in def.keys
       /\ "PRIMARY KEY" \in def.keys /\ ~fields[j].key =>
            settings.driver = "pg" /\ Cardinality(def.keys) > 1

(* SQLite has a single auto-incremented column at most, the whole primary  *)
(* key of the table.                                                       *)
SQLiteSerialIsTheKey ==
  phase = "done" /\ settings.driver = "sqlite3" => \A j \in DOMAIN fields :
    fields[j].serial =>
      {i \in DOMAIN table : "PRIMARY KEY" \in table[i].keys} = {Position(fields[j].of)}

-----------------------------------------------------------------------------
(* A property the code does not have.                                      *)

(* "GetColumnsOfTables retrieves columns for all given tables": when it    *)
(* returns without an error, every column of the table is there.           *)
EveryGivenTableIsRead ==
  phase \in {"build", "done"} =>
    \A i \in DOMAIN table : \E c \in DOMAIN columns : columns[c].name = table[i].name
=============================================================================

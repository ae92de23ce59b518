------------------------- MODULE TableStructProofs -------------------------
(***************************************************************************)
(* Proofs about TableStruct, for every table, every naming of columns and  *)
(* all settings: types, that the fields of a struct have distinct names,   *)
(* that exactly the packages in use are imported, that every column has    *)
(* its field, and that keys are marked rightly.                            *)
(***************************************************************************)
EXTENDS TableStruct, FiniteSetTheorems, SequenceTheorems, TLAPS

(* What a row says makes a column of the right type.                       *)
LEMMA ColumnTyped ==
  ASSUME TypeOK, NEW row \in rows, OfTable(row)
  PROVE  Column(row) \in ColumnType
<1>1. row[2] \in DOMAIN table
  BY DEF TypeOK, OfTable
<1>2. Defined(row) \in Definition
  BY <1>1 DEF TypeOK, OfTable, Defined, table
<1>3. MarksKey(row) \in BOOLEAN
  <2>1. CASE settings.driver = "pg"
    BY <2>1 DEF MarksKey
  <2>2. CASE settings.driver # "pg"
    BY <2>2 DEF MarksKey
  <2> QED
    BY <2>1, <2>2
<1>4. MarksSerial(row) \in BOOLEAN
  BY Zenon DEF MarksSerial
<1> QED
  BY <1>2, <1>3, <1>4 DEF Column, ColumnType, Definition

(* Marking the key of SQLite changes no number and no type of columns.     *)
LEMMA MarkedTyped ==
  ASSUME TypeOK
  PROVE  Marked \in Seq(ColumnType) /\ Len(Marked) = Len(columns)
<1>1. columns \in Seq(ColumnType)
  BY DEF TypeOK
<1>2. \A i \in 1..Len(columns) : Marked[i] \in ColumnType
  <2> SUFFICES ASSUME NEW i \in 1..Len(columns) PROVE Marked[i] \in ColumnType
    OBVIOUS
  <2> DEFINE serial == \/ columns[i].serial
                       \/ /\ settings.driver = "sqlite3"
                          /\ KeyPositions = {i}
                          /\ columns[i].type = "integer"
  <2>1. i \in DOMAIN columns /\ columns[i] \in ColumnType
    BY <1>1
  <2>2. Marked[i] = [columns[i] EXCEPT !.serial = serial]
    BY <2>1, Zenon DEF Marked
  <2>3. serial \in BOOLEAN
    BY Zenon
  <2> HIDE DEF serial
  <2> QED
    BY <2>1, <2>2, <2>3 DEF ColumnType
<1>3. Marked = [i \in 1..Len(columns) |-> Marked[i]]
  BY <1>1 DEF Marked
<1> QED
  BY <1>1, <1>2, <1>3

(* A column whose name is not refused makes a field of the right type.     *)
LEMMA FieldTyped ==
  ASSUME NEW c \in ColumnType, GoName[c.name] # NoIdent
  PROVE  Field(c) \in FieldType
<1>1. GoName[c.name] \in Range(GoName)
  BY GoNameAssumption DEF ColumnType, Range
<1> QED
  BY <1>1 DEF Field, FieldType, GoType, ColumnType

(* Every variable keeps its type, and no field is built before all rows    *)
(* are scanned.                                                            *)
THEOREM TypeCorrect == Spec => []TypeOK
<1>1. Init => TypeOK
  <2> SUFFICES ASSUME Init PROVE TypeOK
    OBVIOUS
  <2>1. /\ query.name \in DOMAIN query.schema
        /\ DOMAIN query.schema \subseteq TableName
        /\ \A t \in DOMAIN query.schema : query.schema[t] \in Seq(Definition)
    BY QueryAssumption DEF Init
  <2>2. \A row \in rows : /\ row \in RowType
                          /\ row[1] = query.name => row[2] \in DOMAIN table
    <3> SUFFICES ASSUME NEW row \in rows
                 PROVE  /\ row \in RowType
                        /\ row[1] = query.name => row[2] \in DOMAIN table
      OBVIOUS
    <3>1. PICK t \in Answered(query, settings.driver) :
            row \in RowsOf(t, query.schema[t], settings.driver)
      BY DEF Init, ResultOf
    <3>2. t \in DOMAIN query.schema
      BY <3>1 DEF Answered
    <3>3. PICK i \in DOMAIN query.schema[t] :
            row \in {t} \X {i} \X Constraints(query.schema[t][i], settings.driver)
      BY <3>1 DEF RowsOf
    <3>4. query.schema[t][i] \in Definition /\ i \in Nat
      BY <2>1, <3>2, <3>3
    <3>5. Constraints(query.schema[t][i], settings.driver) \subseteq Keys \cup {NoConstraint}
      BY <3>4 DEF Constraints, Definition
    <3> QED
      BY <2>1, <3>2, <3>3, <3>4, <3>5 DEF RowType, table
  <2> QED
    BY <2>1, <2>2 DEF Init, TypeOK, table
<1>2. TypeOK /\ [Next]_vars => TypeOK'
  <2> SUFFICES ASSUME TypeOK, [Next]_vars PROVE TypeOK'
    OBVIOUS
  <2>1. CASE Scan
    <3>1. PICK row \in rows :
            /\ rows' = rows \ {row}
            /\ columns' = IF OfTable(row) THEN Append(columns, Column(row)) ELSE columns
      BY <2>1 DEF Scan
    <3>2. OfTable(row) => Column(row) \in ColumnType
      BY ColumnTyped
    <3>3. columns' \in Seq(ColumnType) /\ Len(columns') >= Len(columns)
      BY <3>1, <3>2 DEF TypeOK
    <3>4. next' \in 1..(Len(columns') + 1)
      BY <2>1, <3>3 DEF Scan, TypeOK
    <3> QED
      BY <2>1, <3>1, <3>3, <3>4 DEF Scan, TypeOK, table
  <2>2. CASE ScanEnds
    BY <2>2, MarkedTyped DEF ScanEnds, TypeOK, table
  <2>3. CASE RefuseName
    BY <2>3 DEF RefuseName, Building, TypeOK, table
  <2>4. CASE SkipKnown
    BY <2>4 DEF SkipKnown, Building, TypeOK, table
  <2>5. CASE AddField
    <3>1. columns[next] \in ColumnType
      BY <2>5 DEF AddField, Building, TypeOK
    <3>2. Field(columns[next]) \in FieldType
      BY <2>5, <3>1, FieldTyped DEF AddField
    <3>3. fields' \in Seq(FieldType)
      BY <2>5, <3>2 DEF AddField, TypeOK
    <3>4. info' \in [isNullable : BOOLEAN, isTemporal : BOOLEAN]
      BY <2>5, <3>1 DEF AddField, InfoOf, ColumnType, TypeOK
    <3>5. next' \in 1..(Len(columns') + 1)
      BY <2>5 DEF AddField, Building, TypeOK
    <3> QED
      BY <2>5, <3>3, <3>4, <3>5 DEF AddField, TypeOK, table
  <2>6. CASE GenerateImports
    <3>1. imports' \subseteq Packages
      BY <2>6 DEF GenerateImports, Embedded, Packages
    <3> QED
      BY <2>6, <3>1 DEF GenerateImports, TypeOK, table
  <2>7. CASE ScanFails
    BY <2>7 DEF ScanFails, TypeOK, table
  <2>8. CASE UNCHANGED vars
    BY <2>8 DEF vars, TypeOK, table
  <2> QED
    BY <2>1, <2>2, <2>3, <2>4, <2>5, <2>6, <2>7, <2>8 DEF Next
<1> QED
  BY <1>1, <1>2, PTL DEF Spec

-----------------------------------------------------------------------------
(* AddField appends one field, and leaves those before it where they are.  *)
LEMMA FieldAdded ==
  ASSUME TypeOK, AddField
  PROVE  /\ columns[next] \in ColumnType
         /\ Len(fields') = Len(fields) + 1
         /\ \A i \in 1..Len(fields) : fields'[i] = fields[i]
         /\ fields'[Len(fields) + 1] = Field(columns[next])
<1>1. columns[next] \in ColumnType
  BY DEF AddField, Building, TypeOK
<1>2. fields \in Seq(FieldType) /\ Field(columns[next]) \in FieldType
  BY <1>1, FieldTyped DEF AddField, TypeOK
<1> QED
  BY <1>1, <1>2 DEF AddField

(* The fields of the columns have distinct names, however often a column   *)
(* comes and whatever the names of the columns become.                     *)
ColumnsDiffer ==
  \A i, j \in DOMAIN fields : i # j => fields[i].ident # fields[j].ident

LEMMA ColumnsDifferInv == Spec => []ColumnsDiffer
<1>1. Init => ColumnsDiffer
  BY DEF Init, ColumnsDiffer
<1>2. TypeOK /\ ColumnsDiffer /\ [Next]_vars => ColumnsDiffer'
  <2> SUFFICES ASSUME TypeOK, ColumnsDiffer, [Next]_vars PROVE ColumnsDiffer'
    OBVIOUS
  <2>1. CASE AddField
    <3>1. fields \in Seq(FieldType) /\ fields' \in Seq(FieldType)
      <4>1. Field(columns[next]) \in FieldType
        BY <2>1, FieldAdded, FieldTyped DEF AddField
      <4> QED
        BY <2>1, <4>1 DEF AddField, TypeOK
    <3>2. DOMAIN fields' = 1..(Len(fields) + 1) /\ DOMAIN fields = 1..Len(fields)
      BY <2>1, <3>1, FieldAdded
    <3>3. Field(columns[next]).ident \notin Idents
      BY <2>1 DEF AddField, Known, Field
    <3>4. \A i \in 1..Len(fields) : fields[i].ident # Field(columns[next]).ident
      BY <3>2, <3>3 DEF Idents
    <3>5. \A i, j \in DOMAIN fields' : i # j => fields'[i].ident # fields'[j].ident
      <4> SUFFICES ASSUME NEW i \in DOMAIN fields', NEW j \in DOMAIN fields', i # j
                   PROVE  fields'[i].ident # fields'[j].ident
        OBVIOUS
      <4>1. Len(fields) \in Nat
        BY <3>1
      <4>2. CASE i \in 1..Len(fields) /\ j \in 1..Len(fields)
        BY <2>1, <3>2, <4>2, FieldAdded DEF ColumnsDiffer
      <4>3. CASE i = Len(fields) + 1
        <5>1. j \in 1..Len(fields)
          BY <3>2, <4>1, <4>3
        <5> QED
          BY <2>1, <3>4, <4>3, <5>1, FieldAdded
      <4>4. CASE j = Len(fields) + 1
        <5>1. i \in 1..Len(fields)
          BY <3>2, <4>1, <4>4
        <5> QED
          BY <2>1, <3>4, <4>4, <5>1, FieldAdded
      <4> QED
        BY <3>2, <4>1, <4>2, <4>3, <4>4
    <3> QED
      BY <3>5 DEF ColumnsDiffer
  <2>2. CASE UNCHANGED fields
    BY <2>2 DEF ColumnsDiffer
  <2> QED
    BY <2>1, <2>2 DEF Next, vars, Scan, ScanFails, ScanEnds, RefuseName, SkipKnown, GenerateImports
<1> QED
  BY <1>1, <1>2, TypeCorrect, PTL DEF Spec

(* The embedded types come first, and their names differ.                  *)
LEMMA EmbedsAreTwo ==
  /\ Embeds \in Seq({"Model", "Recorder"})
  /\ Len(Embeds) \in {0, 1, 2}
  /\ Len(Embeds) = 2 => Embeds[1] = "Model" /\ Embeds[2] = "Recorder"
<1> DEFINE m == IF settings.gorm THEN <<"Model">> ELSE <<>>
           r == IF settings.recorder THEN <<"Recorder">> ELSE <<>>
<1>1. /\ m \in Seq({"Model", "Recorder"})
      /\ Len(m) = 0 \/ (Len(m) = 1 /\ m[1] = "Model")
  <2>1. m = <<"Model">> \/ m = <<>>
    OBVIOUS
  <2>2. <<"Model">> \in Seq({"Model", "Recorder"}) /\ Len(<<"Model">>) = 1 /\ <<"Model">>[1] = "Model"
    OBVIOUS
  <2>3. <<>> \in Seq({"Model", "Recorder"}) /\ Len(<<>>) = 0
    OBVIOUS
  <2> HIDE DEF m
  <2> QED
    BY <2>1, <2>2, <2>3
<1>2. /\ r \in Seq({"Model", "Recorder"})
      /\ Len(r) = 0 \/ (Len(r) = 1 /\ r[1] = "Recorder")
  <2>1. r = <<"Recorder">> \/ r = <<>>
    OBVIOUS
  <2>2. <<"Recorder">> \in Seq({"Model", "Recorder"}) /\ Len(<<"Recorder">>) = 1 /\ <<"Recorder">>[1] = "Recorder"
    OBVIOUS
  <2>3. <<>> \in Seq({"Model", "Recorder"}) /\ Len(<<>>) = 0
    OBVIOUS
  <2> HIDE DEF r
  <2> QED
    BY <2>1, <2>2, <2>3
<1>3. Embeds = m \o r
  BY DEF Embeds
<1> HIDE DEF m, r
<1>4. /\ Embeds \in Seq({"Model", "Recorder"})
      /\ Len(Embeds) = Len(m) + Len(r)
      /\ \A i \in 1..(Len(m) + Len(r)) :
           Embeds[i] = IF i <= Len(m) THEN m[i] ELSE r[i - Len(m)]
  BY <1>1, <1>2, <1>3, ConcatProperties
<1>5. CASE Len(m) = 1 /\ Len(r) = 1
  <2>1. Embeds[1] = "Model" /\ Embeds[2] = "Recorder"
    BY <1>1, <1>2, <1>4, <1>5
  <2> QED
    BY <1>4, <1>5, <2>1
<1>6. CASE Len(m) = 0 \/ Len(r) = 0
  BY <1>1, <1>2, <1>4, <1>6
<1> QED
  BY <1>1, <1>2, <1>5, <1>6

(* All the fields of a struct have distinct names, the embedded ones       *)
(* included, but for a column that is called as one of those.              *)
THEOREM DistinctFields == Spec => []FieldsDiffer
<1>1. TypeOK /\ ColumnsDiffer => FieldsDiffer
  <2> SUFFICES ASSUME TypeOK, ColumnsDiffer,
                      NEW i \in DOMAIN FieldNames, NEW j \in DOMAIN FieldNames,
                      i < j, FieldNames[i] = FieldNames[j]
               PROVE  i <= Len(Embeds) /\ Len(Embeds) < j
    BY DEF FieldsDiffer
  <2> DEFINE names == [k \in DOMAIN fields |-> fields[k].ident]
             S == {"Model", "Recorder"} \cup Range(GoName)
             e == Len(Embeds)
             n == Len(fields)
  <2>1. fields \in Seq(FieldType) /\ DOMAIN fields = 1..n /\ n \in Nat
    BY DEF TypeOK
  <2>2. names \in Seq(S) /\ Len(names) = n
    <3>1. ASSUME NEW k \in 1..n PROVE fields[k].ident \in S
      <4>1. fields[k] \in FieldType
        BY <2>1
      <4>2. fields[k].ident \in Range(GoName) \ {NoIdent}
        BY <4>1 DEF FieldType
      <4> QED
        BY <4>2
    <3> QED
      BY <2>1, <3>1
  <2>3. Embeds \in Seq(S) /\ e \in {0, 1, 2}
    <3>1. \A k \in 1..e : Embeds[k] \in S
      BY EmbedsAreTwo
    <3> QED
      BY <3>1, EmbedsAreTwo
  <2>4. FieldNames = Embeds \o names
    BY DEF FieldNames
  <2>5. \A k \in 1..n : names[k] = fields[k].ident
    BY <2>1
  <2> HIDE DEF names, S, e, n
  <2>6. /\ DOMAIN FieldNames = 1..(e + n)
        /\ \A k \in 1..(e + n) : FieldNames[k] = IF k <= e THEN Embeds[k] ELSE names[k - e]
    <3>1. FieldNames \in Seq(S) /\ Len(FieldNames) = e + n
      BY <2>2, <2>3, <2>4, ConcatProperties DEF e
    <3> QED
      BY <2>2, <2>3, <2>4, <3>1, ConcatProperties DEF e
  <2>7. i \in 1..(e + n) /\ j \in 1..(e + n) /\ i \in Nat /\ j \in Nat
    BY <2>1, <2>3, <2>6
  <2>8. CASE j <= e
    <3>1. i = 1 /\ j = 2 /\ e = 2
      BY <2>3, <2>7, <2>8
    <3>2. FieldNames[1] = Embeds[1] /\ FieldNames[2] = Embeds[2]
      BY <2>1, <2>6, <3>1
    <3> QED
      BY <3>1, <3>2, EmbedsAreTwo DEF e
  <2>9. CASE e < i
    <3>1. i - e \in 1..n /\ j - e \in 1..n /\ i - e # j - e
      BY <2>1, <2>3, <2>7, <2>9
    <3>2. FieldNames[i] = names[i - e] /\ FieldNames[j] = names[j - e]
      <4>1. ~(i <= e) /\ ~(j <= e)
        BY <2>3, <2>7, <2>9
      <4> QED
        BY <2>6, <2>7, <4>1
    <3>3. fields[i - e].ident = fields[j - e].ident
      BY <2>5, <3>1, <3>2
    <3> QED
      BY <2>1, <3>1, <3>3 DEF ColumnsDiffer
  <2> QED
    BY <2>3, <2>7, <2>8, <2>9 DEF e
<1> QED
  BY <1>1, ColumnsDifferInv, TypeCorrect, PTL

-----------------------------------------------------------------------------
(* The two flags of columnInfo say what the fields written so far need.    *)
NeedsNull(type) == type.form # "plain"
NeedsTime(type) == type.form # "sql.Null" /\ type.base = "temporal"

Flags ==
  /\ info.isNullable <=> \E i \in DOMAIN fields : NeedsNull(fields[i].type)
  /\ info.isTemporal <=> \E i \in DOMAIN fields : NeedsTime(fields[i].type)
  /\ \A i \in DOMAIN fields :
       fields[i].type.form = IF NeedsNull(fields[i].type)
                             THEN IF settings.sql THEN "sql.Null" ELSE "pointer"
                             ELSE "plain"

(* What mapDbColumnTypeToGoType returns of a column agrees with its type.  *)
LEMMA InfoAgrees ==
  ASSUME TypeOK, NEW c \in ColumnType
  PROVE  LET t == Field(c).type
         IN /\ InfoOf(c).isNullable <=> NeedsNull(t)
            /\ InfoOf(c).isTemporal <=> NeedsTime(t)
            /\ t.form = IF NeedsNull(t) THEN IF settings.sql THEN "sql.Null" ELSE "pointer"
                        ELSE "plain"
<1>1. c.null \in BOOLEAN /\ settings.sql \in BOOLEAN
  BY SettingsAssumption DEF ColumnType, TypeOK, SettingsType
<1> QED
  BY <1>1 DEF Field, GoType, InfoOf, NeedsNull, NeedsTime

LEMMA FlagsInv == Spec => []Flags
<1>1. Init => Flags
  BY DEF Init, Flags
<1>2. TypeOK /\ Flags /\ [Next]_vars => Flags'
  <2> SUFFICES ASSUME TypeOK, Flags, [Next]_vars PROVE Flags'
    OBVIOUS
  <2>1. CASE AddField
    <3> DEFINE c == columns[next]
               n == Len(fields) + 1
    <3>1. c \in ColumnType /\ fields'[n] = Field(c) /\ n = Len(fields')
      BY <2>1, FieldAdded
    <3>2. fields \in Seq(FieldType) /\ fields' \in Seq(FieldType)
      <4>1. Field(c) \in FieldType
        BY <2>1, <3>1, FieldTyped DEF AddField
      <4> QED
        BY <2>1, <4>1 DEF AddField, TypeOK
    <3>3. DOMAIN fields' = DOMAIN fields \cup {n} /\ n \notin DOMAIN fields
      BY <3>1, <3>2
    <3>4. \A i \in DOMAIN fields : fields'[i] = fields[i]
      BY <2>1, <3>2, FieldAdded
    <3>5. /\ info'.isNullable <=> (info.isNullable \/ InfoOf(c).isNullable)
          /\ info'.isTemporal <=> (info.isTemporal \/ InfoOf(c).isTemporal)
      BY <2>1 DEF AddField
    <3>6. settings' = settings
      BY <2>1 DEF AddField
    <3>7. LET t == Field(c).type
          IN /\ InfoOf(c).isNullable <=> NeedsNull(t)
             /\ InfoOf(c).isTemporal <=> NeedsTime(t)
             /\ t.form = IF NeedsNull(t) THEN IF settings.sql THEN "sql.Null" ELSE "pointer"
                         ELSE "plain"
      BY <3>1, InfoAgrees
    <3> HIDE DEF c, n
    <3>8. info'.isNullable <=> \E i \in DOMAIN fields' : NeedsNull(fields'[i].type)
      BY <3>1, <3>3, <3>4, <3>5, <3>7 DEF Flags
    <3>9. info'.isTemporal <=> \E i \in DOMAIN fields' : NeedsTime(fields'[i].type)
      BY <3>1, <3>3, <3>4, <3>5, <3>7 DEF Flags
    <3>10. \A i \in DOMAIN fields' :
             fields'[i].type.form = IF NeedsNull(fields'[i].type)
                                    THEN IF settings.sql THEN "sql.Null" ELSE "pointer"
                                    ELSE "plain"
      BY <3>1, <3>3, <3>4, <3>7 DEF Flags
    <3> QED
      BY <3>6, <3>8, <3>9, <3>10 DEF Flags
  <2>2. CASE UNCHANGED <<settings, fields, info>>
    BY <2>2 DEF Flags
  <2> QED
    BY <2>1, <2>2 DEF Next, vars, Scan, ScanFails, ScanEnds, RefuseName, SkipKnown, GenerateImports
<1> QED
  BY <1>1, <1>2, TypeCorrect, PTL DEF Spec

(* Exactly the packages that the fields use are imported, whatever columns *)
(* the table has and whichever of them were skipped.                       *)
THEOREM ImportsAreExact == Spec => []ImportsAreThoseUsed
<1>1. Init => ImportsAreThoseUsed
  BY DEF Init, ImportsAreThoseUsed
<1>2. TypeOK /\ Flags /\ ImportsAreThoseUsed /\ [Next]_vars => ImportsAreThoseUsed'
  <2> SUFFICES ASSUME TypeOK, Flags, ImportsAreThoseUsed, [Next]_vars
               PROVE  ImportsAreThoseUsed'
    OBVIOUS
  <2>1. CASE GenerateImports
    <3> DEFINE used == UNION {Package(fields[i].type) : i \in DOMAIN fields}
    <3>1. used \subseteq {"database/sql", "time"}
      BY DEF Package
    <3>2. "database/sql" \in used <=> info.isNullable /\ settings.sql
      BY DEF Package, Flags, NeedsNull
    <3>3. "time" \in used <=> info.isTemporal
      BY DEF Package, Flags, NeedsTime
    <3>4. used = (IF info.isNullable /\ settings.sql THEN {"database/sql"} ELSE {})
                 \cup (IF info.isTemporal THEN {"time"} ELSE {})
      BY <3>1, <3>2, <3>3
    <3>5. imports' = Embedded \cup used
      BY <2>1, <3>4 DEF GenerateImports
    <3>6. settings' = settings /\ fields' = fields
      BY <2>1 DEF GenerateImports
    <3> QED
      BY <3>5, <3>6 DEF ImportsAreThoseUsed, Embedded
  <2>2. CASE phase' # "done"
    BY <2>2 DEF ImportsAreThoseUsed
  <2>3. CASE UNCHANGED vars
    BY <2>3 DEF vars, ImportsAreThoseUsed, Embedded
  <2> QED
    BY <2>1, <2>2, <2>3
    DEF Next, Scan, ScanFails, ScanEnds, RefuseName, SkipKnown, AddField, Building
<1> QED
  BY <1>1, <1>2, TypeCorrect, FlagsInv, PTL DEF Spec

-----------------------------------------------------------------------------
(* From the definition of a column to its field.  Names are unique within  *)
(* a table, so a column of the result knows its place by its name.         *)
QueryKept == query \in Queries

LEMMA QueryInv == Spec => []QueryKept
<1>1. Init => QueryKept
  BY DEF Init, QueryKept
<1>2. QueryKept /\ [Next]_vars => QueryKept'
  BY DEF QueryKept, Next, vars, Scan, ScanFails, ScanEnds, RefuseName, SkipKnown, AddField,
         GenerateImports
<1> QED
  BY <1>1, <1>2, PTL DEF Spec

LEMMA PositionOfName ==
  ASSUME QueryKept, NEW i \in DOMAIN table
  PROVE  Position(table[i].name) = i
<1>1. \A j \in DOMAIN table : table[j].name = table[i].name => j = i
  BY QueryAssumption DEF QueryKept, table
<1> QED
  BY <1>1 DEF Position

LEMMA PositionKept ==
  ASSUME query' = query, NEW name
  PROVE  Position(name)' = Position(name) /\ table' = table
BY DEF Position, table

Pos(c) == Position(c.name)

(* What a column of the result says is so by the definition of the table.  *)
Agrees(c) ==
  LET def == table[Pos(c)]
  IN /\ Pos(c) \in DOMAIN table
     /\ c.name = def.name /\ c.type = def.type
     /\ c.key => "PRIMARY KEY" \in def.keys
     /\ "PRIMARY KEY" \in def.keys /\ ~c.key =>
          settings.driver = "pg" /\ Cardinality(def.keys) > 1

Sourced ==
  /\ \A row \in rows : row[1] = query.name =>
       row[3] \in Constraints(Defined(row), settings.driver)
  /\ \A i \in DOMAIN columns : Agrees(columns[i])

LEMMA KeysFinite ==
  ASSUME NEW S \in SUBSET Keys, NEW a \in S, NEW b \in S, a # b
  PROVE  Cardinality(S) > 1
<1>1. IsFiniteSet(Keys) /\ IsFiniteSet(S)
  <2>1. IsFiniteSet({}) /\ IsFiniteSet({"PRIMARY KEY"})
    BY FS_EmptySet, FS_Singleton
  <2>2. IsFiniteSet({"PRIMARY KEY"} \cup {"FOREIGN KEY"})
    BY <2>1, FS_AddElement
  <2>3. IsFiniteSet(({"PRIMARY KEY"} \cup {"FOREIGN KEY"}) \cup {"UNIQUE"})
    BY <2>2, FS_AddElement
  <2>4. Keys = ({"PRIMARY KEY"} \cup {"FOREIGN KEY"}) \cup {"UNIQUE"}
    BY DEF Keys
  <2> QED
    BY <2>3, <2>4, FS_Subset
<1>2. Cardinality(S) \in Nat /\ Cardinality(S) # 0 /\ Cardinality(S) # 1
  <2>1. Cardinality(S) \in Nat /\ Cardinality(S) # 0
    BY <1>1, FS_CardinalityType, FS_EmptySet
  <2>2. ASSUME Cardinality(S) = 1 PROVE FALSE
    <3>1. \E x : S = {x}
      BY <1>1, <2>2, FS_Singleton
    <3> QED
      BY <3>1
  <2> QED
    BY <2>1, <2>2
<1> QED
  BY <1>2

LEMMA ColumnAgrees ==
  ASSUME TypeOK, QueryKept, Sourced, NEW row \in rows, OfTable(row)
  PROVE  Agrees(Column(row)) /\ Pos(Column(row)) = row[2]
<1>1. row[2] \in DOMAIN table /\ Defined(row) = table[row[2]] /\ Defined(row) \in Definition
  BY DEF TypeOK, OfTable, Defined, table
<1>2. Pos(Column(row)) = row[2]
  BY <1>1, PositionOfName DEF Pos, Column
<1>3. row[3] \in Constraints(Defined(row), settings.driver)
  BY DEF Sourced, OfTable
<1>4. MarksKey(row) => "PRIMARY KEY" \in Defined(row).keys
  BY <1>3 DEF MarksKey, Constraints, NoConstraint
<1>5. ASSUME "PRIMARY KEY" \in Defined(row).keys, ~MarksKey(row)
      PROVE  settings.driver = "pg" /\ Cardinality(Defined(row).keys) > 1
  <2>1. settings.driver = "pg" /\ row[3] # "PRIMARY KEY"
    BY <1>5 DEF MarksKey
  <2>2. row[3] \in Defined(row).keys
    BY <1>3, <1>5, <2>1 DEF Constraints
  <2>3. Defined(row).keys \in SUBSET Keys
    BY <1>1 DEF Definition
  <2> QED
    BY <1>5, <2>1, <2>2, <2>3, KeysFinite
<1> QED
  BY <1>1, <1>2, <1>4, <1>5 DEF Agrees, Column

(* One row is scanned; the rows of other tables are dropped.               *)
LEMMA ScanStep ==
  ASSUME TypeOK, QueryKept, Sourced, Scan
  PROVE  \E row \in rows :
    /\ rows' = rows \ {row}
    /\ \A other \in rows : other[1] = row[1] => row[2] <= other[2]
    /\ ~OfTable(row) => columns' = columns
    /\ OfTable(row) =>
         /\ DOMAIN columns' = DOMAIN columns \cup {Len(columns) + 1}
         /\ \A i \in DOMAIN columns : columns'[i] = columns[i] /\ i < Len(columns) + 1
         /\ Agrees(columns'[Len(columns) + 1]) /\ Pos(columns'[Len(columns) + 1]) = row[2]
<1>1. PICK row \in rows :
        /\ \A other \in rows : other[1] = row[1] => row[2] <= other[2]
        /\ rows' = rows \ {row}
        /\ columns' = IF OfTable(row) THEN Append(columns, Column(row)) ELSE columns
  BY DEF Scan
<1>2. ASSUME OfTable(row)
      PROVE  /\ DOMAIN columns' = DOMAIN columns \cup {Len(columns) + 1}
             /\ \A i \in DOMAIN columns : columns'[i] = columns[i] /\ i < Len(columns) + 1
             /\ columns'[Len(columns) + 1] = Column(row)
  BY <1>1, <1>2, ColumnTyped DEF TypeOK
<1> QED
  BY <1>1, <1>2, ColumnAgrees

(* Marking the key of SQLite changes nothing but serial.                   *)
LEMMA MarkedSame ==
  ASSUME TypeOK
  PROVE  /\ DOMAIN Marked = DOMAIN columns
         /\ \A i \in DOMAIN columns :
              /\ Marked[i].name = columns[i].name
              /\ Marked[i].type = columns[i].type
              /\ Marked[i].key = columns[i].key
              /\ settings.driver = "sqlite3" /\ Marked[i].serial =>
                   columns[i].serial \/ KeyPositions = {i}
<1>1. DOMAIN Marked = DOMAIN columns
  BY DEF Marked
<1> SUFFICES ASSUME NEW i \in DOMAIN columns
             PROVE  /\ Marked[i].name = columns[i].name
                    /\ Marked[i].type = columns[i].type
                    /\ Marked[i].key = columns[i].key
                    /\ settings.driver = "sqlite3" /\ Marked[i].serial =>
                         columns[i].serial \/ KeyPositions = {i}
  BY <1>1
<1> DEFINE serial == \/ columns[i].serial
                     \/ /\ settings.driver = "sqlite3"
                        /\ KeyPositions = {i}
                        /\ columns[i].type = "integer"
<1>2. columns[i] \in ColumnType
  BY DEF TypeOK
<1>3. Marked[i] = [columns[i] EXCEPT !.serial = serial]
  BY Zenon DEF Marked
<1>4. serial => columns[i].serial \/ KeyPositions = {i}
  BY Zenon
<1>5. serial \in BOOLEAN
  BY Zenon
<1> HIDE DEF serial
<1> QED
  BY <1>2, <1>3, <1>4, <1>5 DEF ColumnType

LEMMA SourcedInv == Spec => []Sourced
<1>1. Init => Sourced
  <2> SUFFICES ASSUME Init PROVE Sourced
    OBVIOUS
  <2>1. ASSUME NEW row \in rows PROVE row[3] \in Constraints(Defined(row), settings.driver)
    <3>1. PICK t \in Answered(query, settings.driver) :
            row \in RowsOf(t, query.schema[t], settings.driver)
      BY DEF Init, ResultOf
    <3>2. PICK i \in DOMAIN query.schema[t] :
            row \in {t} \X {i} \X Constraints(query.schema[t][i], settings.driver)
      BY <3>1 DEF RowsOf
    <3> QED
      BY <3>2 DEF Defined
  <2>2. columns = <<>>
    BY DEF Init
  <2> QED
    BY <2>1, <2>2 DEF Sourced
<1>2. TypeOK /\ QueryKept /\ Sourced /\ [Next]_vars => Sourced'
  <2> SUFFICES ASSUME TypeOK, QueryKept, Sourced, [Next]_vars PROVE Sourced'
    OBVIOUS
  <2>1. query' = query /\ settings' = settings /\ table' = table
    BY DEF Next, vars, Scan, ScanFails, ScanEnds, RefuseName, SkipKnown, AddField,
           GenerateImports, table
  <2>2. \A c : Agrees(c)' <=> Agrees(c)
    BY <2>1 DEF Agrees, Pos, Position, table
  <2>3. ASSUME rows' \subseteq rows
        PROVE  \A row \in rows' : row[1] = query'.name =>
                 row[3] \in Constraints(Defined(row), settings.driver)'
    BY <2>1, <2>3 DEF Sourced, Defined, Constraints
  <2>4. CASE Scan
    BY <2>1, <2>2, <2>3, <2>4, ScanStep DEF Sourced
  <2>5. CASE ScanEnds
    <3>1. columns' = Marked /\ rows' = rows
      BY <2>5 DEF ScanEnds
    <3>2. \A i \in DOMAIN columns : Agrees(Marked[i])
      <4> TAKE i \in DOMAIN columns
      <4>1. /\ Marked[i].name = columns[i].name /\ Marked[i].type = columns[i].type
            /\ Marked[i].key = columns[i].key
        BY MarkedSame
      <4>2. Agrees(columns[i])
        BY DEF Sourced
      <4>3. Pos(Marked[i]) = Pos(columns[i])
        BY <4>1 DEF Pos
      <4> QED
        BY <4>1, <4>2, <4>3 DEF Agrees
    <3>3. \A i \in DOMAIN columns' : Agrees(columns'[i])
      BY <3>1, <3>2, MarkedSame
    <3>4. \A i \in DOMAIN columns' : Agrees(columns[i])'
      BY <2>1, <3>3 DEF Agrees, Pos, Position, table
    <3> QED
      BY <2>3, <3>1, <3>4 DEF Sourced
  <2>6. CASE UNCHANGED <<rows, columns>>
    BY <2>1, <2>2, <2>3, <2>6 DEF Sourced
  <2> QED
    BY <2>4, <2>5, <2>6 DEF Next, vars, ScanFails, RefuseName, SkipKnown, AddField,
                            GenerateImports
<1> QED
  BY <1>1, <1>2, TypeCorrect, QueryInv, PTL DEF Spec

(* The columns are in the order of the table, and those that are not there *)
(* yet come after them; and none is missed if the query selects the table. *)
IsRowOfTable(row) == row[1] = query.name

Ordered ==
  /\ \A i, j \in DOMAIN columns : i < j => Pos(columns[i]) <= Pos(columns[j])
  /\ \A i \in DOMAIN columns, row \in rows : IsRowOfTable(row) => Pos(columns[i]) <= row[2]

Complete ==
  query.name \in Answered(query, settings.driver) =>
    \A p \in DOMAIN table :
      \/ \E row \in rows : IsRowOfTable(row) /\ row[2] = p
      \/ \E i \in DOMAIN columns : Pos(columns[i]) = p

LEMMA OrderedInv == Spec => []Ordered
<1>1. Init => Ordered
  BY DEF Init, Ordered
<1>2. TypeOK /\ QueryKept /\ Sourced /\ Ordered /\ [Next]_vars => Ordered'
  <2> SUFFICES ASSUME TypeOK, QueryKept, Sourced, Ordered, [Next]_vars PROVE Ordered'
    OBVIOUS
  <2>1. query' = query /\ settings' = settings
    BY DEF Next, vars, Scan, ScanFails, ScanEnds, RefuseName, SkipKnown, AddField,
           GenerateImports
  <2>2. \A c : Pos(c)' = Pos(c)
    BY <2>1 DEF Pos, Position, table
  <2>3. \A i \in DOMAIN columns : Pos(columns[i]) \in Nat
    <3>1. \A i \in DOMAIN columns : Pos(columns[i]) \in DOMAIN table
      BY Zenon DEF Sourced, Agrees
    <3>2. DOMAIN table \subseteq Nat
      BY DEF TypeOK
    <3> QED
      BY <3>1, <3>2
  <2>4. CASE Scan
    <3>1. PICK row \in rows :
            /\ rows' = rows \ {row}
            /\ \A other \in rows : other[1] = row[1] => row[2] <= other[2]
            /\ ~OfTable(row) => columns' = columns
            /\ OfTable(row) =>
                 /\ DOMAIN columns' = DOMAIN columns \cup {Len(columns) + 1}
                 /\ \A i \in DOMAIN columns : columns'[i] = columns[i] /\ i < Len(columns) + 1
                 /\ Pos(columns'[Len(columns) + 1]) = row[2]
      BY <2>4, ScanStep
    <3>2. CASE ~OfTable(row)
      BY <2>1, <2>2, <3>1, <3>2 DEF Ordered, IsRowOfTable
    <3>3. CASE OfTable(row)
      <4>1. \A i \in DOMAIN columns : Pos(columns[i]) <= row[2]
        BY <3>3 DEF Ordered, IsRowOfTable, OfTable
      <4>2. ASSUME NEW i \in DOMAIN columns', NEW j \in DOMAIN columns', i < j
            PROVE  Pos(columns'[i]) <= Pos(columns'[j])
        <5>1. i \in DOMAIN columns
          <6>1. Len(columns) \in Nat /\ DOMAIN columns = 1..Len(columns)
            BY DEF TypeOK
          <6> QED
            BY <3>1, <3>3, <4>2, <6>1
        <5>2. CASE j \in DOMAIN columns
          BY <3>1, <3>3, <4>2, <5>1, <5>2 DEF Ordered
        <5>3. CASE j = Len(columns) + 1
          BY <3>1, <3>3, <4>1, <5>1, <5>3
        <5> QED
          BY <3>1, <3>3, <5>2, <5>3
      <4>3. ASSUME NEW i \in DOMAIN columns', NEW other \in rows', IsRowOfTable(other)
            PROVE  Pos(columns'[i]) <= other[2]
        <5>1. other \in rows
          BY <3>1, <4>3
        <5>2. CASE i \in DOMAIN columns
          BY <3>1, <3>3, <4>3, <5>1, <5>2 DEF Ordered
        <5>3. CASE i = Len(columns) + 1
          BY <3>1, <3>3, <4>3, <5>1, <5>3 DEF IsRowOfTable, OfTable
        <5> QED
          BY <3>1, <3>3, <5>2, <5>3
      <4>4. \A other : IsRowOfTable(other)' <=> IsRowOfTable(other)
        BY <2>1 DEF IsRowOfTable
      <4> QED
        BY <2>2, <4>2, <4>3, <4>4 DEF Ordered
    <3> QED
      BY <3>2, <3>3
  <2>5. CASE ScanEnds
    <3>1. columns' = Marked /\ rows' = rows
      BY <2>5 DEF ScanEnds
    <3>2. \A i \in DOMAIN columns : Pos(Marked[i]) = Pos(columns[i])
      BY MarkedSame DEF Pos
    <3> QED
      BY <2>1, <2>2, <3>1, <3>2, MarkedSame DEF Ordered, IsRowOfTable
  <2>6. CASE UNCHANGED <<rows, columns>>
    BY <2>1, <2>2, <2>6 DEF Ordered, IsRowOfTable
  <2> QED
    BY <2>4, <2>5, <2>6 DEF Next, vars, ScanFails, RefuseName, SkipKnown, AddField,
                            GenerateImports
<1> QED
  BY <1>1, <1>2, TypeCorrect, QueryInv, SourcedInv, PTL DEF Spec

LEMMA CompleteInv == Spec => []Complete
<1>1. Init => Complete
  <2> SUFFICES ASSUME Init, query.name \in Answered(query, settings.driver),
                      NEW p \in DOMAIN table
               PROVE  \E row \in rows : IsRowOfTable(row) /\ row[2] = p
    BY DEF Complete
  <2>1. PICK k \in Constraints(table[p], settings.driver) : TRUE
    BY DEF Constraints
  <2>2. <<query.name, p, k>> \in RowsOf(query.name, table, settings.driver)
    BY <2>1 DEF RowsOf
  <2>3. <<query.name, p, k>> \in rows
    BY <2>2 DEF Init, ResultOf, table
  <2> QED
    BY <2>3 DEF IsRowOfTable
<1>2. TypeOK /\ QueryKept /\ Sourced /\ Complete /\ [Next]_vars => Complete'
  <2> SUFFICES ASSUME TypeOK, QueryKept, Sourced, Complete, [Next]_vars PROVE Complete'
    OBVIOUS
  <2>1. query' = query /\ settings' = settings /\ table' = table
    BY DEF Next, vars, Scan, ScanFails, ScanEnds, RefuseName, SkipKnown, AddField,
           GenerateImports, table
  <2>2. /\ \A c : Pos(c)' = Pos(c)
        /\ \A row : IsRowOfTable(row)' <=> IsRowOfTable(row)
        /\ \A t : (t \in Answered(query, settings.driver))' <=> t \in Answered(query, settings.driver)
    BY <2>1 DEF Pos, Position, table, IsRowOfTable, Answered
  <2> SUFFICES ASSUME query.name \in Answered(query, settings.driver), NEW p \in DOMAIN table
               PROVE  \/ \E row \in rows' : IsRowOfTable(row) /\ row[2] = p
                      \/ \E i \in DOMAIN columns' : Pos(columns'[i]) = p
    BY <2>1, <2>2 DEF Complete
  <2>3. \/ \E row \in rows : IsRowOfTable(row) /\ row[2] = p
        \/ \E i \in DOMAIN columns : Pos(columns[i]) = p
    BY DEF Complete
  <2>4. CASE Scan
    <3>1. PICK row \in rows :
            /\ rows' = rows \ {row}
            /\ ~OfTable(row) => columns' = columns
            /\ OfTable(row) =>
                 /\ DOMAIN columns' = DOMAIN columns \cup {Len(columns) + 1}
                 /\ \A i \in DOMAIN columns : columns'[i] = columns[i]
                 /\ Pos(columns'[Len(columns) + 1]) = row[2]
      BY <2>4, ScanStep
    <3> QED
      BY <2>2, <2>3, <3>1 DEF IsRowOfTable, OfTable
  <2>5. CASE ScanEnds
    <3>1. columns' = Marked /\ rows' = rows
      BY <2>5 DEF ScanEnds
    <3>2. \A i \in DOMAIN columns : Pos(Marked[i]) = Pos(columns[i])
      BY MarkedSame DEF Pos
    <3> QED
      BY <2>2, <2>3, <3>1, <3>2, MarkedSame
  <2>6. CASE UNCHANGED <<rows, columns>>
    BY <2>2, <2>3, <2>6
  <2> QED
    BY <2>4, <2>5, <2>6 DEF Next, vars, ScanFails, RefuseName, SkipKnown, AddField,
                            GenerateImports
<1> QED
  BY <1>1, <1>2, TypeCorrect, QueryInv, SourcedInv, PTL DEF Spec

-----------------------------------------------------------------------------
(* Every field is of a column, and every column looked at has a field of   *)
(* its name, made of itself or of a column before it.                      *)
Of(field, c) ==
  /\ field.of = c.name
  /\ field.ident = GoName[c.name]
  /\ field.type.base = c.type
  /\ field.key = c.key
  /\ field.serial = c.serial

Place(j) == Position(fields[j].of)

Built ==
  /\ phase = "scan" => fields = <<>> /\ next = 1
  /\ \A j \in DOMAIN fields : \E i \in DOMAIN columns : i < next /\ Of(fields[j], columns[i])
  /\ \A i \in DOMAIN columns : i < next =>
       \E j \in DOMAIN fields :
         fields[j].ident = GoName[columns[i].name] /\ Place(j) <= Pos(columns[i])
  /\ \A j, k \in DOMAIN fields : j < k => Place(j) < Place(k)

(* Where the columns are, as natural numbers.                              *)
LEMMA PosIsNat ==
  ASSUME TypeOK, Sourced
  PROVE  \A i \in DOMAIN columns : Pos(columns[i]) \in Nat
<1>1. \A i \in DOMAIN columns : Pos(columns[i]) \in DOMAIN table
  BY Zenon DEF Sourced, Agrees
<1>2. DOMAIN table \subseteq Nat
  BY DEF TypeOK
<1> QED
  BY <1>1, <1>2

LEMMA BuiltInv == Spec => []Built
<1>1. Init => Built
  BY DEF Init, Built
<1>2. TypeOK /\ TypeOK' /\ QueryKept /\ Sourced /\ Ordered /\ Built /\ [Next]_vars => Built'
  <2> SUFFICES ASSUME TypeOK, TypeOK', QueryKept, Sourced, Ordered, Built, [Next]_vars PROVE Built'
    OBVIOUS
  <2>1. query' = query
    BY DEF Next, vars, Scan, ScanFails, ScanEnds, RefuseName, SkipKnown, AddField,
           GenerateImports
  <2>2. \A name : Position(name)' = Position(name)
    BY <2>1 DEF Position, table
  <2>3. DOMAIN columns = 1..Len(columns) /\ DOMAIN fields = 1..Len(fields)
        /\ Len(columns) \in Nat /\ Len(fields) \in Nat /\ next \in Nat /\ next >= 1
    BY DEF TypeOK
  <2>4. CASE Scan \/ ScanFails \/ ScanEnds
    <3>1. fields = <<>> /\ next = 1 /\ fields' = fields /\ next' = next
      BY <2>4 DEF Built, Scan, ScanFails, ScanEnds
    <3>2. DOMAIN fields' = {} /\ \A i \in DOMAIN columns' : ~(i < next')
      <4>1. columns' \in Seq(ColumnType)
        BY DEF TypeOK
      <4>2. \A i \in DOMAIN columns' : i \in Nat /\ i >= 1
        BY <2>3, <4>1
      <4> QED
        BY <3>1, <4>2
    <3> QED
      BY <3>1, <3>2 DEF Built
  <2>5. CASE SkipKnown
    <3>1. /\ next \in DOMAIN columns /\ next' = next + 1
          /\ UNCHANGED <<columns, fields>> /\ phase' = "build"
          /\ \E j \in DOMAIN fields : fields[j].ident = GoName[columns[next].name]
      BY <2>3, <2>5 DEF SkipKnown, Building, Known, Idents
    <3>2. PICK j \in DOMAIN fields : fields[j].ident = GoName[columns[next].name]
      BY <3>1
    <3>3. PICK i \in DOMAIN columns : i < next /\ Of(fields[j], columns[i])
      BY <3>2 DEF Built
    <3>4. Place(j) <= Pos(columns[next])
      BY <3>1, <3>3 DEF Ordered, Of, Place, Pos
    <3>5. \A k \in DOMAIN columns : k < next' => k < next \/ k = next
      BY <2>3, <3>1
    <3>6. \A k \in DOMAIN columns : k < next => k < next'
      BY <2>3, <3>1
    <3> QED
      BY <2>2, <3>1, <3>2, <3>4, <3>5, <3>6 DEF Built, Place, Pos
  <2>6. CASE AddField
    <3> DEFINE n == Len(fields) + 1
               c == columns[next]
    <3>1. /\ next \in DOMAIN columns /\ next' = next + 1
          /\ UNCHANGED columns /\ phase' = "build"
          /\ \A j \in DOMAIN fields : fields[j].ident # GoName[c.name]
      BY <2>3, <2>6 DEF AddField, Building, Known, Idents
    <3>2. /\ DOMAIN fields' = DOMAIN fields \cup {n}
          /\ \A j \in DOMAIN fields : fields'[j] = fields[j] /\ j < n
          /\ fields'[n] = Field(c)
      <4>1. c \in ColumnType /\ Len(fields') = n
            /\ (\A i \in 1..Len(fields) : fields'[i] = fields[i]) /\ fields'[n] = Field(c)
        BY <2>6, FieldAdded
      <4>2. Field(c) \in FieldType
        BY <2>6, <4>1, FieldTyped DEF AddField
      <4>3. fields' \in Seq(FieldType)
        BY <2>6, <4>2 DEF AddField, TypeOK
      <4> QED
        BY <2>3, <4>1, <4>3
    <3>3. Of(Field(c), c)
      BY DEF Of, Field, GoType
    <3>4. \A j \in DOMAIN fields : Place(j) < Pos(c)
      <4> SUFFICES ASSUME NEW j \in DOMAIN fields PROVE Place(j) < Pos(c)
        OBVIOUS
      <4>1. PICK i \in DOMAIN columns : i < next /\ Of(fields[j], columns[i])
        BY DEF Built
      <4>2. Place(j) = Pos(columns[i]) /\ Pos(columns[i]) <= Pos(c)
        BY <3>1, <4>1 DEF Ordered, Of, Place, Pos
      <4>3. columns[i].name # c.name
        BY <3>1, <4>1 DEF Of
      <4>4. Pos(columns[i]) # Pos(c)
        BY <3>1, <4>3, Zenon DEF Sourced, Agrees
      <4>5. Pos(columns[i]) \in Nat /\ Pos(c) \in Nat
        BY <3>1, PosIsNat
      <4> QED
        BY <4>2, <4>4, <4>5
    <3>5. \A k \in DOMAIN columns : k < next' => k < next \/ k = next
      BY <2>3, <3>1
    <3>6. (\A k \in DOMAIN columns : k < next => k < next') /\ next < next'
      BY <2>3, <3>1
    <3>7. Pos(c) \in Nat /\ n \in Nat
      BY <2>3, <3>1, PosIsNat
    <3> HIDE DEF n, c
    <3>8. \A j \in DOMAIN fields' : \E i \in DOMAIN columns' :
            i < next' /\ Of(fields'[j], columns'[i])
      <4>1. \A j \in DOMAIN fields : \E i \in DOMAIN columns :
              i < next' /\ Of(fields[j], columns[i])
        BY <3>6 DEF Built
      <4> QED
        BY <3>1, <3>2, <3>3, <3>6, <4>1 DEF c
    <3>9. \A i \in DOMAIN columns' : i < next' => \E j \in DOMAIN fields' :
            fields'[j].ident = GoName[columns'[i].name]
            /\ Position(fields'[j].of) <= Pos(columns[i])
      <4>1. ASSUME NEW i \in DOMAIN columns, i < next
            PROVE  \E j \in DOMAIN fields' :
                     fields'[j].ident = GoName[columns[i].name]
                     /\ Position(fields'[j].of) <= Pos(columns[i])
        BY <3>2, <4>1 DEF Built, Place
      <4>2. fields'[n].ident = GoName[c.name] /\ Position(fields'[n].of) = Pos(c)
        BY <3>2, <3>3 DEF Of, Pos
      <4> QED
        BY <3>1, <3>2, <3>5, <3>7, <4>1, <4>2 DEF c
    <3>10. \A j, k \in DOMAIN fields' : j < k =>
             Position(fields'[j].of) < Position(fields'[k].of)
      <4> SUFFICES ASSUME NEW j \in DOMAIN fields', NEW k \in DOMAIN fields', j < k
                   PROVE  Position(fields'[j].of) < Position(fields'[k].of)
        OBVIOUS
      <4>1. j \in DOMAIN fields
        BY <2>3, <3>2, <3>7
      <4>2. CASE k \in DOMAIN fields
        BY <3>2, <4>1, <4>2 DEF Built, Place
      <4>3. CASE k = n
        BY <3>2, <3>3, <3>4, <4>1, <4>3 DEF Of, Pos, Place
      <4> QED
        BY <3>2, <4>2, <4>3
    <3> QED
      BY <2>2, <3>1, <3>8, <3>9, <3>10 DEF Built, Place, Pos
  <2>7. CASE RefuseName \/ GenerateImports \/ UNCHANGED vars
    <3>1. UNCHANGED <<columns, fields, next>> /\ (phase' = "scan" => phase = "scan")
      BY <2>7 DEF RefuseName, GenerateImports, vars
    <3> QED
      BY <2>2, <3>1 DEF Built, Place, Pos
  <2> QED
    BY <2>4, <2>5, <2>6, <2>7 DEF Next
<1> QED
  BY <1>1, <1>2, TypeCorrect, QueryInv, SourcedInv, OrderedInv, PTL DEF Spec

(* Fields in the order of the columns, each of a column of the table, and  *)
(* no column without one of its name, if the database folds table names as *)
(* Go does.                                                                *)
THEOREM EveryColumnHasItsField == Spec => []ColumnsBecomeFields
<1>1. /\ TypeOK /\ QueryKept /\ Sourced /\ Complete /\ Built
      /\ phase = "done" => next > Len(columns)
      => ColumnsBecomeFields
  <2> SUFFICES ASSUME TypeOK, QueryKept, Sourced, Complete, Built, phase = "done",
                      next > Len(columns)
               PROVE  ColumnsBecomeFields
    BY DEF ColumnsBecomeFields
  <2>1. rows = {} /\ \A i \in DOMAIN columns : i < next
    BY DEF TypeOK
  <2>2. ASSUME NEW j \in DOMAIN fields
        PROVE  \E i \in DOMAIN table :
                 table[i].name = fields[j].of /\ table[i].type = fields[j].type.base
    <3>1. PICK i \in DOMAIN columns : Of(fields[j], columns[i])
      BY DEF Built
    <3> QED
      BY <3>1 DEF Sourced, Agrees, Of
  <2>3. ASSUME IsFoldedAlike, NEW p \in DOMAIN table
        PROVE  \E j \in DOMAIN fields :
                 fields[j].ident = GoName[table[p].name] /\ Place(j) <= p
    <3>1. query.name \in Answered(query, settings.driver)
      <4>1. settings.driver \in {"pg", "mysql", "sqlite3"}
        BY SettingsAssumption DEF TypeOK, SettingsType
      <4>2. query.name \in DOMAIN query.schema /\ query.name \in query.given
        BY QueryAssumption DEF QueryKept
      <4> QED
        BY <2>3, <4>1, <4>2 DEF Answered, IsFoldedAlike
    <3>2. PICK i \in DOMAIN columns : Pos(columns[i]) = p
      BY <2>1, <3>1 DEF Complete
    <3>3. columns[i].name = table[p].name
      BY <3>2 DEF Sourced, Agrees
    <3> QED
      BY <2>1, <3>2, <3>3 DEF Built
  <2> QED
    BY <2>2, <2>3, Zenon DEF ColumnsBecomeFields, Built, Place
<1>2. Spec => [](phase = "done" => next > Len(columns))
  <2> DEFINE Over == phase = "done" => next > Len(columns)
  <2>1. Init => Over
    BY DEF Init
  <2>2. Over /\ [Next]_vars => Over'
    BY DEF Next, vars, Scan, ScanFails, ScanEnds, RefuseName, SkipKnown, AddField,
           GenerateImports, Building
  <2> QED
    BY <2>1, <2>2, PTL DEF Spec
<1> QED
  BY <1>1, <1>2, TypeCorrect, QueryInv, SourcedInv, CompleteInv, BuiltInv, PTL

(* A field is marked as key only if its column is one, and if it is one, in *)
(* all cases but a column of several constraints in Postgres.              *)
THEOREM KeysAreRight == Spec => []KeysAreMarked
<1>1. TypeOK /\ Sourced /\ Built => KeysAreMarked
  <2> SUFFICES ASSUME Sourced, Built, NEW j \in DOMAIN fields
               PROVE  LET def == table[Position(fields[j].of)]
                      IN /\ fields[j].key => "PRIMARY KEY" \in def.keys
                         /\ "PRIMARY KEY" \in def.keys /\ ~fields[j].key =>
                              settings.driver = "pg" /\ Cardinality(def.keys) > 1
    BY DEF KeysAreMarked
  <2>1. PICK i \in DOMAIN columns : Of(fields[j], columns[i])
    BY DEF Built
  <2>2. Agrees(columns[i]) /\ Pos(columns[i]) = Position(fields[j].of)
    BY <2>1 DEF Sourced, Of, Pos
  <2> QED
    BY <2>1, <2>2 DEF Agrees, Of
<1> QED
  BY <1>1, TypeCorrect, SourcedInv, BuiltInv, PTL

(* In SQLite, a column is marked as serial when all are there, and only    *)
(* the single one of the key.                                              *)
SerialIsOnlyKey ==
  settings.driver = "sqlite3" =>
    \A i \in DOMAIN columns : columns[i].serial => phase # "scan" /\ KeyPositions = {i}

LEMMA SerialInv == Spec => []SerialIsOnlyKey
<1>1. Init => SerialIsOnlyKey
  BY DEF Init, SerialIsOnlyKey
<1>2. TypeOK /\ SerialIsOnlyKey /\ [Next]_vars => SerialIsOnlyKey'
  <2> SUFFICES ASSUME TypeOK, SerialIsOnlyKey, [Next]_vars, settings.driver = "sqlite3"
               PROVE  SerialIsOnlyKey'
    BY DEF SerialIsOnlyKey, Next, vars, Scan, ScanFails, ScanEnds, RefuseName, SkipKnown,
           AddField, GenerateImports
  <2>1. CASE Scan
    <3>1. PICK row \in rows :
            columns' = IF OfTable(row) THEN Append(columns, Column(row)) ELSE columns
      BY <2>1 DEF Scan
    <3>2. ~Column(row).serial
      BY DEF Column, MarksSerial
    <3>3. \A i \in DOMAIN columns : ~columns[i].serial
      BY <2>1 DEF Scan, SerialIsOnlyKey
    <3>4. \A i \in DOMAIN columns' : ~columns'[i].serial
      BY <3>1, <3>2, <3>3 DEF TypeOK
    <3> QED
      BY <3>4 DEF SerialIsOnlyKey
  <2>2. CASE ScanEnds
    <3>1. columns' = Marked /\ phase' = "build" /\ phase = "scan"
      BY <2>2 DEF ScanEnds
    <3>2. \A i \in DOMAIN columns : Marked[i].serial => KeyPositions = {i}
      BY <3>1, MarkedSame DEF SerialIsOnlyKey
    <3>3. KeyPositions' = KeyPositions
      BY <3>1, MarkedSame DEF KeyPositions
    <3> QED
      BY <3>1, <3>2, <3>3, MarkedSame DEF SerialIsOnlyKey
  <2>3. CASE UNCHANGED <<settings, columns>> /\ (phase' = "scan" => phase = "scan")
    BY <2>3 DEF SerialIsOnlyKey, KeyPositions
  <2> QED
    BY <2>1, <2>2, <2>3 DEF Next, vars, ScanFails, RefuseName, SkipKnown, AddField,
                            GenerateImports
<1> QED
  BY <1>1, <1>2, TypeCorrect, PTL DEF Spec

(* The auto-incremented column of SQLite is the whole primary key.         *)
THEOREM SerialIsTheKey == Spec => []SQLiteSerialIsTheKey
<1>1. TypeOK /\ QueryKept /\ Sourced /\ Complete /\ Built /\ SerialIsOnlyKey
        => SQLiteSerialIsTheKey
  <2> SUFFICES ASSUME TypeOK, QueryKept, Sourced, Complete, Built, SerialIsOnlyKey,
                      phase = "done", settings.driver = "sqlite3",
                      NEW j \in DOMAIN fields, fields[j].serial
               PROVE  {p \in DOMAIN table : "PRIMARY KEY" \in table[p].keys} = {Place(j)}
    BY DEF SQLiteSerialIsTheKey, Place
  <2>1. PICK i \in DOMAIN columns : Of(fields[j], columns[i])
    BY DEF Built
  <2>2. KeyPositions = {i} /\ Pos(columns[i]) = Place(j)
    BY <2>1 DEF SerialIsOnlyKey, Of, Pos, Place
  <2>3. Place(j) \in DOMAIN table /\ "PRIMARY KEY" \in table[Place(j)].keys
    BY <2>2 DEF KeyPositions, Sourced, Agrees
  <2>4. ASSUME NEW p \in DOMAIN table, "PRIMARY KEY" \in table[p].keys PROVE p = Place(j)
    <3>1. query.name \in Answered(query, settings.driver) /\ rows = {}
      BY DEF TypeOK, Answered
    <3>2. PICK c \in DOMAIN columns : Pos(columns[c]) = p
      BY <3>1 DEF Complete
    <3>3. columns[c].key
      BY <2>4, <3>2 DEF Sourced, Agrees
    <3>4. columns[c].key => c \in KeyPositions
      BY DEF KeyPositions
    <3> QED
      BY <2>2, <3>2, <3>3, <3>4
  <2> QED
    BY <2>3, <2>4
<1> QED
  BY <1>1, TypeCorrect, QueryInv, SourcedInv, CompleteInv, BuiltInv, SerialInv, PTL
=============================================================================

------------------------------ MODULE FieldText ------------------------------
(***************************************************************************)
(* The text of a struct of one field, from the names, the comments and the *)
(* default that the database has to what Go and gorm read:                 *)
(* createTableStructString names the struct and the field (Names), writes  *)
(* the field with its tags (GormTag) and the comments (Comments), then the *)
(* file around it; a program compiled with it reads the tags.              *)
(*                                                                         *)
(* The names decide what reaches the tags: a column whose name is refused  *)
(* is not written, and one that is accepted is written as the database has *)
(* it, not as the field is called.                                         *)
(***************************************************************************)
EXTENDS GormTag, Names, Comments

CONSTANTS
  AnyName, AnyDefault,   \* of a column
  AnyTable, AnyComment   \* of a table; its column has the same comment

(* -format, -no-initialism, -comments, -gen-header.                        *)
SettingsType == [camel : BOOLEAN, initialisms : BOOLEAN,
                 comments : {"off", "line", "inline"}, header : BOOLEAN]

(* primaryKey stands for autoIncrement and not null, too; `next': another  *)
(* tag comes after the one of gorm.                                        *)
Columns == [name : AnyName, primaryKey : BOOLEAN, default : AnyDefault \cup {Nothing},
            next : BOOLEAN, table : AnyTable, comment : AnyComment]

(* What a file has apart from its comments is no white space.              *)
ASSUME CodeAssumption == {"type", "field", "}"} \cap White = {}

(* The characters that a reader of the tags treats specially are neither   *)
(* letters nor digits nor spaces.                                          *)
ASSUME MarkAssumption ==
  {Quote, Backslash, ";"} \cap (Letter \cup Digit \cup Space) = {}

(* Of the letters that make an escape sequence with a backslash, t stands  *)
(* for all.                                                                *)
ASSUME TextAssumption ==
  /\ AnyName \cup AnyTable \subseteq Seq(Symbol)
  /\ \A text \in AnyComment \cup AnyDefault : text \in Seq(Range(text))
  /\ \A text \in AnyDefault : \A i \in DOMAIN text :
       text[i] \notin {"column", "primaryKey", "default", "json", Tab}

VARIABLES
  settings,
  stage,   \* "table", "column", "field", "file", "written", "refused", "panicked"
  struct,  \* the name of the struct
  field,   \* the name of its field
  source   \* the text: first of the field, then of the file

fieldVars == <<settings, stage, struct, field, source>>
allVars   == <<vars, fieldVars>>

-----------------------------------------------------------------------------
StructNamed == StructName(column.table, <<>>, <<>>, settings.camel)

NameStruct ==
  /\ stage = "table"
  /\ StructNamed.kind = "accepted"
  /\ struct' = StructNamed.ident
  /\ stage' = "column"
  /\ UNCHANGED <<vars, settings, field, source>>

RefuseTable ==
  /\ stage = "table"
  /\ StructNamed.kind = "refused"
  /\ stage' = "refused"
  /\ UNCHANGED <<vars, settings, struct, field, source>>

FieldNamed == FormatColumnName(column.name, settings.camel, settings.initialisms)

NameField ==
  /\ stage = "column"
  /\ FieldNamed.kind = "accepted"
  /\ field' = FieldNamed.ident
  /\ stage' = "field"
  /\ UNCHANGED <<vars, settings, struct, source>>

RefuseColumn ==
  /\ stage = "column"
  /\ FieldNamed.kind = "refused"
  /\ stage' = "refused"
  /\ UNCHANGED <<vars, settings, struct, field, source>>

(* toInitialisms cuts the name beyond its end: the program dies.           *)
PanicAtColumn ==
  /\ stage = "column"
  /\ FieldNamed.kind = "panicked"
  /\ stage' = "panicked"
  /\ UNCHANGED <<vars, settings, struct, field, source>>

(* The declaration is one symbol, its tags are GormTag's.                  *)
WriteField ==
  /\ stage = "field"
  /\ Generate
  /\ source' = (IF settings.comments = "line" THEN LineComment(column.comment) ELSE <<>>)
               \o <<"field">>
               \o ((IF settings.comments = "inline" THEN InlineComment(column.comment) ELSE <<>>) \o <<LF>>)
  /\ stage' = "file"
  /\ UNCHANGED <<settings, struct, field>>

(* The table has the comment of the column; package and imports go without *)
(* saying.                                                                 *)
WriteFile ==
  /\ stage = "file"
  /\ source' = (IF settings.header THEN SourceLine(column.table) ELSE <<>>)
               \o (IF settings.comments = "off" THEN <<>> ELSE LineComment(column.comment))
               \o <<"type", LF>> \o source \o <<"}">>
  /\ stage' = "written"
  /\ UNCHANGED <<vars, settings, struct, field>>

(* The program that has the struct reads the tag.                          *)
ReadTag ==
  /\ stage = "written"
  /\ Lookup \/ LookupFails \/ Parse
  /\ UNCHANGED fieldVars

Started ==
  /\ Unwritten
  /\ stage = "table"
  /\ struct = <<>>
  /\ field = <<>>
  /\ source = <<>>

FieldInit == column \in Columns /\ settings \in SettingsType /\ Started

FieldNext ==
  \/ NameStruct \/ RefuseTable
  \/ NameField \/ RefuseColumn \/ PanicAtColumn
  \/ WriteField \/ WriteFile
  \/ ReadTag

FieldSpec == FieldInit /\ [][FieldNext]_allVars

-----------------------------------------------------------------------------
(* Properties.                                                             *)

(* What the steps make of a character: title, lower and title case.        *)
Forms(symbols) == symbols \cup {Lower[s] : s \in symbols} \cup {Upper[s] : s \in symbols}
CasesOf(s)     == Forms(Forms(Forms({s})))

(* A character that toInitialisms cannot take for a longer or a shorter    *)
(* one ...                                                                 *)
Steady(s) == \A c \in CasesOf(s) : Width[Lower[c]] = Width[c]

(* ... nor the test of the first byte for a letter, or for none.           *)
Plain(s) ==
  /\ Steady(s)
  /\ \A c \in CasesOf(s) : /\ Lower[c] = Lower[s]
                           /\ (c \in Letter) = (s \in Letter)
                           /\ (c \in LetterByte) = (s \in Letter)

AllPlain(text) == \A i \in DOMAIN text : Plain(text[i])

Identifier(text) ==
  /\ text # <<>>
  /\ text[1] \in Letter
  /\ \A i \in DOMAIN text : text[i] \in Letter \cup Digit \cup {Underscore}

(* A name panics only over a character whose case changes its length.      *)
SteadyNamesDoNotPanic ==
  stage = "panicked" => \E i \in DOMAIN column.name : ~Steady(column.name[i])

(* The name of a column is refused exactly if it has a character that no   *)
(* identifier has, or if nothing of it is left; otherwise the field is an  *)
(* identifier of Go that begins with no lower case, whatever the name      *)
(* begins with.                                                            *)
Refusable(text) ==
  \/ \E i \in DOMAIN text : text[i] \notin Letter \cup Digit \cup Space \cup {Underscore}
  \/ settings.camel /\ \A i \in DOMAIN text : text[i] \in Space \cup {Underscore}
  \/ text = <<>>

PlainNamesAreDecided ==
  AllPlain(column.name) /\ ~Refusable(column.table) =>
    /\ stage = "refused" => Refusable(column.name)
    /\ stage \notin {"table", "column", "refused"} =>
         /\ ~Refusable(column.name)
         /\ Identifier(field) /\ Upper[field[1]] = field[1]

(* That is enough for the tags, which have the name as the database has    *)
(* it, and escape less of it than their readers do: a name that was        *)
(* accepted is read back, if no line break is in it, with a default that   *)
(* has none either, nor a backslash or a semicolon.                        *)
AcceptedNamesAreReadBack ==
  /\ phase \in {"read", "lost"}
  /\ AllPlain(column.name) /\ ~Has(column.name, {LF, CR})
  /\ ~Has(column.default, {Backslash, ";", LF, CR})
  => Intact

(* Nothing of a name gets lost or doubled on the way to the field: but for *)
(* case, white space, underscores and the prefix they are the same.        *)
Bare(text) == Without(Lowered(text), Space \cup {Underscore})

NamesKeepTheirLetters ==
  stage \in {"field", "file", "written"} /\ AllPlain(column.name) =>
    Bare(field) \in {Bare(column.name), Bare(<<Cross>>) \o Bare(column.name)}

(* No text of the database becomes code, whatever breaks its lines: what   *)
(* the comments leave of the file is the struct and its field, and what is *)
(* no UTF-8, which Go refuses, does not get into the file.                 *)
InComment(text, i) ==
  \E j \in 1..i : text[j] = Slashes /\ \A k \in j..i : text[k] # LF

IsCode(text, i) == ~InComment(text, i) /\ text[i] \notin White

Code(text) ==
  FlattenSeq([i \in DOMAIN text |-> IF IsCode(text, i) THEN <<text[i]>> ELSE <<>>])

CommentsStayComments ==
  stage = "written" => Code(source) = <<"type", "field", "}">> /\ ~Has(source, {NotUTF8})

-----------------------------------------------------------------------------
(* Properties the code does not have.                                      *)

(* A name is accepted, or refused with an error that -f can skip.          *)
EveryNameIsDecided == stage # "panicked"
=============================================================================

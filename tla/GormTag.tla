------------------------------ MODULE GormTag ------------------------------
(***************************************************************************)
(* The gorm tag of a field: GenerateTag writes the options of a column     *)
(* into it, and gorm reads them when the program with the struct runs.  In *)
(* between are the literal in the source file, reflect.StructTag, which    *)
(* unquotes the value, and gorm's own parser, each with its own view of    *)
(* backslashes, quotes and semicolons.  The default of a column may hold   *)
(* any of them; its name may hold a line break, and the others only where  *)
(* toInitialisms overwrote them, as formatColumnName refuses what is left. *)
(***************************************************************************)
EXTENDS Symbols, Naturals, Sequences, SequencesExt, FiniteSetsExt

Nothing == <<"no default">>

VARIABLES
  column,  \* its name, primaryKey, default, and next: another tag comes after this one
  tag,     \* the tags of the field, as the source file has them
  value,   \* what reflect finds for gorm
  other,   \* the next tag is found
  options, \* what gorm reads: set of <<option, its value>>
  phase    \* "column", "tagged", "looked up", "read", "lost"

vars == <<column, tag, value, other, options, phase>>

-----------------------------------------------------------------------------
(* GenerateTag.                                                            *)

EscapeSemicolons(text) == \* a slip: a quote is left as it is
  FlattenSeq([i \in DOMAIN text |-> IF text[i] = ";" THEN <<Backslash, ";">> ELSE <<text[i]>>])

EscapeQuotes(text) == \* a slip: so is a semicolon
  FlattenSeq([i \in DOMAIN text |-> IF text[i] = Quote THEN <<Backslash, Quote>> ELSE <<text[i]>>])

Escape(text) ==
  FlattenSeq([i \in DOMAIN text |->
                IF text[i] \in {Quote, ";"} THEN <<Backslash, text[i]>> ELSE <<text[i]>>])

(* primaryKey stands for autoIncrement and not null, too.                  *)
Options ==
  <<"column", ":">> \o Escape(column.name)
  \o (IF column.primaryKey THEN <<";", "primaryKey">> ELSE <<>>)
  \o (IF column.default # Nothing THEN <<";", "default", ":">> \o Escape(column.default) ELSE <<>>)

(* The value of the gorm tag with its quotes, and what comes after it.     *)
Quoted == <<Quote>> \o Options \o <<Quote>>
Following == IF column.next THEN <<" ", "json", ":", Quote>> \o column.name \o <<Quote>> ELSE <<>>

(* A raw literal loses its carriage returns; text with a backtick makes a  *)
(* quoted literal and keeps them.                                          *)
AsLiteral(text) ==
  IF Contains(text, Backtick) THEN text
  ELSE FlattenSeq([i \in DOMAIN text |-> IF text[i] = CR THEN <<>> ELSE <<text[i]>>])

Generate ==
  /\ phase = "column"
  /\ tag' = AsLiteral(Quoted \o Following)
  /\ phase' = "tagged"
  /\ UNCHANGED <<column, value, other, options>>

-----------------------------------------------------------------------------
(* reflect.StructTag.Lookup and strconv.Unquote.                           *)

(* Position i is that of an escaped character.                             *)
Escaped(text) ==
  LET e[i \in 1..Len(text)] == i > 1 /\ text[i - 1] = Backslash /\ ~e[i - 1]
  IN e

(* The value ends at the first quote that is not escaped.                  *)
Ends == {i \in 2..Len(tag) : tag[i] = Quote /\ ~Escaped(tag)[i]}

Inner == SubSeq(tag, 2, Min(Ends) - 1)
Rest  == SubSeq(tag, Min(Ends) + 1, Len(tag))

CanUnquote(text) ==
  \A i \in DOMAIN text :
    /\ text[i] # LF
    /\ Escaped(text)[i] => text[i] \in {Quote, Backslash, "t"}

Unquote(text) ==
  LET escaped == Escaped(text)
      Read(i) == IF escaped[i] THEN <<IF text[i] = "t" THEN Tab ELSE text[i]>>
                 ELSE IF text[i] = Backslash THEN <<>> ELSE <<text[i]>>
  IN FlattenSeq([i \in DOMAIN text |-> Read(i)])

Readable == Ends # {} /\ CanUnquote(Inner)

Lookup ==
  /\ phase = "tagged"
  /\ Readable
  /\ value' = Unquote(Inner)
  /\ other' = (Rest = <<" ", "json", ":", Quote>> \o column.name \o <<Quote>>)
  /\ phase' = "looked up"
  /\ UNCHANGED <<column, tag, options>>

(* The value does not end or is no Go string: to gorm there is no tag.     *)
LookupFails ==
  /\ phase = "tagged"
  /\ ~Readable
  /\ phase' = "lost"
  /\ UNCHANGED <<column, tag, value, other, options>>

-----------------------------------------------------------------------------
(* ParseTagSetting of gorm.                                                *)

(* A semicolon after a backslash is part of a value, the backslash is not. *)
IsLiteral(i) == value[i] = ";" /\ i > 1 /\ value[i - 1] = Backslash

Separators == {i \in DOMAIN value : value[i] = ";" /\ ~IsLiteral(i)}

(* The parts between separators.                                           *)
Parts ==
  {p \in ({0} \cup Separators) \X (Separators \cup {Len(value) + 1}) :
     p[1] < p[2] /\ \A s \in Separators : ~(p[1] < s /\ s < p[2])}

Part(p) ==
  FlattenSeq([n \in 1..(p[2] - p[1] - 1) |->
                LET i == p[1] + n
                IN IF i + 1 \in DOMAIN value /\ IsLiteral(i + 1) THEN <<>> ELSE <<value[i]>>])

(* Of a backslash and quote left in a value, gorm drops the backslash.     *)
Unescaped(text) ==
  FlattenSeq([i \in DOMAIN text |->
                IF text[i] = Backslash /\ i < Len(text) /\ text[i + 1] = Quote
                THEN <<>> ELSE <<text[i]>>])

Setting(part) ==
  IF Contains(part, ":")
  THEN LET colon == Min({i \in DOMAIN part : part[i] = ":"})
       IN <<SubSeq(part, 1, colon - 1), Unescaped(SubSeq(part, colon + 1, Len(part)))>>
  ELSE <<part, part>>

Parse ==
  /\ phase = "looked up"
  /\ options' = {Setting(Part(p)) : p \in {q \in Parts : Part(q) # <<>>}}
  /\ phase' = "read"
  /\ UNCHANGED <<column, tag, value, other>>

-----------------------------------------------------------------------------
Unwritten ==
  /\ tag = <<>>
  /\ value = <<>>
  /\ other = FALSE
  /\ options = {}
  /\ phase = "column"

-----------------------------------------------------------------------------
(* Properties.                                                             *)

Has(text, symbols) == \E i \in DOMAIN text : text[i] \in symbols

(* The options as gorm should see them, with that default.                 *)
Written ==
  {<<<<"column">>, column.name>>}
  \cup (IF column.primaryKey THEN {<<<<"primaryKey">>, <<"primaryKey">>>>} ELSE {})
  \cup (IF column.default # Nothing THEN {<<<<"default">>, column.default>>} ELSE {})

Intact == phase = "read" /\ options = Written /\ other = column.next

(* A column with neither backslash, semicolon nor line break in its        *)
(* default, and none of them nor a quote in its name, is read as it was    *)
(* written, colons, backticks and quotes in the default included, and the  *)
(* tag that comes after is not disturbed.                                  *)
PlainColumnsAreReadBack ==
  /\ phase \in {"read", "lost"}
  /\ ~Has(column.default, {Backslash, ";", LF, CR})
  /\ ~Has(column.name, {Backslash, ";", LF, CR, Quote})
  => Intact

(* The text of a default is never taken for an option of gorm: whatever is *)
(* in it, gorm sees the options that were written, or none at all.  Nor is *)
(* that of a name, but for the backslash, which is not escaped.            *)
NoDefaultMakesAnOption ==
  phase = "read" /\ ~Has(column.name, {Backslash})
  => {o[1] : o \in options} = {o[1] : o \in Written}

-----------------------------------------------------------------------------
(* A property the code does not have.                                      *)

(* The escapes of quotes and semicolons keep a value intact.               *)
EscapedDefaultsAreReadBack ==
  /\ phase \in {"read", "lost"}
  /\ ~Has(column.default, {Backslash, LF, CR})
  /\ ~Has(column.name, {Backslash, ";", LF, CR, Quote})
  => Intact
=============================================================================

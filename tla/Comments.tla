------------------------------ MODULE Comments ------------------------------
(***************************************************************************)
(* The comments of a generated file: normalizeComment,                     *)
(* generateLineComments, generateInlineComment and generateHeader of       *)
(* internal/cli, as operators.  A comment of the database is any text; in  *)
(* the file it must not become code.                                       *)
(***************************************************************************)
EXTENDS Symbols, Sequences, SequencesExt

CONSTANTS
  White,    \* what TrimSpace and Fields take for space
  Control   \* what strconv.Quote writes as an escape sequence

ASSUME WhiteAssumption ==
  {LF, CR, " "} \subseteq White /\ Slashes \notin White /\ {LF, CR, NotUTF8} \subseteq Control

-----------------------------------------------------------------------------
(* A line break is "\n", "\r" or both; the replacer takes the pair first.  *)
NewlinesReplaced(text) ==
  FlattenSeq([i \in DOMAIN text |->
                IF text[i] # CR THEN <<text[i]>>
                ELSE IF i < Len(text) /\ text[i + 1] = LF THEN <<>> ELSE <<LF>>])

(* strings.ToValidUTF8.                                                    *)
Valid(text) ==
  FlattenSeq([i \in DOMAIN text |-> IF text[i] = NotUTF8 THEN <<>> ELSE <<text[i]>>])

Inked(text) == {i \in DOMAIN text : text[i] \notin White}

(* strings.TrimSpace.                                                      *)
Trimmed(text) ==
  IF Inked(text) = {} THEN <<>> ELSE SubSeq(text, Min(Inked(text)), Max(Inked(text)))

NormalizeComment(text) == Trimmed(NewlinesReplaced(Valid(text)))

FirstLineOnly(text) == \* a slip: the lines after the first are left bare
  IF NormalizeComment(text) = <<>> THEN <<>>
  ELSE <<Slashes, " ">> \o NormalizeComment(text) \o <<LF>>

LineComment(text) ==
  LET lines == NormalizeComment(text)
  IN IF lines = <<>> THEN <<>>
     ELSE <<Slashes, " ">>
          \o FlattenSeq([i \in DOMAIN lines |->
                           IF lines[i] = LF THEN <<LF, Slashes, " ">> ELSE <<lines[i]>>])
          \o <<LF>>

(* strings.Fields and Join: any white space is one blank.                  *)
InlineComment(text) ==
  LET words == NormalizeComment(text)
      Read(i) == IF words[i] \notin White THEN <<words[i]>>
                 ELSE IF words[i - 1] \in White THEN <<>> ELSE <<" ">>
  IN IF words = <<>> THEN <<>>
     ELSE <<" ", Slashes, " ">> \o FlattenSeq([i \in DOMAIN words |-> Read(i)])

(* The last line of the header names the table.                            *)
SourceLine(table) ==
  <<Slashes, " ", "source: ">>
  \o [i \in DOMAIN table |-> IF table[i] \in Control THEN "escape sequence" ELSE table[i]]
  \o <<LF, LF>>
=============================================================================

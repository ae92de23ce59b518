-------------------------------- MODULE Names --------------------------------
(***************************************************************************)
(* How the name of a column or table becomes a Go identifier:              *)
(* formatColumnName, camelCaseString, toInitialisms, validVariableName of  *)
(* internal/cli, as operators.                                             *)
(*                                                                         *)
(* A name is a sequence of symbols, each a Unicode character that takes    *)
(* some bytes in UTF-8.  Most steps go by characters; toInitialisms goes   *)
(* by bytes: it looks an initialism up in the lower-cased name and cuts    *)
(* the name itself at the bytes where it was found.  A byte is a pair      *)
(* <<symbol, k>>: the k-th byte of that symbol.                            *)
(***************************************************************************)
EXTENDS Symbols, Naturals, Sequences, SequencesExt, FiniteSetsExt

CONSTANTS
  Symbol,      \* characters
  Lower,       \* unicode.ToLower
  Upper,       \* the title case of a character, as the caser has it
  Width,       \* bytes of a character in UTF-8
  Letter,      \* unicode.IsLetter
  Digit,       \* unicode.IsDigit
  Space,       \* unicode.IsSpace and the zero width space
  Break,       \* a word of the caser ends here
  LetterByte,  \* the first byte, taken for a rune, is a letter
  Initialisms  \* the list of initialisms

ASSUME SymbolAssumption ==
  /\ {Underscore, Broken, Cross} \subseteq Symbol
  /\ Lower \in [Symbol -> Symbol] /\ Upper \in [Symbol -> Symbol]
  /\ Width \in [Symbol -> 1..4]
  /\ Letter \cup Digit \cup Space \cup Break \cup LetterByte \subseteq Symbol
  /\ {Underscore, Broken} \cap (Letter \cup Digit \cup Space) = {}
  /\ (Letter \cup Digit) \cap Space = {}
  /\ Underscore \notin LetterByte

(* What the tables of Unicode say of cases: a letter remains one, what is  *)
(* neither a letter nor cased does not change, nor does title case.        *)
Caseless == Digit \cup Space \cup {Underscore}

ASSUME CaseAssumption ==
  /\ \A s \in Letter : Lower[s] \in Letter /\ Upper[s] \in Letter
  /\ \A s \in Symbol : {s, Lower[s], Upper[s]} \cap Caseless # {} => Lower[s] = s /\ Upper[s] = s
  /\ \A s \in Symbol : Upper[Upper[s]] = Upper[s] /\ (Lower[s] = Upper[s] => Upper[s] = s)
  /\ Cross \in Letter /\ Upper[Cross] = Cross

(* Capitals of ASCII.                                                      *)
ASSUME InitialismAssumption ==
  LET capitals == {s \in Letter : Width[s] = 1 /\ Width[Lower[s]] = 1 /\ Upper[s] = s}
  IN Initialisms \in Seq(Seq(capitals) \ {<<>>})

-----------------------------------------------------------------------------
(* Characters.                                                             *)

Lowered(text) == [i \in DOMAIN text |-> Lower[text[i]]]

Spaced(text) == [i \in DOMAIN text |-> IF text[i] \in Space THEN Underscore ELSE text[i]]

Without(text, symbols) ==
  FlattenSeq([i \in DOMAIN text |-> IF text[i] \in symbols THEN <<>> ELSE <<text[i]>>])

Cased(symbol) == Lower[symbol] # Upper[symbol]

(* cases.Title with NoLower: the first cased character of a word is put in *)
(* title case, the others stay as they are.                                *)
BeginsWord(text, i, breaks) ==
  /\ Cased(text[i])
  /\ \A j \in 1..(i - 1) : Cased(text[j]) => \E k \in (j + 1)..(i - 1) : text[k] \in breaks

Capitalised(text, breaks) ==
  [i \in DOMAIN text |-> IF BeginsWord(text, i, breaks) THEN Upper[text[i]] ELSE text[i]]

Title(text) == Capitalised(text, Break)

(* camelCaseString: a name with underscores is split there, each part is   *)
(* lower-cased and capitalised.                                            *)
CamelCase(text) ==
  IF ~Contains(text, Underscore) THEN Title(text)
  ELSE Without(Capitalised(Lowered(text), Break \cup {Underscore}), {Underscore})

-----------------------------------------------------------------------------
(* Bytes.                                                                  *)

ByteSeq(symbol) == [k \in 1..Width[symbol] |-> <<symbol, k>>]

Bytes(text) == FlattenSeq([i \in DOMAIN text |-> ByteSeq(text[i])])

OccursAt(bytes, part, p) ==
  /\ p + Len(part) <= Len(bytes) + 1
  /\ SubSeq(bytes, p, p + Len(part) - 1) = part

(* The characters of a string: one that is cut reads as U+FFFD, byte by    *)
(* byte.                                                                   *)
Whole(bytes, p) ==
  /\ p >= bytes[p][2]
  /\ OccursAt(bytes, ByteSeq(bytes[p][1]), (p + 1) - bytes[p][2])

Read(bytes, p) ==
  IF ~Whole(bytes, p) THEN <<Broken>>
  ELSE IF bytes[p][2] = 1 THEN <<bytes[p][1]>> ELSE <<>>

Runes(bytes) == FlattenSeq([p \in DOMAIN bytes |-> Read(bytes, p)])

(* strings.ReplaceAll.                                                     *)
ReplaceEvery(bytes, old, new) ==
  LET from[p \in 1..(Len(bytes) + 1)] ==
        IF p > Len(bytes) THEN <<>>
        ELSE IF OccursAt(bytes, old, p) THEN new \o from[p + Len(old)]
        ELSE <<bytes[p]>> \o from[p + 1]
  IN from[1]

(* slice bounds out of range: no string has such a byte.                   *)
Panic == <<<<Broken, 0>>>>

OneByteMore(bytes, initialism) == \* a slip: the slice ends one byte too late
  LET low   == Bytes(Lowered(Runes(bytes)))
      found == {p \in DOMAIN low : OccursAt(low, Bytes(Lowered(initialism)), p)}
      end   == Min(found) + Len(initialism)
  IN IF bytes = Panic \/ found = {} THEN bytes
     ELSE IF end > Len(bytes) THEN Panic
     ELSE ReplaceEvery(bytes, SubSeq(bytes, Min(found), end), Bytes(initialism))

(* One turn of the loop of toInitialisms: the index is that of the         *)
(* lower-cased string.                                                     *)
Initialised(bytes, initialism) ==
  LET low   == Bytes(Lowered(Runes(bytes)))
      found == {p \in DOMAIN low : OccursAt(low, Bytes(Lowered(initialism)), p)}
      end   == Min(found) + Len(initialism) - 1
  IN IF bytes = Panic \/ found = {} THEN bytes
     ELSE IF end > Len(bytes) THEN Panic
     ELSE ReplaceEvery(bytes, SubSeq(bytes, Min(found), end), Bytes(initialism))

ToInitialisms(bytes) ==
  LET after[i \in 0..Len(Initialisms)] ==
        IF i = 0 THEN bytes ELSE Initialised(after[i - 1], Initialisms[i])
  IN after[Len(Initialisms)]

-----------------------------------------------------------------------------
(* formatColumnName.                                                       *)

AnyButDashes(bytes) == \* a slip: what else no identifier has is let through
  bytes # <<>> /\ \A i \in DOMAIN Runes(bytes) : Runes(bytes)[i] # "-"

ValidVariableName(bytes) ==
  /\ bytes # <<>>
  /\ \A i \in DOMAIN Runes(bytes) : Runes(bytes)[i] \in Letter \cup Digit \cup {Underscore}

(* unicode.IsLetter(rune(columnName[0])).                                  *)
BeginsWithLetter(bytes) == bytes[1][1] \in LetterByte /\ bytes[1][2] = 1

Prefix(camel) == IF camel THEN <<Cross>> ELSE <<Cross, Underscore>>

Outcome(bytes) ==
  IF bytes = Panic THEN [kind |-> "panicked", ident |-> <<>>]
  ELSE [kind |-> "accepted", ident |-> Runes(bytes)]

WithPrefix(camel, bytes) == IF bytes = Panic THEN Panic ELSE Bytes(Prefix(camel)) \o bytes

(* A name that does not begin with a letter is taken as it came, with its  *)
(* initialisms, and gets a prefix.                                         *)
FormatColumnName(column, camel, initialisms) ==
  LET titled == Title(Spaced(column))
      cased  == Bytes(IF camel THEN CamelCase(titled) ELSE titled)
      name   == IF initialisms THEN ToInitialisms(cased) ELSE cased
      raw    == IF initialisms THEN ToInitialisms(Bytes(Spaced(column))) ELSE name
  IN IF name = Panic THEN Outcome(Panic)
     ELSE IF ~ValidVariableName(name) THEN [kind |-> "refused", ident |-> <<>>]
     ELSE IF BeginsWithLetter(name) THEN Outcome(name)
     ELSE Outcome(WithPrefix(camel, raw))

-----------------------------------------------------------------------------
(* createTableStructString: the name of the struct.                        *)

StructName(table, prefix, suffix, camel) ==
  LET name == Spaced(Title(prefix) \o Title(table) \o Title(suffix))
      cased == IF camel THEN CamelCase(name) ELSE name
  IN IF ValidVariableName(Bytes(cased)) THEN [kind |-> "accepted", ident |-> cased]
     ELSE [kind |-> "refused", ident |-> <<>>]
=============================================================================

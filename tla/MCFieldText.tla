---------------------------- MODULE MCFieldText ----------------------------
(* FieldText for TLC.  The initial states are sets that add up, with the   *)
(* rest of the column as usual: every default of up to MaxDefault          *)
(* characters; every name of up to MaxName out of all symbols, of up to    *)
(* MaxWord out of those that initialisms are made of, those of two         *)
(* initialisms after two symbols out of six, and those that end with two   *)
(* symbols which `id' may overwrite; and every comment of up to            *)
(* MaxComment.  No name has a symbol of LeftOut.                           *)
EXTENDS FieldText

CONSTANTS MaxDefault, MaxName, MaxWord, MaxComment, LeftOut

TextOf(symbols, n) == UNION {[1..k -> symbols] : k \in 0..n}

(* A with stroke (U+023A), whose lower case takes three bytes, not two; I  *)
(* with dot (U+0130), whose lower case is i; alef (U+05D0), whose first    *)
(* byte is no letter of Latin-1; the Arabic zero (U+0660), whose first     *)
(* byte is one; the Han sign of the middle (U+4E2D), a letter without a    *)
(* case.  The bytes of these are all different.                            *)
Plains     == {"u", "i", "d", "U", "I", "D", "x", Cross, Underscore, "1", "-", " ", LF, CR, Quote, Backslash, ";"}
AStroke    == "A stroke"
aStroke    == "a stroke"
IDot       == "I dot"
Alef       == "alef"
ArabicZero == "arabic zero"
Middle     == "middle"

MCSymbol == Plains \cup {AStroke, aStroke, IDot, Alef, ArabicZero, Middle, Broken}

MCLower ==
  [s \in MCSymbol |-> CASE s = "U" -> "u" [] s = "I" -> "i" [] s = "D" -> "d" [] s = Cross -> "x"
                        [] s = AStroke -> aStroke [] s = IDot -> "i" [] OTHER -> s]
MCUpper ==
  [s \in MCSymbol |-> CASE s = "u" -> "U" [] s = "i" -> "I" [] s = "d" -> "D" [] s = "x" -> Cross
                        [] s = aStroke -> AStroke [] OTHER -> s]
MCWidth ==
  [s \in MCSymbol |-> IF s \in {aStroke, Middle, Broken} THEN 3
                      ELSE IF s \in {AStroke, IDot, Alef, ArabicZero} THEN 2 ELSE 1]
MCLetter      == {"u", "i", "d", "U", "I", "D", "x", Cross, AStroke, aStroke, IDot, Alef, Middle}
MCDigit       == {"1", ArabicZero}
MCSpace       == {" ", LF, CR}
MCBreak       == {"-", " ", LF, CR, Quote, Backslash, ";"}
MCLetterByte  == (MCLetter \ {Alef}) \cup {ArabicZero}
MCInitialisms == <<<<"I", "D">>, <<"U", "U", "I", "D">>>>
MCWhite       == {" ", LF, CR, Tab}
MCControl     == {LF, CR, Tab, NotUTF8}

-----------------------------------------------------------------------------
Usual == [name |-> <<"i">>, table |-> <<"u">>, comment |-> <<>>,
          primaryKey |-> FALSE, default |-> Nothing, next |-> TRUE]
UsualSettings == [camel |-> TRUE, initialisms |-> TRUE, comments |-> "off", header |-> FALSE]

MCDefault == TextOf({"word", Quote, Backslash, Backtick, LF, CR, ";", ":", "t"}, MaxDefault)
MCName    == TextOf(MCSymbol \ ({Broken, Cross, "x", "U", "I"} \cup LeftOut), MaxName)
               \cup TextOf({"u", "i", "d", Underscore, AStroke, IDot} \ LeftOut, MaxWord)
               \cup {two \o <<"i", "d", "u", "u", "i", "d">> :
                       two \in [1..2 -> {"i", Underscore, AStroke, aStroke, IDot, Middle} \ LeftOut]}
               \cup {<<AStroke, AStroke, "i", "d">> \o two : two \in [1..2 -> {"u", Quote, Backslash, ";", LF}]}
MCComment == TextOf({"word", " ", LF, CR, NotUTF8, Slashes}, MaxComment)
MCTable   == {<<"u">>, <<"u", LF, "u">>, <<"-">>, <<CR>>}

OneDefault ==
  \E text \in MCDefault, pk \in BOOLEAN, n \in BOOLEAN :
    /\ column = [Usual EXCEPT !.default = text, !.primaryKey = pk, !.next = n]
    /\ settings = UsualSettings

OneName ==
  \E text \in MCName, c \in BOOLEAN, in \in BOOLEAN :
    /\ column = [Usual EXCEPT !.name = text, !.primaryKey = TRUE]
    /\ settings = [UsualSettings EXCEPT !.camel = c, !.initialisms = in]

OneComment ==
  \E text \in MCComment, table \in MCTable, mode \in {"line", "inline"} :
    /\ column = [Usual EXCEPT !.comment = text, !.table = table]
    /\ settings = [UsualSettings EXCEPT !.comments = mode, !.header = TRUE]

MCInit == Started /\ (OneDefault \/ OneName \/ OneComment)
MCSpec == MCInit /\ [][FieldNext]_allVars
=============================================================================

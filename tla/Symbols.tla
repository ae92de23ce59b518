------------------------------ MODULE Symbols ------------------------------
(* The characters that some step of the program or of its readers treats   *)
(* in a way of its own.  Text is a sequence of symbols: characters, or     *)
(* words that no step looks into.                                          *)

Quote      == "quote"
Backslash  == "backslash"
Backtick   == "backtick"
LF         == "line feed"
CR         == "carriage return"
Tab        == "tab"
Slashes    == "//"
Underscore == "_"
Cross      == "X"
Broken     == "U+FFFD"    \* what a byte that is part of no character reads as
NotUTF8    == "not UTF-8" \* such a byte
=============================================================================

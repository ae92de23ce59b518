--------------------------- MODULE MCCommandLine ---------------------------
(* CommandLine for TLC: all sequences of up to MaxTagFlags of the flags    *)
(* that are about tags; of up to MaxFlags of the others, good and bad; and *)
(* for each type all passwords of up to MaxPassword symbols, all names of  *)
(* the database of one more, for Postgres all modes of two more, and hosts *)
(* with brackets and colons.                                               *)
EXTENDS CommandLine

CONSTANTS json, sqlx, stbl, blank, bad, MaxTagFlags, MaxFlags, MaxPassword

MCValue == {db, gorm, json, sqlx, stbl, blank, bad}
MCKey == {db, structable, gorm, json, bad}
MCBadKey == {bad}
MCKeyOf ==
  [v \in MCValue |->
     CASE v = sqlx -> db [] v = stbl -> structable [] v = blank -> NoKey [] OTHER -> v]

MCFolded == [v \in {" Line", "off", ""} |-> IF v = " Line" THEN "line" ELSE v]
MCNumber == {"1", "3306", "5432", "5433"}
MCSchematic ==
  MCNumber \cup SSLModes \cup
    {"tcp", "unix", "sslmode", "postgres", "root", "public", "127.0.0.1", "dto",
     "me", "host", "tmp", "word", "d"}
MCLetter == MCSchematic \ (MCNumber \cup {"127.0.0.1"})
MCSymbol == Delimiter \cup MCSchematic
MCIPv6 == {<<":", ":", "1">>}

UpTo(n, arguments) == UNION {[1..k -> arguments] : k \in 0..n}

TagFlags ==
  {<<"tag", values>> : values \in {<<db>>, <<gorm, blank>>, <<stbl>>, <<sqlx, json>>, <<bad>>}}
    \cup {<<f>> : f \in TagSwitches \cup {"structable-recorder", "gorm-model"}}

OtherFlags ==
  {<<"t", v>> : v \in {"", "sqlite3", "oracle"}} \cup {<<"null", "">>}
    \cup {<<"comments", v>> : v \in {"", " Line"}}
    \cup {<<f>> : f \in {"v", "vv", "help", "version", "p", "typo", Word}}
    \cup {<<f, v>> : f \in {"v", "tags-no-db"}, v \in {"false", "maybe"}}
    \cup {<<"table", t>> : t \in {<<"a", "b">>, <<"c">>}}
    \cup {<<f, v>> : f \in {"pn", "port", "sslmode"}, v \in {<<>>, <<"5433">>}}
    \cup {<<"of", v>> : v \in {"directory", "file", "missing", "unresolvable", "unreadable"}}

Passwords == UpTo(MaxPassword, {"word", "1", ":", "@", "/", "?", "#", "%", "^", "(", ")"})

Hosts == {<<"host">>, <<":", ":", "1">>, <<"[", ":", ":", "1", "]">>, <<"[", "host", "]">>}

Connections ==
  {<<<<"t", t>>, <<"p", p>>, <<"d", <<"d">>>>>> \o more :
     t \in {"pg", "mysql", "sqlite3"}, p \in Passwords,
     more \in UpTo(2, {<<"u", <<"me">>>>, <<"socket", <<"/", "tmp">>>>, <<"port", <<"5433">>>>})
                \cup UpTo(1, {<<"u", <<"me", ":">>>>} \cup {<<"h", h>> : h \in Hosts})}

Databases ==
  {<<<<"t", t>>, <<"d", d>>>> \o more :
     t \in {"pg", "mysql", "sqlite3"},
     d \in UpTo(MaxPassword + 1, {"word", ":", "@", "/", "?", "#", "%", "\\"}),
     more \in UpTo(1, {<<"socket", <<"/", "tmp">>>>})}

Modes ==
  {<<<<"t", "pg">>, <<"sslmode", mode>>>> :
     mode \in UpTo(MaxPassword + 2, {"require", "&", "=", "host", "%"})}

MCCommandLines ==
  UpTo(MaxTagFlags, TagFlags) \cup UpTo(MaxFlags, OtherFlags) \cup Connections \cup Databases
    \cup Modes

MCConfigurations ==
  [noDb : BOOLEAN, structable : BOOLEAN, only : BOOLEAN,
   tags : {<<>>, <<sqlx, gorm>>, <<json, stbl, json>>}]
=============================================================================

----------------------------- MODULE DataSource -----------------------------
(***************************************************************************)
(* The data source name: DSN puts user, password and address into one      *)
(* text, unescaped, and the driver takes it apart again.  What of the      *)
(* settings reaches the server is what the driver reads.                   *)
(*                                                                         *)
(* Text is a sequence of symbols: the delimiters below, and words.         *)
(***************************************************************************)
EXTENDS Naturals, Sequences, FiniteSetsExt

CONSTANTS
  Symbol,    \* the delimiters and the words
  Number,    \* the words that are numbers of 16 bits
  Letter,    \* the words that begin with a letter, of the
  Schematic, \* words of letters, digits, `+', `-' and `.'
  IPv6       \* the texts that are addresses of IPv6

Colon     == ":"
At        == "@"
Slash     == "/"
Question  == "?"
Hash      == "#"
Ampersand == "&"
Equal     == "="
Percent   == "%"  \* no word that follows one makes it an escape
Caret     == "^"  \* and all else that neither login nor host of a URL may have
Backslash == "\\"
Open      == "("
Close     == ")"
LeftBracket  == "["
RightBracket == "]"

(* What ends the authority of a URL, or may not be in one.                 *)
InURL == {Slash, Question, Hash, Percent, Caret, Backslash}

Brackets == {LeftBracket, RightBracket}

Delimiter == InURL \cup Brackets \cup {Colon, At, Ampersand, Equal, Open, Close}

SSLModes == {"disable", "allow", "prefer", "require", "verify-ca", "verify-full"}

ASSUME SymbolAssumption ==
  Delimiter \cup {"tcp", "unix", "sslmode", "postgres", "root"} \subseteq Symbol

ASSUME NumberAssumption == "5432" \in Number /\ Number \cap Delimiter = {}

ASSUME SchemeAssumption == Letter \subseteq Schematic /\ Schematic \cap Delimiter = {}

IsNumber(text) == Len(text) = 1 /\ text[1] \in Number

OrElse(text, default) == IF text = <<>> THEN default ELSE text

(* A text is cut at a symbol; where there is none, after or before all.    *)
FirstAt(text, symbol) == Min({i \in DOMAIN text : text[i] = symbol} \cup {Len(text) + 1})
LastAt(text, symbol)  == Max({i \in DOMAIN text : text[i] = symbol} \cup {0})
Before(text, i)     == SubSeq(text, 1, i - 1)
After(text, i)      == SubSeq(text, i + 1, Len(text))
Holds(text, symbol) == \E i \in DOMAIN text : text[i] = symbol
HoldsAny(text, symbols) == \E symbol \in symbols : Holds(text, symbol)
Begins(text, symbol)    == text # <<>> /\ text[1] = symbol

ASSUME IPv6Assumption ==
  \A address \in IPv6 :
    /\ address \in Seq(Symbol)
    /\ Holds(address, Colon) /\ ~HoldsAny(address, InURL \cup Brackets \cup {At})

(* DSN, for Postgres without its postgres://.                              *)
DefaultUser(s) == IF s["t"] = "pg" THEN <<"postgres">> ELSE <<"root">>

Login(s)   == OrElse(s["u"], DefaultUser(s)) \o <<Colon>> \o s["p"]
Address(s) == s["h"] \o <<Colon>> \o s["port"]

PostgresDSN(s) ==
  IF s["socket"] # <<>>
  THEN Login(s) \o <<At, Question>> \o s["socket"] \o <<Ampersand>> \o s["port"]
         \o <<Ampersand, "sslmode", Equal>> \o s["sslmode"]
  ELSE (Login(s) \o <<At>> \o Address(s)) \o <<Slash>> \o s["d"]
         \o <<Question>> \o (<<"sslmode", Equal>> \o s["sslmode"])

Net(net, address) == <<net>> \o <<Open>> \o (address \o <<Close>>)

MySQLDSN(s) ==
  (Login(s) \o <<At>> \o
     IF s["socket"] # <<>> THEN Net("unix", s["socket"]) ELSE Net("tcp", Address(s)))
  \o <<Slash>> \o s["d"]

SQLiteDSN(s) == [i \in DOMAIN s["d"] |-> IF s["d"][i] = Backslash THEN Slash ELSE s["d"][i]]

-----------------------------------------------------------------------------
(* SplitHostPort and JoinHostPort of the package net: an address has a     *)
(* host and a port behind the last colon, and a host with colons is in     *)
(* brackets.                                                               *)
Bracketed(host) ==
  /\ Len(host) >= 2 /\ host[1] = LeftBracket /\ host[Len(host)] = RightBracket
  /\ ~HoldsAny(SubSeq(host, 2, Len(host) - 1), Brackets)

Unbracketed(host) == IF Bracketed(host) THEN SubSeq(host, 2, Len(host) - 1) ELSE host

IsHost(host) == ~HoldsAny(host, {Colon} \cup Brackets) \/ Bracketed(host)

HostPart(address) == Before(address, LastAt(address, Colon))
PortPart(address) == After(address, LastAt(address, Colon))

SplitsHostPort(address) ==
  /\ Holds(address, Colon)
  /\ IsHost(HostPart(address)) /\ ~HoldsAny(PortPart(address), Brackets)

JoinHostPort(host, port) ==
  (IF Holds(host, Colon) THEN <<LeftBracket>> \o host \o <<RightBracket>> ELSE host)
    \o <<Colon>> \o port

-----------------------------------------------------------------------------
(* The readers: a server and a login, or a refusal.                        *)
Refused == [net |-> "refused"]

(* What the readers do not follow: refused, or any server and login.       *)
NotFollowed == [net |-> "not followed"]

Server(net, address, user, password, database) ==
  [net |-> net, address |-> address, user |-> user, password |-> password, database |-> database]

(* parseAuthority of net/url.  In a URL of Postgres the last colon of a    *)
(* host is the one of the port.                                            *)
ValidPort(port) == port = <<>> \/ IsNumber(port)

ValidHost(address) ==
  LET right == LastAt(address, RightBracket)
  IN IF Begins(address, LeftBracket)
     THEN /\ right # 0 /\ SubSeq(address, 2, right - 1) \in IPv6
          /\ \/ right = Len(address)
             \/ right + 1 = LastAt(address, Colon) /\ ValidPort(PortPart(address))
     ELSE /\ ~Holds(address, LeftBracket)
          /\ Holds(address, Colon) => ValidPort(PortPart(address))

ValidAuthority(login, address) ==
  /\ ~HoldsAny(login, {Percent, Caret, Backslash} \cup Brackets)
  /\ ~HoldsAny(address, {Percent, Caret, Backslash}) /\ ValidHost(address)

(* The query: pairs between ampersands, of which those with a bad escape   *)
(* are passed over; of each key the first value counts, if it is not empty.*)
PairStarts(query) == {1} \cup {i + 1 : i \in {j \in DOMAIN query : query[j] = Ampersand}}
PairAt(query, i) ==
  LET rest == After(query, i - 1) IN Before(rest, FirstAt(rest, Ampersand))
PairKey(pair)   == Before(pair, FirstAt(pair, Equal))
PairValue(pair) == After(pair, FirstAt(pair, Equal))

Counted(query, key) ==
  {i \in PairStarts(query) :
     LET pair == PairAt(query, i) IN ~Holds(pair, Percent) /\ PairKey(pair) = key}

QueryValue(query, key) ==
  IF Counted(query, key) = {} THEN <<>> ELSE PairValue(PairAt(query, Min(Counted(query, key))))

QueryKeys(query) == {PairKey(PairAt(query, i)) : i \in PairStarts(query)}

(* net/url.Parse, and convertURL of lib/pq: the fragment, the query and    *)
(* the path are cut off before the @ is looked for.  Every pair of the     *)
(* query is a setting that may replace one of the rest, which is not       *)
(* followed but for sslmode.  lib/pq has a default for all that is empty   *)
(* (no variable of its environment is set), and the server's default of    *)
(* the database is the user; an empty password is looked for in .pgpass.   *)
PostgresReads(text) ==
  LET url       == Before(text, FirstAt(text, Hash))
      fragment  == After(text, FirstAt(text, Hash))
      rest      == Before(url, FirstAt(url, Question))
      query     == After(url, FirstAt(url, Question))
      authority == Before(rest, FirstAt(rest, Slash))
      database  == After(rest, FirstAt(rest, Slash))
      at        == LastAt(authority, At)
      login     == Before(authority, at)
      user      == OrElse(Before(login, FirstAt(login, Colon)), <<"login name">>)
      address   == After(authority, at)
      host      == IF SplitsHostPort(address) THEN Unbracketed(HostPart(address)) ELSE address
      port      == IF SplitsHostPort(address) THEN PortPart(address) ELSE <<>>
      sslmode   == QueryValue(query, <<"sslmode">>)
  IN IF ~ValidAuthority(login, address) \/ Holds(database, Percent) \/ Holds(fragment, Percent)
     THEN Refused
     ELSE IF \E key \in QueryKeys(query) \ {<<"sslmode">>} : QueryValue(query, key) # <<>>
     THEN NotFollowed
     ELSE IF sslmode # <<>> /\ sslmode \notin {<<mode>> : mode \in SSLModes} THEN Refused
     ELSE Server("tcp",
                 JoinHostPort(OrElse(host, <<"localhost">>), OrElse(port, <<"5432">>)),
                 user, After(login, FirstAt(login, Colon)), OrElse(database, user))

(* normalize of go-sql-driver.                                             *)
EnsureHavePort(address) ==
  IF SplitsHostPort(address) THEN address ELSE JoinHostPort(address, <<"3306">>)

Normalized(network, address) ==
  IF address = <<>>
  THEN IF network = "tcp" THEN <<"127.0.0.1", Colon, "3306">>
       ELSE <<Slash, "tmp", Slash, "mysql.sock">>
  ELSE IF network = "tcp" THEN EnsureHavePort(address) ELSE address

(* ParseDSN of go-sql-driver cuts from the right, at the last slash and at *)
(* the last @ before it; the database may have escapes, and parameters,    *)
(* which are not followed, nor is any other network.                       *)
MySQLReads(text) ==
  LET slash == LastAt(text, Slash)
      left  == Before(text, slash)
      at    == LastAt(left, At)
      login == Before(left, at)
      net   == After(left, at)
      open  == FirstAt(net, Open)
      network == OrElse(Before(net, open), <<"tcp">>)
      address == IF Holds(net, Open) THEN SubSeq(net, open + 1, Len(net) - 1) ELSE <<>>
      name    == After(text, slash)
      known   == network \in {<<"tcp">>, <<"unix">>}
  IN IF \/ slash = 0 \/ Holds(Before(name, FirstAt(name, Question)), Percent)
        \/ Holds(net, Open) /\ net[Len(net)] # Close
        \/ address = <<>> /\ ~known
     THEN Refused
     ELSE IF ~known \/ Holds(name, Question) THEN NotFollowed
     ELSE Server(network[1], Normalized(network[1], address),
                 Before(login, FirstAt(login, Colon)),
                 After(login, FirstAt(login, Colon)),
                 name)

(* SQLite.DSN has the name parsed as a URL, which may fail, and hands it   *)
(* over as it is: the name of a file, and no login.  Options after it      *)
(* (where nothing is in front of them there are none), a host, and what    *)
(* SQLite makes of a name that begins with `file:', are not followed.      *)
HasScheme(text) ==
  LET colon == FirstAt(text, Colon)
  IN /\ Holds(text, Colon) /\ colon # 1 /\ text[1] \in Letter
     /\ \A i \in 2..(colon - 1) : text[i] \in Schematic

BadURL(text) ==
  LET url  == Before(text, FirstAt(text, Hash))
      rest == Before(url, FirstAt(url, Question))
  IN \/ Holds(After(text, FirstAt(text, Hash)), Percent)
     \/ IF HasScheme(rest)
        THEN LET path == After(rest, FirstAt(rest, Colon))
             IN Begins(path, Slash) /\ Holds(path, Percent)
        ELSE Holds(rest, Percent) \/ Holds(Before(rest, FirstAt(rest, Slash)), Colon)

NamesHost(text) ==
  LET path == IF HasScheme(text) THEN After(text, FirstAt(text, Colon)) ELSE text
  IN Begins(path, Slash) /\ Begins(Tail(path), Slash)

SQLiteReads(text) ==
  IF BadURL(text) THEN Refused
  ELSE IF \/ NamesHost(text) \/ (HasScheme(text) /\ text[1] = "file")
          \/ Holds(text, Question) /\ ~Begins(text, Question)
  THEN NotFollowed
  ELSE Server("file", text, <<>>, <<>>, text)

Reads(s) ==
  CASE s["t"] = "mysql"   -> MySQLReads(MySQLDSN(s))
    [] s["t"] = "sqlite3" -> SQLiteReads(SQLiteDSN(s))
    [] OTHER              -> PostgresReads(PostgresDSN(s))
=============================================================================

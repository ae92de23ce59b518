---------------------------- MODULE CommandLine ----------------------------
(***************************************************************************)
(* From the arguments to the server: the flag package reads the flags into *)
(* Settings (NewArgs), the tags are resolved (Tags), warnings are printed, *)
(* Verify fills in and refuses, the data source name is built and read     *)
(* (DataSource), and App gets its taggers.  The alternative to it all is a *)
(* program that uses the package settings by itself.                       *)
(***************************************************************************)
EXTENDS Tags, DataSource, SequencesExt

CONSTANTS
  CommandLines,   \* the arguments the program may be started with
  Configurations, \* the settings another program may choose
  Folded,         \* what TrimSpace and ToLower make of a value of -comments
  gorm,
  BadKey          \* the keys that validateTagKey refuses

ASSUME BadKeyAssumption == gorm \in Key /\ BadKey \subseteq Key \ {db, structable, gorm}
ASSUME CallsAssumption == MaxCalls >= 4 \* NewArgs makes up to three, cli.New one

(* An argument is <<flag>> or <<flag, value>>; the values of -tag and      *)
(* -table are split at commas already, and the value of -of is what Abs and*)
(* Stat make of it.                                                        *)
Word == "a word" \* no flag; as `--' it ends the flags

TextFlags   == {"u", "p", "d", "s", "h", "port", "sslmode", "socket", "of", "pre", "suf", "pn"}
ListFlags   == {"table", "tag"}
TagSwitches == {"tags-no-db", "tags-structable", "tags-structable-only"}
Switches    == {"help", "v", "vv", "version", "f", "gen-header", "no-initialism",
                "structable-recorder", "gorm-model"} \cup TagSwitches
ChoiceFlags == {"t", "format", "fn-format", "null", "comments"}
Flags       == TextFlags \cup ListFlags \cup Switches \cup ChoiceFlags

ASSUME LinesAssumption ==
  \A line \in CommandLines :
    /\ line \in Seq(Range(line))
    /\ \A i \in DOMAIN line : Len(line[i]) = 2 =>
         /\ line[i][1] = "tag"   => line[i][2] \in Seq(Value)
         /\ line[i][1] = "table" => line[i][2] \in Seq(STRING)
         /\ line[i][1] \in TextFlags \ {"of"} => line[i][2] \in Seq(Symbol)

ASSUME WordsAssumption ==
  {"postgres", "public", "127.0.0.1", "dto", "5432", "3306", "disable"} \subseteq Symbol

(* What Settings keeps of them outside of Tags.                            *)
Options == Flags \ (TagSwitches \cup {"tag"})

Supported(flag) ==
  CASE flag = "t"        -> {"pg", "mysql", "sqlite3"}
    [] flag = "format"   -> {"c", "o"}
    [] flag = "fn-format" -> {"c", "s"}
    [] flag = "null"     -> {"sql", "native", "primitive"}
    [] flag = "comments" -> {"off", "line", "inline"}

Default(flag) == \* settings.New
  CASE flag = "t"        -> "pg"
    [] flag = "null"     -> "sql"
    [] flag = "comments" -> "off"
    [] flag \in {"format", "fn-format"} -> "c"
    [] flag = "d"        -> <<"postgres">>
    [] flag = "s"        -> <<"public">>
    [] flag = "h"        -> <<"127.0.0.1">>
    [] flag = "pn"       -> <<"dto">>
    [] flag = "of"       -> "directory"
    [] flag \in Switches -> "false"
    [] OTHER             -> <<>>

Phases == {"library", "parse", "resolve", "legacy", "recorder", "gorm", "run", "verify",
           "connect", "app", "done", "usage", "help", "version", "refused", "panic", "down"}

VARIABLES
  args,      \* what the program was started with
  next,      \* index of the argument that is read next
  options,   \* the fields of Settings
  phase,
  warnings,  \* those printed, each by the flag it is about
  conn       \* where the driver connects to

lineVars == <<args, next, options, phase, warnings, conn>>
allVars  == <<vars, lineVars>>

To(p) == phase' = p /\ UNCHANGED <<args, next, options, warnings, conn>>

-----------------------------------------------------------------------------
(* NewArgs: fs.Parse calls Set of each flag in turn, up to the first word. *)
Parsing == phase = "parse" /\ next \in DOMAIN args /\ args[next][1] # Word

Flag == args[next][1]

HasValue(arg) == Len(arg) = 2

(* Set of the types in flags.go: what is empty is the default, but for     *)
(* -comments, which has its own way of reading.                            *)
Chosen(flag, value) ==
  IF flag = "comments" THEN Folded[value] ELSE IF value = "" THEN Default(flag) ELSE value

Wrong(arg) ==
  \/ arg[1] \notin Flags
  \/ arg[1] \notin Switches /\ ~HasValue(arg)
  \/ arg[1] \in Switches /\ HasValue(arg) /\ arg[2] \notin {"true", "false"}
  \/ arg[1] \in ChoiceFlags /\ HasValue(arg) /\ Chosen(arg[1], arg[2]) \notin Supported(arg[1])

Overwritten(list, values) == values \* a slip: a flag that is repeated overwrites

Appended(list, values) == list \o values \* StringsFlag.Set

Assigned(flag, arg) ==
  IF flag \in Switches THEN IF HasValue(arg) THEN arg[2] ELSE "true"
  ELSE IF flag \in ChoiceFlags THEN Chosen(flag, arg[2])
  ELSE IF flag \in ListFlags THEN Appended(options[flag], arg[2])
  ELSE arg[2]

SetOption ==
  /\ Parsing /\ ~Wrong(args[next]) /\ Flag \in Options
  /\ options' = [options EXCEPT ![Flag] = Assigned(Flag, args[next])]
  /\ next' = next + 1
  /\ UNCHANGED <<vars, args, phase, warnings, conn>>

AddTags ==
  /\ Parsing /\ ~Wrong(args[next]) /\ Flag = "tag"
  /\ settings' = [settings EXCEPT !.tags = Appended(@, args[next][2])]
  /\ current' = FALSE
  /\ next' = next + 1
  /\ UNCHANGED <<heap, tags, loop, given, calls, args, options, phase, warnings, conn>>

SetTagSwitch ==
  /\ Parsing /\ ~Wrong(args[next]) /\ Flag \in TagSwitches
  /\ LET on == Assigned(Flag, args[next]) = "true"
     IN settings' = CASE Flag = "tags-no-db"      -> [settings EXCEPT !.noDb = on]
                      [] Flag = "tags-structable" -> [settings EXCEPT !.structable = on]
                      [] OTHER                    -> [settings EXCEPT !.only = on]
  /\ current' = FALSE
  /\ next' = next + 1
  /\ UNCHANGED <<heap, tags, loop, given, calls, args, options, phase, warnings, conn>>

Usage == \* ErrFlagParse
  /\ Parsing /\ Wrong(args[next])
  /\ To("usage")
  /\ UNCHANGED vars

EndParse ==
  /\ phase = "parse"
  /\ next = Len(args) + 1 \/ (next \in DOMAIN args /\ Flag = Word)
  /\ To("resolve")
  /\ UNCHANGED vars

Resolve ==
  /\ phase = "resolve"
  /\ ResolveTags
  /\ To(IF loop' = 0 THEN "legacy" ELSE "resolve")

(* printLegacyTagsWarning, ...                                             *)
WarnLegacy ==
  /\ phase = "legacy"
  /\ warnings' = IF settings.structable \/ settings.only THEN {"legacy"} ELSE {}
  /\ phase' = "recorder"
  /\ UNCHANGED <<vars, args, next, options, conn>>

AskedAsSuch(key) == \* a slip: aliases and the legacy flags are overlooked
  \E i \in DOMAIN settings.tags : settings.tags[i] = key

Contained(key) == Has(key)

(* ... and the two others, which look for the key in a copy of the tags.   *)
WarnWithout(flag, key) ==
  IF options[flag] = "true"
  THEN ResolvedTags /\ warnings' = IF Contained(key) THEN warnings ELSE warnings \cup {flag}
  ELSE UNCHANGED <<vars, warnings>>

WarnRecorder ==
  /\ phase = "recorder"
  /\ WarnWithout("structable-recorder", structable)
  /\ phase' = "gorm"
  /\ UNCHANGED <<args, next, options, conn>>

WarnGorm ==
  /\ phase = "gorm"
  /\ WarnWithout("gorm-model", gorm)
  /\ phase' = "run"
  /\ UNCHANGED <<args, next, options, conn>>

-----------------------------------------------------------------------------
(* Cmd.Run: -help and -version end it, -help first.                        *)
AfterNewArgs ==
  /\ phase = "run"
  /\ To(CASE options["help"] = "true" -> "help"
          [] options["help"] = "false" /\ options["version"] = "true" -> "version"
          [] OTHER -> "verify")
  /\ UNCHANGED vars

PortOfPostgres(type) == <<"5432">> \* a slip: one default for all databases

DefaultPort(type) ==
  CASE type = "pg" -> <<"5432">> [] type = "mysql" -> <<"3306">> [] OTHER -> <<>>

(* What Verify fills in before it looks at the name of the package; the    *)
(* error of a key comes after.                                             *)
Filled ==
  [options EXCEPT !["port"]    = OrElse(@, DefaultPort(options["t"])),
                  !["sslmode"] = OrElse(@, <<"disable">>)]

ValidateAsked == \* a slip: the flags are validated, not what they resolve to
  \A i \in DOMAIN settings.tags : KeyOf[settings.tags[i]] \notin BadKey

Validate == \A key \in BadKey : ~Has(key)

(* verifyOutputPath: an error of Stat but that nothing is there leaves a   *)
(* nil FileInfo.  (prepareOutputPath then refuses the "unresolvable" path  *)
(* of a directory, for which Abs has an error.)                            *)
VerifyPanics ==
  /\ phase = "verify" /\ options["of"] = "unreadable"
  /\ To("panic")
  /\ UNCHANGED vars

Verify ==
  /\ phase = "verify" /\ options["of"] # "unreadable"
  /\ IF options["of"] # "directory" THEN To("refused")
     ELSE /\ IF Filled["pn"] # <<>> /\ Validate
             THEN /\ options' = [Filled EXCEPT !["v"] = IF options["vv"] = "true" THEN "true" ELSE @]
                  /\ phase' = "connect"
             ELSE options' = Filled /\ phase' = "refused"
          /\ UNCHANGED <<args, next, warnings, conn>>
  /\ UNCHANGED vars

(* database.New takes the type, Connect the data source name.              *)
Connect ==
  /\ phase = "connect"
  /\ conn' = Reads(options)
  /\ \/ conn' # Refused /\ phase' = "app"
     \/ conn' \in {Refused, NotFollowed} /\ phase' = "down"
  /\ UNCHANGED <<vars, args, next, options, warnings>>

(* cli.New: the taggers.                                                   *)
NewApp ==
  /\ phase = "app"
  /\ ResolvedTags
  /\ To("done")

(* Another program sets, resolves and asks in any order.                   *)
OtherConfigures  == phase = "library" /\ settings' \in Configurations /\ Configure /\ UNCHANGED lineVars
OtherResolves    == phase = "library" /\ ResolveTags /\ UNCHANGED lineVars
OtherAsks        == phase = "library" /\ ResolvedTags /\ UNCHANGED lineVars

LineInit ==
  /\ Init
  /\ args \in CommandLines
  /\ next = 1
  /\ options = [flag \in Options |-> Default(flag)]
  /\ phase = "parse" \/ (args = <<>> /\ phase = "library")
  /\ warnings = {}
  /\ conn = [net |-> "none"]

LineNext ==
  \/ SetOption \/ AddTags \/ SetTagSwitch \/ Usage \/ EndParse
  \/ Resolve \/ WarnLegacy \/ WarnRecorder \/ WarnGorm
  \/ AfterNewArgs \/ VerifyPanics \/ Verify \/ Connect \/ NewApp
  \/ OtherConfigures \/ OtherResolves \/ OtherAsks

LineSpec == LineInit /\ [][LineNext]_allVars

-----------------------------------------------------------------------------
(* Properties.                                                             *)

WarningNames == {"legacy", "structable-recorder", "gorm-model"}

LineTypeOK ==
  /\ TagsTypeOK
  /\ args \in CommandLines
  /\ next \in 1..(Len(args) + 1)
  /\ DOMAIN options = Options
  /\ phase \in Phases
  /\ warnings \subseteq WarningNames

(* The arguments as a whole: those before the first word are read; of a    *)
(* flag that takes one value the last counts, of a list all.               *)
FlagsRead == {i \in DOMAIN args : \A j \in 1..i : args[j][1] # Word}

Those(flag) == {i \in FlagsRead : args[i][1] = flag}

Final(flag) ==
  LET last == args[Max(Those(flag))]
  IN IF Those(flag) = {} THEN Default(flag)
     ELSE IF flag \in Switches /\ ~HasValue(last) THEN "true"
     ELSE IF flag \in ChoiceFlags THEN Chosen(flag, last[2]) ELSE last[2]

On(flag) == Final(flag) = "true"

AllOf(flag) ==
  FlattenSeq([i \in DOMAIN args |-> IF i \in Those(flag) THEN args[i][2] ELSE <<>>])

Read     == phase \notin {"library", "parse", "usage"}
Verified == phase \in {"connect", "down", "app", "done"}

(* A command line is refused for one of its flags or counts as a whole:    *)
(* whatever was resolved, filled in and asked for meanwhile, the settings  *)
(* are what the flags say, a value of a list is never lost, and only what  *)
(* was left empty has a default.                                           *)
EveryFlagCounts ==
  /\ phase = "usage" => \E i \in FlagsRead : Wrong(args[i])
  /\ Read =>
       /\ \A i \in FlagsRead : ~Wrong(args[i])
       /\ \A flag \in Options \ {"table", "port", "sslmode", "v"} : options[flag] = Final(flag)
       /\ options["table"] = AllOf("table")
       /\ \A flag \in {"port", "sslmode"} : options[flag] # Final(flag) => Final(flag) = <<>>
       /\ settings = [noDb |-> On("tags-no-db"), structable |-> On("tags-structable"),
                      only |-> On("tags-structable-only"), tags |-> AllOf("tag")]
  /\ Verified =>
       /\ options["v"] = "true" <=> On("v") \/ On("vv")
       /\ options["sslmode"] # <<>>

(* The keys that the flags lead to, under their own names or by an alias.  *)
FlagsAskFor(key) ==
  IF On("tags-structable-only") THEN key = structable
  ELSE \/ key = db /\ ~On("tags-no-db")
       \/ key = structable /\ On("tags-structable")
       \/ key # db /\ \E i \in DOMAIN AllOf("tag") : KeyOf[AllOf("tag")[i]] = key

(* Each warning is printed when it is called for and not otherwise, however*)
(* the tag in question is asked for.                                       *)
WarningsAreRight ==
  Read /\ phase \notin {"resolve", "legacy", "recorder", "gorm"} =>
    /\ "legacy" \in warnings <=> On("tags-structable") \/ On("tags-structable-only")
    /\ "structable-recorder" \in warnings <=>
         On("structable-recorder") /\ ~FlagsAskFor(structable)
    /\ "gorm-model" \in warnings <=> On("gorm-model") /\ ~FlagsAskFor(gorm)

(* Verify refuses for what is given as a whole, whatever order it came in: *)
(* no directory, no name for the package (any other name will do, `my-dto' *)
(* too), a key that breaks the tag; and for nothing else.  A bad key that  *)
(* -tags-structable-only leaves out is none.                               *)
Unusable ==
  Final("of") # "directory" \/ Final("pn") = <<>> \/ \E key \in BadKey : FlagsAskFor(key)

RefusedRightly == (phase = "refused" => Unusable) /\ (Verified => ~Unusable)

(* The driver reads out of the data source name what the flags said: the   *)
(* type, the server, the login and the database, with the port of that     *)
(* type.  Nothing is escaped, so a delimiter may end a part before its     *)
(* time, and a host with colons needs its brackets.  MySQL is read from    *)
(* the right and takes any password, but no colon in the user, no @ in the *)
(* address and not everything in the name of the database.  Postgres is a  *)
(* URL, where most delimiters of most parts count, and is not asked for    *)
(* what is left empty, nor with -socket; a mode it does not know is        *)
(* refused.  SQLite takes options after the name, which may not begin with *)
(* a colon, `:memory:' neither.                                            *)
GivenOr(flag, default) == OrElse(Final(flag), default)

ServerAskedFor ==
  LET type == Final("t")
      name == Final("d")
      host == Final("h")
      user == GivenOr("u", IF type = "pg" THEN <<"postgres">> ELSE <<"root">>)
      port == GivenOr("port", IF type = "pg" THEN <<"5432">> ELSE <<"3306">>)
      mode == GivenOr("sslmode", <<"disable">>)
      login(net, address) == Server(net, address, user, Final("p"), name)
      tcp  == host \o <<":">> \o port
  IN phase \in {"down", "app", "done"} =>
       CASE type = "sqlite3" ->
              /\ Begins(name, Colon) => conn = Refused
              /\ Holds(name, Percent) /\ ~HoldsAny(name, {Colon, Question}) => conn = Refused
              /\ \/ HoldsAny(name, {Percent, Colon, Question, Backslash})
                 \/ Begins(name, Slash) /\ Begins(Tail(name), Slash)
                 \/ conn.net = "file" /\ conn.address = name
         [] type = "mysql" ->
              \/ Holds(user, Colon)
              \/ HoldsAny(name, {Slash, Question, Percent})
              \/ IF Final("socket") = <<>>
                 THEN \/ Holds(host, At) \/ ~IsHost(host)
                      \/ HoldsAny(port, {Colon, At} \cup Brackets)
                      \/ conn = login("tcp", tcp)
                 ELSE Holds(Final("socket"), At) \/ conn = login("unix", Final("socket"))
         [] type = "pg" ->
              \/ Final("socket") # <<>>
              \/ HoldsAny(user, InURL \cup Brackets \cup {Colon})
              \/ HoldsAny(Final("p"), InURL \cup Brackets)
              \/ host = <<>> \/ HoldsAny(host, InURL \cup {At})
              \/ ~IsHost(host) \/ (Bracketed(host) /\ Unbracketed(host) \notin IPv6)
              \/ ~IsNumber(port)
              \/ name = <<>> \/ HoldsAny(name, {Question, Hash, Percent})
              \/ HoldsAny(mode, {Ampersand, Hash, Percent})
              \/ conn = IF mode \in {<<m>> : m \in SSLModes} THEN login("tcp", tcp) ELSE Refused

(* "The socket file to use for connection. If specified, takes precedence  *)
(* over host:port."                                                        *)
SocketTakesPrecedence ==
  Final("socket") # <<>> /\ conn.net \in {"tcp", "unix"} =>
    conn.net = "unix" /\ conn.address = Final("socket")
=============================================================================

------------------------------- MODULE Config -------------------------------
(***************************************************************************)
(* How the configuration is put together (internal/config): the defaults,  *)
(* the environment and the command line, then, if these name a config      *)
(* file, the file and once more the environment and the command line; then *)
(* Validate, or gen-config-file, whose output is the config file of a      *)
(* later start.                                                            *)
(*                                                                         *)
(* The options are applied in the order of their table, which matters      *)
(* because some write others.  A row of the table stands for all rows that *)
(* differ from it in name and default only.  What the user writes is a     *)
(* text, for numbers the number; Value is what the setters make of it.     *)
(***************************************************************************)
EXTENDS Integers, Sequences, FiniteSets

CONSTANTS
    Uint16,         (* 2^16                                                *)
    Uint32,         (* 2^32                                                *)
    MaxFeeStatsRetentionWindow,
    DefaultNumber,  (* the default of each numeric option                  *)
    Texts,          (* what may be written for an option                   *)
    MaxSettings     (* bound on the settings the user gives                *)

VARIABLES
    settings,   (* what the user wrote: [<<source, option>> -> text]       *)
    cfg,        (* the Config struct: [option -> value]                    *)
    generated,  (* the configuration that gen-config-file wrote out        *)
    phase,      (* the step of SetValues and what follows                  *)
    row,        (* the last row of the table that the pass has applied     *)
    strict      (* config-strict when the config file was opened           *)

configVars == <<settings, cfg, generated, phase, row, strict>>

-----------------------------------------------------------------------------
(***************************************************************************)
(* The table of options.  An option without a name is neither a flag nor   *)
(* an environment variable, only a key of the config file.                 *)
(***************************************************************************)
Blank == ""     (* the empty text *)
Named == {"env", "flag"}
Everywhere == Named \cup {"file"}

Option(name, kind, default, validate, sources) ==
    [name |-> name, kind |-> kind, default |-> default, validate |-> validate,
     sources |-> sources]

Number(name, kind, validate, sources) ==
    Option(name, kind, DefaultNumber[name], validate, sources)

\* endpoint stands for admin-endpoint too.
ServerOptions == <<
    Option("config-path", "string", Blank, "none", Named),
    Option("config-strict", "bool", "false", "none", Everywhere),
    Option("endpoint", "string", "localhost:8000", "none", Everywhere)>>

\* The query thread pool and the snapshot ledgers are numbers like http-port.
CoreOptions == <<
    Option("stellar-core-url", "string", Blank, "core_url", Everywhere),
    Option("backfill", "bool", "false", "backfill", Everywhere),
    Option("stellar-core-timeout", "duration", "2s", "none", Everywhere),
    Number("http-port", "uint16", "none", Everywhere),
    Number("http-query-port", "uint16", "positive", Everywhere)>>

LogOptions == <<Option("log-level", "level", "info", "none", Everywhere)>>

\* The path of the stellar-core binary, found by LookPath, is left out.
CaptiveCoreOptions == <<
    Option("captive-core-config-path", "string", Blank, "required", Everywhere),
    Option("captive-core-storage-path", "storage", Blank, "none", Everywhere)>>

\* friendbot-url is a text like endpoint.
NetworkOptions == <<
    Option("history-archive-urls", "strings", Blank, "required", Everywhere),
    Option("network-passphrase", "string", Blank, "required", Everywhere),
    Option("network", "network", Blank, "none", Everywhere)>>

\* One of the two fee windows.
StorageOptions == <<
    Number("history-retention-window", "uint32", "positive", Everywhere),
    Number("fee-stats-retention-window", "uint32", "fee_window", Everywhere)>>

\* The pair of limits for events, for transactions or for ledgers.
LimitOptions == <<
    Number("max-limit", "uint32", "none", Everywhere),
    Number("default-limit", "uint32", "limit", Everywhere)>>

\* The worker count and the queue size are positive numbers like queue-limit.
PreflightOptions == <<Option("preflight-enable-debug", "bool", "true", "none", Everywhere)>>

\* One of the 13 queue limits, one of the 14 durations.
QueueLimitOptions == <<Number("queue-limit", "uint32", "positive", {"file"})>>
DurationOptions == <<Option("execution-duration", "duration", "5s", "none", {"file"})>>

\* One of the three tables: no default, and gen-config-file writes the
\* defaults of the table whatever the configuration holds.
DatastoreOptions == <<
    Option("serve-ledgers-from-datastore", "bool", "false", "none", Everywhere),
    Option("datastore_config", "table", Blank, "none", {"file"})>>

options ==
    ServerOptions \o CoreOptions \o LogOptions \o CaptiveCoreOptions \o NetworkOptions
    \o StorageOptions \o LimitOptions \o PreflightOptions \o QueueLimitOptions
    \o DurationOptions \o DatastoreOptions

OptionSet == {options[i] : i \in DOMAIN options}
Names == {o.name : o \in OptionSet}
IsNumber(o) == o.kind \in {"uint16", "uint32"}

ASSUME ConfigAssumption ==
    /\ Uint16 \in Nat \ {0} /\ Uint32 \in Nat /\ Uint16 < Uint32
    /\ MaxFeeStatsRetentionWindow \in Nat \ {0}
    /\ MaxSettings \in Nat
    /\ \A o \in OptionSet : IsNumber(o) => o.default \in Nat /\ Texts[o.name] \subseteq Int

-----------------------------------------------------------------------------
(***************************************************************************)
(* The setters, by the type of the option.                                 *)
(***************************************************************************)

\* The value that reflect's IsZero recognizes, which is that of an option that
\* nothing has set.  A list that is nil and one that is empty are one value here:
\* only IsZero tells them apart, and both are read back as no list.
Zero(o) ==
    CASE o.kind = "bool" -> FALSE
      [] IsNumber(o) -> 0
      [] o.kind = "strings" -> <<>>
      [] o.kind = "duration" -> "0s"
      [] o.kind = "level" -> "panic"
      [] OTHER -> Blank

\* Whether strconv and the like accept the text.  Numbers of every width go
\* through parseUint32.
Parses(o, text) ==
    CASE IsNumber(o) -> text >= 0 /\ text < Uint32
      [] o.kind = "bool" -> text \in {"true", "false"}
      [] o.kind \in {"level", "duration"} -> text \notin {"bad", Blank}
      [] o.kind = "table" -> text # "bad"
      [] OTHER -> TRUE

\* SetUint keeps the low bits; a list is split at its commas.
Value(o, text) ==
    CASE o.kind = "uint16" -> text % Uint16
      [] o.kind = "bool" -> text = "true"
      [] o.kind = "strings" -> IF text = Blank THEN <<>> ELSE <<text>>
      [] o.kind = "storage" -> IF text \in {Blank, "."} THEN "cwd" ELSE text
      [] OTHER -> text

\* Flags are parsed by their own type before anything is loaded: a number has
\* to fit, the options with a setter of their own are strings.
FlagParses(o, text) ==
    CASE o.kind = "uint16" -> text >= 0 /\ text < Uint16
      [] o.kind = "level" -> TRUE
      [] OTHER -> Parses(o, text)

Set(c, o, v) == [ok |-> TRUE, cfg |-> [c EXCEPT ![o.name] = v]]
Failed(c) == [ok |-> FALSE, cfg |-> c]

\* futurenet is like the other two.
Networks == {"testnet", "pubnet"}
ArchiveURLs(n) == <<n>>
Passphrase(n) == n
TempConfig == [testnet |-> "temp-testnet", pubnet |-> "temp-pubnet"]

\* Mutant: there is no conflict, the network's values win.
setForNetworkAlways(c, n, temp) ==
    [ok |-> temp, cfg |-> [c EXCEPT !["captive-core-config-path"] = TempConfig[n],
                                    !["history-archive-urls"] = ArchiveURLs(n),
                                    !["network-passphrase"] = Passphrase(n)]]

\* The network's archives, passphrase and captive core file, unless the first
\* two are there already; any others conflict.  The file is a temporary one,
\* which may fail to be written.
setForNetwork(c, n, temp) ==
    IF c["history-archive-urls"] = ArchiveURLs(n) /\ c["network-passphrase"] = Passphrase(n)
    THEN [ok |-> TRUE, cfg |-> c]
    ELSE IF c["history-archive-urls"] # <<>> \/ c["network-passphrase"] # Blank \/ ~temp
    THEN Failed(c)
    ELSE [ok |-> TRUE, cfg |-> [c EXCEPT !["captive-core-config-path"] = TempConfig[n],
                                         !["history-archive-urls"] = ArchiveURLs(n),
                                         !["network-passphrase"] = Passphrase(n)]]

SetNetwork(c, text, temp) ==
    IF text = Blank THEN [ok |-> TRUE, cfg |-> c]
    ELSE IF text \notin Networks THEN Failed(c)
    ELSE LET r == setForNetwork(c, text, temp)
         IN  IF r.ok THEN [r EXCEPT !.cfg["network"] = text] ELSE Failed(c)

setValue(c, o, text, temp) ==
    IF o.kind = "network" THEN SetNetwork(c, text, temp)
    ELSE IF Parses(o, text) THEN Set(c, o, Value(o, text)) ELSE Failed(c)

-----------------------------------------------------------------------------
(***************************************************************************)
(* SetValues.                                                              *)
(***************************************************************************)
Given(source, o) == <<source, o.name>> \in DOMAIN settings
Text(source, o) == settings[<<source, o.name>>]

\* The source that each pass over the table loads from.
SourceOf == [env |-> "env", flags |-> "flag", file |-> "file",
             env_again |-> "env", flags_again |-> "flag"]

\* Every option but the tables has a default: AddFlag gives Blank to the rest.
Defaults ==
    [n \in Names |-> LET o == CHOOSE x \in OptionSet : x.name = n
                     IN  IF o.kind = "table" THEN Zero(o) ELSE Value(o, o.default)]

ZeroConfig == [n \in Names |-> Zero(CHOOSE x \in OptionSet : x.name = n)]

ConfigInit ==
    /\ settings = <<>>
    /\ cfg = ZeroConfig
    /\ generated = <<>>
    /\ phase = "input"
    /\ row = 0
    /\ strict = FALSE

\* The user writes a setting.
Provide ==
    /\ phase = "input"
    /\ Cardinality(DOMAIN settings) < MaxSettings
    /\ \E o \in OptionSet : \E source \in o.sources, text \in Texts[o.name] :
          /\ ~Given(source, o)
          /\ settings' = [k \in DOMAIN settings \cup {<<source, o.name>>} |->
                             IF k = <<source, o.name>> THEN text ELSE settings[k]]
    /\ UNCHANGED <<cfg, generated, phase, row, strict>>

Keep == UNCHANGED <<settings, generated>>
Refuse == phase' = "refused" /\ UNCHANGED <<cfg, row, strict>> /\ Keep

\* The command line is parsed.
ParseFlags ==
    /\ phase = "input"
    /\ IF \A o \in OptionSet : Given("flag", o) => FlagParses(o, Text("flag", o))
       THEN phase' = "defaults" /\ UNCHANGED <<cfg, row, strict>> /\ Keep
       ELSE Refuse

LoadDefaults ==
    /\ phase = "defaults"
    /\ cfg' = Defaults
    /\ phase' = "env"
    /\ UNCHANGED <<row, strict>> /\ Keep

\* The rows that the pass has yet to apply.
Ahead == {i \in (row + 1)..Len(options) : Given(SourceOf[phase], options[i])}

\* A turn of the loop over the table that loadEnv, loadFlags and parseToml
\* have: the next option that the source gives is set, or the pass fails.
LoadOption ==
    /\ phase \in DOMAIN SourceOf
    /\ \E i \in Ahead, temp \in BOOLEAN :
          /\ \A j \in Ahead : i <= j
          /\ LET r == setValue(cfg, options[i], Text(SourceOf[phase], options[i]), temp) IN
             IF r.ok
             THEN cfg' = r.cfg /\ row' = i /\ UNCHANGED <<phase, strict>> /\ Keep
             ELSE Refuse

\* The loop of a pass is over.
PassEnds(from) == phase = from /\ Ahead = {}
NextPass(to) == phase' = to /\ row' = 0 /\ UNCHANGED cfg /\ Keep

EnvLoaded == PassEnds("env") /\ NextPass("flags") /\ UNCHANGED strict

\* The config file is opened, if there is one.
FlagsLoaded ==
    /\ PassEnds("flags")
    /\ NextPass(IF cfg["config-path"] = Blank THEN "loaded" ELSE "file")
    /\ strict' = cfg["config-strict"]

\* The config file cannot be opened or is no TOML.
ConfigFileUnreadable == phase = "file" /\ row = 0 /\ Refuse

StrictMode(before, after) == before \/ after

\* Mutant: only the flags are loaded again.
ConfigPathLoadedFlagsNext ==
    PassEnds("file") /\ NextPass("flags_again") /\ UNCHANGED strict

\* The end of parseToml: strict when the sources before the file said so, or
\* when the file does; then a key that no option has is an error.
ConfigPathLoaded ==
    /\ PassEnds("file")
    /\ \E unknown \in IF generated = <<>> THEN BOOLEAN ELSE {FALSE} :
          IF unknown /\ StrictMode(strict, cfg["config-strict"])
          THEN Refuse
          ELSE NextPass("env_again") /\ UNCHANGED strict

EnvLoadedAgain == PassEnds("env_again") /\ NextPass("flags_again") /\ UNCHANGED strict
FlagsLoadedAgain == PassEnds("flags_again") /\ NextPass("loaded") /\ UNCHANGED strict

-----------------------------------------------------------------------------
(***************************************************************************)
(* Validate, and gen-config-file.                                          *)
(***************************************************************************)

\* The validator of an option; "required" options that are missing are
\* collected, but end the start like any other error.
Valid(c, o) ==
    CASE o.validate = "required" -> c[o.name] # Zero(o)
      [] o.validate = "positive" -> c[o.name] > 0
      [] o.validate = "fee_window" -> c[o.name] \in 1..MaxFeeStatsRetentionWindow
      [] o.validate = "limit" -> c["default-limit"] <= c["max-limit"]
      [] o.validate = "backfill" -> c["backfill"] => c["serve-ledgers-from-datastore"]
      [] OTHER -> TRUE

\* The local captive core's address.
LocalCore(port) == IF port = DefaultNumber["http-port"] THEN "core-default-port"
                                                        ELSE "core-other-port"

\* The validator of stellar-core-url sets its default.
Validate ==
    /\ phase = "loaded"
    /\ IF \A o \in OptionSet : Valid(cfg, o)
       THEN /\ cfg' = [cfg EXCEPT !["stellar-core-url"] =
                            IF @ = Blank THEN LocalCore(cfg["http-port"]) ELSE @]
            /\ phase' = "ready"
            /\ UNCHANGED <<row, strict>> /\ Keep
       ELSE Refuse

\* What the file gets for a table: its defaults.
DefaultTable == "default-table"

\* The text that stands for a value in the generated file.
Written(c, o) ==
    CASE o.kind = "bool" -> IF c[o.name] THEN "true" ELSE "false"
      [] o.kind = "strings" -> c[o.name][1]
      [] o.kind = "table" -> DefaultTable
      [] OTHER -> c[o.name]

\* Mutant: numbers of an unusual width are left out.
InFileNot16(c, o) ==
    "file" \in o.sources /\ c[o.name] # Zero(o) /\ o.kind # "uint16"

\* Zero values are commented out.
InFile(c, o) == "file" \in o.sources /\ c[o.name] # Zero(o)

\* MarshalTOML.  The output is saved, and later the daemon is started with it
\* and without other settings.
GenConfigFile ==
    /\ phase = "loaded" /\ generated = <<>>
    /\ LET S == {o \in OptionSet : InFile(cfg, o)} IN
       settings' = [k \in {<<"flag", "config-path">>} \cup {<<"file", o.name>> : o \in S} |->
                       IF k[1] = "flag" THEN "path"
                       ELSE Written(cfg, CHOOSE o \in S : o.name = k[2])]
    /\ generated' = cfg
    /\ cfg' = ZeroConfig
    /\ phase' = "defaults"
    /\ UNCHANGED <<row, strict>>

\* The daemon runs, or the process has exited.
Ended == phase \in {"ready", "refused"} /\ UNCHANGED configVars

ConfigNext ==
    \/ Provide \/ ParseFlags
    \/ LoadDefaults \/ LoadOption \/ EnvLoaded \/ FlagsLoaded
    \/ ConfigFileUnreadable \/ ConfigPathLoaded \/ EnvLoadedAgain \/ FlagsLoadedAgain
    \/ Validate \/ GenConfigFile \/ Ended

ConfigSpec == ConfigInit /\ [][ConfigNext]_configVars

-----------------------------------------------------------------------------
\* What the network option writes.
WrittenByNetwork == {"captive-core-config-path", "history-archive-urls", "network-passphrase"}
NetworkGiven == \E s \in Everywhere : <<s, "network">> \in DOMAIN settings

FileUsed == cfg["config-path"] # Blank

\* "cli flags should override --config-path values and env vars", "env var
\* should override config file", "default value should be used, if not set
\* anywhere else": what SetValues leaves in an option is what the strongest
\* source gives for it, though all sources were applied over each other and
\* two of them twice.  The network option, and what it writes, is excepted.
StrongestSourceWins ==
    phase = "loaded" =>
        \A o \in OptionSet :
            o.kind # "network" /\ (o.name \in WrittenByNetwork => ~NetworkGiven) =>
                cfg[o.name] =
                    IF Given("flag", o) THEN Value(o, Text("flag", o))
                    ELSE IF Given("env", o) THEN Value(o, Text("env", o))
                    ELSE IF FileUsed /\ Given("file", o) THEN Value(o, Text("file", o))
                    ELSE Defaults[o.name]

\* What the network's name stands for in one of the two options it is checked
\* against, and whether at most one source gives that option.
OfNetwork(name, n) == IF name = "history-archive-urls" THEN ArchiveURLs(n) ELSE Passphrase(n)
GivenOnce(name) ==
    \A s, t \in Everywhere :
        <<s, name>> \in DOMAIN settings /\ <<t, name>> \in DOMAIN settings => s = t

\* Flags that give the option give a network too.
FlagsNameNetwork(name) ==
    <<"flag", name>> \in DOMAIN settings =>
        <<"flag", "network">> \in DOMAIN settings /\ settings[<<"flag", "network">>] # Blank

\* "network option conflicts with values provided for passphrase and/or history
\* archive URLs": a daemon never runs with the name of one network and the
\* passphrase or archives of another, whichever sources give them, as long as no
\* two sources give the same of the two and, without a config file, no flag gives
\* one of them that gives no network.  (Two sources: an empty value in the file
\* hides that of the environment while the file's network is checked, and the
\* environment's comes back with the second pass.  Without a file: the network of
\* the environment is checked before the flags are loaded, and not again.)
NetworkCoherent ==
    phase = "ready" /\ cfg["network"] # Blank =>
        \A name \in {"history-archive-urls", "network-passphrase"} :
            (IF FileUsed THEN GivenOnce(name) ELSE FlagsNameNetwork(name))
            => cfg[name] = OfNetwork(name, cfg["network"])

\* No required option is missing.
Complete(c) == \A o \in OptionSet : o.validate = "required" => c[o.name] # Zero(o)

\* A daemon started with the output of gen-config-file has the configuration
\* that was written out, and its default for each option that was at its zero
\* value, as these are commented out.  The tables, which are written with their
\* defaults, are excepted.  What the network option writes comes back if no
\* required option was missing: else a captive core file that was given gives way
\* to the network's.
GeneratedFileReproduces ==
    phase = "loaded" /\ generated # <<>> =>
        \A o \in OptionSet :
            /\ "file" \in o.sources /\ o.kind # "table"
            /\ o.name \in WrittenByNetwork => Complete(generated)
            => cfg[o.name] = IF generated[o.name] = Zero(o) THEN Defaults[o.name]
                             ELSE generated[o.name]
=============================================================================

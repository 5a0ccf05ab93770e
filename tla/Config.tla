------------------------------- MODULE Config -------------------------------
(***************************************************************************)
(* How a command line, the environment and a configuration file become the *)
(* settings of a run: pkg/config/config.go, the subcommands that load it   *)
(* (http-aware, exponential and diophantine, cmd/patience/subcommands.go), *)
(* the seven that do not, LoadWithPrecedence for callers of the package,   *)
(* and loadConfiguration of patienced (cmd/patienced/main.go).             *)
(*                                                                         *)
(* A raw value, from the file or from the environment, is a form with what *)
(* it denotes: number (5), digits ("5"), duration ("30s"), bool (true) or  *)
(* text.  Multipliers are in tenths.                                       *)
(***************************************************************************)
EXTENDS Integers, Sequences, FiniteSets, SequencesExt

CONSTANTS
  Day,                \* 24 hours, in the unit of durations
  FileRaws, EnvRaws,  \* the settings that a layer may hold: <<key, raw>>
  FlagValues,         \* the flags that may be given: <<key, value>>
  DaemonRaws, DaemonFlagValues,  \* the same for patienced
  FileSize, EnvSize, FlagSize,   \* bounds: settings per layer
  Strings,            \* the values of the settings that are strings
  BadPatterns         \* texts that regexp.Compile refuses

ASSUME ConfigAssumption ==
  /\ Day \in Nat \ {0}
  /\ FileSize \in Nat /\ EnvSize \in Nat /\ FlagSize \in Nat

Type ==
  [attempts |-> "int", delay |-> "duration", timeout |-> "duration",
   backoff |-> "string", max_delay |-> "duration", multiplier |-> "float",
   success_pattern |-> "string", failure_pattern |-> "string",
   case_insensitive |-> "bool", daemon_enabled |-> "bool",
   daemon_socket |-> "string", daemon_timeout |-> "duration",
   daemon_auto_start |-> "bool"]

Keys == DOMAIN Type

(* The empty string: no pattern, no path, no variable.                     *)
Unset == ""

(* The commands that call loadConfigWithPrecedence, and the others.        *)
Loading == {"http-aware", "exponential", "diophantine"}
NotLoading == {"fixed", "linear", "jitter", "decorrelated-jitter",
               "fibonacci", "polynomial", "adaptive"}

DaemonFlags == {"daemon_enabled", "daemon_socket", "daemon_timeout",
                "daemon_auto_start"}
CommonFlags == {"attempts", "timeout", "success_pattern", "failure_pattern",
                "case_insensitive"}

(* addCommonFlags, and the flags that only diophantine adds; a caller of   *)
(* LoadWithPrecedence may set any field.                                   *)
FlagsOf(cmd) ==
  IF cmd = "LoadWithPrecedence" THEN Keys
  ELSE IF cmd = "diophantine" THEN CommonFlags \cup DaemonFlags
  ELSE CommonFlags

VARIABLES
  pc,                 \* the call that comes next; "running" or "rejected"
  args,               \* the command, its flags and --debug-config
  path,               \* configPath: a name, "--config", or "" for none
  file, env,          \* what the file and the environment set: key -> raw
  cfg,                \* the configuration, field by field
  sources             \* debugInfo.Sources; empty for patienced

configVars == <<pc, args, path, file, env, cfg, sources>>

-----------------------------------------------------------------------------
(* Layers: functions from some keys to values.                             *)
Layers(pairs, size) ==
  {[k \in {s[1] : s \in S} |-> (CHOOSE s \in S : s[1] = k)[2]] :
     S \in {T \in SUBSET pairs :
              /\ Cardinality(T) <= size
              /\ \A s, t \in T : s[1] = t[1] => s = t}}

Nothing == [k \in {} |-> 0]

Raw(form, v) == [form |-> form, content |-> v]

(* setDefaults.                                                            *)
Defaults ==
  [attempts |-> 3, delay |-> 0, timeout |-> 0, backoff |-> "fixed",
   max_delay |-> 0, multiplier |-> 20, success_pattern |-> Unset,
   failure_pattern |-> Unset, case_insensitive |-> FALSE,
   daemon_enabled |-> FALSE, daemon_socket |-> "daemon.sock",
   daemon_timeout |-> 5, daemon_auto_start |-> TRUE]

(* An empty variable counts as none (viper without AllowEmptyEnv).         *)
EnvSet(e) == {k \in DOMAIN e : e[k] # Raw("text", Unset)}

(* What viper finds for the keys that are not left to their default.       *)
FoundIn(f, e) ==
  [k \in DOMAIN f \cup EnvSet(e) |-> IF k \in EnvSet(e) THEN e[k] ELSE f[k]]

(* Whether mapstructure, weakly typed and with the hook for durations,     *)
(* takes a value for a key: a duration needs a number of nanoseconds or a  *)
(* text with a unit.  Booleans written as numbers, and numbers written as  *)
(* booleans, which it also takes, are not among the forms of the model.    *)
Decodable(k, raw) ==
  CASE Type[k] = "string" -> TRUE
    [] Type[k] = "duration" -> \/ raw.form \in {"number", "duration"}
                               \/ raw = Raw("digits", 0)
    [] Type[k] \in {"int", "float"} -> raw.form \in {"number", "digits"}
    [] Type[k] = "bool" -> raw.form = "bool"

HasType(k, v) == CASE Type[k] = "string" -> v \in Strings
                   [] Type[k] = "bool" -> v \in BOOLEAN
                   [] OTHER -> v \in Int

(* A raw value that is taken for a key denotes a value of the key's type   *)
(* (weak typing turns whatever it is into a text), and so does a flag      *)
(* that cobra has parsed.                                                  *)
ASSUME InputAssumption ==
  /\ \A s \in FileRaws \cup EnvRaws :
       s[1] \in Keys /\ (Decodable(s[1], s[2]) => HasType(s[1], s[2].content))
  /\ \A s \in FlagValues : s[1] \in Keys /\ HasType(s[1], s[2])
  /\ {Unset, "fixed", "daemon.sock"} \subseteq Strings

(* v.Unmarshal: only the value that was found for a key is decoded.        *)
Unmarshal(f, e) ==
  [ok |-> \A k \in DOMAIN FoundIn(f, e) : Decodable(k, FoundIn(f, e)[k]),
   c |-> [k \in Keys |-> IF k \in DOMAIN FoundIn(f, e)
                         THEN FoundIn(f, e)[k].content ELSE Defaults[k]]]

Zero(k) == CASE Type[k] \in {"int", "duration", "float"} -> 0
             [] Type[k] = "string" -> Unset
             [] Type[k] = "bool" -> FALSE

(* MergeWithFlags: a zero field counts as not given, booleans are left to  *)
(* the caller.  recordFlags names the same fields.                         *)
NonZero(flags) ==
  {k \in DOMAIN flags : Type[k] # "bool" /\ flags[k] # Zero(k)}

MergeWithFlags(c, flags) ==
  [k \in Keys |-> IF k \in NonZero(flags) THEN flags[k] ELSE c[k]]

(* MergeWithExplicitFlags: the fields whose flag was given.                *)
MergeWithExplicitFlags(c, flags) ==
  [k \in Keys |-> IF k \in DOMAIN flags THEN flags[k] ELSE c[k]]

-----------------------------------------------------------------------------
(* Validation.                                                             *)
Growing == {"exponential", "jitter", "decorrelated-jitter"}
BackoffTypes == Growing \cup {"fixed", "linear", "fibonacci", "adaptive",
                              "polynomial", "http-aware"}

validateCombinations(c) ==
  /\ c.backoff \in Growing => c.delay # 0
  /\ c.multiplier # 20 => c.backoff \in Growing
  /\ c.max_delay > 0 => c.backoff \in Growing \cup {"linear", "fibonacci"}

(* Config.Validate.                                                        *)
Validate(c) ==
  /\ c.attempts \in 1 .. 1000
  /\ c.delay \in 0 .. Day /\ c.timeout \in 0 .. Day
  /\ c.backoff \in BackoffTypes \cup {Unset}
  /\ c.max_delay \in 0 .. Day
  /\ c.max_delay > 0 /\ c.delay > 0 => c.max_delay >= c.delay
  /\ c.multiplier \in 10 .. 100
  /\ validateCombinations(c)

(* CommonConfig.Validate.                                                  *)
CommonValidate(c) ==
  /\ c.attempts \in 1 .. 1000
  /\ c.timeout >= 0
  /\ {c.success_pattern, c.failure_pattern} \cap BadPatterns = {}

-----------------------------------------------------------------------------
(* patienced.  DefaultConfig and the defaults of its flags name different  *)
(* files.                                                                  *)
DefaultConfig ==
  [socket_path |-> "/tmp/retry-daemon.sock", pid_file |-> "/tmp/retry-daemon.pid",
   http_port |-> 8080, metrics_max_age |-> Day]

FlagDefault ==
  [socket_path |-> "/var/run/daemon.sock", pid_file |-> "/var/run/daemon.pid",
   http_port |-> 8080, metrics_max_age |-> Day]

DaemonKeys == DOMAIN DefaultConfig

(* json.Unmarshal: numbers stay numbers; a duration has no text form.      *)
JSONDecodable(k, raw) ==
  IF k \in {"http_port", "metrics_max_age"} THEN raw.form = "number"
  ELSE raw.form = "text"

DaemonFlag(k) == IF k \in DOMAIN args.flags THEN args.flags[k] ELSE FlagDefault[k]

(* *configFile == "" || *flag != its default.                              *)
FlagApplies(k, p) == p = Unset \/ DaemonFlag(k) # FlagDefault[k]

-----------------------------------------------------------------------------
(* A process starts with a command line that cobra has parsed: the fields  *)
(* of CommonConfig hold the flags that were given and the defaults.        *)
ConfigInit ==
  /\ \/ /\ \E cmd \in Loading \cup NotLoading \cup {"LoadWithPrecedence"} :
           \E fl \in Layers({s \in FlagValues : s[1] \in FlagsOf(cmd)}, FlagSize) :
           \E d \in BOOLEAN :
             args = [cmd |-> cmd, flags |-> fl, debug |-> d]
        /\ cfg = MergeWithExplicitFlags(Defaults, args.flags)
        /\ sources = [k \in Keys |-> "default"]
        /\ env \in Layers(EnvRaws, EnvSize)
     \/ /\ \E fl \in Layers(DaemonFlagValues, FlagSize) :
             args = [cmd |-> "patienced", flags |-> fl, debug |-> FALSE]
        /\ cfg = DefaultConfig
        /\ sources = Nothing
        /\ env = Nothing
  /\ pc = "RunE"
  /\ path = Unset
  /\ file = Nothing

(* loadConfiguration of patienced, up to the check for a running daemon.   *)
LoadDaemonConfig ==
  /\ pc = "RunE" /\ args.cmd = "patienced"
  /\ path' \in {Unset, "--config"}
  /\ file' \in IF path' = Unset THEN {Nothing} ELSE Layers(DaemonRaws, FileSize)
  /\ IF \A k \in DOMAIN file' : JSONDecodable(k, file'[k])
     THEN /\ pc' = "serving"
          /\ cfg' = [k \in DaemonKeys |->
                       IF FlagApplies(k, path') THEN DaemonFlag(k)
                       ELSE IF k \in DOMAIN file' THEN file'[k].content
                       ELSE DefaultConfig[k]]
     ELSE pc' = "rejected" /\ cfg' = cfg
  /\ UNCHANGED <<args, env, sources>>

(* The names that FindConfigFile tries, in this order.                     *)
ConfigNames == <<".patience.toml", "patience.toml", ".patience.yaml",
                 "patience.yaml">>

FindConfigFile(present) ==
  LET found == {i \in DOMAIN ConfigNames : ConfigNames[i] \in present} IN
  IF found = {} THEN Unset
  ELSE ConfigNames[CHOOSE i \in found : \A j \in found : i <= j]

(* loadConfigWithPrecedence looks for a file, unless --config names one;   *)
(* a caller of LoadWithPrecedence passes a path or none.                   *)
LookForFile ==
  /\ pc = "RunE"
  /\ args.cmd \in Loading \cup {"LoadWithPrecedence"}
  /\ \/ path' = "--config"
     \/ /\ args.cmd \in Loading
        /\ \E present \in SUBSET ToSet(ConfigNames) :
             path' = FindConfigFile(present)
     \/ args.cmd \notin Loading /\ path' = Unset
  /\ pc' = "Read"
  /\ UNCHANGED <<args, file, env, cfg, sources>>

(* recordConfigFile: viper's IsSet is true of a key that has a default.    *)
RecordConfigFile(s) == [k \in Keys |-> "file"]

(* ReadInConfig, as TOML whatever the name: a YAML file that sets anything *)
(* does not parse, and a file may be missing or broken.                    *)
ReadConfigFile ==
  /\ pc = "Read"
  /\ \/ /\ path = Unset
        /\ pc' = "BindEnv"
        /\ UNCHANGED <<file, sources>>
     \/ /\ path # Unset
        /\ file' \in IF path \in {".patience.yaml", "patience.yaml"}
                     THEN {Nothing} ELSE Layers(FileRaws, FileSize)
        /\ sources' = IF args.debug THEN RecordConfigFile(sources) ELSE sources
        /\ pc' = "BindEnv"
     \/ /\ path # Unset
        /\ pc' = "unreadable"
        /\ UNCHANGED <<file, sources>>
  /\ UNCHANGED <<args, path, env, cfg>>

RecordEnvironment(s, e) ==
  [k \in Keys |-> IF k \in EnvSet(e) THEN "env" ELSE s[k]]

(* BindEnv and recordEnvironment.                                          *)
BindEnv ==
  /\ pc = "BindEnv"
  /\ sources' = IF args.debug THEN RecordEnvironment(sources, env) ELSE sources
  /\ pc' = "Unmarshal"
  /\ UNCHANGED <<args, path, file, env, cfg>>

UnmarshalConfig ==
  LET u == Unmarshal(file, env) IN
  /\ pc = "Unmarshal"
  /\ pc' = IF u.ok THEN "Merge" ELSE "rejected"
  /\ cfg' = IF u.ok THEN u.c ELSE cfg
  /\ UNCHANGED <<args, path, file, env, sources>>

RecordFlags(s, given) == [k \in Keys |-> IF k \in given THEN "flag" ELSE s[k]]

(* Mutated MergedFields: the fields that MergeWithFlags would record.      *)
MergedNonZero == NonZero(args.flags)

(* The fields that recordFlags or recordExplicitFlags marks.               *)
MergedFields ==
  IF args.cmd = "LoadWithPrecedence" THEN NonZero(args.flags)
  ELSE DOMAIN args.flags

(* Mutated MergeFlags: a flag of 0 counts as not given.                    *)
MergeFlagsNonZero ==
  /\ pc = "Merge"
  /\ cfg' = MergeWithFlags(cfg, args.flags)
  /\ sources' = IF args.debug THEN RecordFlags(sources, MergedFields) ELSE sources
  /\ pc' = "Validate"
  /\ UNCHANGED <<args, path, file, env>>

MergeFlags ==
  /\ pc = "Merge"
  /\ cfg' = IF args.cmd = "LoadWithPrecedence"
            THEN MergeWithFlags(cfg, args.flags)
            ELSE MergeWithExplicitFlags(cfg, args.flags)
  /\ sources' = IF args.debug THEN RecordFlags(sources, MergedFields) ELSE sources
  /\ pc' = "Validate"
  /\ UNCHANGED <<args, path, file, env>>

ValidateConfig ==
  /\ pc = "Validate"
  /\ pc' = CASE ~Validate(cfg) -> "rejected"
             [] Validate(cfg) /\ args.cmd \in Loading -> "ValidateCommon"
             [] Validate(cfg) /\ args.cmd \notin Loading -> "loaded"
  /\ UNCHANGED <<args, path, file, env, cfg, sources>>

(* The rest of RunE: the common settings are validated and the executor is *)
(* made from them (createExecutorFromConfig).                              *)
ValidateCommon ==
  /\ \/ pc = "ValidateCommon"
     \/ pc = "RunE" /\ args.cmd \in NotLoading
  /\ pc' = IF CommonValidate(cfg) THEN "running" ELSE "rejected"
  /\ UNCHANGED <<args, path, file, env, cfg, sources>>

ConfigNext ==
  \/ LoadDaemonConfig
  \/ LookForFile \/ ReadConfigFile \/ BindEnv \/ UnmarshalConfig
  \/ MergeFlags \/ ValidateConfig \/ ValidateCommon

ConfigSpec == ConfigInit /\ [][ConfigNext]_configVars

-----------------------------------------------------------------------------
(* Type invariant; whatever was decoded has the type of its field.         *)
ConfigTypeOK ==
  /\ pc \in {"RunE", "Read", "BindEnv", "Unmarshal", "Merge", "Validate",
             "ValidateCommon", "running", "loaded", "serving", "unreadable",
             "rejected"}
  /\ path \in {Unset, "--config"} \cup ToSet(ConfigNames)
  /\ IF args.cmd = "patienced"
     THEN DOMAIN cfg = DaemonKeys /\ sources = Nothing
     ELSE /\ DOMAIN cfg = Keys
          /\ \A k \in Keys : HasType(k, cfg[k])
          /\ sources \in [Keys -> {"default", "file", "env", "flag"}]

(* The value that a layer which sets a key supplies for it.                *)
Supplied(layer, k) ==
  CASE layer = "flag" -> args.flags[k]
    [] layer = "env" -> env[k].content
    [] layer = "file" -> file[k].content
    [] layer = "default" -> Defaults[k]

(* The flags that count as given: those on the command line, or the fields *)
(* that a caller of LoadWithPrecedence has not left at zero.               *)
Given == IF args.cmd \in Loading THEN DOMAIN args.flags ELSE NonZero(args.flags)

(* The highest layer that sets a key.                                      *)
Highest(k) == IF k \in Given THEN "flag"
              ELSE IF k \in EnvSet(env) THEN "env"
              ELSE IF k \in DOMAIN file THEN "file"
              ELSE "default"

(* The end of a load: of one of the three commands that load a             *)
(* configuration, or of a call of LoadWithPrecedence.                      *)
HasLoaded == pc \in {"running", "loaded"} /\ args.cmd \notin NotLoading

(* The settings that were loaded are those of the highest of flag,         *)
(* environment, file and default that sets them; for the three commands a  *)
(* flag of 0 or "" counts (MergeWithExplicitFlags), in LoadWithPrecedence  *)
(* it does not (MergeWithFlags).                                           *)
HighestLayerWins ==
  HasLoaded => \A k \in Keys : cfg[k] = Supplied(Highest(k), k)

(* --debug-config names the highest layer that sets a key, for every key   *)
(* that a flag, a variable or the file sets, and for all of them when      *)
(* there is no file.  A default beside a file is left out: see             *)
(* DebugNamesOrigin.                                                       *)
DebugNamesSupplier ==
  HasLoaded /\ args.debug =>
    \A k \in Keys : Highest(k) # "default" \/ path = Unset =>
                      sources[k] = Highest(k)

(* What README.md says of --debug-config: it shows for each value whether  *)
(* it came from a flag, the environment, the file or the defaults.  The    *)
(* code calls every default "config file" once there is a file             *)
(* (recordConfigFile asks IsSet, which is true of a key with a default).   *)
DebugNamesOrigin ==
  HasLoaded /\ args.debug => \A k \in Keys : sources[k] = Highest(k)

(* Whichever command and layers a setting came through, no run starts with *)
(* a number of attempts out of range, a negative timeout or a pattern that *)
(* does not compile.                                                       *)
RunsAreValid ==
  pc = "running" =>
    /\ cfg.attempts \in 1 .. 1000
    /\ cfg.timeout >= 0
    /\ cfg.success_pattern \notin BadPatterns
    /\ cfg.failure_pattern \notin BadPatterns

Effective == [k \in Keys |-> Supplied(Highest(k), k)]

(* A run is refused only for what would apply to it: a value that does not *)
(* decode and that no variable shadows, or the settings as they end up.  A *)
(* broken value in the file that the environment overrides stops nothing.  *)
OnlyWhatAppliesDecides ==
  pc \in {"running", "rejected"} /\ args.cmd \in Loading =>
    LET read == [k \in (DOMAIN file \cup EnvSet(env)) |->
                   IF k \in EnvSet(env) THEN env[k] ELSE file[k]]
    IN pc = "running" <=> /\ \A k \in DOMAIN read : Decodable(k, read[k])
                          /\ Validate(Effective)
                          /\ CommonValidate(Effective)

(* patienced: a flag that is not at its default is in effect, whatever the *)
(* file says, and a flag that was not given disturbs nothing in the file.  *)
DaemonFlagsOverFile ==
  pc = "serving" =>
    \A k \in DaemonKeys :
      /\ k \in DOMAIN args.flags /\ args.flags[k] # FlagDefault[k] =>
           cfg[k] = args.flags[k]
      /\ k \notin DOMAIN args.flags /\ k \in DOMAIN file => cfg[k] = file[k].content

(* For http-aware, exponential and diophantine, each setting comes from    *)
(* the highest layer that sets it, and the run is refused if and only if   *)
(* these settings are unusable; LoadWithPrecedence returns such settings;  *)
(* patienced puts the flags that are not at their default over its file.   *)
(* Of the seven commands that load nothing, it only says that a run has    *)
(* valid settings (EnvironmentApplies is false of them).                   *)
HighestLayerDecides ==
  /\ ConfigTypeOK
  /\ HighestLayerWins
  /\ OnlyWhatAppliesDecides
  /\ RunsAreValid
  /\ DaemonFlagsOverFile

(* What the documents say of every strategy: an option in the environment  *)
(* is in effect unless a flag overrides it.  Seven commands never look.    *)
EnvironmentApplies ==
  pc = "running" =>
    \A k \in EnvSet(env) \ DOMAIN args.flags : cfg[k] = env[k].content
=============================================================================
